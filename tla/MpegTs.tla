-------------------------------- MODULE MpegTs --------------------------------
(***************************************************************************)
(* libtsuploader/mpegts.c: a frame cut into transport stream packets.      *)
(*                                                                         *)
(* A packet is the sequence of its parts, each with its length, in the     *)
(* order in which they lie in the 188 bytes: the TS header, adaptation     *)
(* fields (clock or filling), the PES header and bytes of the frame.  What *)
(* the parts contain, bit by bit, is left out.                             *)
(***************************************************************************)
EXTENDS Integers, Sequences

TsLen == 188     \* a transport stream packet
Part(kind, len) == [part |-> kind, len |-> len]
(* The sum of a sequence of numbers, as a function that can be reasoned    *)
(* about.                                                                  *)
Total(s) ==
  LET upTo[i \in 0 .. Len(s)] == IF i = 0 THEN 0 ELSE upTo[i-1] + s[i]
  IN upTo[Len(s)]
LenOf(parts) == Total([i \in 1 .. Len(parts) |-> parts[i].len])
Least(a, b) == IF a < b THEN a ELSE b

(* LinkInitVideoPES, LinkInitVideoPESWithPcr, LinkInitAudioPES and         *)
(* LinkInitPrivateTypePES: es is the length of the frame, aud that of the  *)
(* access unit delimiter put before it (6 for H.264, 7 for H.265, none for *)
(* audio).                                                                 *)
InitPES(es, aud, withPcr) ==
  [es |-> es, pos |-> 0, hdr |-> 14 + aud, withPcr |-> withPcr]

LinkWriteTsHeader == Part("ts", 4)
WriteAdaptationFieldJustWithPCR == Part("adaptation", 8)
WritePESHeaderJustWithPts(pes) == Part("pes", pes.hdr)

(* LinkGetPESData, for a frame with bytes left: a frame too short for its  *)
(* packet is filled by an adaptation field before the PES header; the last *)
(* bytes of a longer one by an adaptation field before them.  With a clock *)
(* the PES header is always written first.                                 *)
LinkGetPESData(pes) ==
  LET start == pes.pos = 0
      remain == pes.es - pes.pos
      padFirst == start /\ ~pes.withPcr /\ 4 + pes.hdr + pes.es < TsLen
      held == IF padFirst THEN <<WritePESHeaderJustWithPts(pes)>> ELSE <<>>
      head == <<LinkWriteTsHeader>>
              \o (IF start /\ pes.withPcr THEN <<WriteAdaptationFieldJustWithPCR>> ELSE <<>>)
              \o (IF start /\ ~padFirst THEN <<WritePESHeaderJustWithPts(pes)>> ELSE <<>>)
      used == LenOf(head) + LenOf(held)
      n == Least(remain, TsLen - used - 2)
  IN IF remain + used >= TsLen
     THEN head \o <<Part("es", TsLen - LenOf(head))>>
     ELSE head \o <<Part("adaptation", TsLen - used - n)>> \o held \o <<Part("es", n)>>

(* The packets of a frame, in order: LinkGetPESData until it returns 0.    *)
(* Packet i starts where the ones before it left off; the bytes of the     *)
(* frame are its last part.                                                *)
EsLen(packet) == packet[Len(packet)].len
PacketFrom(pes, pos) == LinkGetPESData([pes EXCEPT !.pos = pos])
Offsets(pes) ==
  LET at[i \in 0 .. pes.es] ==
        IF i = 0 THEN 0 ELSE at[i-1] + EsLen(PacketFrom(pes, at[i-1]))
  IN at
PESPackets(pes) ==
  LET at == Offsets(pes)
      count == CHOOSE n \in 1 .. pes.es : at[n] >= pes.es /\ \A i \in 1 .. n - 1 : at[i] < pes.es
  IN [i \in 1 .. count |-> PacketFrom(pes, at[i-1])]

-----------------------------------------------------------------------------
(* What a decoder needs of a packet: 188 bytes, one adaptation field at    *)
(* most, right after the TS header, and the PES header before the data.    *)
Rank(kind) == CASE kind = "ts" -> 1 [] kind = "adaptation" -> 2
                [] kind = "pes" -> 3 [] kind = "es" -> 4
Decodable(packet) ==
  /\ LenOf(packet) = TsLen
  /\ \A i, j \in 1 .. Len(packet) : i < j => Rank(packet[i].part) < Rank(packet[j].part)

(* Of a frame: every packet can be decoded and the data adds up to it.     *)
FrameWhole(pes) ==
  /\ \A i \in DOMAIN PESPackets(pes) : Decodable(PESPackets(pes)[i])
  /\ Total([i \in DOMAIN PESPackets(pes) |-> EsLen(PESPackets(pes)[i])]) = pes.es
=============================================================================
