--------------------------------- MODULE TsMux ---------------------------------
(***************************************************************************)
(* libtsuploader/tsmux.c: a frame written to the data queue of a TS file.  *)
(*                                                                         *)
(* The context holds the continuity counters of the PIDs, whether the      *)
(* tables and the clock were written since the last reset, and the         *)
(* position in the file.  Its output callback, writeTsPacketToMem, pushes  *)
(* a packet on the data queue, which streamPushData first allocates when   *)
(* there is none.  Operators take and return the record of one frame's     *)
(* writing: the context, the queue, and what is still to come from the     *)
(* pool of TS buffers.  Positions are counted in packets of 188 bytes.     *)
(***************************************************************************)
EXTENDS MpegTs

CONSTANTS
  MaxCounter,  \* the last value of a continuity counter: 0x0F
  FileCap,     \* packets a data queue can hold (TSQ_APPEND_FIX)
  KeyLens, DeltaLens, AudioLens  \* lengths of the frames pushed

ASSUME TsMuxAssumption ==
  /\ MaxCounter \in Nat \ {0} /\ FileCap \in Nat \ {0}
  /\ KeyLens \cup DeltaLens \cup AudioLens \subseteq Nat \ {0}

Pids == {"audio", "video", "PAT", "PMT"}
(* A data queue; pQueue_ = NULL when it is not made.                       *)
NoQueue == [made |-> FALSE, pkts |-> <<>>]
NewQueue == [made |-> TRUE, pkts |-> <<>>]

(* LinkNewTsMuxerContext and LinkResetTsMuxerContext.                      *)
NewTsMuxerContext ==
  [nCounter |-> [p \in Pids |-> 0], isTableWrited |-> FALSE,
   nPcrFlag |-> FALSE, nCurrentPos |-> 0]

getPidCounterNoWrap(w, pid) ==  \* faulty variant: one value is skipped at the wrap
  [w EXCEPT !.ctx.nCounter[pid] = IF @ = MaxCounter THEN 1 ELSE @ + 1]

(* getPidCounter: the next packet of the PID gets the counter as it was.   *)
getPidCounter(w, pid) ==
  [w EXCEPT !.ctx.nCounter[pid] = IF @ = MaxCounter THEN 0 ELSE @ + 1]

(* The packets each frame is cut into.                                     *)
CutFrames ==
  [pes \in {InitPES(es, aud, pcr) : es \in KeyLens \cup DeltaLens \cup AudioLens,
                                   aud \in {0, 6}, pcr \in BOOLEAN} |-> PESPackets(pes)]

(* One frame being written: noBuf allocations of a TS buffer fail before   *)
(* one succeeds.                                                           *)
Writing(ctx, q, noBuf) ==
  [ctx |-> ctx, q |-> q, noBuf |-> noBuf, ret |-> 1, ok |-> TRUE, len |-> 0]

(* writeTsPacketToMem over streamPushData: LINK_NO_MEMORY (-1) without a   *)
(* buffer, 0 when the buffer is full, and the packet written otherwise.    *)
Output(w, pkt) ==
  IF ~w.q.made /\ w.noBuf > 0 THEN [w EXCEPT !.noBuf = @ - 1, !.ret = -1]
  ELSE IF Len(w.q.pkts) = FileCap THEN [w EXCEPT !.ret = 0]
  ELSE [w EXCEPT !.q = [made |-> TRUE, pkts |-> Append(@.pkts, pkt)], !.ret = 1]

(* The i-th packet of a frame: frame and first are history, parts is what  *)
(* lies in its 188 bytes.  The contents of the tables are left out.        *)
Packet(w, pid, frame, pes, i) ==
  [pid |-> pid, cc |-> w.ctx.nCounter[pid], frame |-> frame, first |-> i = 1,
   parts |-> CutFrames[pes][i]]
NoFrame == [es |-> 0, key |-> FALSE, pts |-> 0, pcr |-> FALSE]

(* LinkWritePAT and LinkWritePMT: each table is one packet.                *)
TablePacket(w, pid) ==
  [pid |-> pid, cc |-> w.ctx.nCounter[pid], frame |-> NoFrame, first |-> TRUE, parts |-> <<>>]
oneTable(w, pid) == Output(getPidCounter(w, pid), TablePacket(w, pid))

(* writeTable: the PAT and the PMT once after a reset; whether they were   *)
(* really written is not looked at.                                        *)
writeTable(w) ==
  IF w.ctx.isTableWrited THEN w
  ELSE [oneTable(oneTable(w, "PAT"), "PMT") EXCEPT !.ctx.isTableWrited = TRUE,
                                                  !.ctx.nCurrentPos = 2]

makeTsPacketKeepPos(w, pid, pes, frame) ==  \* faulty variant: a lost packet still counts
  LET step(v, i) ==
        IF v.ret < 0 THEN v
        ELSE LET o == Output(getPidCounter(v, pid), Packet(v, pid, frame, pes, i))
             IN IF o.ret < 0 THEN o
                ELSE [o EXCEPT !.ctx.nCurrentPos = @ + 1, !.len = @ + 1]
      after[i \in 0 .. Len(CutFrames[pes])] ==
        IF i = 0 THEN [w EXCEPT !.ret = 1] ELSE step(after[i-1], i)
  IN after[Len(CutFrames[pes])]

onePacketGoesOn(v, pid, frame, pes, i, pos) ==  \* faulty variant: a missing buffer does not end it
  LET o == Output(getPidCounter(v, pid), Packet(v, pid, frame, pes, i))
  IN CASE o.ret < 0 -> o
       [] o.ret > 0 -> [o EXCEPT !.ctx.nCurrentPos = @ + 1, !.len = @ + 1]
       [] o.ret = 0 -> [o EXCEPT !.ok = FALSE, !.ctx.nCurrentPos = pos]

(* Packet i of a frame whose writing began at pos: the rest of a frame     *)
(* that found no buffer is not tried; a packet lost to a full buffer puts  *)
(* the position back to the frame's start and keeps the frame out of the   *)
(* index of key frames.                                                    *)
onePacket(v, pid, frame, pes, i, pos) ==
  LET o == Output(getPidCounter(v, pid), Packet(v, pid, frame, pes, i))
  IN CASE v.ret < 0 -> v
       [] v.ret >= 0 /\ o.ret < 0 -> o
       [] v.ret >= 0 /\ o.ret > 0 -> [o EXCEPT !.ctx.nCurrentPos = @ + 1, !.len = @ + 1]
       [] v.ret >= 0 /\ o.ret = 0 -> [o EXCEPT !.ok = FALSE, !.ctx.nCurrentPos = pos]

(* makeTsPacket: the record after each packet of the frame.                *)
AfterPackets(w, pid, pes, frame) ==
  LET after[i \in 0 .. Len(CutFrames[pes])] ==
        IF i = 0 THEN [w EXCEPT !.ret = 1]
        ELSE onePacket(after[i-1], pid, frame, pes, i, w.ctx.nCurrentPos)
  IN after
makeTsPacket(w, pid, pes, frame) == AfterPackets(w, pid, pes, frame)[Len(CutFrames[pes])]

(* LinkMuxerAudio: a frame without an access unit delimiter or a clock.    *)
LinkMuxerAudio(w, es, pts) ==
  makeTsPacket(writeTable(w), "audio", InitPES(es, 0, FALSE), [NoFrame EXCEPT !.es = es, !.pts = pts])

(* LinkMuxerVideo: the first video frame after a reset carries the clock.  *)
(* 6 is the length of the H.264 access unit delimiter.                     *)
LinkMuxerVideo(w, es, pts, key) ==
  LET t == writeTable(w)
      pcr == ~t.ctx.nPcrFlag
  IN makeTsPacket([t EXCEPT !.ctx.nPcrFlag = TRUE], "video", InitPES(es, 6, pcr),
                  [es |-> es, key |-> key, pts |-> pts, pcr |-> pcr])
=============================================================================
