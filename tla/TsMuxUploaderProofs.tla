--------------------------- MODULE TsMuxUploaderProofs ---------------------------
(***************************************************************************)
(* Frames and files of the muxer, for every length of frame, size of file, *)
(* range of counters and sequence of calls.                                *)
(***************************************************************************)
EXTENDS TsMuxUploader, FiniteSetTheorems, SequenceTheorems, WellFoundedInduction, TLAPS

(* Induction, for a set given by what its elements satisfy.                *)
Below == {ss \in Nat \X Nat : ss[1] < ss[2]}

LEMMA Induction ==
  ASSUME NEW S \in SUBSET Nat, 0 \in S, \A k \in S : k + 1 \in S
  PROVE  S = Nat
  <1> SUFFICES ASSUME Nat \ S # {} PROVE FALSE
    OBVIOUS
  <1>1. IsWellFoundedOn(Below, Nat)
    BY NatLessThanWellFounded DEF OpToRel, Below
  <1>2. \E x \in Nat \ S : \A y \in Nat \ S : <<y, x>> \notin Below
    BY <1>1, WFMin
  <1>3. PICK x \in Nat \ S : \A y \in Nat \ S : ~(y < x)
    BY <1>2 DEF Below
  <1>4. x - 1 \in Nat /\ x - 1 \notin S
    <2>1. x # 0 /\ x \in Nat
      OBVIOUS
    <2>2. x - 1 \in Nat /\ (x - 1) + 1 = x
      BY <2>1
    <2>3. QED
      BY <2>2
  <1>5. x - 1 \in Nat \ S /\ x - 1 < x
    BY <1>4
  <1>6. QED
    BY <1>3, <1>5

-----------------------------------------------------------------------------
(* The recursive functions of MpegTs and TsMux are what their definitions  *)
(* say.                                                                    *)
UpTo(s, n, g) == g = [i \in 0 .. n |-> IF i = 0 THEN 0 ELSE g[i-1] + s[i]]

LEMMA UpToExists ==
  ASSUME NEW s, NEW n \in Nat
  PROVE  \E g : UpTo(s, n, g)
  <1> DEFINE S == {k \in Nat : \E g : UpTo(s, k, g)}
  <1>1. 0 \in S
    <2> DEFINE g == [i \in 0 .. 0 |-> 0]
    <2>1. UpTo(s, 0, g)
      BY DEF UpTo
    <2>2. QED
      BY <2>1
  <1>2. ASSUME NEW k \in S PROVE k + 1 \in S
    <2>1. PICK g : UpTo(s, k, g)
      OBVIOUS
    <2> DEFINE h == [i \in 0 .. k + 1 |-> IF i = 0 THEN 0 ELSE g[i-1] + s[i]]
    <2>2. /\ h = [i \in 0 .. k + 1 |-> IF i = 0 THEN 0 ELSE g[i-1] + s[i]]
          /\ g = [i \in 0 .. k |-> IF i = 0 THEN 0 ELSE g[i-1] + s[i]]
          /\ k \in Nat
      BY <2>1 DEF UpTo
    <2> HIDE DEF h
    <2>3. \A i \in 0 .. k : h[i] = g[i]
      BY <2>2
    <2>4. \A i \in 0 .. k + 1 : i # 0 => h[i-1] = g[i-1]
      BY <2>2, <2>3
    <2>6. h = [i \in 0 .. k + 1 |-> IF i = 0 THEN 0 ELSE h[i-1] + s[i]]
      BY <2>2, <2>4
    <2>7. UpTo(s, k + 1, h) /\ k + 1 \in Nat
      BY <2>2, <2>6 DEF UpTo
    <2>5. QED
      BY <2>7
  <1> HIDE DEF S
  <1>3. S = Nat
    BY <1>1, <1>2, Induction DEF S
  <1>4. QED
    BY <1>3 DEF S

LEMMA TotalSteps ==
  ASSUME NEW s, Len(s) \in Nat
  PROVE  \E u : /\ Total(s) = u[Len(s)] /\ u[0] = 0
                /\ \A i \in 1 .. Len(s) : u[i] = u[i-1] + s[i]
  <1> DEFINE n == Len(s)
             u == CHOOSE g : UpTo(s, n, g)
  <1>1. UpTo(s, n, u)
    BY UpToExists
  <1>2. Total(s) = u[n]
    BY DEF Total, UpTo
  <1> HIDE DEF u
  <1>3. u[0] = 0 /\ \A i \in 1 .. n : u[i] = u[i-1] + s[i]
    BY <1>1 DEF UpTo
  <1>4. QED
    BY <1>2, <1>3

OffsetsTo(pes, n, g) ==
  g = [i \in 0 .. n |-> IF i = 0 THEN 0 ELSE g[i-1] + EsLen(PacketFrom(pes, g[i-1]))]

LEMMA OffsetsExist ==
  ASSUME NEW pes, NEW n \in Nat
  PROVE  \E g : OffsetsTo(pes, n, g)
  <1> DEFINE S == {k \in Nat : \E g : OffsetsTo(pes, k, g)}
  <1>1. 0 \in S
    <2> DEFINE g == [i \in 0 .. 0 |-> 0]
    <2>1. OffsetsTo(pes, 0, g)
      BY DEF OffsetsTo
    <2>2. QED
      BY <2>1
  <1>2. ASSUME NEW k \in S PROVE k + 1 \in S
    <2>1. PICK g : OffsetsTo(pes, k, g)
      OBVIOUS
    <2> DEFINE h == [i \in 0 .. k + 1 |-> IF i = 0 THEN 0
                                          ELSE g[i-1] + EsLen(PacketFrom(pes, g[i-1]))]
    <2>2. /\ h = [i \in 0 .. k + 1 |-> IF i = 0 THEN 0
                                       ELSE g[i-1] + EsLen(PacketFrom(pes, g[i-1]))]
          /\ g = [i \in 0 .. k |-> IF i = 0 THEN 0
                                   ELSE g[i-1] + EsLen(PacketFrom(pes, g[i-1]))]
          /\ k \in Nat
      BY <2>1 DEF OffsetsTo
    <2> HIDE DEF h
    <2>3. \A i \in 0 .. k : h[i] = g[i]
      BY <2>2
    <2>4. \A i \in 0 .. k + 1 : i # 0 => h[i-1] = g[i-1]
      BY <2>2, <2>3
    <2>5. h = [i \in 0 .. k + 1 |-> IF i = 0 THEN 0
                                    ELSE h[i-1] + EsLen(PacketFrom(pes, h[i-1]))]
      BY <2>2, <2>4
    <2>6. OffsetsTo(pes, k + 1, h) /\ k + 1 \in Nat
      BY <2>2, <2>5 DEF OffsetsTo
    <2>7. QED
      BY <2>6
  <1> HIDE DEF S
  <1>3. S = Nat
    BY <1>1, <1>2, Induction DEF S
  <1>4. QED
    BY <1>3 DEF S

LEMMA OffsetSteps ==
  ASSUME NEW pes, pes.es \in Nat
  PROVE  /\ Offsets(pes)[0] = 0
         /\ \A i \in 1 .. pes.es :
              Offsets(pes)[i] = Offsets(pes)[i-1] + EsLen(PacketFrom(pes, Offsets(pes)[i-1]))
  <1> DEFINE n == pes.es
             u == CHOOSE g : OffsetsTo(pes, n, g)
  <1>1. OffsetsTo(pes, n, u)
    BY OffsetsExist
  <1>2. Offsets(pes) = u
    BY DEF Offsets, OffsetsTo
  <1> HIDE DEF u
  <1>3. u[0] = 0 /\ \A i \in 1 .. n : u[i] = u[i-1] + EsLen(PacketFrom(pes, u[i-1]))
    BY <1>1 DEF OffsetsTo
  <1>4. QED
    BY <1>2, <1>3

(* The packets a frame of pid is cut into.                                 *)
PesOf(pid, frame) == InitPES(frame.es, IF pid = "video" THEN 6 ELSE 0, frame.pcr)
CutOf(pid, frame) == CutFrames[PesOf(pid, frame)]
PacketOf(v, pid, frame, i) == Packet(v, pid, frame, PesOf(pid, frame), i)

Begun(w) == [w EXCEPT !.ret = 1]
StepOf(w, pid, frame, v, i) == onePacket(v, pid, frame, PesOf(pid, frame), i, w.ctx.nCurrentPos)
AfterTo(w, pid, frame, n, g) ==
  g = [i \in 0 .. n |-> IF i = 0 THEN Begun(w) ELSE StepOf(w, pid, frame, g[i-1], i)]

LEMMA AfterExists ==
  ASSUME NEW w, NEW pid, NEW frame, NEW n \in Nat
  PROVE  \E g : AfterTo(w, pid, frame, n, g)
  <1> DEFINE S == {k \in Nat : \E g : AfterTo(w, pid, frame, k, g)}
  <1>1. 0 \in S
    <2> DEFINE g == [i \in 0 .. 0 |-> Begun(w)]
    <2>1. AfterTo(w, pid, frame, 0, g)
      BY DEF AfterTo
    <2>2. QED
      BY <2>1
  <1>2. ASSUME NEW k \in S PROVE k + 1 \in S
    <2>1. PICK g : AfterTo(w, pid, frame, k, g)
      OBVIOUS
    <2> DEFINE h == [i \in 0 .. k + 1 |-> IF i = 0 THEN Begun(w) ELSE StepOf(w, pid, frame, g[i-1], i)]
    <2>2. /\ h = [i \in 0 .. k + 1 |-> IF i = 0 THEN Begun(w) ELSE StepOf(w, pid, frame, g[i-1], i)]
          /\ g = [i \in 0 .. k |-> IF i = 0 THEN Begun(w) ELSE StepOf(w, pid, frame, g[i-1], i)]
          /\ k \in Nat
      BY <2>1 DEF AfterTo
    <2> HIDE DEF h
    <2>3. \A i \in 0 .. k : h[i] = g[i]
      BY <2>2
    <2>4. \A i \in 0 .. k + 1 : i # 0 => h[i-1] = g[i-1]
      BY <2>2, <2>3
    <2>5. h = [i \in 0 .. k + 1 |-> IF i = 0 THEN Begun(w) ELSE StepOf(w, pid, frame, h[i-1], i)]
      BY <2>2, <2>4
    <2>6. AfterTo(w, pid, frame, k + 1, h) /\ k + 1 \in Nat
      BY <2>2, <2>5 DEF AfterTo
    <2>7. QED
      BY <2>6
  <1> HIDE DEF S
  <1>3. S = Nat
    BY <1>1, <1>2, Induction DEF S
  <1>4. QED
    BY <1>3 DEF S

LEMMA AfterSteps ==
  ASSUME NEW w, NEW pid, NEW frame, Len(CutOf(pid, frame)) \in Nat
  PROVE  LET u == AfterPackets(w, pid, PesOf(pid, frame), frame)
         IN /\ u[0] = Begun(w)
            /\ \A i \in 1 .. Len(CutOf(pid, frame)) : u[i] = StepOf(w, pid, frame, u[i-1], i)
  <1> DEFINE n == Len(CutOf(pid, frame))
             u == CHOOSE g : AfterTo(w, pid, frame, n, g)
  <1>1. AfterTo(w, pid, frame, n, u)
    BY AfterExists
  <1>2. AfterPackets(w, pid, PesOf(pid, frame), frame) = u
    BY DEF AfterPackets, AfterTo, Begun, StepOf, CutOf
  <1> HIDE DEF u, n
  <1>3. n \in Nat
    BY DEF n
  <1>4. u[0] = Begun(w) /\ \A i \in 1 .. n : u[i] = StepOf(w, pid, frame, u[i-1], i)
    BY <1>1, <1>3 DEF AfterTo
  <1>5. QED
    BY <1>2, <1>4 DEF n

(* TotalSteps with the length named.                                       *)
LEMMA TotalStepsTo ==
  ASSUME NEW s, NEW n \in Nat, Len(s) = n
  PROVE  \E u : /\ Total(s) = u[n] /\ u[0] = 0
                /\ \A i \in 1 .. n : u[i] = u[i-1] + s[i]
  <1>1. PICK u : /\ Total(s) = u[Len(s)] /\ u[0] = 0
                 /\ \A i \in 1 .. Len(s) : u[i] = u[i-1] + s[i]
    BY TotalSteps
  <1>2. QED
    BY <1>1

-----------------------------------------------------------------------------
(* Lengths of packets.                                                     *)
LEMMA LenOf1 ==
  ASSUME NEW a, a.len \in Nat
  PROVE  LenOf(<<a>>) = a.len
  <1> DEFINE s == [i \in 1 .. 1 |-> <<a>>[i].len]
  <1>1. Len(s) = 1 /\ s[1] = a.len
    OBVIOUS
  <1>2. LenOf(<<a>>) = Total(s)
    BY DEF LenOf
  <1> HIDE DEF s
  <1>3. PICK u : Total(s) = u[1] /\ u[0] = 0 /\ \A i \in 1 .. 1 : u[i] = u[i-1] + s[i]
    BY <1>1, TotalStepsTo
  <1>4. u[1] = u[0] + s[1]
    BY <1>3
  <1>5. QED
    BY <1>1, <1>2, <1>3, <1>4

LEMMA LenOf2 ==
  ASSUME NEW a, NEW b, a.len \in Nat, b.len \in Nat
  PROVE  LenOf(<<a, b>>) = a.len + b.len
  <1> DEFINE s == [i \in 1 .. 2 |-> <<a, b>>[i].len]
  <1>1. Len(s) = 2 /\ s[1] = a.len /\ s[2] = b.len
    <2>1. Len(s) = 2 /\ DOMAIN s = 1 .. 2
      OBVIOUS
    <2>2. s[1] = a.len
      OBVIOUS
    <2>3. s[2] = b.len
      OBVIOUS
    <2> HIDE DEF s
    <2>4. QED
      BY <2>1, <2>2, <2>3
  <1>2. LenOf(<<a, b>>) = Total(s)
    BY DEF LenOf
  <1> HIDE DEF s
  <1>3. PICK u : Total(s) = u[2] /\ u[0] = 0 /\ \A i \in 1 .. 2 : u[i] = u[i-1] + s[i]
    BY <1>1, TotalStepsTo
  <1>4. u[1] = s[1] /\ u[2] = u[1] + s[2]
    BY <1>1, <1>3
  <1>5. QED
    BY <1>1, <1>2, <1>3, <1>4

LEMMA LenOf3 ==
  ASSUME NEW a, NEW b, NEW c, a.len \in Nat, b.len \in Nat, c.len \in Nat
  PROVE  LenOf(<<a, b, c>>) = a.len + b.len + c.len
  <1> DEFINE s == [i \in 1 .. 3 |-> <<a, b, c>>[i].len]
  <1>1. Len(s) = 3 /\ s[1] = a.len /\ s[2] = b.len /\ s[3] = c.len
    <2>1. Len(s) = 3 /\ DOMAIN s = 1 .. 3
      OBVIOUS
    <2>2. s[1] = a.len
      OBVIOUS
    <2>3. s[2] = b.len
      OBVIOUS
    <2>4. s[3] = c.len
      OBVIOUS
    <2> HIDE DEF s
    <2>5. QED
      BY <2>1, <2>2, <2>3, <2>4
  <1>2. LenOf(<<a, b, c>>) = Total(s)
    BY DEF LenOf
  <1> HIDE DEF s
  <1>3. PICK u : Total(s) = u[3] /\ u[0] = 0 /\ \A i \in 1 .. 3 : u[i] = u[i-1] + s[i]
    BY <1>1, TotalStepsTo
  <1>4. u[1] = s[1] /\ u[2] = u[1] + s[2] /\ u[3] = u[2] + s[3]
    BY <1>1, <1>3
  <1>5. QED
    BY <1>1, <1>2, <1>3, <1>4

LEMMA LenOf4 ==
  ASSUME NEW a, NEW b, NEW c, NEW d, a.len \in Nat, b.len \in Nat, c.len \in Nat, d.len \in Nat
  PROVE  LenOf(<<a, b, c, d>>) = a.len + b.len + c.len + d.len
  <1> DEFINE s == [i \in 1 .. 4 |-> <<a, b, c, d>>[i].len]
  <1>1. Len(s) = 4 /\ s[1] = a.len /\ s[2] = b.len /\ s[3] = c.len /\ s[4] = d.len
    <2>1. Len(s) = 4 /\ DOMAIN s = 1 .. 4
      OBVIOUS
    <2>2. s[1] = a.len
      OBVIOUS
    <2>3. s[2] = b.len
      OBVIOUS
    <2>4. s[3] = c.len
      OBVIOUS
    <2>5. s[4] = d.len
      OBVIOUS
    <2> HIDE DEF s
    <2>6. QED
      BY <2>1, <2>2, <2>3, <2>4, <2>5
  <1>2. LenOf(<<a, b, c, d>>) = Total(s)
    BY DEF LenOf
  <1> HIDE DEF s
  <1>3. PICK u : Total(s) = u[4] /\ u[0] = 0 /\ \A i \in 1 .. 4 : u[i] = u[i-1] + s[i]
    BY <1>1, TotalStepsTo
  <1>4. u[1] = s[1] /\ u[2] = u[1] + s[2] /\ u[3] = u[2] + s[3] /\ u[4] = u[3] + s[4]
    BY <1>1, <1>3
  <1>5. QED
    BY <1>1, <1>2, <1>3, <1>4

LEMMA LenOfNone == LenOf(<<>>) = 0
  <1> DEFINE s == [i \in 1 .. Len(<<>>) |-> <<>>[i].len]
  <1>1. Len(s) = 0 /\ LenOf(<<>>) = Total(s)
    BY DEF LenOf
  <1> HIDE DEF s
  <1>2. QED
    BY <1>1, TotalSteps

(* Sequences of parts put together.                                        *)
LEMMA Join10 ==
  ASSUME NEW a
  PROVE  <<a>> \o <<>> = <<a>>
  <1> DEFINE T == {a}
  <1>0. a \in T
    OBVIOUS
  <1> HIDE DEF T
  <1>1. <<a>> \in Seq(T)
    BY <1>0
  <1>2. QED
    BY <1>1, ConcatEmptySeq

LEMMA Join11 ==
  ASSUME NEW a, NEW b
  PROVE  <<a>> \o <<b>> = <<a, b>>
  <1> DEFINE T == {a, b}
  <1>0. a \in T /\ b \in T
    OBVIOUS
  <1> HIDE DEF T
  <1> DEFINE s == <<a>> \o <<b>>
  <1>1. s \in Seq(T) /\ Len(s) = 2
    BY <1>0
  <1>2. s[1] = a
    BY <1>0
  <1>3. s[2] = b
    BY <1>0
  <1> HIDE DEF s
  <1>4. s = <<a, b>>
    BY <1>1, <1>2, <1>3
  <1>5. QED
    BY <1>4 DEF s

LEMMA Join20 ==
  ASSUME NEW a, NEW b
  PROVE  <<a, b>> \o <<>> = <<a, b>>
  <1> DEFINE T == {a, b}
  <1>0. a \in T /\ b \in T
    OBVIOUS
  <1> HIDE DEF T
  <1>1. <<a, b>> \in Seq(T)
    BY <1>0
  <1>2. QED
    BY <1>1, ConcatEmptySeq

LEMMA Join21 ==
  ASSUME NEW a, NEW b, NEW c
  PROVE  <<a, b>> \o <<c>> = <<a, b, c>>
  <1> DEFINE T == {a, b, c}
  <1>0. a \in T /\ b \in T /\ c \in T
    OBVIOUS
  <1> HIDE DEF T
  <1> DEFINE s == <<a, b>> \o <<c>>
  <1>1. s \in Seq(T) /\ Len(s) = 3
    BY <1>0
  <1>2. s[1] = a /\ s[2] = b
    BY <1>0
  <1>3. s[3] = c
    BY <1>0
  <1> HIDE DEF s
  <1>4. s = <<a, b, c>>
    BY <1>1, <1>2, <1>3
  <1>5. QED
    BY <1>4 DEF s

LEMMA Join30 ==
  ASSUME NEW a, NEW b, NEW c
  PROVE  <<a, b, c>> \o <<>> = <<a, b, c>>
  <1> DEFINE T == {a, b, c}
  <1>0. a \in T /\ b \in T /\ c \in T
    OBVIOUS
  <1> HIDE DEF T
  <1>1. <<a, b, c>> \in Seq(T)
    BY <1>0
  <1>2. QED
    BY <1>1, ConcatEmptySeq

LEMMA Join31 ==
  ASSUME NEW a, NEW b, NEW c, NEW d
  PROVE  <<a, b, c>> \o <<d>> = <<a, b, c, d>>
  <1> DEFINE T == {a, b, c, d}
  <1>0. a \in T /\ b \in T /\ c \in T /\ d \in T
    OBVIOUS
  <1> HIDE DEF T
  <1> DEFINE s == <<a, b, c>> \o <<d>>
  <1>1. s \in Seq(T) /\ Len(s) = 4
    BY <1>0
  <1>2. s[1] = a /\ s[2] = b /\ s[3] = c
    BY <1>0
  <1>3. s[4] = d
    BY <1>0
  <1> HIDE DEF s
  <1>4. s = <<a, b, c, d>>
    BY <1>1, <1>2, <1>3
  <1>5. QED
    BY <1>4 DEF s

LEMMA Join40 ==
  ASSUME NEW a, NEW b, NEW c, NEW d
  PROVE  <<a, b, c, d>> \o <<>> = <<a, b, c, d>>
  <1> DEFINE T == {a, b, c, d}
  <1>0. a \in T /\ b \in T /\ c \in T /\ d \in T
    OBVIOUS
  <1> HIDE DEF T
  <1>1. <<a, b, c, d>> \in Seq(T)
    BY <1>0
  <1>2. QED
    BY <1>1, ConcatEmptySeq

LEMMA Join41 ==
  ASSUME NEW a, NEW b, NEW c, NEW d, NEW e
  PROVE  <<a, b, c, d>> \o <<e>> = <<a, b, c, d, e>>
  <1> DEFINE T == {a, b, c, d, e}
  <1>0. a \in T /\ b \in T /\ c \in T /\ d \in T /\ e \in T
    OBVIOUS
  <1> HIDE DEF T
  <1> DEFINE s == <<a, b, c, d>> \o <<e>>
  <1>1. s \in Seq(T) /\ Len(s) = 5
    BY <1>0
  <1>2. s[1] = a /\ s[2] = b /\ s[3] = c /\ s[4] = d
    BY <1>0
  <1>3. s[5] = e
    BY <1>0
  <1> HIDE DEF s
  <1>4. s = <<a, b, c, d, e>>
    BY <1>1, <1>2, <1>3
  <1>5. QED
    BY <1>4 DEF s

-----------------------------------------------------------------------------
(* Packets that can be decoded.                                            *)
LEMMA Ranks == /\ Rank("ts") = 1 /\ Rank("adaptation") = 2 /\ Rank("pes") = 3 /\ Rank("es") = 4
  BY DEF Rank

LEMMA Decodable2 ==
  ASSUME NEW a, NEW b, a.len \in Nat, b.len \in Nat, a.len + b.len = TsLen,
         NEW ra \in Nat, NEW rb \in Nat, Rank(a.part) = ra, Rank(b.part) = rb, ra < rb
  PROVE  Decodable(<<a, b>>) /\ EsLen(<<a, b>>) = b.len
  <1>1. LenOf(<<a, b>>) = TsLen
    BY LenOf2
  <1>2. ASSUME NEW i \in 1 .. 2, NEW j \in 1 .. 2, i < j
        PROVE  Rank(<<a, b>>[i].part) < Rank(<<a, b>>[j].part)
    <2>1. i = 1 /\ j = 2
      BY <1>2
    <2>2. <<a, b>>[1] = a /\ <<a, b>>[2] = b
      OBVIOUS
    <2>3. QED
      BY <2>1, <2>2
  <1>3. Len(<<a, b>>) = 2 /\ <<a, b>>[2] = b
    OBVIOUS
  <1>4. QED
    BY <1>1, <1>2, <1>3 DEF Decodable, EsLen

LEMMA Decodable3 ==
  ASSUME NEW a, NEW b, NEW c, a.len \in Nat, b.len \in Nat, c.len \in Nat,
         a.len + b.len + c.len = TsLen,
         NEW ra \in Nat, NEW rb \in Nat, NEW rc \in Nat,
         Rank(a.part) = ra, Rank(b.part) = rb, Rank(c.part) = rc, ra < rb, rb < rc
  PROVE  Decodable(<<a, b, c>>) /\ EsLen(<<a, b, c>>) = c.len
  <1>1. LenOf(<<a, b, c>>) = TsLen
    BY LenOf3
  <1>2. ASSUME NEW i \in 1 .. 3, NEW j \in 1 .. 3, i < j
        PROVE  Rank(<<a, b, c>>[i].part) < Rank(<<a, b, c>>[j].part)
    <2>1. (i = 1 /\ j = 2) \/ (i = 1 /\ j = 3) \/ (i = 2 /\ j = 3)
      BY <1>2
    <2>2. <<a, b, c>>[1] = a /\ <<a, b, c>>[2] = b /\ <<a, b, c>>[3] = c
      OBVIOUS
    <2>3. QED
      BY <2>1, <2>2
  <1>3. Len(<<a, b, c>>) = 3 /\ <<a, b, c>>[3] = c
    OBVIOUS
  <1>4. QED
    BY <1>1, <1>2, <1>3 DEF Decodable, EsLen

LEMMA Decodable4 ==
  ASSUME NEW a, NEW b, NEW c, NEW d, a.len \in Nat, b.len \in Nat, c.len \in Nat, d.len \in Nat,
         a.len + b.len + c.len + d.len = TsLen,
         NEW ra \in Nat, NEW rb \in Nat, NEW rc \in Nat, NEW rd \in Nat,
         Rank(a.part) = ra, Rank(b.part) = rb, Rank(c.part) = rc, Rank(d.part) = rd,
         ra < rb, rb < rc, rc < rd
  PROVE  Decodable(<<a, b, c, d>>) /\ EsLen(<<a, b, c, d>>) = d.len
  <1>1. LenOf(<<a, b, c, d>>) = TsLen
    BY LenOf4
  <1>2. ASSUME NEW i \in 1 .. 4, NEW j \in 1 .. 4, i < j
        PROVE  Rank(<<a, b, c, d>>[i].part) < Rank(<<a, b, c, d>>[j].part)
    <2>1. /\ i \in {1, 2, 3} /\ j \in {2, 3, 4}
          /\ j = 2 => i = 1
          /\ j = 3 => i \in {1, 2}
      BY <1>2
    <2>2. <<a, b, c, d>>[1] = a /\ <<a, b, c, d>>[2] = b /\ <<a, b, c, d>>[3] = c /\ <<a, b, c, d>>[4] = d
      OBVIOUS
    <2>3. QED
      BY <2>1, <2>2
  <1>3. Len(<<a, b, c, d>>) = 4 /\ <<a, b, c, d>>[4] = d
    OBVIOUS
  <1>4. QED
    BY <1>1, <1>2, <1>3 DEF Decodable, EsLen

-----------------------------------------------------------------------------
(* LinkGetPESData, branch by branch.                                       *)
PadFirst(pes) == pes.pos = 0 /\ ~pes.withPcr /\ 4 + pes.hdr + pes.es < TsLen
Held(pes) == IF PadFirst(pes) THEN <<WritePESHeaderJustWithPts(pes)>> ELSE <<>>
Head0(pes) == <<LinkWriteTsHeader>>
              \o (IF pes.pos = 0 /\ pes.withPcr THEN <<WriteAdaptationFieldJustWithPCR>> ELSE <<>>)
              \o (IF pes.pos = 0 /\ ~PadFirst(pes) THEN <<WritePESHeaderJustWithPts(pes)>> ELSE <<>>)
Filled(pes, used) == Least(pes.es - pes.pos, TsLen - used - 2)
Data(pes, used, head, held) ==
  IF pes.es - pes.pos + used >= TsLen THEN head \o <<Part("es", TsLen - LenOf(head))>>
  ELSE head \o <<Part("adaptation", TsLen - used - Filled(pes, used))>>
            \o held \o <<Part("es", Filled(pes, used))>>

LEMMA DataIs ==
  ASSUME NEW pes
  PROVE  LinkGetPESData(pes) = Data(pes, LenOf(Head0(pes)) + LenOf(Held(pes)), Head0(pes), Held(pes))
  BY DEF LinkGetPESData, Data, Head0, Held, PadFirst, Filled

(* A frame of which pos bytes are written, and what of its next packet a   *)
(* proof needs.                                                            *)
Sized(pes) == /\ pes.es \in Nat \ {0} /\ pes.pos \in Nat /\ pes.pos < pes.es
              /\ pes.hdr \in 14 .. 21 /\ pes.withPcr \in BOOLEAN
Fits(pes) == pes.withPcr => pes.es + pes.hdr + 12 >= TsLen
Sound(pes, p) == /\ EsLen(p) \in Nat \ {0} /\ EsLen(p) <= pes.es - pes.pos
                 /\ Fits(pes) => Decodable(p)

TsPart == Part("ts", 4)
ClockPart == Part("adaptation", 8)
LEMMA PartIs == ASSUME NEW k, NEW l PROVE Part(k, l).part = k /\ Part(k, l).len = l
  BY DEF Part

LEMMA SoundClock ==
  ASSUME NEW pes, Sized(pes), pes.pos = 0, pes.withPcr
  PROVE  Sound(pes, LinkGetPESData(pes))
  <1> DEFINE h == pes.hdr
             e == pes.es
  <1>1. h \in 14 .. 21 /\ e \in Nat /\ e >= 1 /\ pes.pos = 0
    BY DEF Sized
  <1>2. Head0(pes) = <<TsPart, ClockPart, Part("pes", h)>> /\ Held(pes) = <<>>
    <2>1. ~PadFirst(pes)
      BY DEF PadFirst
    <2>2. Head0(pes) = <<TsPart>> \o <<ClockPart>> \o <<Part("pes", h)>> /\ Held(pes) = <<>>
      BY <2>1 DEF Head0, Held, LinkWriteTsHeader,
         WriteAdaptationFieldJustWithPCR, WritePESHeaderJustWithPts, TsPart, ClockPart
    <2>3. <<TsPart>> \o <<ClockPart>> = <<TsPart, ClockPart>>
      BY Join11
    <2>4. <<TsPart, ClockPart>> \o <<Part("pes", h)>> = <<TsPart, ClockPart, Part("pes", h)>>
      BY Join21
    <2>5. QED
      BY <2>2, <2>3, <2>4
  <1>3. LenOf(Head0(pes)) = 12 + h /\ LenOf(Held(pes)) = 0
    <2>1. LenOf(<<TsPart, ClockPart, Part("pes", h)>>) = 4 + 8 + h
      BY <1>1, LenOf3, PartIs DEF TsPart, ClockPart
    <2>2. QED
      BY <2>1, <1>1, <1>2, LenOfNone
  <1>4. LinkGetPESData(pes) = Data(pes, 12 + h, Head0(pes), Held(pes))
    <2>1. LenOf(Head0(pes)) + LenOf(Held(pes)) = 12 + h
      BY <1>1, <1>3
    <2>2. QED
      BY <2>1, DataIs
  <1>5. CASE e + 12 + h >= TsLen
    <2> DEFINE n == TsLen - (12 + h)
    <2>1. n \in Nat /\ n >= 1 /\ n <= e /\ 4 + 8 + h + n = TsLen
      BY <1>1, <1>5 DEF TsLen
    <2>2. LinkGetPESData(pes) = <<TsPart, ClockPart, Part("pes", h), Part("es", n)>>
      <3>1. pes.es - pes.pos + (12 + h) >= TsLen
        BY <1>1, <1>5 DEF TsLen
      <3>2. Data(pes, 12 + h, Head0(pes), Held(pes)) = Head0(pes) \o <<Part("es", TsLen - LenOf(Head0(pes)))>>
        BY <3>1 DEF Data
      <3>3. QED
        BY <3>2, <1>2, <1>3, <1>4, Join31
    <2>3. /\ Decodable(<<TsPart, ClockPart, Part("pes", h), Part("es", n)>>)
          /\ EsLen(<<TsPart, ClockPart, Part("pes", h), Part("es", n)>>) = n
      BY <1>1, <2>1, Decodable4, PartIs, Ranks DEF TsPart, ClockPart
    <2>4. QED
      BY <1>1, <2>1, <2>2, <2>3 DEF Sound
  <1>6. CASE ~(e + 12 + h >= TsLen)
    <2> DEFINE n == Filled(pes, 12 + h)
               x == Part("adaptation", TsLen - (12 + h) - n)
               p == <<TsPart, ClockPart, Part("pes", h), x, Part("es", n)>>
    <2>1. n \in Nat /\ n >= 1 /\ n <= e
      BY <1>1, <1>6 DEF TsLen, Filled, Least
    <2>2. ~Fits(pes)
      BY <1>1, <1>6 DEF Fits, TsLen
    <2>3. ~(pes.es - pes.pos + (12 + h) >= TsLen)
      BY <1>1, <1>6 DEF TsLen
    <2>4. Data(pes, 12 + h, Head0(pes), Held(pes)) = Head0(pes) \o <<x>> \o Held(pes) \o <<Part("es", n)>>
      BY <2>3 DEF Data
    <2> HIDE DEF n, x
    <2>5. LinkGetPESData(pes) = p
      <3>1. <<TsPart, ClockPart, Part("pes", h)>> \o <<x>> = <<TsPart, ClockPart, Part("pes", h), x>>
        BY Join31
      <3>2. <<TsPart, ClockPart, Part("pes", h), x>> \o <<>> = <<TsPart, ClockPart, Part("pes", h), x>>
        BY Join40
      <3>3. <<TsPart, ClockPart, Part("pes", h), x>> \o <<Part("es", n)>> = p
        BY Join41
      <3>4. QED
        BY <1>2, <1>4, <2>4, <3>1, <3>2, <3>3
    <2>6. EsLen(p) = n
      <3>1. Len(p) = 5 /\ p[5] = Part("es", n)
        OBVIOUS
      <3>2. QED
        BY <3>1, PartIs DEF EsLen
    <2>7. QED
      BY <1>1, <2>1, <2>2, <2>5, <2>6 DEF Sound
  <1>7. QED
    BY <1>5, <1>6

LEMMA SoundPadded ==
  ASSUME NEW pes, Sized(pes), pes.pos = 0, PadFirst(pes)
  PROVE  Sound(pes, LinkGetPESData(pes))
  <1> DEFINE h == pes.hdr
             e == pes.es
             n == Filled(pes, 4 + h)
             x == Part("adaptation", TsLen - (4 + h) - n)
             p == <<TsPart, x, Part("pes", h), Part("es", n)>>
  <1>1. h \in 14 .. 21 /\ e \in Nat /\ e >= 1 /\ pes.pos = 0 /\ ~pes.withPcr /\ 4 + h + e < TsLen
    BY DEF Sized, PadFirst
  <1>2. Head0(pes) = <<TsPart>> /\ Held(pes) = <<Part("pes", h)>>
    <2>1. Head0(pes) = <<TsPart>> \o <<>> \o <<>> /\ Held(pes) = <<Part("pes", h)>>
      BY <1>1 DEF Head0, Held, LinkWriteTsHeader, WritePESHeaderJustWithPts, TsPart
    <2>2. <<TsPart>> \o <<>> = <<TsPart>>
      BY Join10
    <2>3. QED
      BY <2>1, <2>2
  <1>3. LenOf(Head0(pes)) = 4 /\ LenOf(Held(pes)) = h
    <2>1. LenOf(<<TsPart>>) = 4
      BY LenOf1, PartIs DEF TsPart
    <2>2. LenOf(<<Part("pes", h)>>) = h
      BY <1>1, LenOf1, PartIs
    <2>3. QED
      BY <2>1, <2>2, <1>2
  <1>4. LinkGetPESData(pes) = Data(pes, 4 + h, Head0(pes), Held(pes))
    BY <1>3, DataIs
  <1>5. /\ n \in Nat /\ n >= 1 /\ n <= e /\ TsLen - (4 + h) - n \in Nat
        /\ 4 + (TsLen - (4 + h) - n) + h + n = TsLen
    BY <1>1 DEF TsLen, Filled, Least
  <1>6. ~(pes.es - pes.pos + (4 + h) >= TsLen)
    BY <1>1 DEF TsLen
  <1>7. Data(pes, 4 + h, Head0(pes), Held(pes)) = Head0(pes) \o <<x>> \o Held(pes) \o <<Part("es", n)>>
    BY <1>6 DEF Data
  <1> HIDE DEF n
  <1>8. LinkGetPESData(pes) = p
    <2> HIDE DEF x
    <2>1. <<TsPart>> \o <<x>> = <<TsPart, x>>
      BY Join11
    <2>2. <<TsPart, x>> \o <<Part("pes", h)>> = <<TsPart, x, Part("pes", h)>>
      BY Join21
    <2>3. <<TsPart, x, Part("pes", h)>> \o <<Part("es", n)>> = p
      BY Join31
    <2>4. QED
      BY <1>2, <1>4, <1>7, <2>1, <2>2, <2>3
  <1>9. Decodable(p) /\ EsLen(p) = n
    BY <1>1, <1>5, Decodable4, PartIs, Ranks DEF TsPart
  <1>10. QED
    BY <1>1, <1>5, <1>8, <1>9 DEF Sound

LEMMA SoundPlain ==
  ASSUME NEW pes, Sized(pes), pes.pos = 0, ~pes.withPcr, ~PadFirst(pes)
  PROVE  Sound(pes, LinkGetPESData(pes))
  <1> DEFINE h == pes.hdr
             e == pes.es
             n == TsLen - (4 + h)
             p == <<TsPart, Part("pes", h), Part("es", n)>>
  <1>1. h \in 14 .. 21 /\ e \in Nat /\ pes.pos = 0 /\ 4 + h + e >= TsLen
    BY DEF Sized, PadFirst, TsLen
  <1>2. Head0(pes) = <<TsPart, Part("pes", h)>> /\ Held(pes) = <<>>
    <2>1. Head0(pes) = <<TsPart>> \o <<>> \o <<Part("pes", h)>> /\ Held(pes) = <<>>
      BY <1>1 DEF Head0, Held, LinkWriteTsHeader, WritePESHeaderJustWithPts, TsPart
    <2>2. <<TsPart>> \o <<>> = <<TsPart>>
      BY Join10
    <2>3. <<TsPart>> \o <<Part("pes", h)>> = <<TsPart, Part("pes", h)>>
      BY Join11
    <2>4. QED
      BY <2>1, <2>2, <2>3
  <1>3. LenOf(Head0(pes)) = 4 + h /\ LenOf(Held(pes)) = 0
    <2>1. LenOf(<<TsPart, Part("pes", h)>>) = 4 + h
      BY <1>1, LenOf2, PartIs DEF TsPart
    <2>2. QED
      BY <2>1, <1>2, LenOfNone
  <1>4. LinkGetPESData(pes) = Data(pes, 4 + h, Head0(pes), Held(pes))
    <2>1. LenOf(Head0(pes)) + LenOf(Held(pes)) = 4 + h
      BY <1>1, <1>3
    <2>2. QED
      BY <2>1, DataIs
  <1>5. n \in Nat /\ n >= 1 /\ n <= e /\ 4 + h + n = TsLen
    BY <1>1 DEF TsLen
  <1>6. pes.es - pes.pos + (4 + h) >= TsLen
    BY <1>1 DEF TsLen
  <1>7. Data(pes, 4 + h, Head0(pes), Held(pes)) = Head0(pes) \o <<Part("es", TsLen - LenOf(Head0(pes)))>>
    BY <1>6 DEF Data
  <1>8. LinkGetPESData(pes) = p
    BY <1>2, <1>3, <1>4, <1>7, Join21
  <1>9. Decodable(p) /\ EsLen(p) = n
    BY <1>1, <1>5, Decodable3, PartIs, Ranks DEF TsPart
  <1>10. QED
    BY <1>1, <1>5, <1>8, <1>9 DEF Sound

LEMMA SoundLater ==
  ASSUME NEW pes, Sized(pes), pes.pos # 0
  PROVE  Sound(pes, LinkGetPESData(pes))
  <1> DEFINE r == pes.es - pes.pos
  <1>1. r \in Nat /\ r >= 1
    BY DEF Sized
  <1>2. Head0(pes) = <<TsPart>> /\ Held(pes) = <<>>
    <2>1. Head0(pes) = <<TsPart>> \o <<>> \o <<>> /\ Held(pes) = <<>>
      BY DEF Head0, Held, PadFirst, LinkWriteTsHeader, TsPart
    <2>2. <<TsPart>> \o <<>> = <<TsPart>>
      BY Join10
    <2>3. QED
      BY <2>1, <2>2
  <1>3. LenOf(Head0(pes)) = 4 /\ LenOf(Held(pes)) = 0
    <2>1. LenOf(<<TsPart>>) = 4
      BY LenOf1, PartIs DEF TsPart
    <2>2. QED
      BY <2>1, <1>2, LenOfNone
  <1>4. LinkGetPESData(pes) = Data(pes, 4, Head0(pes), Held(pes))
    <2>1. LenOf(Head0(pes)) + LenOf(Held(pes)) = 4
      BY <1>3
    <2>2. QED
      BY <2>1, DataIs
  <1>5. CASE r + 4 >= TsLen
    <2> DEFINE p == <<TsPart, Part("es", 184)>>
    <2>1. Data(pes, 4, Head0(pes), Held(pes)) = Head0(pes) \o <<Part("es", TsLen - LenOf(Head0(pes)))>>
      BY <1>5 DEF Data
    <2>2. LinkGetPESData(pes) = p
      <3>1. TsLen - LenOf(Head0(pes)) = 184
        BY <1>3 DEF TsLen
      <3>2. QED
        BY <3>1, <1>2, <1>4, <2>1, Join11
    <2>3. Decodable(p) /\ EsLen(p) = 184
      <3>1. 4 + 184 = TsLen
        BY DEF TsLen
      <3>2. QED
        BY <3>1, Decodable2, PartIs, Ranks DEF TsPart
    <2>4. 184 <= r
      BY <1>1, <1>5 DEF TsLen
    <2>5. QED
      BY <2>2, <2>3, <2>4 DEF Sound
  <1>6. CASE ~(r + 4 >= TsLen)
    <2> DEFINE n == Filled(pes, 4)
               x == Part("adaptation", TsLen - 4 - n)
               p == <<TsPart, x, Part("es", n)>>
    <2>1. /\ n \in Nat /\ n >= 1 /\ n <= r /\ TsLen - 4 - n \in Nat
          /\ 4 + (TsLen - 4 - n) + n = TsLen
      BY <1>1, <1>6 DEF TsLen, Filled, Least
    <2>2. Data(pes, 4, Head0(pes), Held(pes)) = Head0(pes) \o <<x>> \o Held(pes) \o <<Part("es", n)>>
      BY <1>6 DEF Data
    <2> HIDE DEF n
    <2>3. LinkGetPESData(pes) = p
      <3> HIDE DEF x
      <3>1. <<TsPart>> \o <<x>> = <<TsPart, x>>
        BY Join11
      <3>2. <<TsPart, x>> \o <<>> = <<TsPart, x>>
        BY Join20
      <3>3. <<TsPart, x>> \o <<Part("es", n)>> = p
        BY Join21
      <3>4. QED
        BY <1>2, <1>4, <2>2, <3>1, <3>2, <3>3
    <2>4. Decodable(p) /\ EsLen(p) = n
      BY <2>1, Decodable3, PartIs, Ranks DEF TsPart
    <2>5. QED
      BY <2>1, <2>3, <2>4 DEF Sound
  <1>7. QED
    BY <1>5, <1>6

LEMMA PacketSound ==
  ASSUME NEW pes, Sized(pes)
  PROVE  Sound(pes, LinkGetPESData(pes))
  <1>1. pes.withPcr \in BOOLEAN
    BY DEF Sized
  <1>2. CASE pes.pos # 0
    BY <1>2, SoundLater
  <1>3. CASE pes.pos = 0 /\ pes.withPcr
    BY <1>3, SoundClock
  <1>4. CASE pes.pos = 0 /\ ~pes.withPcr /\ PadFirst(pes)
    BY <1>4, SoundPadded
  <1>5. CASE pes.pos = 0 /\ ~pes.withPcr /\ ~PadFirst(pes)
    BY <1>5, SoundPlain
  <1>6. QED
    BY <1>1, <1>2, <1>3, <1>4, <1>5

-----------------------------------------------------------------------------
(* The packets of a frame.                                                 *)
LEMMA Minimum ==
  ASSUME NEW S \in SUBSET Nat, S # {}
  PROVE  \E n \in S : \A k \in S : n <= k
  <1>1. IsWellFoundedOn(Below, Nat)
    BY NatLessThanWellFounded DEF OpToRel, Below
  <1>2. \E x \in S : \A y \in S : <<y, x>> \notin Below
    BY <1>1, WFMin
  <1>3. PICK x \in S : \A y \in S : ~(y < x)
    BY <1>2 DEF Below
  <1>4. QED
    BY <1>3

Fresh(pes) == /\ pes \in [es : Nat, pos : {0}, hdr : 14 .. 21, withPcr : BOOLEAN]
              /\ pes.es # 0

LEMMA Moved ==
  ASSUME NEW pes, Fresh(pes), NEW pos \in Nat, pos < pes.es
  PROVE  /\ EsLen(PacketFrom(pes, pos)) \in Nat \ {0}
         /\ pos + EsLen(PacketFrom(pes, pos)) <= pes.es
         /\ Fits(pes) => Decodable(PacketFrom(pes, pos))
  <1> DEFINE t == [pes EXCEPT !.pos = pos]
  <1>1. t.es = pes.es /\ t.pos = pos /\ t.hdr = pes.hdr /\ t.withPcr = pes.withPcr
    BY DEF Fresh
  <1>2. PacketFrom(pes, pos) = LinkGetPESData(t)
    BY DEF PacketFrom
  <1> HIDE DEF t
  <1>3. Sized(t)
    BY <1>1 DEF Fresh, Sized
  <1>4. Sound(t, LinkGetPESData(t))
    BY <1>3, PacketSound
  <1>5. Fits(pes) => Fits(t)
    BY <1>1 DEF Fits
  <1>6. pes.es \in Nat
    BY DEF Fresh
  <1>7. QED
    BY <1>1, <1>2, <1>4, <1>5, <1>6 DEF Sound

(* Up to the first offset past the frame, each is further than the last.   *)
LEMMA OffsetsGrow ==
  ASSUME NEW pes, Fresh(pes), NEW k \in 0 .. pes.es, \A i \in 0 .. k - 1 : Offsets(pes)[i] < pes.es
  PROVE  Offsets(pes)[k] \in Nat /\ k <= Offsets(pes)[k] /\ Offsets(pes)[k] <= pes.es
  <1> DEFINE at == Offsets(pes)
             S == {j \in Nat : j <= k => at[j] \in Nat /\ j <= at[j] /\ at[j] <= pes.es}
  <1>0. pes.es \in Nat /\ k \in Nat /\ k <= pes.es
    BY DEF Fresh
  <1>1. at[0] = 0 /\ \A i \in 1 .. pes.es : at[i] = at[i-1] + EsLen(PacketFrom(pes, at[i-1]))
    BY <1>0, OffsetSteps
  <1>2. \A i \in 0 .. k - 1 : at[i] < pes.es
    OBVIOUS
  <1> HIDE DEF at
  <1>3. 0 \in S
    BY <1>0, <1>1
  <1>4. ASSUME NEW j \in S PROVE j + 1 \in S
    <2>1. CASE j + 1 <= k
      <3>1. at[j] \in Nat /\ j <= at[j] /\ at[j] < pes.es /\ j \in Nat
        BY <1>0, <1>2, <2>1
      <3>2. at[j+1] = at[j] + EsLen(PacketFrom(pes, at[j]))
        <4>1. j + 1 \in 1 .. pes.es /\ (j + 1) - 1 = j
          BY <1>0, <2>1, <3>1
        <4>2. QED
          BY <1>1, <4>1
      <3> DEFINE l == EsLen(PacketFrom(pes, at[j]))
      <3>3. l \in Nat /\ l # 0 /\ at[j] + l <= pes.es
        BY <3>1, Moved
      <3> HIDE DEF l
      <3>4. at[j+1] = at[j] + l
        BY <3>2 DEF l
      <3>5. QED
        BY <1>0, <3>1, <3>3, <3>4
    <2>2. CASE ~(j + 1 <= k)
      BY <2>2
    <2>3. QED
      BY <2>1, <2>2
  <1> HIDE DEF S
  <1>5. S = Nat
    BY <1>3, <1>4, Induction DEF S
  <1>6. k \in S
    BY <1>0, <1>5
  <1>7. QED
    BY <1>0, <1>6 DEF S, at

(* The number of packets of a frame.                                       *)
Ends(pes, n) == Offsets(pes)[n] >= pes.es /\ \A i \in 1 .. n - 1 : Offsets(pes)[i] < pes.es

LEMMA SomeEnd ==
  ASSUME NEW pes, Fresh(pes)
  PROVE  \E n \in 1 .. pes.es : Ends(pes, n)
  <1> DEFINE at == Offsets(pes)
             S == {j \in 0 .. pes.es : ~(at[j] < pes.es)}
  <1>0. pes.es \in Nat /\ pes.es >= 1
    BY DEF Fresh
  <1>1. at[0] = 0
    BY <1>0, OffsetSteps
  <1>2. S # {}
    <2> SUFFICES ASSUME \A j \in 0 .. pes.es : at[j] < pes.es PROVE FALSE
      OBVIOUS
    <2>1. pes.es <= at[pes.es] /\ at[pes.es] \in Nat
      BY <1>0, OffsetsGrow
    <2>2. at[pes.es] < pes.es
      BY <1>0
    <2> HIDE DEF at
    <2>3. QED
      BY <1>0, <2>1, <2>2
  <1>3. PICK n \in S : \A k \in S : n <= k
    <2>1. S \in SUBSET Nat
      OBVIOUS
    <2> HIDE DEF S
    <2>2. QED
      BY <1>2, <2>1, Minimum
  <1>4. n \in Nat /\ n <= pes.es /\ n # 0
    BY <1>0, <1>1
  <1>5. \A i \in 0 .. n - 1 : at[i] < pes.es
    BY <1>0, <1>3, <1>4
  <1>6. at[n] \in Nat /\ ~(at[n] < pes.es)
    BY <1>0, <1>3, <1>4, <1>5, OffsetsGrow
  <1>7. n \in 1 .. pes.es /\ Ends(pes, n)
    BY <1>0, <1>4, <1>5, <1>6 DEF Ends
  <1>8. QED
    BY <1>7

Count(pes) == CHOOSE n \in 1 .. pes.es : Ends(pes, n)

LEMMA PacketsAre ==
  ASSUME NEW pes, Fresh(pes)
  PROVE  /\ Count(pes) \in 1 .. pes.es
         /\ PESPackets(pes) = [i \in 1 .. Count(pes) |-> PacketFrom(pes, Offsets(pes)[i-1])]
         /\ Offsets(pes)[Count(pes)] = pes.es
         /\ \A i \in 0 .. Count(pes) - 1 : Offsets(pes)[i] \in Nat /\ Offsets(pes)[i] < pes.es
  <1> DEFINE at == Offsets(pes)
             n == Count(pes)
  <1>0. pes.es \in Nat /\ pes.es >= 1
    BY DEF Fresh
  <1>1. n \in 1 .. pes.es /\ Ends(pes, n)
    BY SomeEnd DEF Count
  <1>2. at[0] = 0
    BY <1>0, OffsetSteps
  <1>3. \A i \in 0 .. n - 1 : at[i] < pes.es
    <2> HIDE DEF n
    <2> SUFFICES ASSUME NEW i \in 0 .. n - 1 PROVE at[i] < pes.es
      OBVIOUS
    <2>1. i = 0 \/ i \in 1 .. n - 1
      BY <1>1
    <2>2. QED
      BY <1>0, <1>1, <1>2, <2>1 DEF Ends
  <1>4. \A i \in 0 .. n - 1 : at[i] \in Nat
    <2> HIDE DEF n
    <2> SUFFICES ASSUME NEW i \in 0 .. n - 1 PROVE at[i] \in Nat
      OBVIOUS
    <2>1. i \in 0 .. pes.es /\ \A j \in 0 .. i - 1 : j \in 0 .. n - 1
      BY <1>0, <1>1
    <2>2. \A j \in 0 .. i - 1 : at[j] < pes.es
      BY <1>3, <2>1
    <2>3. QED
      BY <2>1, <2>2, OffsetsGrow
  <1>5. at[n] = pes.es
    <2>1. at[n] >= pes.es
      BY <1>1 DEF Ends
    <2>2. n \in 0 .. pes.es
      BY <1>0, <1>1
    <2>3. at[n] \in Nat /\ at[n] <= pes.es
      BY <1>3, <2>2, OffsetsGrow
    <2> HIDE DEF n, at
    <2>4. QED
      BY <1>0, <2>1, <2>3
  <1>6. PESPackets(pes) = [i \in 1 .. n |-> PacketFrom(pes, at[i-1])]
    BY DEF PESPackets, Count, Ends
  <1>7. QED
    BY <1>1, <1>3, <1>4, <1>5, <1>6

(* The bytes in the packets of a frame add up to it.                       *)
LEMMA BytesAddUp ==
  ASSUME NEW pes, Fresh(pes)
  PROVE  Total([i \in DOMAIN PESPackets(pes) |-> EsLen(PESPackets(pes)[i])]) = pes.es
  <1> DEFINE at == Offsets(pes)
             n == Count(pes)
             q == PESPackets(pes)
             s == [i \in 1 .. n |-> EsLen(q[i])]
  <1>0. pes.es \in Nat
    BY DEF Fresh
  <1>1. /\ n \in Nat /\ n >= 1 /\ n <= pes.es
        /\ q = [i \in 1 .. n |-> PacketFrom(pes, at[i-1])]
        /\ at[n] = pes.es
        /\ \A i \in 0 .. n - 1 : at[i] \in Nat /\ at[i] < pes.es
    <2>1. n \in 1 .. pes.es
      BY PacketsAre
    <2>2. QED
      BY <1>0, <2>1, PacketsAre
  <1>2. at[0] = 0 /\ \A i \in 1 .. pes.es : at[i] = at[i-1] + EsLen(PacketFrom(pes, at[i-1]))
    BY <1>0, OffsetSteps
  <1> HIDE DEF n, at, q
  <1>4. \A i \in 1 .. n : at[i] = at[i-1] + s[i]
    <2> SUFFICES ASSUME NEW i \in 1 .. n PROVE at[i] = at[i-1] + s[i]
      OBVIOUS
    <2>1. i \in 1 .. pes.es
      BY <1>0, <1>1
    <2>2. s[i] = EsLen(q[i])
      OBVIOUS
    <2>3. q[i] = PacketFrom(pes, at[i-1])
      BY <1>1
    <2>4. at[i] = at[i-1] + EsLen(PacketFrom(pes, at[i-1]))
      BY <1>2, <2>1
    <2>5. QED
      BY <2>2, <2>3, <2>4
  <1>5. Len(s) = n
    BY <1>1
  <1> HIDE DEF s
  <1>6. PICK u : Total(s) = u[n] /\ u[0] = 0 /\ \A i \in 1 .. n : u[i] = u[i-1] + s[i]
    BY <1>1, <1>5, TotalStepsTo
  <1> DEFINE R == {j \in Nat : j <= n => u[j] = at[j]}
  <1>7. 0 \in R
    BY <1>2, <1>6
  <1>8. ASSUME NEW j \in R PROVE j + 1 \in R
    <2>1. CASE j + 1 <= n
      <3>1. u[j] = at[j] /\ j + 1 \in 1 .. n /\ (j + 1) - 1 = j
        BY <1>1, <2>1
      <3>2. u[j+1] = u[j] + s[j+1] /\ at[j+1] = at[j] + s[j+1]
        BY <1>4, <1>6, <3>1
      <3>3. QED
        BY <3>1, <3>2
    <2>2. CASE ~(j + 1 <= n)
      BY <2>2
    <2>3. QED
      BY <2>1, <2>2
  <1> HIDE DEF R
  <1>9. R = Nat
    BY <1>7, <1>8, Induction DEF R
  <1>10. u[n] = at[n]
    BY <1>1, <1>9 DEF R
  <1>11. DOMAIN q = 1 .. n
    BY <1>1
  <1>12. Total(s) = pes.es
    BY <1>1, <1>6, <1>10
  <1>13. Total([i \in DOMAIN q |-> EsLen(q[i])]) = pes.es
    BY <1>11, <1>12 DEF s
  <1>14. QED
    BY <1>13 DEF q

(* A frame of any length is cut into packets that a decoder accepts and    *)
(* whose bytes add up to it, in LinkGetPESData: a frame with the clock     *)
(* must be long enough for it.                                             *)
THEOREM PacketsWhole ==
  ASSUME NEW pes, Fresh(pes), Fits(pes)
  PROVE  FrameWhole(pes)
  <1> DEFINE at == Offsets(pes)
             n == Count(pes)
             q == PESPackets(pes)
  <1>1. /\ n \in Nat
        /\ q = [i \in 1 .. n |-> PacketFrom(pes, at[i-1])]
        /\ \A i \in 0 .. n - 1 : at[i] \in Nat /\ at[i] < pes.es
    <2>1. n \in 1 .. pes.es /\ pes.es \in Nat
      BY PacketsAre DEF Fresh
    <2>2. QED
      BY <2>1, PacketsAre
  <1> HIDE DEF n, at, q
  <1>2. DOMAIN q = 1 .. n
    BY <1>1
  <1>3. \A i \in 1 .. n : Decodable(q[i])
    <2> SUFFICES ASSUME NEW i \in 1 .. n PROVE Decodable(q[i])
      OBVIOUS
    <2>1. i - 1 \in 0 .. n - 1
      BY <1>1
    <2>2. at[i-1] \in Nat /\ at[i-1] < pes.es
      BY <1>1, <2>1
    <2>3. Decodable(PacketFrom(pes, at[i-1]))
      BY <2>2, Moved
    <2>4. QED
      BY <1>1, <2>3
  <1>4. Total([i \in DOMAIN q |-> EsLen(q[i])]) = pes.es
    BY BytesAddUp DEF q
  <1>5. QED
    BY <1>2, <1>3, <1>4 DEF FrameWhole, q

-----------------------------------------------------------------------------
(* Counters that wrap around.                                              *)
LEMMA RemainderIs ==
  ASSUME NEW M \in Nat \ {0}, NEW q \in Int, NEW r \in 0 .. M - 1, NEW x \in Nat, x = M * q + r
  PROVE  x % M = r
  OBVIOUS

LEMMA Divides ==
  ASSUME NEW M \in Nat \ {0}, NEW x \in Nat
  PROVE  \E q \in Int, r \in 0 .. M - 1 : x = M * q + r
  <1> DEFINE S == {y \in Nat : \E q \in Int, r \in 0 .. M - 1 : y = M * q + r}
  <1>1. 0 \in S
    <2>1. 0 = M * 0 + 0 /\ 0 \in 0 .. M - 1
      OBVIOUS
    <2>2. QED
      BY <2>1
  <1>2. ASSUME NEW y \in S PROVE y + 1 \in S
    <2>1. PICK q \in Int, r \in 0 .. M - 1 : y = M * q + r
      OBVIOUS
    <2>2. CASE r = M - 1
      <3>1. y + 1 = M * (q + 1) + 0 /\ q + 1 \in Int /\ 0 \in 0 .. M - 1
        BY <2>1, <2>2
      <3>2. QED
        BY <3>1
    <2>3. CASE r # M - 1
      <3>1. y + 1 = M * q + (r + 1) /\ r + 1 \in 0 .. M - 1
        BY <2>1, <2>3
      <3>2. QED
        BY <3>1
    <2>4. QED
      BY <2>2, <2>3
  <1> HIDE DEF S
  <1>3. S = Nat
    BY <1>1, <1>2, Induction DEF S
  <1>4. QED
    BY <1>3 DEF S

LEMMA NextRemainder ==
  ASSUME NEW M \in Nat \ {0}, NEW x \in Nat
  PROVE  /\ x % M \in 0 .. M - 1
         /\ (x + 1) % M = IF x % M = M - 1 THEN 0 ELSE (x % M) + 1
  <1>1. PICK q \in Int, r \in 0 .. M - 1 : x = M * q + r
    BY Divides
  <1>2. x % M = r
    BY <1>1, RemainderIs
  <1>3. CASE r = M - 1
    <2> DEFINE y == x + 1
               t == q + 1
               z == 0
    <2>1. y = M * t + z /\ t \in Int /\ z \in 0 .. M - 1 /\ y \in Nat /\ z = 0
      BY <1>1, <1>3
    <2> HIDE DEF y, t, z
    <2>2. y % M = 0
      BY <2>1, RemainderIs
    <2>3. QED
      BY <1>2, <1>3, <2>2 DEF y
  <1>4. CASE r # M - 1
    <2>1. x + 1 = M * q + (r + 1) /\ r + 1 \in 0 .. M - 1
      BY <1>1, <1>4
    <2>2. (x + 1) % M = r + 1
      BY <1>1, <2>1, RemainderIs
    <2>3. QED
      BY <1>2, <1>4, <2>2
  <1>5. QED
    BY <1>3, <1>4

LEMMA RemainderOfSmall ==
  ASSUME NEW M \in Nat \ {0}, NEW c \in 0 .. M - 1
  PROVE  c % M = c
  BY RemainderIs

-----------------------------------------------------------------------------
(* Writing packets.                                                        *)
Frames == [es : Nat \ {0}, key : BOOLEAN, pts : Nat, pcr : BOOLEAN]
AnyParts == {<<>>} \cup {CutOf(pid, frame)[i] : pid \in Pids, frame \in Frames, i \in Nat}
AnyPacket == [pid : Pids, cc : 0 .. MaxCounter, frame : Frames \cup {NoFrame}, first : BOOLEAN,
              parts : AnyParts]
Contexts == [nCounter : [Pids -> 0 .. MaxCounter], isTableWrited : BOOLEAN,
             nPcrFlag : BOOLEAN, nCurrentPos : Int]
QueueTyped(q) ==
  /\ q \in [made : BOOLEAN, pkts : Seq(AnyPacket)]
  /\ Len(q.pkts) <= FileCap
  /\ ~q.made => q.pkts = <<>>
WTyped(w) ==
  /\ w \in [ctx : Contexts, q : [made : BOOLEAN, pkts : Seq(AnyPacket)], noBuf : Nat,
            ret : {-1, 0, 1}, ok : BOOLEAN, len : Nat]
  /\ QueueTyped(w.q)

NoBuffer(w) == ~w.q.made /\ w.noBuf > 0
Full(w) == Len(w.q.pkts) = FileCap

(* One packet given to the output, in its three outcomes.                  *)
Lost(v, o) == /\ NoBuffer(v) /\ o.q = v.q /\ o.noBuf = v.noBuf - 1 /\ o.ret = -1
Refused(v, o) == /\ ~NoBuffer(v) /\ Full(v) /\ o.q = v.q /\ o.noBuf = v.noBuf /\ o.ret = 0
Kept(v, o, pkt) == /\ ~NoBuffer(v) /\ ~Full(v) /\ o.noBuf = v.noBuf /\ o.ret = 1
                   /\ o.q.made /\ o.q.pkts = Append(v.q.pkts, pkt)
Counts(v, o, pid) ==
  \A p \in Pids : o.ctx.nCounter[p] = IF p # pid THEN v.ctx.nCounter[p]
                                      ELSE IF v.ctx.nCounter[p] = MaxCounter THEN 0
                                      ELSE v.ctx.nCounter[p] + 1
SameFlags(v, o) == /\ o.ctx.isTableWrited = v.ctx.isTableWrited
                   /\ o.ctx.nPcrFlag = v.ctx.nPcrFlag

LEMMA Counted ==
  ASSUME NEW v, WTyped(v), NEW pid \in Pids, NEW g, g = getPidCounter(v, pid)
  PROVE  /\ WTyped(g) /\ Counts(v, g, pid) /\ SameFlags(v, g)
         /\ g.ctx.nCurrentPos = v.ctx.nCurrentPos
         /\ g.q = v.q /\ g.noBuf = v.noBuf /\ g.ret = v.ret /\ g.ok = v.ok /\ g.len = v.len
  <1> DEFINE c == v.ctx.nCounter
             d == [c EXCEPT ![pid] = IF @ = MaxCounter THEN 0 ELSE @ + 1]
             e == [v.ctx EXCEPT !.nCounter = d]
  <1>0. MaxCounter \in Nat
    BY TsMuxAssumption
  <1>1. c \in [Pids -> 0 .. MaxCounter] /\ v.ctx \in Contexts
    BY DEF WTyped, Contexts
  <1>2. d \in [Pids -> 0 .. MaxCounter]
    BY <1>0, <1>1
  <1>3. \A p \in Pids : d[p] = IF p # pid THEN c[p] ELSE IF c[p] = MaxCounter THEN 0 ELSE c[p] + 1
    BY <1>1
  <1> HIDE DEF d
  <1>4. /\ e \in Contexts /\ e.nCounter = d /\ e.isTableWrited = v.ctx.isTableWrited
        /\ e.nPcrFlag = v.ctx.nPcrFlag /\ e.nCurrentPos = v.ctx.nCurrentPos
    BY <1>1, <1>2 DEF Contexts
  <1>5. g = [v EXCEPT !.ctx = e]
    BY DEF getPidCounter, d
  <1> HIDE DEF e
  <1>6. /\ g.ctx = e /\ g.q = v.q /\ g.noBuf = v.noBuf /\ g.ret = v.ret /\ g.ok = v.ok /\ g.len = v.len
    BY <1>5 DEF WTyped
  <1>7. WTyped(g)
    BY <1>4, <1>5 DEF WTyped
  <1>8. QED
    BY <1>3, <1>4, <1>6, <1>7 DEF Counts, SameFlags

LEMMA Written ==
  ASSUME NEW g, WTyped(g), NEW pkt \in AnyPacket, NEW o, o = Output(g, pkt)
  PROVE  /\ WTyped(o) /\ o.ctx = g.ctx /\ o.ok = g.ok /\ o.len = g.len
         /\ Lost(g, o) \/ Refused(g, o) \/ Kept(g, o, pkt)
  <1>0. FileCap \in Nat \ {0}
    BY TsMuxAssumption
  <1>1. /\ g \in [ctx : Contexts, q : [made : BOOLEAN, pkts : Seq(AnyPacket)], noBuf : Nat,
                  ret : {-1, 0, 1}, ok : BOOLEAN, len : Nat]
        /\ QueueTyped(g.q)
    BY DEF WTyped
  <1>2. CASE NoBuffer(g)
    <2>1. o = [g EXCEPT !.noBuf = g.noBuf - 1, !.ret = -1]
      BY <1>2 DEF Output, NoBuffer
    <2>2. /\ o.ctx = g.ctx /\ o.ok = g.ok /\ o.len = g.len /\ o.q = g.q
          /\ o.noBuf = g.noBuf - 1 /\ o.ret = -1
      BY <1>1, <2>1
    <2>3. g.noBuf - 1 \in Nat
      BY <1>1, <1>2 DEF NoBuffer
    <2>4. o \in [ctx : Contexts, q : [made : BOOLEAN, pkts : Seq(AnyPacket)], noBuf : Nat,
                 ret : {-1, 0, 1}, ok : BOOLEAN, len : Nat]
      BY <1>1, <2>1, <2>3
    <2>5. QED
      BY <1>1, <1>2, <2>2, <2>4 DEF WTyped, Lost
  <1>3. CASE ~NoBuffer(g) /\ Full(g)
    <2>1. o = [g EXCEPT !.ret = 0]
      BY <1>3 DEF Output, NoBuffer, Full
    <2>2. /\ o.ctx = g.ctx /\ o.ok = g.ok /\ o.len = g.len /\ o.q = g.q
          /\ o.noBuf = g.noBuf /\ o.ret = 0
      BY <1>1, <2>1
    <2>3. o \in [ctx : Contexts, q : [made : BOOLEAN, pkts : Seq(AnyPacket)], noBuf : Nat,
                 ret : {-1, 0, 1}, ok : BOOLEAN, len : Nat]
      BY <1>1, <2>1
    <2>4. QED
      BY <1>1, <1>3, <2>2, <2>3 DEF WTyped, Refused
  <1>4. CASE ~NoBuffer(g) /\ ~Full(g)
    <2> DEFINE r == [made |-> TRUE, pkts |-> Append(g.q.pkts, pkt)]
    <2>1. o = [g EXCEPT !.q = r, !.ret = 1]
      BY <1>4 DEF Output, NoBuffer, Full
    <2>2. /\ r \in [made : BOOLEAN, pkts : Seq(AnyPacket)]
          /\ r.made /\ r.pkts = Append(g.q.pkts, pkt)
          /\ Len(r.pkts) = Len(g.q.pkts) + 1
      BY <1>1
    <2> HIDE DEF r
    <2>3. /\ o.ctx = g.ctx /\ o.ok = g.ok /\ o.len = g.len /\ o.q = r
          /\ o.noBuf = g.noBuf /\ o.ret = 1
      BY <1>1, <2>1
    <2>4. o \in [ctx : Contexts, q : [made : BOOLEAN, pkts : Seq(AnyPacket)], noBuf : Nat,
                 ret : {-1, 0, 1}, ok : BOOLEAN, len : Nat]
      BY <1>1, <2>1, <2>2
    <2>5. Len(r.pkts) <= FileCap
      BY <1>0, <1>1, <1>4, <2>2 DEF QueueTyped, Full
    <2>6. QueueTyped(r)
      BY <2>2, <2>5 DEF QueueTyped
    <2>7. Kept(g, o, pkt)
      BY <1>4, <2>2, <2>3 DEF Kept
    <2>8. QED
      BY <2>3, <2>4, <2>6, <2>7 DEF WTyped
  <1>5. QED
    BY <1>2, <1>3, <1>4

LEMMA PacketTyped ==
  ASSUME NEW v, WTyped(v), NEW pid \in Pids
  PROVE  /\ \A frame \in Frames, i \in Nat : PacketOf(v, pid, frame, i) \in AnyPacket
         /\ TablePacket(v, pid) \in AnyPacket
  <1>1. v.ctx.nCounter[pid] \in 0 .. MaxCounter
    BY DEF WTyped, Contexts
  <1>2. ASSUME NEW frame \in Frames, NEW i \in Nat
        PROVE  PacketOf(v, pid, frame, i) \in AnyPacket
    <2> DEFINE parts == CutOf(pid, frame)[i]
    <2>1. parts \in AnyParts
      BY DEF AnyParts
    <2>2. PacketOf(v, pid, frame, i) = [pid |-> pid, cc |-> v.ctx.nCounter[pid], frame |-> frame,
                                        first |-> i = 1, parts |-> parts]
      BY DEF PacketOf, Packet, CutOf
    <2> HIDE DEF parts
    <2>3. QED
      BY <1>1, <2>1, <2>2 DEF AnyPacket
  <1>3. TablePacket(v, pid) \in AnyPacket
    <2>1. <<>> \in AnyParts
      BY DEF AnyParts
    <2>2. QED
      BY <1>1, <2>1 DEF TablePacket, AnyPacket
  <1>4. QED
    BY <1>2, <1>3

PutDone(v, o, pkt) == Lost(v, o) \/ Refused(v, o) \/ Kept(v, o, pkt)

(* A packet of pid given to the output, after its counter.                 *)
LEMMA OnePut ==
  ASSUME NEW v, WTyped(v), NEW pid \in Pids, NEW pkt \in AnyPacket, NEW o,
         o = Output(getPidCounter(v, pid), pkt)
  PROVE  /\ WTyped(o) /\ Counts(v, o, pid) /\ SameFlags(v, o)
         /\ o.ctx.nCurrentPos = v.ctx.nCurrentPos /\ o.ok = v.ok /\ o.len = v.len
         /\ PutDone(v, o, pkt)
  <1> DEFINE g == getPidCounter(v, pid)
  <1>2. /\ WTyped(g) /\ Counts(v, g, pid) /\ SameFlags(v, g)
        /\ g.ctx.nCurrentPos = v.ctx.nCurrentPos
        /\ g.q = v.q /\ g.noBuf = v.noBuf /\ g.ret = v.ret /\ g.ok = v.ok /\ g.len = v.len
    BY Counted
  <1> HIDE DEF g
  <1>3. /\ WTyped(o) /\ o.ctx = g.ctx /\ o.ok = g.ok /\ o.len = g.len
        /\ Lost(g, o) \/ Refused(g, o) \/ Kept(g, o, pkt)
    BY <1>2, Written DEF g
  <1>4. Lost(g, o) => Lost(v, o)
    BY <1>2 DEF Lost, NoBuffer
  <1>5. Refused(g, o) => Refused(v, o)
    BY <1>2 DEF Refused, NoBuffer, Full
  <1>6. Kept(g, o, pkt) => Kept(v, o, pkt)
    BY <1>2 DEF Kept, NoBuffer, Full
  <1>7. Counts(v, o, pid) /\ SameFlags(v, o)
    BY <1>2, <1>3 DEF Counts, SameFlags
  <1>8. QED
    BY <1>2, <1>3, <1>4, <1>5, <1>6, <1>7 DEF PutDone

-----------------------------------------------------------------------------
(* Writing a frame.                                                        *)
StepDone(v, o, pkt, pos) ==
  \/ Lost(v, o)
  \/ Refused(v, o) /\ o.ok = FALSE /\ o.ctx.nCurrentPos = pos
  \/ /\ Kept(v, o, pkt)
     /\ o.ok = v.ok /\ o.ctx.nCurrentPos = v.ctx.nCurrentPos + 1 /\ o.len = v.len + 1

LEMMA Advanced ==
  ASSUME NEW m, WTyped(m), NEW o, o = [m EXCEPT !.ctx.nCurrentPos = @ + 1, !.len = @ + 1]
  PROVE  /\ WTyped(o) /\ o.q = m.q /\ o.noBuf = m.noBuf /\ o.ret = m.ret /\ o.ok = m.ok
         /\ o.len = m.len + 1 /\ o.ctx.nCurrentPos = m.ctx.nCurrentPos + 1
         /\ o.ctx.nCounter = m.ctx.nCounter /\ SameFlags(m, o)
  <1> DEFINE a == m.ctx.nCurrentPos + 1
             b == m.len + 1
             x == [m.ctx EXCEPT !.nCurrentPos = a]
  <1>1. /\ m \in [ctx : Contexts, q : [made : BOOLEAN, pkts : Seq(AnyPacket)], noBuf : Nat,
                  ret : {-1, 0, 1}, ok : BOOLEAN, len : Nat]
        /\ QueueTyped(m.q)
    BY DEF WTyped
  <1>2. m.ctx.nCurrentPos \in Int /\ m.len \in Nat
    BY <1>1 DEF Contexts
  <1>3. a \in Int /\ b \in Nat
    BY <1>2
  <1>4. o = [m EXCEPT !.ctx = x, !.len = b]
    OBVIOUS
  <1> HIDE DEF a, b
  <1>5. /\ x \in Contexts /\ x.nCurrentPos = a /\ x.nCounter = m.ctx.nCounter
        /\ x.isTableWrited = m.ctx.isTableWrited /\ x.nPcrFlag = m.ctx.nPcrFlag
    BY <1>1, <1>3 DEF Contexts
  <1> HIDE DEF x
  <1>6. /\ o.ctx = x /\ o.len = b /\ o.ok = m.ok /\ o.q = m.q /\ o.noBuf = m.noBuf /\ o.ret = m.ret
    BY <1>1, <1>4
  <1>7. o \in [ctx : Contexts, q : [made : BOOLEAN, pkts : Seq(AnyPacket)], noBuf : Nat,
               ret : {-1, 0, 1}, ok : BOOLEAN, len : Nat]
    BY <1>1, <1>3, <1>4, <1>5
  <1>8. WTyped(o)
    BY <1>1, <1>6, <1>7 DEF WTyped
  <1>9. QED
    BY <1>5, <1>6, <1>8 DEF a, b, SameFlags

LEMMA OneStep ==
  ASSUME NEW v, WTyped(v), v.ret # -1, NEW pid \in Pids, NEW frame \in Frames,
         NEW i \in Nat, NEW pos \in Int, NEW o,
         o = onePacket(v, pid, frame, PesOf(pid, frame), i, pos)
  PROVE  /\ WTyped(o) /\ Counts(v, o, pid) /\ SameFlags(v, o)
         /\ StepDone(v, o, PacketOf(v, pid, frame, i), pos)
  <1> DEFINE pkt == PacketOf(v, pid, frame, i)
             m == Output(getPidCounter(v, pid), pkt)
  <1>0. pkt \in AnyPacket
    BY PacketTyped
  <1>1. /\ WTyped(m) /\ Counts(v, m, pid) /\ SameFlags(v, m)
        /\ m.ctx.nCurrentPos = v.ctx.nCurrentPos /\ m.ok = v.ok /\ m.len = v.len
        /\ PutDone(v, m, pkt)
    <2> HIDE DEF pkt
    <2>1. QED
      BY <1>0, OnePut
  <1>2. v.ret >= 0
    BY DEF WTyped
  <1>3. /\ m.ret < 0 => o = m
        /\ m.ret > 0 => o = [m EXCEPT !.ctx.nCurrentPos = @ + 1, !.len = @ + 1]
        /\ m.ret = 0 => o = [m EXCEPT !.ok = FALSE, !.ctx.nCurrentPos = pos]
    <2> DEFINE A == [m EXCEPT !.ctx.nCurrentPos = @ + 1, !.len = @ + 1]
               B == [m EXCEPT !.ok = FALSE, !.ctx.nCurrentPos = pos]
    <2>1. o = CASE v.ret < 0 -> v
                [] v.ret >= 0 /\ m.ret < 0 -> m
                [] v.ret >= 0 /\ m.ret > 0 -> A
                [] v.ret >= 0 /\ m.ret = 0 -> B
      BY DEF onePacket, PacketOf
    <2>2. m.ret \in {-1, 0, 1} /\ v.ret \in {-1, 0, 1}
      BY <1>1 DEF WTyped
    <2> HIDE DEF m, A, B
    <2>3. QED
      BY <1>2, <2>1, <2>2 DEF A, B
  <1> HIDE DEF m, pkt
  <1>4. /\ m \in [ctx : Contexts, q : [made : BOOLEAN, pkts : Seq(AnyPacket)], noBuf : Nat,
                  ret : {-1, 0, 1}, ok : BOOLEAN, len : Nat]
        /\ QueueTyped(m.q)
    BY <1>1 DEF WTyped
  <1>5. CASE Lost(v, m)
    <2>1. o = m
      BY <1>3, <1>5 DEF Lost
    <2>2. QED
      BY <1>1, <1>5, <2>1 DEF StepDone
  <1>6. CASE Refused(v, m)
    <2> DEFINE x == [m.ctx EXCEPT !.nCurrentPos = pos]
    <2>1. o = [m EXCEPT !.ok = FALSE, !.ctx = x]
      BY <1>3, <1>4, <1>6 DEF Refused
    <2>2. x \in Contexts /\ x.nCurrentPos = pos /\ x.nCounter = m.ctx.nCounter
          /\ x.isTableWrited = m.ctx.isTableWrited /\ x.nPcrFlag = m.ctx.nPcrFlag
      BY <1>4 DEF Contexts
    <2> HIDE DEF x
    <2>3. /\ o.ctx = x /\ o.ok = FALSE /\ o.q = m.q /\ o.noBuf = m.noBuf /\ o.ret = m.ret
      BY <1>4, <2>1
    <2>4. o \in [ctx : Contexts, q : [made : BOOLEAN, pkts : Seq(AnyPacket)], noBuf : Nat,
                 ret : {-1, 0, 1}, ok : BOOLEAN, len : Nat]
      BY <1>4, <2>1, <2>2
    <2>5. Refused(v, o)
      BY <1>6, <2>3 DEF Refused
    <2>6. WTyped(o)
      BY <1>4, <2>3, <2>4 DEF WTyped
    <2>7. Counts(v, o, pid) /\ SameFlags(v, o)
      BY <1>1, <2>2, <2>3 DEF Counts, SameFlags
    <2>8. QED
      BY <2>2, <2>3, <2>5, <2>6, <2>7 DEF StepDone
  <1>7. CASE Kept(v, m, pkt)
    <2>1. o = [m EXCEPT !.ctx.nCurrentPos = @ + 1, !.len = @ + 1]
      BY <1>3, <1>7 DEF Kept
    <2>2. /\ WTyped(o) /\ o.q = m.q /\ o.noBuf = m.noBuf /\ o.ret = m.ret /\ o.ok = m.ok
          /\ o.len = m.len + 1 /\ o.ctx.nCurrentPos = m.ctx.nCurrentPos + 1
          /\ o.ctx.nCounter = m.ctx.nCounter /\ SameFlags(m, o)
      BY <1>1, <2>1, Advanced
    <2>3. Kept(v, o, pkt)
      BY <1>7, <2>2 DEF Kept
    <2>4. Counts(v, o, pid) /\ SameFlags(v, o)
      BY <1>1, <2>2 DEF Counts, SameFlags
    <2>5. QED
      BY <1>1, <2>2, <2>3, <2>4 DEF pkt, StepDone
  <1>8. QED
    BY <1>1, <1>5, <1>6, <1>7 DEF PutDone

(* What is written once k packets of a frame have been: the ones the queue *)
(* has room for, with consecutive counters.                                *)
NewPacket(w, pid, frame, i) ==
  [pid |-> pid, cc |-> (w.ctx.nCounter[pid] + (i - 1)) % (MaxCounter + 1),
   frame |-> frame, first |-> i = 1, parts |-> CutOf(pid, frame)[i]]
Longer(p, q, n) == /\ Len(q) = Least(Len(p) + n, FileCap)
                   /\ \A i \in 1 .. Len(p) : q[i] = p[i]
WroteCounters(w, pid, k, v) ==
  \A p \in Pids : v.ctx.nCounter[p] = IF p = pid THEN (w.ctx.nCounter[pid] + k) % (MaxCounter + 1)
                                      ELSE w.ctx.nCounter[p]
WrotePackets(w, pid, frame, k, v) ==
  /\ Longer(w.q.pkts, v.q.pkts, k)
  /\ \A i \in 1 .. Len(v.q.pkts) - Len(w.q.pkts) :
       v.q.pkts[Len(w.q.pkts) + i] = NewPacket(w, pid, frame, i)
WrotePosition(w, k, v) ==
  /\ Len(w.q.pkts) + k <= FileCap =>
       /\ v.ok = w.ok /\ v.len = w.len + k
       /\ v.ctx.nCurrentPos = w.ctx.nCurrentPos + k
  /\ Len(w.q.pkts) + k > FileCap => ~v.ok /\ v.ctx.nCurrentPos = w.ctx.nCurrentPos
Wrote(w, pid, frame, k, v) ==
  /\ WTyped(v) /\ v.ret # -1 /\ ~NoBuffer(v) /\ SameFlags(w, v)
  /\ k > 0 => v.q.made
  /\ WroteCounters(w, pid, k, v) /\ WrotePackets(w, pid, frame, k, v) /\ WrotePosition(w, k, v)

LEMMA BegunIs ==
  ASSUME NEW w, WTyped(w)
  PROVE  /\ WTyped(Begun(w)) /\ Begun(w).ret = 1 /\ Begun(w).ctx = w.ctx /\ Begun(w).q = w.q
         /\ Begun(w).noBuf = w.noBuf /\ Begun(w).ok = w.ok /\ Begun(w).len = w.len
  BY DEF WTyped, Begun

LEMMA WroteNone ==
  ASSUME NEW w, WTyped(w), ~NoBuffer(w), NEW pid \in Pids, NEW frame \in Frames
  PROVE  Wrote(w, pid, frame, 0, Begun(w))
  <1> DEFINE v == Begun(w)
  <1>0. MaxCounter \in Nat /\ FileCap \in Nat
    BY TsMuxAssumption
  <1>1. /\ WTyped(v) /\ v.ret = 1 /\ v.ctx = w.ctx /\ v.q = w.q
        /\ v.noBuf = w.noBuf /\ v.ok = w.ok /\ v.len = w.len
    BY BegunIs
  <1> HIDE DEF v
  <1>2. /\ w.ctx.nCounter[pid] \in 0 .. MaxCounter /\ w.ctx.nCurrentPos \in Int /\ w.len \in Nat
        /\ Len(w.q.pkts) \in Nat /\ Len(w.q.pkts) <= FileCap
    BY DEF WTyped, Contexts, QueueTyped
  <1>3. (w.ctx.nCounter[pid] + 0) % (MaxCounter + 1) = w.ctx.nCounter[pid]
    <2> DEFINE c == w.ctx.nCounter[pid]
               M == MaxCounter + 1
    <2>1. c \in 0 .. M - 1 /\ M \in Nat \ {0} /\ c + 0 = c
      BY <1>0, <1>2
    <2> HIDE DEF c, M
    <2>2. (c + 0) % M = c
      BY <2>1, RemainderOfSmall
    <2>3. QED
      BY <2>2 DEF c, M
  <1>4. WroteCounters(w, pid, 0, v)
    BY <1>1, <1>3 DEF WroteCounters
  <1>5. WrotePackets(w, pid, frame, 0, v)
    BY <1>0, <1>1, <1>2 DEF WrotePackets, Longer, Least
  <1>6. WrotePosition(w, 0, v)
    BY <1>0, <1>1, <1>2 DEF WrotePosition
  <1>7. ~NoBuffer(v) /\ SameFlags(w, v)
    BY <1>1 DEF NoBuffer, SameFlags
  <1>8. QED
    BY <1>1, <1>4, <1>5, <1>6, <1>7 DEF Wrote, v

LEMMA WroteNext ==
  ASSUME NEW w, WTyped(w), NEW pid \in Pids, NEW frame \in Frames, NEW k \in Nat,
         NEW v, Wrote(w, pid, frame, k, v), NEW o, o = StepOf(w, pid, frame, v, k + 1)
  PROVE  Wrote(w, pid, frame, k + 1, o)
  <1> DEFINE L == Len(w.q.pkts)
             N == Len(v.q.pkts)
             c == w.ctx.nCounter[pid]
             M == MaxCounter + 1
             pkt == PacketOf(v, pid, frame, k + 1)
  <1>0. MaxCounter \in Nat /\ FileCap \in Nat /\ M \in Nat \ {0}
    BY TsMuxAssumption
  <1>1. /\ WTyped(v) /\ v.ret # -1 /\ ~NoBuffer(v) /\ SameFlags(w, v)
        /\ WroteCounters(w, pid, k, v) /\ WrotePackets(w, pid, frame, k, v) /\ WrotePosition(w, k, v)
    BY DEF Wrote
  <1>2. /\ c \in Nat /\ w.ctx.nCurrentPos \in Int /\ w.len \in Nat
        /\ L \in Nat /\ L <= FileCap
    BY DEF WTyped, Contexts, QueueTyped
  <1>3. o = onePacket(v, pid, frame, PesOf(pid, frame), k + 1, w.ctx.nCurrentPos)
    BY DEF StepOf
  <1> HIDE DEF L, N, c, M
  <1>4. /\ WTyped(o) /\ Counts(v, o, pid) /\ SameFlags(v, o)
        /\ \/ Lost(v, o)
           \/ Refused(v, o) /\ o.ok = FALSE /\ o.ctx.nCurrentPos = w.ctx.nCurrentPos
           \/ /\ Kept(v, o, pkt)
              /\ o.ok = v.ok /\ o.ctx.nCurrentPos = v.ctx.nCurrentPos + 1 /\ o.len = v.len + 1
    <2> DEFINE pos == w.ctx.nCurrentPos
               j == k + 1
    <2>1. /\ o = onePacket(v, pid, frame, PesOf(pid, frame), j, pos) /\ pos \in Int /\ j \in Nat
          /\ pkt = PacketOf(v, pid, frame, j)
      BY <1>2, <1>3
    <2> HIDE DEF pos, j, pkt
    <2>2. /\ WTyped(o) /\ Counts(v, o, pid) /\ SameFlags(v, o)
          /\ StepDone(v, o, PacketOf(v, pid, frame, j), pos)
      BY <1>1, <2>1, OneStep
    <2>3. QED
      BY <2>1, <2>2 DEF pos, StepDone
  <1> HIDE DEF pkt
  <1>5. ~Lost(v, o)
    BY <1>1 DEF Lost
  <1>6. o.ret # -1 /\ ~NoBuffer(o) /\ SameFlags(w, o) /\ o.q.made
    <2>1. SameFlags(w, o)
      BY <1>1, <1>4 DEF SameFlags
    <2>2. CASE Refused(v, o)
      <3>1. v.q.made
        BY <1>1, <2>2, TsMuxAssumption DEF WTyped, QueueTyped, Refused, Full
      <3>2. QED
        BY <2>1, <2>2, <3>1 DEF Refused, NoBuffer
    <2>3. CASE Kept(v, o, pkt)
      BY <2>1, <2>3 DEF Kept, NoBuffer
    <2>4. QED
      BY <1>4, <1>5, <2>2, <2>3
  <1>7. WroteCounters(w, pid, k + 1, o)
    <2>1. v.ctx.nCounter[pid] = (c + k) % M
      BY <1>1 DEF WroteCounters, c, M
    <2>2. (c + k + 1) % M = IF (c + k) % M = M - 1 THEN 0 ELSE ((c + k) % M) + 1
      <3>1. c + k \in Nat
        BY <1>2
      <3>2. QED
        BY <1>0, <3>1, NextRemainder
    <2>3. o.ctx.nCounter[pid] = IF v.ctx.nCounter[pid] = MaxCounter THEN 0
                                ELSE v.ctx.nCounter[pid] + 1
      BY <1>4 DEF Counts
    <2>4. MaxCounter = M - 1 /\ c + k + 1 = c + (k + 1)
      BY <1>0, <1>2 DEF M
    <2>5. o.ctx.nCounter[pid] = (c + (k + 1)) % M
      BY <2>1, <2>2, <2>3, <2>4
    <2>6. \A p \in Pids : p # pid => o.ctx.nCounter[p] = w.ctx.nCounter[p]
      BY <1>1, <1>4 DEF Counts, WroteCounters
    <2>7. QED
      BY <2>5, <2>6 DEF WroteCounters, c, M
  <1>8. N \in Nat /\ N = Least(L + k, FileCap) /\ N <= FileCap
    BY <1>1 DEF WrotePackets, Longer, WTyped, QueueTyped, L, N
  <1>9. CASE Refused(v, o) /\ o.ok = FALSE /\ o.ctx.nCurrentPos = w.ctx.nCurrentPos
    <2>1. o.q = v.q /\ N = FileCap /\ L + k >= FileCap
      BY <1>0, <1>2, <1>8, <1>9 DEF Refused, Full, Least, N
    <2>2. Least(L + (k + 1), FileCap) = FileCap /\ L + (k + 1) > FileCap
      BY <1>0, <1>2, <2>1 DEF Least
    <2>3. WrotePackets(w, pid, frame, k + 1, o)
      BY <1>1, <1>8, <2>1, <2>2 DEF WrotePackets, Longer, L, N
    <2>4. WrotePosition(w, k + 1, o)
      <3>1. ~(L + (k + 1) <= FileCap)
        BY <1>0, <1>2, <2>2
      <3>2. QED
        BY <1>9, <2>2, <3>1 DEF WrotePosition, L
    <2>5. QED
      BY <1>4, <1>6, <1>7, <2>3, <2>4 DEF Wrote
  <1>10. CASE /\ Kept(v, o, pkt)
              /\ o.ok = v.ok /\ o.ctx.nCurrentPos = v.ctx.nCurrentPos + 1 /\ o.len = v.len + 1
    <2>1. o.q.pkts = Append(v.q.pkts, pkt) /\ N # FileCap
      BY <1>10 DEF Kept, Full, N
    <2>2. N = L + k /\ L + (k + 1) <= FileCap
      BY <1>0, <1>2, <1>8, <2>1 DEF Least
    <2>3. /\ Len(o.q.pkts) = N + 1 /\ o.q.pkts[N + 1] = pkt
          /\ \A i \in 1 .. N : o.q.pkts[i] = v.q.pkts[i]
      <3>1. pkt \in AnyPacket
        <4>1. k + 1 \in Nat
          OBVIOUS
        <4>2. QED
          BY <1>1, <4>1, PacketTyped DEF pkt
      <3>2. v.q.pkts \in Seq(AnyPacket)
        BY <1>1 DEF WTyped
      <3> DEFINE s == v.q.pkts
      <3>3. s \in Seq(AnyPacket) /\ N = Len(s) /\ o.q.pkts = Append(s, pkt)
        BY <2>1, <3>2 DEF N
      <3> HIDE DEF s, pkt
      <3>4. Len(Append(s, pkt)) = Len(s) + 1 /\ Append(s, pkt)[Len(s) + 1] = pkt
        BY <3>1, <3>3, AppendProperties
      <3>5. \A i \in 1 .. Len(s) : Append(s, pkt)[i] = s[i]
        BY <3>1, <3>3, AppendProperties
      <3>6. s = v.q.pkts
        BY DEF s
      <3>7. QED
        BY <3>3, <3>4, <3>5, <3>6
    <2>4. Longer(w.q.pkts, o.q.pkts, k + 1)
      <3>1. Len(o.q.pkts) = Least(L + (k + 1), FileCap)
        BY <1>0, <1>2, <2>2, <2>3 DEF Least
      <3>2. \A i \in 1 .. L : v.q.pkts[i] = w.q.pkts[i] /\ i \in 1 .. N
        BY <1>1, <1>2, <2>2 DEF WrotePackets, Longer, L
      <3>3. \A i \in 1 .. L : o.q.pkts[i] = w.q.pkts[i]
        BY <2>3, <3>2
      <3>4. QED
        BY <3>1, <3>3 DEF Longer, L
    <2>5. pkt = NewPacket(w, pid, frame, k + 1)
      <3>1. v.ctx.nCounter[pid] = (c + ((k + 1) - 1)) % M
        BY <1>1 DEF WroteCounters, c, M
      <3>2. QED
        BY <3>1 DEF NewPacket, PacketOf, Packet, CutOf, pkt, c, M
    <2>6. ASSUME NEW i \in 1 .. Len(o.q.pkts) - L
          PROVE  o.q.pkts[L + i] = NewPacket(w, pid, frame, i)
      <3>1. CASE i = k + 1
        <4>1. L + i = N + 1
          BY <1>2, <2>2, <3>1
        <4>2. QED
          BY <2>3, <2>5, <3>1, <4>1
      <3>2. CASE i # k + 1
        <4>1. i \in 1 .. N - L /\ L + i \in 1 .. N
          BY <1>2, <2>2, <2>3, <3>2
        <4>2. v.q.pkts[L + i] = NewPacket(w, pid, frame, i)
          BY <1>1, <4>1 DEF WrotePackets, L, N
        <4>3. QED
          BY <2>3, <4>1, <4>2
      <3>3. QED
        BY <3>1, <3>2
    <2>7. WrotePackets(w, pid, frame, k + 1, o)
      BY <2>4, <2>6 DEF WrotePackets, L
    <2>8. WrotePosition(w, k + 1, o)
      <3>1. v.ok = w.ok /\ v.len = w.len + k /\ v.ctx.nCurrentPos = w.ctx.nCurrentPos + k
        <4>1. L + k <= FileCap
          BY <1>0, <1>2, <2>2
        <4>2. QED
          BY <1>1, <4>1 DEF WrotePosition, L
      <3>2. o.ok = w.ok /\ o.len = w.len + (k + 1) /\ o.ctx.nCurrentPos = w.ctx.nCurrentPos + (k + 1)
        BY <1>2, <1>10, <3>1
      <3>3. ~(L + (k + 1) > FileCap)
        BY <1>0, <1>2, <2>2
      <3>4. QED
        BY <3>2, <3>3 DEF WrotePosition, L
    <2>9. QED
      BY <1>4, <1>6, <1>7, <2>7, <2>8 DEF Wrote
  <1>11. QED
    BY <1>4, <1>5, <1>9, <1>10

-----------------------------------------------------------------------------
(* What makeTsPacket, writeTable and the two muxing calls return.          *)
LEMMA CutIs ==
  ASSUME NEW es \in KeyLens \cup DeltaLens \cup AudioLens, NEW aud \in {0, 6}, NEW pcr \in BOOLEAN
  PROVE  /\ Fresh(InitPES(es, aud, pcr))
         /\ CutFrames[InitPES(es, aud, pcr)] = PESPackets(InitPES(es, aud, pcr))
         /\ Len(PESPackets(InitPES(es, aud, pcr))) \in Nat \ {0}
         /\ DOMAIN PESPackets(InitPES(es, aud, pcr)) = 1 .. Len(PESPackets(InitPES(es, aud, pcr)))
  <1> DEFINE pes == InitPES(es, aud, pcr)
             D == {InitPES(l, a, b) : l \in KeyLens \cup DeltaLens \cup AudioLens,
                                      a \in {0, 6}, b \in BOOLEAN}
  <1>1. es \in Nat \ {0}
    BY TsMuxAssumption
  <1>2. Fresh(pes)
    BY <1>1 DEF Fresh, InitPES
  <1>3. pes \in D
    OBVIOUS
  <1>4. CutFrames = [p \in D |-> PESPackets(p)]
    BY DEF CutFrames
  <1> HIDE DEF pes, D
  <1>5. CutFrames[pes] = PESPackets(pes)
    BY <1>3, <1>4
  <1>6. /\ Count(pes) \in 1 .. pes.es
        /\ PESPackets(pes) = [i \in 1 .. Count(pes) |-> PacketFrom(pes, Offsets(pes)[i-1])]
    BY <1>2, PacketsAre
  <1>7. pes.es \in Nat
    BY <1>2 DEF Fresh
  <1>8. Count(pes) \in Nat /\ Count(pes) # 0
    BY <1>6, <1>7
  <1>9. Len(PESPackets(pes)) = Count(pes) /\ DOMAIN PESPackets(pes) = 1 .. Count(pes)
    BY <1>6, <1>8
  <1>10. QED
    BY <1>2, <1>5, <1>8, <1>9 DEF pes

(* The record v after a frame of pid was written from t.                   *)
NotWritten(t, v) == NoBuffer(t) /\ WTyped(v) /\ v.ret = -1 /\ v.q = t.q
Muxed(t, pid, frame, v) ==
  \/ NotWritten(t, v)
  \/ /\ ~NoBuffer(t) /\ Len(CutOf(pid, frame)) \in Nat \ {0}
     /\ Wrote(t, pid, frame, Len(CutOf(pid, frame)), v)

LEMMA FrameMuxed ==
  ASSUME NEW w, WTyped(w), NEW pid \in Pids, NEW frame \in Frames,
         Len(CutOf(pid, frame)) \in Nat \ {0}
  PROVE  Muxed(w, pid, frame, makeTsPacket(w, pid, PesOf(pid, frame), frame))
  <1> DEFINE n == Len(CutOf(pid, frame))
             u == AfterPackets(w, pid, PesOf(pid, frame), frame)
             last == makeTsPacket(w, pid, PesOf(pid, frame), frame)
  <1>1. /\ n \in Nat /\ n # 0 /\ last = u[n]
        /\ u[0] = Begun(w) /\ \A i \in 1 .. n : u[i] = StepOf(w, pid, frame, u[i-1], i)
    BY AfterSteps DEF makeTsPacket, CutOf
  <1> HIDE DEF n, u, last
  <1>2. CASE ~NoBuffer(w)
    <2> DEFINE S == {k \in Nat : k <= n => Wrote(w, pid, frame, k, u[k])}
    <2>1. 0 \in S
      BY <1>1, <1>2, WroteNone
    <2>2. ASSUME NEW k \in S PROVE k + 1 \in S
      <3>1. CASE k + 1 <= n
        <4>1. k + 1 \in 1 .. n /\ (k + 1) - 1 = k /\ k \in Nat /\ Wrote(w, pid, frame, k, u[k])
          BY <1>1, <3>1
        <4>2. u[k + 1] = StepOf(w, pid, frame, u[k], k + 1)
          BY <1>1, <4>1
        <4>3. Wrote(w, pid, frame, k + 1, u[k + 1])
          BY <4>1, <4>2, WroteNext
        <4>4. QED
          BY <4>1, <4>3
      <3>2. CASE ~(k + 1 <= n)
        BY <3>2
      <3>3. QED
        BY <3>1, <3>2
    <2> HIDE DEF S
    <2>3. S = Nat
      BY <2>1, <2>2, Induction DEF S
    <2>4. Wrote(w, pid, frame, n, u[n])
      BY <1>1, <2>3 DEF S
    <2>5. QED
      BY <1>1, <1>2, <2>4 DEF Muxed, n, last
  <1>3. CASE NoBuffer(w)
    <2> DEFINE v == Begun(w)
               S == {k \in Nat : (0 < k /\ k <= n) => NotWritten(w, u[k])}
    <2>1. /\ WTyped(v) /\ v.ret = 1 /\ v.ctx = w.ctx /\ v.q = w.q /\ v.noBuf = w.noBuf
      BY BegunIs
    <2>2. NotWritten(w, u[1])
      <3> DEFINE o == u[1]
                 pos == w.ctx.nCurrentPos
      <3>1. 1 \in 1 .. n /\ 1 - 1 = 0
        BY <1>1
      <3>2. o = onePacket(v, pid, frame, PesOf(pid, frame), 1, pos) /\ pos \in Int
        <4>1. o = StepOf(w, pid, frame, v, 1)
          BY <1>1, <3>1
        <4>2. QED
          BY <4>1 DEF StepOf, WTyped, Contexts
      <3> HIDE DEF o, pos, v
      <3>3. v.ret # -1 /\ 1 \in Nat
        BY <2>1
      <3>4. WTyped(o) /\ StepDone(v, o, PacketOf(v, pid, frame, 1), pos)
        BY <2>1, <3>2, <3>3, OneStep
      <3>5. NoBuffer(v)
        BY <1>3, <2>1 DEF NoBuffer
      <3>6. Lost(v, o)
        BY <3>4, <3>5 DEF StepDone, Refused, Kept
      <3>7. QED
        BY <1>3, <2>1, <3>4, <3>6 DEF NotWritten, Lost, o
    <2>3. 0 \in S
      OBVIOUS
    <2>4. ASSUME NEW k \in S PROVE k + 1 \in S
      <3>1. CASE k = 0
        BY <2>2, <3>1
      <3>2. CASE 0 < k /\ k + 1 <= n
        <4>1. k + 1 \in 1 .. n /\ (k + 1) - 1 = k /\ k \in Nat /\ NotWritten(w, u[k])
          BY <1>1, <3>2
        <4>2. u[k + 1] = StepOf(w, pid, frame, u[k], k + 1)
          BY <1>1, <4>1
        <4>3. u[k].ret < 0 /\ ~(u[k].ret >= 0)
          BY <4>1 DEF NotWritten
        <4>4. u[k + 1] = u[k]
          BY <4>2, <4>3 DEF StepOf, onePacket
        <4>5. QED
          BY <4>1, <4>4
      <3>3. CASE ~(k + 1 <= n)
        BY <3>3
      <3>4. k = 0 \/ 0 < k
        OBVIOUS
      <3>5. QED
        BY <3>1, <3>2, <3>3, <3>4
    <2> HIDE DEF S
    <2>5. S = Nat
      BY <2>3, <2>4, Induction DEF S
    <2>6. NotWritten(w, u[n])
      BY <1>1, <2>5 DEF S
    <2>7. QED
      BY <1>1, <2>6 DEF Muxed, last
  <1>4. QED
    BY <1>2, <1>3

(* The tables of a new file.                                               *)
OnlyTables(p) ==
  /\ \A i \in 1 .. Len(p) : p[i].pid \in Tables /\ p[i].first
  /\ Len(p) <= 2
  /\ Len(p) = 2 => p[1].pid = "PAT" /\ p[2].pid = "PMT"
Begun0(w) == /\ WTyped(w) /\ w.ok = TRUE /\ w.len = 0
             /\ w.ctx.nCounter["audio"] = 0 /\ w.ctx.nCounter["video"] = 0

LEMMA TablePut ==
  ASSUME NEW w, Begun0(w), NEW pid \in Tables, NEW o, o = oneTable(w, pid)
  PROVE  /\ Begun0(o) /\ o.ctx.nPcrFlag = w.ctx.nPcrFlag
         /\ \/ o.q.pkts = w.q.pkts /\ (w.q.made => Full(w))
            \/ \E pkt \in AnyPacket : /\ pkt.pid = pid /\ pkt.first /\ ~Full(w)
                                      /\ o.q.made /\ o.q.pkts = Append(w.q.pkts, pkt)
  <1> DEFINE pkt == TablePacket(w, pid)
  <1>1. WTyped(w) /\ pid \in Pids /\ pkt \in AnyPacket
    <2>1. WTyped(w) /\ pid \in Pids
      BY DEF Begun0, Tables, Pids
    <2>2. QED
      BY <2>1, PacketTyped
  <1>2. o = Output(getPidCounter(w, pid), pkt)
    BY DEF oneTable
  <1>3. /\ WTyped(o) /\ Counts(w, o, pid) /\ SameFlags(w, o) /\ o.ok = w.ok /\ o.len = w.len
        /\ PutDone(w, o, pkt)
    <2> HIDE DEF pkt
    <2>1. QED
      BY <1>1, <1>2, OnePut
  <1>4. "audio" # pid /\ "video" # pid /\ "audio" \in Pids /\ "video" \in Pids
    BY DEF Tables, Pids
  <1>5. Begun0(o)
    BY <1>3, <1>4 DEF Begun0, Counts
  <1>6. pkt \in AnyPacket /\ pkt.pid = pid /\ pkt.first
    BY <1>1 DEF TablePacket
  <1> HIDE DEF pkt
  <1>7. o.ctx.nPcrFlag = w.ctx.nPcrFlag
    BY <1>3 DEF SameFlags
  <1>8. CASE Lost(w, o)
    BY <1>5, <1>7, <1>8 DEF Lost, NoBuffer
  <1>9. CASE Refused(w, o)
    BY <1>5, <1>7, <1>9 DEF Refused
  <1>10. CASE Kept(w, o, pkt)
    BY <1>5, <1>6, <1>7, <1>10 DEF Kept
  <1>11. QED
    BY <1>3, <1>8, <1>9, <1>10 DEF PutDone

LEMMA TablesWritten ==
  ASSUME NEW w, Begun0(w), w.q.pkts = <<>>, ~w.ctx.isTableWrited, NEW t, t = writeTable(w)
  PROVE  /\ Begun0(t) /\ OnlyTables(t.q.pkts) /\ t.ctx.nCurrentPos = 2 /\ t.ctx.isTableWrited
         /\ t.ctx.nPcrFlag = w.ctx.nPcrFlag
  <1> DEFINE a == oneTable(w, "PAT")
             b == oneTable(a, "PMT")
  <1>0. FileCap \in Nat \ {0} /\ "PAT" \in Tables /\ "PMT" \in Tables
    BY TsMuxAssumption DEF Tables
  <1>1. t = [b EXCEPT !.ctx.isTableWrited = TRUE, !.ctx.nCurrentPos = 2]
    BY DEF writeTable
  <1>2. /\ Begun0(a) /\ a.ctx.nPcrFlag = w.ctx.nPcrFlag
        /\ \/ a.q.pkts = w.q.pkts /\ (w.q.made => Full(w))
           \/ \E pkt \in AnyPacket : /\ pkt.pid = "PAT" /\ pkt.first /\ ~Full(w)
                                     /\ a.q.made /\ a.q.pkts = Append(w.q.pkts, pkt)
    BY <1>0, TablePut
  <1>3. /\ Begun0(b) /\ b.ctx.nPcrFlag = a.ctx.nPcrFlag
        /\ \/ b.q.pkts = a.q.pkts /\ (a.q.made => Full(a))
           \/ \E pkt \in AnyPacket : /\ pkt.pid = "PMT" /\ pkt.first /\ ~Full(a)
                                     /\ b.q.made /\ b.q.pkts = Append(a.q.pkts, pkt)
    BY <1>0, <1>2, TablePut
  <1> HIDE DEF a, b
  <1>4. \/ a.q.pkts = <<>>
        \/ Len(a.q.pkts) = 1 /\ a.q.pkts[1].pid = "PAT" /\ a.q.pkts[1].first
    <2>1. ASSUME NEW pkt \in AnyPacket, pkt.pid = "PAT", pkt.first, a.q.pkts = Append(w.q.pkts, pkt)
          PROVE  Len(a.q.pkts) = 1 /\ a.q.pkts[1].pid = "PAT" /\ a.q.pkts[1].first
      <3>1. <<>> \in Seq(AnyPacket) /\ Len(<<>>) = 0
        OBVIOUS
      <3>2. Len(Append(<<>>, pkt)) = 1 /\ Append(<<>>, pkt)[1] = pkt
        BY <3>1, AppendProperties
      <3>3. QED
        BY <2>1, <3>2
    <2>2. QED
      BY <1>2, <2>1
  <1>5. OnlyTables(b.q.pkts)
    <2>1. CASE b.q.pkts = a.q.pkts
      <3>1. CASE a.q.pkts = <<>>
        <4>1. Len(b.q.pkts) = 0
          BY <2>1, <3>1
        <4>2. QED
          BY <4>1 DEF OnlyTables
      <3>2. CASE Len(a.q.pkts) = 1 /\ a.q.pkts[1].pid = "PAT" /\ a.q.pkts[1].first
        BY <2>1, <3>2 DEF OnlyTables, Tables
      <3>3. QED
        BY <1>4, <3>1, <3>2
    <2>2. ASSUME NEW pkt \in AnyPacket, pkt.pid = "PMT", pkt.first, b.q.pkts = Append(a.q.pkts, pkt)
          PROVE  OnlyTables(b.q.pkts)
      <3>1. CASE a.q.pkts = <<>>
        <4>0. <<>> \in Seq(AnyPacket) /\ Len(<<>>) = 0
          OBVIOUS
        <4>3. Len(Append(<<>>, pkt)) = 1 /\ Append(<<>>, pkt)[1] = pkt
          BY <4>0, AppendProperties
        <4>1. Len(b.q.pkts) = 1 /\ b.q.pkts[1].pid = "PMT" /\ b.q.pkts[1].first
          BY <2>2, <3>1, <4>3
        <4>2. QED
          BY <4>1 DEF OnlyTables, Tables
      <3>2. CASE Len(a.q.pkts) = 1 /\ a.q.pkts[1].pid = "PAT" /\ a.q.pkts[1].first
        <4>1. a.q.pkts \in Seq(AnyPacket)
          BY <1>2 DEF Begun0, WTyped
        <4>2. Len(b.q.pkts) = 2 /\ b.q.pkts[1] = a.q.pkts[1] /\ b.q.pkts[2] = pkt
          BY <2>2, <3>2, <4>1
        <4>3. /\ b.q.pkts[1].pid = "PAT" /\ b.q.pkts[2].pid = "PMT"
              /\ b.q.pkts[1].first /\ b.q.pkts[2].first
          BY <2>2, <3>2, <4>2
        <4>4. QED
          BY <4>2, <4>3 DEF OnlyTables, Tables
      <3>3. QED
        BY <1>4, <3>1, <3>2
    <2>3. QED
      BY <1>3, <2>1, <2>2
  <1> DEFINE x == [b.ctx EXCEPT !.isTableWrited = TRUE, !.nCurrentPos = 2]
  <1>6. /\ b \in [ctx : Contexts, q : [made : BOOLEAN, pkts : Seq(AnyPacket)], noBuf : Nat,
                  ret : {-1, 0, 1}, ok : BOOLEAN, len : Nat]
        /\ QueueTyped(b.q) /\ b.ctx \in Contexts
    BY <1>3 DEF Begun0, WTyped
  <1>7. t = [b EXCEPT !.ctx = x]
    BY <1>1, <1>6
  <1>8. /\ x \in Contexts /\ x.nCounter = b.ctx.nCounter /\ x.isTableWrited = TRUE
        /\ x.nPcrFlag = b.ctx.nPcrFlag /\ x.nCurrentPos = 2
    <2>1. 2 \in Int /\ TRUE \in BOOLEAN
      OBVIOUS
    <2>2. x \in Contexts
      BY <1>6, <2>1 DEF Contexts
    <2>3. QED
      BY <1>6, <2>2 DEF Contexts
  <1> HIDE DEF x
  <1>9. t.ctx = x /\ t.q = b.q /\ t.ok = b.ok /\ t.len = b.len
    BY <1>6, <1>7
  <1>10. t \in [ctx : Contexts, q : [made : BOOLEAN, pkts : Seq(AnyPacket)], noBuf : Nat,
                ret : {-1, 0, 1}, ok : BOOLEAN, len : Nat]
    BY <1>6, <1>7, <1>8
  <1>11. WTyped(t)
    BY <1>6, <1>9, <1>10 DEF WTyped
  <1>12. QED
    BY <1>2, <1>3, <1>5, <1>8, <1>9, <1>11 DEF Begun0

-----------------------------------------------------------------------------
(* The file being written.                                                 *)
Reports == [type : {"END", "SEG", "START", "CAPTURE"}, video : Int, media : Int]
Files == [ctx : Contexts, q : [made : BOOLEAN, pkts : Seq(AnyPacket)],
          metas : SUBSET [nOffset : Int, nLength : Nat],
          first : Int, last : Int, firstVideo : Int, lastVideo : Int,
          keyLost : BOOLEAN, reports : Seq(Reports)]
FileBase(f) ==
  /\ f \in Files
  /\ QueueTyped(f.q)
  /\ f.first < 0 => f.ctx = NewTsMuxerContext /\ f.q.pkts = <<>> /\ f.metas = {}
  /\ f.first >= 0 => f.q.made /\ f.ctx.isTableWrited

(* The record t with which a frame of file f is begun, tables written.     *)
Started(f, t) ==
  /\ WTyped(t) /\ t.ok = TRUE /\ t.len = 0 /\ t.ctx.isTableWrited
  /\ \/ /\ f.first >= 0 /\ t.q = f.q /\ t.q.made
        /\ t.ctx.nCounter = f.ctx.nCounter /\ t.ctx.nCurrentPos = f.ctx.nCurrentPos
     \/ /\ f.first < 0 /\ OnlyTables(t.q.pkts) /\ t.ctx.nCurrentPos = 2
        /\ t.ctx.nCounter["audio"] = 0 /\ t.ctx.nCounter["video"] = 0

GoodFrame(pid, fr) ==
  /\ fr \in Frames /\ fr.pts \in Pts
  /\ pid = "video" => fr.es \in KeyLens \cup DeltaLens
  /\ pid = "audio" => fr.es \in AudioLens /\ ~fr.pcr
  /\ pid \in {"audio", "video"}

(* How such a frame is cut, and that its bytes are in the packets.         *)
LEMMA GoodCut ==
  ASSUME NEW pid, NEW fr, GoodFrame(pid, fr)
  PROVE  /\ Fresh(PesOf(pid, fr)) /\ PesOf(pid, fr).es = fr.es
         /\ CutOf(pid, fr) = PESPackets(PesOf(pid, fr))
         /\ Len(CutOf(pid, fr)) \in Nat \ {0}
         /\ DOMAIN CutOf(pid, fr) = 1 .. Len(CutOf(pid, fr))
  <1> DEFINE aud == IF pid = "video" THEN 6 ELSE 0
  <1>1. /\ fr.es \in KeyLens \cup DeltaLens \cup AudioLens
        /\ aud \in {0, 6} /\ fr.pcr \in BOOLEAN
    BY DEF GoodFrame, Frames
  <1>2. PesOf(pid, fr) = InitPES(fr.es, aud, fr.pcr)
    BY DEF PesOf
  <1>3. PesOf(pid, fr).es = fr.es
    BY <1>2 DEF InitPES
  <1> HIDE DEF aud
  <1>4. /\ Fresh(PesOf(pid, fr)) /\ CutFrames[PesOf(pid, fr)] = PESPackets(PesOf(pid, fr))
        /\ Len(PESPackets(PesOf(pid, fr))) \in Nat \ {0}
        /\ DOMAIN PESPackets(PesOf(pid, fr)) = 1 .. Len(PESPackets(PesOf(pid, fr)))
    BY <1>1, <1>2, CutIs
  <1>5. QED
    BY <1>3, <1>4 DEF CutOf

BytesOf(p, i, j) == Total([k \in 1 .. j - i + 1 |-> EsLen(p[i + k - 1].parts)])

Carries(p, i, cut) == \A k \in 1 .. Len(cut) : p[i + k - 1].parts = cut[k]

LEMMA FrameBytes ==
  ASSUME NEW pid, NEW fr, GoodFrame(pid, fr), NEW n, n = Len(CutOf(pid, fr)), NEW p, NEW i \in Nat,
         NEW j, j = i + n - 1, Carries(p, i, CutOf(pid, fr))
  PROVE  BytesOf(p, i, j) = fr.es
  <1> DEFINE cut == CutOf(pid, fr)
             bytes == [k \in 1 .. n |-> EsLen(cut[k])]
  <1>1. n \in Nat /\ DOMAIN cut = 1 .. n /\ j - i + 1 = n
    BY GoodCut
  <1>2. Total(bytes) = fr.es
    <2>1. Total([k \in DOMAIN cut |-> EsLen(cut[k])]) = fr.es
      BY GoodCut, BytesAddUp
    <2>2. QED
      BY <1>1, <2>1
  <1>3. [k \in 1 .. j - i + 1 |-> EsLen(p[i + k - 1].parts)] = bytes
    BY <1>1 DEF Carries
  <1>4. QED
    BY <1>2, <1>3 DEF BytesOf

LEMMA TablesStarted ==
  ASSUME NEW f, FileBase(f), NEW noBuf \in Nat
  PROVE  Started(f, writeTable(Writing(f.ctx, f.q, noBuf)))
  <1> DEFINE w == Writing(f.ctx, f.q, noBuf)
             t == writeTable(w)
  <1>1. /\ w.ctx = f.ctx /\ w.q = f.q /\ w.ok = TRUE /\ w.len = 0 /\ w.noBuf = noBuf
        /\ w \in [ctx : Contexts, q : [made : BOOLEAN, pkts : Seq(AnyPacket)], noBuf : Nat,
                  ret : {-1, 0, 1}, ok : BOOLEAN, len : Nat]
    <2>1. f.ctx \in Contexts /\ f.q \in [made : BOOLEAN, pkts : Seq(AnyPacket)]
      BY DEF FileBase, Files
    <2>2. QED
      BY <2>1 DEF Writing
  <1>2. WTyped(w)
    BY <1>1 DEF WTyped, FileBase
  <1>3. f.first \in Int
    BY DEF FileBase, Files
  <1>4. CASE f.first >= 0
    <2>1. w.ctx.isTableWrited /\ f.q.made
      BY <1>1, <1>4 DEF FileBase
    <2>2. t = w
      BY <2>1 DEF writeTable
    <2> HIDE DEF w, t
    <2>3. QED
      BY <1>1, <1>2, <1>4, <2>1, <2>2 DEF Started, t, w
  <1>5. CASE f.first < 0
    <2>1. w.ctx = NewTsMuxerContext /\ w.q.pkts = <<>>
      BY <1>1, <1>5 DEF FileBase
    <2>2. /\ ~w.ctx.isTableWrited
          /\ w.ctx.nCounter["audio"] = 0 /\ w.ctx.nCounter["video"] = 0
      BY <2>1 DEF NewTsMuxerContext, Pids
    <2> HIDE DEF w
    <2>3. Begun0(w)
      BY <1>1, <1>2, <2>2 DEF Begun0
    <2>4. /\ Begun0(t) /\ OnlyTables(t.q.pkts) /\ t.ctx.nCurrentPos = 2 /\ t.ctx.isTableWrited
      BY <2>1, <2>2, <2>3, TablesWritten
    <2> HIDE DEF t
    <2>5. Started(f, t)
      BY <1>5, <2>4 DEF Started, Begun0
    <2>6. QED
      BY <2>5 DEF t, w
  <1>6. QED
    BY <1>3, <1>4, <1>5

LEMMA AudioMuxed ==
  ASSUME NEW f, FileBase(f), NEW noBuf \in Nat, NEW es \in AudioLens, NEW pts \in Pts,
         NEW v, v = LinkMuxerAudio(Writing(f.ctx, f.q, noBuf), es, pts)
  PROVE  \E t, fr : /\ Started(f, t) /\ GoodFrame("audio", fr) /\ fr.pts = pts /\ ~fr.key
                    /\ Muxed(t, "audio", fr, v)
  <1> DEFINE t == writeTable(Writing(f.ctx, f.q, noBuf))
             fr == [NoFrame EXCEPT !.es = es, !.pts = pts]
  <1>0. Pts \subseteq Nat
    BY TsMuxUploaderAssumption DEF Pts
  <1>1. Started(f, t)
    BY TablesStarted
  <1>2. fr \in Frames /\ fr.es = es /\ fr.pts = pts /\ ~fr.key /\ ~fr.pcr
    <2> DEFINE n0 == NoFrame
               S == [es : Nat, key : BOOLEAN, pts : Nat, pcr : BOOLEAN]
    <2>1. n0 \in S /\ ~n0.key /\ ~n0.pcr
      BY DEF NoFrame
    <2> HIDE DEF n0
    <2>2. es \in Nat \ {0} /\ pts \in Nat
      BY <1>0, TsMuxAssumption
    <2>3. fr = [n0 EXCEPT !.es = es, !.pts = pts]
      BY DEF n0
    <2> HIDE DEF fr
    <2>4. fr \in S
      BY <2>1, <2>2, <2>3
    <2>5. fr.es = es /\ fr.pts = pts /\ fr.key = n0.key /\ fr.pcr = n0.pcr
      BY <2>1, <2>3
    <2>6. QED
      BY <2>1, <2>2, <2>4, <2>5 DEF Frames
  <1>3. GoodFrame("audio", fr) /\ fr.pts = pts /\ ~fr.key
    BY <1>2 DEF GoodFrame
  <1>4. Len(CutOf("audio", fr)) \in Nat \ {0}
    BY <1>3, GoodCut
  <1>5. v = makeTsPacket(t, "audio", PesOf("audio", fr), fr)
    <2>1. PesOf("audio", fr) = InitPES(es, 0, FALSE)
      <3>1. fr.pcr = FALSE
        BY <1>2 DEF Frames
      <3> HIDE DEF fr
      <3>2. QED
        BY <1>2, <3>1 DEF PesOf
    <2>2. v = makeTsPacket(t, "audio", InitPES(es, 0, FALSE), fr)
      BY DEF LinkMuxerAudio
    <2>3. QED
      BY <2>1, <2>2
  <1> HIDE DEF t, fr
  <1>6. Muxed(t, "audio", fr, v)
    BY <1>1, <1>3, <1>4, <1>5, FrameMuxed DEF Started, GoodFrame, Pids
  <1>7. QED
    BY <1>1, <1>3, <1>6

LEMMA VideoMuxed ==
  ASSUME NEW f, FileBase(f), NEW noBuf \in Nat, NEW es \in KeyLens \cup DeltaLens, NEW pts \in Pts,
         NEW key \in BOOLEAN, NEW v, v = LinkMuxerVideo(Writing(f.ctx, f.q, noBuf), es, pts, key)
  PROVE  \E t, fr : /\ Started(f, t) /\ GoodFrame("video", fr) /\ fr.pts = pts /\ fr.key = key
                    /\ Muxed(t, "video", fr, v)
  <1> DEFINE s == writeTable(Writing(f.ctx, f.q, noBuf))
             pcr == ~s.ctx.nPcrFlag
             t == [s EXCEPT !.ctx.nPcrFlag = TRUE]
             fr == [es |-> es, key |-> key, pts |-> pts, pcr |-> pcr]
  <1>0. Pts \subseteq Nat
    BY TsMuxUploaderAssumption DEF Pts
  <1>1. Started(f, s)
    BY TablesStarted
  <1>2. pcr \in BOOLEAN
    OBVIOUS
  <1>3. v = makeTsPacket(t, "video", PesOf("video", fr), fr)
    <2>1. PesOf("video", fr) = InitPES(es, 6, pcr)
      BY DEF PesOf
    <2>2. v = makeTsPacket(t, "video", InitPES(es, 6, pcr), fr)
      BY DEF LinkMuxerVideo
    <2>3. QED
      BY <2>1, <2>2
  <1> HIDE DEF s, pcr
  <1>4. GoodFrame("video", fr) /\ fr.pts = pts /\ fr.key = key
    BY <1>0, <1>2, TsMuxAssumption DEF GoodFrame, Frames
  <1>5. Len(CutOf("video", fr)) \in Nat \ {0}
    BY <1>4, GoodCut
  <1>6. Started(f, t)
    <2> DEFINE x == [s.ctx EXCEPT !.nPcrFlag = TRUE]
    <2>1. /\ s \in [ctx : Contexts, q : [made : BOOLEAN, pkts : Seq(AnyPacket)], noBuf : Nat,
                    ret : {-1, 0, 1}, ok : BOOLEAN, len : Nat]
          /\ QueueTyped(s.q)
      BY <1>1 DEF Started, WTyped
    <2>2. t = [s EXCEPT !.ctx = x]
      BY <2>1
    <2>3. x \in Contexts
      BY <2>1 DEF Contexts
    <2>4. x.nCounter = s.ctx.nCounter /\ x.isTableWrited = s.ctx.isTableWrited
          /\ x.nCurrentPos = s.ctx.nCurrentPos
      BY <2>1 DEF Contexts
    <2> HIDE DEF x, t
    <2>5. t.ctx = x /\ t.q = s.q /\ t.ok = s.ok /\ t.len = s.len
      BY <2>1, <2>2
    <2>6. t \in [ctx : Contexts, q : [made : BOOLEAN, pkts : Seq(AnyPacket)], noBuf : Nat,
                 ret : {-1, 0, 1}, ok : BOOLEAN, len : Nat]
      BY <2>1, <2>2, <2>3
    <2>7. WTyped(t)
      BY <2>1, <2>5, <2>6 DEF WTyped
    <2>8. QED
      BY <1>1, <2>4, <2>5, <2>7 DEF Started
  <1> HIDE DEF t, fr
  <1>7. Muxed(t, "video", fr, v)
    BY <1>3, <1>4, <1>5, <1>6, FrameMuxed DEF Started, GoodFrame, Pids
  <1>8. QED
    BY <1>4, <1>6, <1>7

-----------------------------------------------------------------------------
(* The steps of a file.                                                    *)
SameFile(f, g) ==
  /\ g.ctx = f.ctx /\ g.q = f.q /\ g.metas = f.metas /\ g.first = f.first /\ g.last = f.last
  /\ g.firstVideo = f.firstVideo /\ g.lastVideo = f.lastVideo /\ g.keyLost = f.keyLost
NewEndOnly(f, g, r) ==   \* what is reported as ended in g but not in f
  \A i \in DOMAIN g.reports :
    g.reports[i].type = "END" => (i \in DOMAIN f.reports /\ g.reports[i] = f.reports[i]) \/ g.reports[i] = r
NoNewEnd(f, g) ==
  \A i \in DOMAIN g.reports :
    g.reports[i].type = "END" => i \in DOMAIN f.reports /\ g.reports[i] = f.reports[i]
Empty(g) == /\ g.first = -1 /\ g.keyLost = FALSE /\ g.q.pkts = <<>> /\ g.metas = {}
            /\ g.firstVideo = 0 /\ g.lastVideo = 0

LEMMA TimeInfoTyped ==
  ASSUME NEW f, f \in Files, NEW type \in {"END", "SEG", "START", "CAPTURE"}
  PROVE  TimeInfo(f, type) \in Reports /\ TimeInfo(f, type).type = type
  <1>1. f.last \in Int /\ f.first \in Int /\ f.firstVideo \in Int /\ f.lastVideo \in Int
    BY DEF Files
  <1>2. QED
    BY <1>1 DEF TimeInfo, Report, Reports

LEMMA FrameIs ==
  ASSUME NEW f, FileBase(f)
  PROVE  FileBase(Frame(f)) /\ SameFile(f, Frame(f)) /\ Frame(f).reports = <<>>
  <1> DEFINE g == Frame(f)
  <1>1. f \in Files
    BY DEF FileBase
  <1>2. g = [f EXCEPT !.reports = <<>>]
    BY DEF Frame
  <1> HIDE DEF g
  <1>3. SameFile(f, g) /\ g.reports = <<>>
    BY <1>1, <1>2 DEF Files, SameFile
  <1>4. <<>> \in Seq(Reports)
    OBVIOUS
  <1>5. g \in Files
    BY <1>1, <1>2, <1>4 DEF Files
  <1>6. FileBase(g)
    BY <1>3, <1>5 DEF FileBase, SameFile
  <1>7. QED
    BY <1>3, <1>6 DEF g

LEMMA CaptureIs ==
  ASSUME NEW f, FileBase(f)
  PROVE  FileBase(Capture(f)) /\ SameFile(f, Capture(f)) /\ NoNewEnd(f, Capture(f))
  <1> DEFINE g == Capture(f)
             r == Report("CAPTURE", 0, 0)
  <1>1. f \in Files /\ f.reports \in Seq(Reports)
    BY DEF FileBase, Files
  <1>2. r \in Reports /\ r.type # "END"
    BY DEF Report, Reports
  <1>3. g = [f EXCEPT !.reports = Append(f.reports, r)]
    BY DEF Capture
  <1> HIDE DEF g, r
  <1>4. SameFile(f, g) /\ g.reports = Append(f.reports, r)
    BY <1>1, <1>3 DEF Files, SameFile
  <1>5. Append(f.reports, r) \in Seq(Reports)
    BY <1>1, <1>2
  <1>6. g \in Files
    BY <1>1, <1>3, <1>5 DEF Files
  <1>7. FileBase(g)
    BY <1>4, <1>6 DEF FileBase, SameFile
  <1>8. NoNewEnd(f, g)
    BY <1>1, <1>2, <1>4 DEF NoNewEnd
  <1>9. QED
    BY <1>4, <1>7, <1>8 DEF g

LEMMA NewFileIs ==
  ASSUME NEW q, QueueTyped(q), q.pkts = <<>>, NEW r \in Seq(Reports)
  PROVE  FileBase(NewFile(q, r)) /\ Empty(NewFile(q, r)) /\ NewFile(q, r).reports = r
  <1> DEFINE g == NewFile(q, r)
  <1>1. NewTsMuxerContext \in Contexts
    BY TsMuxAssumption DEF NewTsMuxerContext, Contexts
  <1>2. g = [ctx |-> NewTsMuxerContext, q |-> q, metas |-> {},
             first |-> -1, last |-> 0, firstVideo |-> 0, lastVideo |-> 0,
             keyLost |-> FALSE, reports |-> r]
    BY DEF NewFile
  <1>3. q \in [made : BOOLEAN, pkts : Seq(AnyPacket)]
    BY DEF QueueTyped
  <1>4. g \in Files
    <2> DEFINE c0 == NewTsMuxerContext
               m0 == {}
               neg == -1
               S == SUBSET [nOffset : Int, nLength : Nat]
               Q == [made : BOOLEAN, pkts : Seq(AnyPacket)]
    <2>1. c0 \in Contexts /\ m0 \in S /\ neg \in Int /\ q \in Q
      BY <1>1, <1>3
    <2>2. Files = [ctx : Contexts, q : Q, metas : S,
                   first : Int, last : Int, firstVideo : Int, lastVideo : Int,
                   keyLost : BOOLEAN, reports : Seq(Reports)]
      BY DEF Files
    <2> HIDE DEF c0, m0, neg, S, Q
    <2>3. [ctx |-> c0, q |-> q, metas |-> m0,
           first |-> neg, last |-> 0, firstVideo |-> 0, lastVideo |-> 0,
           keyLost |-> FALSE, reports |-> r] \in Files
      BY <2>1, <2>2
    <2>4. QED
      BY <1>2, <2>3 DEF c0, m0, neg
  <1>5. /\ g.ctx = NewTsMuxerContext /\ g.q = q /\ g.metas = {} /\ g.first = -1
        /\ g.keyLost = FALSE /\ g.reports = r /\ g.firstVideo = 0 /\ g.lastVideo = 0
    BY <1>2
  <1> HIDE DEF g
  <1>6. FileBase(g)
    BY <1>4, <1>5 DEF FileBase
  <1>7. QED
    BY <1>5, <1>6 DEF Empty, g

LEMMA SwitchedIs ==
  ASSUME NEW f, f \in Files, QueueTyped(f.q),
         f.first < 0 => f.q.pkts = <<>> /\ f.metas = {}
  PROVE  /\ FileBase(switchTs(f)) /\ Empty(switchTs(f))
         /\ f.first < 0 => switchTs(f).reports = f.reports
         /\ f.first >= 0 => switchTs(f).reports = Append(f.reports, TimeInfo(f, "END"))
  <1>1. f.first \in Int /\ f.reports \in Seq(Reports)
    BY DEF Files
  <1>2. CASE f.first >= 0
    <2> DEFINE r == Append(f.reports, TimeInfo(f, "END"))
    <2>1. r \in Seq(Reports)
      BY <1>1, TimeInfoTyped
    <2>2. QueueTyped(NoQueue) /\ NoQueue.pkts = <<>>
      BY TsMuxAssumption DEF NoQueue, QueueTyped
    <2>3. switchTs(f) = NewFile(NoQueue, r)
      BY <1>2 DEF switchTs
    <2> HIDE DEF r
    <2>4. FileBase(NewFile(NoQueue, r)) /\ Empty(NewFile(NoQueue, r)) /\ NewFile(NoQueue, r).reports = r
      BY <2>1, <2>2, NewFileIs
    <2>5. ~(f.first < 0)
      BY <1>1, <1>2
    <2>6. QED
      BY <2>3, <2>4, <2>5 DEF r
  <1>3. CASE f.first < 0
    <2> DEFINE g == NewFile(f.q, f.reports)
    <2>1. switchTs(f) = [g EXCEPT !.metas = f.metas]
      BY <1>1, <1>3 DEF switchTs
    <2>2. FileBase(g) /\ Empty(g) /\ g.reports = f.reports
      BY <1>1, <1>3, NewFileIs
    <2> HIDE DEF g
    <2>3. [g EXCEPT !.metas = {}] = g
      <3>1. g \in Files /\ g.metas = {}
        BY <2>2 DEF FileBase, Empty
      <3> DEFINE m0 == {}
                 h == [g EXCEPT !.metas = m0]
      <3>2. g.metas = m0
        BY <3>1
      <3> HIDE DEF m0
      <3>3. h \in Files /\ g \in Files
        BY <3>1, <3>2 DEF Files
      <3>4. h.metas = g.metas
        BY <3>1, <3>2 DEF Files
      <3>5. h = g
        BY <3>1, <3>2 DEF Files
      <3>6. QED
        BY <3>5 DEF m0
    <2>4. switchTs(f) = g
      BY <1>3, <2>1, <2>3
    <2>5. QED
      BY <1>1, <1>3, <2>2, <2>4
  <1>4. QED
    BY <1>1, <1>2, <1>3

(* A frame that was accepted: how the file g follows from f.               *)
Accepted(f, g, t, pid, fr, n, v) ==
  /\ Started(f, t) /\ GoodFrame(pid, fr) /\ n = Len(CutOf(pid, fr)) /\ n \in Nat \ {0}
  /\ Wrote(t, pid, fr, n, v)
  /\ g.ctx = v.ctx /\ g.q = v.q
  /\ g.first = IF f.first < 0 THEN fr.pts ELSE f.first
  /\ g.keyLost = IF f.first < 0 THEN keyLost ELSE f.keyLost
  /\ g.last = fr.pts
  /\ g.firstVideo = IF pid = "video" /\ f.firstVideo <= 0 THEN fr.pts ELSE f.firstVideo
  /\ g.lastVideo = IF pid = "video" THEN fr.pts ELSE f.lastVideo
  /\ g.metas = f.metas \cup (IF fr.key /\ v.ok
                             THEN {[nOffset |-> v.ctx.nCurrentPos - v.len, nLength |-> v.len]}
                             ELSE {})

LEMMA AddedNoEnd ==
  ASSUME NEW s \in Seq(Reports), NEW a, a = <<>> \/ \E r \in Reports : a = <<r>> /\ r.type # "END"
  PROVE  /\ s \o a \in Seq(Reports)
         /\ \A i \in DOMAIN (s \o a) : (s \o a)[i].type = "END" => i \in DOMAIN s /\ (s \o a)[i] = s[i]
  <1>1. CASE a = <<>>
    BY <1>1, ConcatEmptySeq
  <1>2. ASSUME NEW r \in Reports, a = <<r>>, r.type # "END"
        PROVE  /\ s \o a \in Seq(Reports)
               /\ \A i \in DOMAIN (s \o a) : (s \o a)[i].type = "END" => i \in DOMAIN s /\ (s \o a)[i] = s[i]
    <2>1. a \in Seq(Reports) /\ Len(a) = 1 /\ a[1] = r
      BY <1>2
    <2>2. /\ s \o a \in Seq(Reports) /\ Len(s \o a) = Len(s) + 1
          /\ \A i \in 1 .. Len(s) + 1 : (s \o a)[i] = IF i <= Len(s) THEN s[i] ELSE a[i - Len(s)]
      <3>1. /\ s \o a \in Seq(Reports) /\ Len(s \o a) = Len(s) + Len(a)
            /\ \A i \in 1 .. Len(s) + Len(a) : (s \o a)[i] = IF i <= Len(s) THEN s[i] ELSE a[i - Len(s)]
        BY <2>1, ConcatProperties
      <3>2. QED
        BY <2>1, <3>1
    <2> DEFINE u == s \o a
    <2> HIDE DEF u
    <2>3. ASSUME NEW i \in DOMAIN u, u[i].type = "END"
          PROVE  i \in DOMAIN s /\ u[i] = s[i]
      <3>1. i \in 1 .. Len(s) + 1
        BY <2>2 DEF u
      <3>2. CASE i <= Len(s)
        BY <2>2, <3>1, <3>2 DEF u
      <3>3. CASE i = Len(s) + 1
        <4>1. u[i] = a[1]
          BY <2>2, <3>3 DEF u
        <4>2. QED
          BY <1>2, <2>1, <2>3, <4>1
      <3>4. QED
        BY <3>1, <3>2, <3>3
    <2>4. QED
      BY <2>2, <2>3 DEF u
  <1>3. QED
    BY <1>1, <1>2

LEMMA AcceptedIs ==
  ASSUME NEW f, FileBase(f), NEW t, NEW pid, NEW fr, NEW n \in Nat \ {0}, NEW v, NEW video, NEW force,
         NEW key, video = (pid = "video"), key = fr.key, force \in BOOLEAN, keyLost \in BOOLEAN,
         Started(f, t), GoodFrame(pid, fr), n = Len(CutOf(pid, fr)), Wrote(t, pid, fr, n, v), NEW g,
         g = indexed(accepted(f, v, video, fr.pts, force), v, key)
  PROVE  FileBase(g) /\ Accepted(f, g, t, pid, fr, n, v) /\ NoNewEnd(f, g)
  <1> DEFINE pts == fr.pts
             starts == f.first < 0
             seg == IF force THEN <<TimeInfo(f, "SEG")>> ELSE <<>>
             start == IF starts THEN <<TimeInfo(f, "START")>> ELSE <<>>
             reports == (f.reports \o seg) \o start
             first == IF starts THEN pts ELSE f.first
             lost == IF starts THEN keyLost ELSE f.keyLost
             firstV == IF video /\ f.firstVideo <= 0 THEN pts ELSE f.firstVideo
             lastV == IF video THEN pts ELSE f.lastVideo
             a == accepted(f, v, video, pts, force)
             m == [nOffset |-> v.ctx.nCurrentPos - v.len, nLength |-> v.len]
             metas == f.metas \cup (IF key /\ v.ok THEN {m} ELSE {})
  <1>1. /\ f \in Files /\ f.reports \in Seq(Reports) /\ f.first \in Int /\ f.firstVideo \in Int
        /\ f.lastVideo \in Int /\ f.keyLost \in BOOLEAN
        /\ f.metas \in SUBSET [nOffset : Int, nLength : Nat]
    BY DEF FileBase, Files
  <1>2. pts \in Nat /\ pts >= 1
    BY TsMuxUploaderAssumption DEF GoodFrame, Pts
  <1>3. /\ v.ctx \in Contexts /\ v.q \in [made : BOOLEAN, pkts : Seq(AnyPacket)] /\ QueueTyped(v.q)
        /\ v.len \in Nat /\ v.ok \in BOOLEAN /\ v.ctx.nCurrentPos \in Int /\ v.q.made
        /\ v.ctx.isTableWrited
    <2>1. v.ctx.isTableWrited
      BY DEF Wrote, SameFlags, Started
    <2>2. v.q.made
      BY DEF Wrote
    <2>3. QED
      BY <2>1, <2>2 DEF Wrote, WTyped, Contexts
  <1>4. seg = <<>> \/ \E r \in Reports : seg = <<r>> /\ r.type # "END"
    BY <1>1, TimeInfoTyped
  <1>5. start = <<>> \/ \E r \in Reports : start = <<r>> /\ r.type # "END"
    BY <1>1, TimeInfoTyped
  <1>6. /\ reports \in Seq(Reports)
        /\ \A i \in DOMAIN reports : reports[i].type = "END" => i \in DOMAIN f.reports /\ reports[i] = f.reports[i]
    <2> DEFINE u == f.reports \o seg
    <2>1. /\ u \in Seq(Reports)
          /\ \A i \in DOMAIN u : u[i].type = "END" => i \in DOMAIN f.reports /\ u[i] = f.reports[i]
      <3> HIDE DEF seg
      <3>1. QED
        BY <1>1, <1>4, AddedNoEnd
    <2> HIDE DEF u
    <2>2. /\ u \o start \in Seq(Reports)
          /\ \A i \in DOMAIN (u \o start) : (u \o start)[i].type = "END" => i \in DOMAIN u /\ (u \o start)[i] = u[i]
      <3> HIDE DEF start
      <3>1. QED
        BY <1>5, <2>1, AddedNoEnd
    <2>3. reports = u \o start
      BY DEF u
    <2> HIDE DEF reports, start
    <2>4. QED
      BY <2>1, <2>2, <2>3
  <1>7. a = [f EXCEPT !.ctx = v.ctx, !.q = v.q, !.first = first, !.keyLost = lost, !.last = pts,
                      !.firstVideo = firstV, !.lastVideo = lastV, !.reports = reports]
    BY DEF accepted
  <1>8. first \in Int /\ lost \in BOOLEAN /\ firstV \in Int /\ lastV \in Int /\ pts \in Int
    BY <1>1, <1>2
  <1>9. first >= 0 /\ first \in Int
    BY <1>1, <1>2
  <1>10. m \in [nOffset : Int, nLength : Nat]
    BY <1>3
  <1>11. metas \in SUBSET [nOffset : Int, nLength : Nat]
    BY <1>1, <1>10
  <1> HIDE DEF reports, first, lost, firstV, lastV, a, pts
  <1>12. /\ a \in Files /\ a.ctx = v.ctx /\ a.q = v.q /\ a.first = first /\ a.keyLost = lost
         /\ a.last = pts /\ a.firstVideo = firstV /\ a.lastVideo = lastV /\ a.reports = reports
         /\ a.metas = f.metas
    <2>1. a \in Files
      <3> DEFINE S == SUBSET [nOffset : Int, nLength : Nat]
                 Q == [made : BOOLEAN, pkts : Seq(AnyPacket)]
                 R == Seq(Reports)
                 c == v.ctx
                 q == v.q
      <3>1. Files = [ctx : Contexts, q : Q, metas : S,
                     first : Int, last : Int, firstVideo : Int, lastVideo : Int,
                     keyLost : BOOLEAN, reports : R]
        BY DEF Files
      <3>2. c \in Contexts /\ q \in Q /\ reports \in R
        BY <1>3, <1>6
      <3>3. a = [f EXCEPT !.ctx = c, !.q = q, !.first = first, !.keyLost = lost, !.last = pts,
                          !.firstVideo = firstV, !.lastVideo = lastV, !.reports = reports]
        BY <1>7
      <3> HIDE DEF S, Q, R, c, q
      <3>4. f \in Files
        BY <1>1
      <3>5. QED
        BY <1>8, <3>1, <3>2, <3>3, <3>4
    <2>2. QED
      BY <1>1, <1>7, <2>1 DEF Files
  <1>13. g = [a EXCEPT !.metas = metas]
    <2>1. g = IF key /\ v.ok THEN [a EXCEPT !.metas = @ \cup {m}] ELSE a
      BY DEF indexed, a, pts
    <2>2. CASE key /\ v.ok
      <3>1. metas = a.metas \cup {m}
        BY <1>12, <2>2
      <3> HIDE DEF m, metas
      <3>2. QED
        BY <2>1, <2>2, <3>1
    <2>3. CASE ~(key /\ v.ok)
      <3>1. metas = a.metas
        BY <1>12, <2>3
      <3> HIDE DEF m, metas
      <3>2. [a EXCEPT !.metas = metas] = a
        BY <1>12, <3>1 DEF Files
      <3>3. QED
        BY <2>1, <2>3, <3>2
    <2>4. QED
      BY <2>2, <2>3
  <1> HIDE DEF metas, m
  <1>14. g \in Files
    BY <1>11, <1>12, <1>13 DEF Files
  <1>15. /\ g.ctx = v.ctx /\ g.q = v.q /\ g.first = first /\ g.keyLost = lost
         /\ g.last = pts /\ g.firstVideo = firstV /\ g.lastVideo = lastV /\ g.reports = reports
         /\ g.metas = metas
    BY <1>12, <1>13 DEF Files
  <1>16. FileBase(g)
    BY <1>3, <1>9, <1>14, <1>15 DEF FileBase
  <1>17. Accepted(f, g, t, pid, fr, n, v)
    BY <1>15 DEF Accepted, first, lost, firstV, lastV, pts, metas, m
  <1>18. NoNewEnd(f, g)
    BY <1>6, <1>15 DEF NoNewEnd
  <1>19. QED
    BY <1>16, <1>17, <1>18

(* push's two results.                                                     *)
LEMMA PushedIs ==
  ASSUME NEW f, FileBase(f), NEW t, NEW pid, NEW fr, NEW v, NEW video, NEW force, NEW key,
         video = (pid = "video"), key = fr.key, force \in BOOLEAN, keyLost \in BOOLEAN,
         Started(f, t), GoodFrame(pid, fr), Muxed(t, pid, fr, v), NEW g,
         g = Pushed(f, v, video, key, fr.pts, force)
  PROVE  /\ FileBase(g)
         /\ \/ v.ret < 0 /\ Empty(g) /\ f.first < 0 /\ g.reports = f.reports
            \/ /\ v.ret >= 0 /\ NoNewEnd(f, g)
               /\ \E n \in Nat \ {0} : Accepted(f, g, t, pid, fr, n, v)
  <1>0. f \in Files /\ f.first \in Int /\ f.reports \in Seq(Reports) /\ f.metas = f.metas
    BY DEF FileBase, Files
  <1>1. CASE NotWritten(t, v)
    <2> DEFINE h == [f EXCEPT !.ctx = v.ctx, !.q = v.q]
    <2>1. v.ret < 0 /\ ~t.q.made /\ WTyped(v) /\ v.q = t.q
      BY <1>1 DEF NotWritten, NoBuffer
    <2>2. f.first < 0
      BY <1>0, <2>1 DEF Started
    <2>3. v.q.pkts = <<>> /\ QueueTyped(v.q)
      BY <2>1 DEF WTyped, QueueTyped
    <2>4. g = switchTs(h)
      BY <2>1 DEF Pushed
    <2>5. /\ h \in Files /\ h.q = v.q /\ h.first = f.first /\ h.metas = f.metas
          /\ h.reports = f.reports
      BY <1>0, <2>1 DEF Files, WTyped
    <2> HIDE DEF h
    <2>6. f.metas = {}
      BY <2>2 DEF FileBase
    <2>7. /\ FileBase(switchTs(h)) /\ Empty(switchTs(h)) /\ switchTs(h).reports = h.reports
      BY <2>2, <2>3, <2>5, <2>6, SwitchedIs
    <2>8. QED
      BY <2>1, <2>2, <2>4, <2>5, <2>7
  <1>2. CASE ~NoBuffer(t) /\ \E n \in Nat \ {0} : n = Len(CutOf(pid, fr)) /\ Wrote(t, pid, fr, n, v)
    <2>1. PICK n \in Nat \ {0} : n = Len(CutOf(pid, fr)) /\ Wrote(t, pid, fr, n, v)
      BY <1>2
    <2>2. v.ret >= 0 /\ ~(v.ret < 0)
      BY <2>1 DEF Wrote, WTyped
    <2>3. g = indexed(accepted(f, v, video, fr.pts, force), v, key)
      BY <2>2 DEF Pushed
    <2>4. FileBase(g) /\ Accepted(f, g, t, pid, fr, n, v) /\ NoNewEnd(f, g)
      BY <2>1, <2>3, AcceptedIs
    <2>5. QED
      BY <2>2, <2>4
  <1>3. QED
    BY <1>1, <1>2 DEF Muxed

-----------------------------------------------------------------------------
(* The continuity counters.                                                *)
LEMMA RemainderOfSum ==
  ASSUME NEW M \in Nat \ {0}, NEW x \in Nat, NEW y \in Nat
  PROVE  ((x % M) + y) % M = (x + y) % M
  <1>1. PICK q \in Int, r \in 0 .. M - 1 : x = M * q + r
    BY Divides
  <1>2. x % M = r /\ r \in Nat
    BY <1>1, RemainderIs
  <1> DEFINE z == r + y
  <1>3. z \in Nat
    BY <1>2
  <1> HIDE DEF z
  <1>4. PICK q2 \in Int, r2 \in 0 .. M - 1 : z = M * q2 + r2
    BY <1>3, Divides
  <1>5. z % M = r2
    BY <1>3, <1>4, RemainderIs
  <1> DEFINE s == x + y
             q3 == q + q2
  <1>6. s = M * q3 + r2 /\ q3 \in Int /\ s \in Nat
    <2>1. s = M * q + (r + y)
      BY <1>1, <1>2
    <2>2. M * q + M * q2 = M * (q + q2)
      OBVIOUS
    <2> DEFINE a == M * q
               b == M * q2
               c == M * (q + q2)
    <2>3. a \in Int /\ b \in Int /\ c = a + b /\ s = a + z /\ z = b + r2 /\ r2 \in Int
      BY <1>3, <1>4, <2>1, <2>2 DEF z
    <2>4. s = c + r2
      <3> HIDE DEF a, b, c, s, z
      <3>1. QED
        BY <2>3
    <2>5. QED
      BY <2>4
  <1> HIDE DEF s, q3
  <1>7. s % M = r2
    BY <1>6, RemainderIs
  <1>8. QED
    BY <1>2, <1>5, <1>7 DEF s, z

CountOf(p, pid, n) == Cardinality({j \in 1 .. n : p[j].pid = pid})

LEMMA CountTyped ==
  ASSUME NEW p, NEW pid, NEW n \in Nat
  PROVE  IsFiniteSet({j \in 1 .. n : p[j].pid = pid}) /\ CountOf(p, pid, n) \in Nat
  <1>1. IsFiniteSet(1 .. n)
    BY FS_Interval
  <1>2. {j \in 1 .. n : p[j].pid = pid} \subseteq 1 .. n
    OBVIOUS
  <1>3. IsFiniteSet({j \in 1 .. n : p[j].pid = pid})
    BY <1>1, <1>2, FS_Subset
  <1>4. QED
    BY <1>3, FS_CardinalityType DEF CountOf

LEMMA CountSame ==
  ASSUME NEW p, NEW s, NEW pid, NEW n \in Nat, \A j \in 1 .. n : s[j].pid = p[j].pid
  PROVE  CountOf(s, pid, n) = CountOf(p, pid, n)
  <1>1. {j \in 1 .. n : s[j].pid = pid} = {j \in 1 .. n : p[j].pid = pid}
    OBVIOUS
  <1>2. QED
    BY <1>1 DEF CountOf

Follows(p, s, new, n, m) == /\ \A j \in 1 .. n : s[j].pid = p[j].pid
                            /\ \A j \in n + 1 .. m : s[j].pid = new
LEMMA CountMore ==
  ASSUME NEW p, NEW s, NEW new, NEW pid, NEW n \in Nat, NEW m \in Nat, n <= m,
         Follows(p, s, new, n, m)
  PROVE  /\ pid = new => CountOf(s, pid, m) = CountOf(p, pid, n) + (m - n)
         /\ pid # new => CountOf(s, pid, m) = CountOf(p, pid, n)
  <1> DEFINE A == {j \in 1 .. n : p[j].pid = pid}
             B == IF pid = new THEN n + 1 .. m ELSE {}
             C == {j \in 1 .. m : s[j].pid = pid}
  <1>0. /\ \A j \in 1 .. n : s[j].pid = p[j].pid
        /\ \A j \in n + 1 .. m : s[j].pid = new
    BY DEF Follows
  <1>1. C = A \cup B
    <2>1. \A j \in 1 .. m : j \in 1 .. n \/ j \in n + 1 .. m
      OBVIOUS
    <2>2. ASSUME NEW j \in C PROVE j \in A \cup B
      BY <1>0, <2>1
    <2>3. ASSUME NEW j \in A PROVE j \in C
      BY <1>0
    <2>4. ASSUME NEW j \in B PROVE j \in C
      BY <1>0
    <2> HIDE DEF A, B, C
    <2>5. QED
      BY <2>2, <2>3, <2>4
  <1>2. A \cap B = {}
    OBVIOUS
  <1>3. IsFiniteSet(A) /\ Cardinality(A) \in Nat
    BY CountTyped DEF CountOf
  <1>4. IsFiniteSet(B) /\ Cardinality(B) = IF pid = new THEN m - n ELSE 0
    <2>1. IsFiniteSet(n + 1 .. m) /\ Cardinality(n + 1 .. m) = IF n + 1 > m THEN 0 ELSE m - (n + 1) + 1
      <3> DEFINE a == n + 1
      <3>1. a \in Int /\ m \in Int
        OBVIOUS
      <3> HIDE DEF a
      <3>2. IsFiniteSet(a .. m) /\ Cardinality(a .. m) = IF a > m THEN 0 ELSE m - a + 1
        BY <3>1, FS_Interval
      <3>3. QED
        BY <3>2 DEF a
    <2>2. IsFiniteSet({}) /\ Cardinality({}) = 0
      BY FS_EmptySet
    <2>3. CASE pid = new
      <3>1. (IF n + 1 > m THEN 0 ELSE m - (n + 1) + 1) = m - n
        OBVIOUS
      <3>2. QED
        BY <2>1, <2>3, <3>1
    <2>4. CASE pid # new
      BY <2>2, <2>4
    <2>5. QED
      BY <2>3, <2>4
  <1> HIDE DEF A, B, C
  <1>5. Cardinality(A \cup B) = Cardinality(A) + Cardinality(B) - Cardinality(A \cap B)
    BY <1>3, <1>4, FS_Union
  <1>6. Cardinality(A \cap B) = 0
    BY <1>2, FS_EmptySet
  <1>7. Cardinality(C) = Cardinality(A) + (IF pid = new THEN m - n ELSE 0)
    BY <1>1, <1>3, <1>4, <1>5, <1>6
  <1>8. /\ pid = new => Cardinality(C) = Cardinality(A) + (m - n)
        /\ pid # new => Cardinality(C) = Cardinality(A)
    BY <1>3, <1>7
  <1>9. QED
    BY <1>8 DEF CountOf, A, C

LEMMA CountOther ==
  ASSUME NEW p, NEW s, NEW new, NEW pid, NEW n \in Nat, NEW m \in Nat, n <= m,
         Follows(p, s, new, n, m), pid # new
  PROVE  CountOf(s, pid, m) = CountOf(p, pid, n)
  <1>1. \A j \in 1 .. m : j \in 1 .. n \/ j \in n + 1 .. m
    OBVIOUS
  <1>2. {j \in 1 .. m : s[j].pid = pid} = {j \in 1 .. n : p[j].pid = pid}
    BY <1>1 DEF Follows
  <1>3. QED
    BY <1>2 DEF CountOf

(* The counter of each packet, and the next one of each PID.               *)
PacketsCounted(p) ==
  \A i \in 1 .. Len(p) :
    p[i].pid \notin Tables => p[i].cc = CountOf(p, p[i].pid, i - 1) % (MaxCounter + 1)
ContextCounted(p, ctx) ==
  Len(p) < FileCap =>
    \A pid \in {"audio", "video"} : ctx.nCounter[pid] = CountOf(p, pid, Len(p)) % (MaxCounter + 1)
CountersHold(q, ctx) == PacketsCounted(q.pkts) /\ ContextCounted(q.pkts, ctx)

LEMMA NoneCounted ==
  ASSUME NEW p, NEW ctx, Len(p) \in Nat, \A i \in 1 .. Len(p) : p[i].pid \in Tables,
         ctx.nCounter["audio"] = 0, ctx.nCounter["video"] = 0
  PROVE  PacketsCounted(p) /\ ContextCounted(p, ctx)
  <1>1. PacketsCounted(p)
    BY DEF PacketsCounted
  <1>2. ASSUME NEW pid \in {"audio", "video"}
        PROVE  ctx.nCounter[pid] = CountOf(p, pid, Len(p)) % (MaxCounter + 1)
    <2>1. {j \in 1 .. Len(p) : p[j].pid = pid} = {}
      BY DEF Tables
    <2>2. CountOf(p, pid, Len(p)) = 0
      BY <2>1, FS_EmptySet DEF CountOf
    <2>3. 0 % (MaxCounter + 1) = 0
      <3> DEFINE M == MaxCounter + 1
                 z == 0
      <3>1. M \in Nat \ {0} /\ z \in 0 .. M - 1
        BY TsMuxAssumption
      <3> HIDE DEF M, z
      <3>2. z % M = z
        BY <3>1, RemainderOfSmall
      <3>3. QED
        BY <3>2 DEF M, z
    <2>4. QED
      BY <2>2, <2>3
  <1>3. QED
    BY <1>1, <1>2 DEF ContextCounted

LEMMA StartedCounters ==
  ASSUME NEW f, CountersHold(f.q, f.ctx), NEW t, Started(f, t)
  PROVE  CountersHold(t.q, t.ctx)
  <1>1. CASE f.first >= 0 /\ t.q = f.q /\ t.ctx.nCounter = f.ctx.nCounter
    BY <1>1 DEF CountersHold, ContextCounted
  <1>2. CASE OnlyTables(t.q.pkts) /\ t.ctx.nCounter["audio"] = 0 /\ t.ctx.nCounter["video"] = 0
    <2>1. Len(t.q.pkts) \in Nat
      BY DEF Started, WTyped
    <2>2. QED
      BY <1>2, <2>1, NoneCounted DEF CountersHold, OnlyTables
  <1>3. QED
    BY <1>1, <1>2 DEF Started

(* The packets s of a file that held p, once a frame was written.          *)
Grown(p, s, c, pid, fr, n) ==
  /\ p \in Seq(AnyPacket) /\ s \in Seq(AnyPacket)
  /\ Len(p) \in Nat /\ Len(s) \in Nat /\ Len(p) <= Len(s)
  /\ Len(s) = Least(Len(p) + n, FileCap) /\ Len(p) <= FileCap
  /\ \A i \in 1 .. Len(p) : s[i] = p[i]
  /\ \A i \in Len(p) + 1 .. Len(s) :
       /\ s[i].pid = pid /\ s[i].frame = fr /\ s[i].first = (i = Len(p) + 1)
       /\ s[i].cc = (c + (i - Len(p) - 1)) % (MaxCounter + 1)
       /\ s[i].parts = CutOf(pid, fr)[i - Len(p)]

LEMMA WroteGrown ==
  ASSUME NEW t, WTyped(t), NEW pid, NEW fr, NEW n \in Nat \ {0}, NEW v, Wrote(t, pid, fr, n, v)
  PROVE  Grown(t.q.pkts, v.q.pkts, t.ctx.nCounter[pid], pid, fr, n)
  <1> DEFINE p == t.q.pkts
             s == v.q.pkts
             c == t.ctx.nCounter[pid]
  <1>1. /\ p \in Seq(AnyPacket) /\ s \in Seq(AnyPacket) /\ Len(p) \in Nat /\ Len(s) \in Nat
        /\ Len(p) <= FileCap
    BY DEF Wrote, WTyped, QueueTyped
  <1>2. /\ Len(s) = Least(Len(p) + n, FileCap)
        /\ \A i \in 1 .. Len(p) : s[i] = p[i]
        /\ \A i \in 1 .. Len(s) - Len(p) : s[Len(p) + i] = NewPacket(t, pid, fr, i)
    BY DEF Wrote, WrotePackets, Longer
  <1> HIDE DEF p, s, c
  <1>3. Len(p) <= Len(s)
    BY <1>1, <1>2, TsMuxAssumption DEF Least
  <1>4. ASSUME NEW i \in Len(p) + 1 .. Len(s)
        PROVE  /\ s[i].pid = pid /\ s[i].frame = fr /\ s[i].first = (i = Len(p) + 1)
               /\ s[i].cc = (c + (i - Len(p) - 1)) % (MaxCounter + 1)
               /\ s[i].parts = CutOf(pid, fr)[i - Len(p)]
    <2> DEFINE k == i - Len(p)
    <2>1. k \in 1 .. Len(s) - Len(p) /\ Len(p) + k = i /\ k \in Int
      BY <1>1
    <2>2. s[i] = NewPacket(t, pid, fr, k)
      <3> HIDE DEF k
      <3>1. s[Len(p) + k] = NewPacket(t, pid, fr, k)
        BY <1>2, <2>1
      <3>2. QED
        BY <2>1, <3>1
    <2>3. (k = 1) = (i = Len(p) + 1) /\ k - 1 = i - Len(p) - 1 /\ k = i - Len(p)
      BY <1>1
    <2> HIDE DEF k
    <2>4. QED
      BY <2>2, <2>3 DEF NewPacket, c
  <1>5. Grown(p, s, c, pid, fr, n)
    BY <1>1, <1>2, <1>3, <1>4 DEF Grown
  <1>6. QED
    BY <1>5 DEF p, s, c

LEMMA WroteCounted ==
  ASSUME NEW t, WTyped(t), NEW pid \in {"audio", "video"}, NEW fr, NEW n \in Nat \ {0}, NEW v,
         Wrote(t, pid, fr, n, v), CountersHold(t.q, t.ctx)
  PROVE  CountersHold(v.q, v.ctx)
  <1> DEFINE p == t.q.pkts
             s == v.q.pkts
             c == t.ctx.nCounter[pid]
             L == Len(p)
             N == Len(s)
             M == MaxCounter + 1
  <1>0. M \in Nat \ {0} /\ FileCap \in Nat \ {0} /\ pid \in Pids
    BY TsMuxAssumption DEF Pids
  <1>1. Grown(p, s, c, pid, fr, n)
    BY WroteGrown
  <1>2. PacketsCounted(p) /\ ContextCounted(p, t.ctx)
    BY DEF CountersHold
  <1>3. WroteCounters(t, pid, n, v)
    BY DEF Wrote
  <1>4. c \in Nat
    BY <1>0, TsMuxAssumption DEF WTyped, Contexts
  <1>5. L < FileCap => c = CountOf(p, pid, L) % M
    BY <1>2 DEF ContextCounted
  <1>6. L < FileCap => \A x \in {"audio", "video"} : t.ctx.nCounter[x] = CountOf(p, x, L) % M
    BY <1>2 DEF ContextCounted
  <1> HIDE DEF p, s, c, L, N, M
  <1>7. /\ L \in Nat /\ N \in Nat /\ L <= N /\ N = Least(L + n, FileCap) /\ L <= FileCap
        /\ \A i \in 1 .. L : s[i] = p[i]
        /\ \A i \in L + 1 .. N : s[i].pid = pid /\ s[i].cc = (c + (i - L - 1)) % M
    BY <1>1 DEF Grown, L, N, M
  <1>8. N <= FileCap
    BY <1>0, <1>7 DEF Least
  <1>9. ASSUME NEW i \in 1 .. N, s[i].pid \notin Tables
        PROVE  s[i].cc = CountOf(s, s[i].pid, i - 1) % M
    <2>1. CASE i <= L
      <3>1. i \in 1 .. L /\ i - 1 \in Nat /\ s[i] = p[i] /\ \A j \in 1 .. i - 1 : s[j].pid = p[j].pid
        BY <1>7, <2>1
      <3>2. p[i].cc = CountOf(p, p[i].pid, i - 1) % M
        BY <1>2, <1>9, <3>1 DEF PacketsCounted, L, M
      <3>3. CountOf(s, s[i].pid, i - 1) = CountOf(p, s[i].pid, i - 1)
        BY <3>1, CountSame
      <3>4. QED
        BY <3>1, <3>2, <3>3
    <2>2. CASE i > L
      <3> DEFINE k == i - L - 1
                 x == CountOf(p, pid, L)
      <3>1. /\ i \in L + 1 .. N /\ i - 1 \in Nat /\ L <= i - 1 /\ k \in Nat /\ (i - 1) - L = k
            /\ L < FileCap
        <4>1. i \in Int /\ i <= N /\ i > L
          BY <1>7, <2>2
        <4>2. L \in Nat /\ N \in Nat /\ N <= FileCap /\ FileCap \in Nat
          BY <1>0, <1>7, <1>8
        <4>3. QED
          BY <4>1, <4>2
      <3>2. s[i].pid = pid /\ s[i].cc = (c + k) % M
        BY <1>7, <3>1
      <3>3. CountOf(s, pid, i - 1) = x + k
        <4> DEFINE m == i - 1
        <4>1. /\ m \in Nat /\ L <= m /\ m - L = k
              /\ Follows(p, s, pid, L, m)
          BY <1>7, <3>1 DEF Follows
        <4> HIDE DEF m, k
        <4>2. CountOf(s, pid, m) = CountOf(p, pid, L) + (m - L)
          BY <1>7, <4>1, CountMore
        <4>3. QED
          BY <4>1, <4>2 DEF m
      <3>4. x \in Nat
        BY <1>7, CountTyped
      <3>5. c = x % M
        BY <1>5, <3>1
      <3> HIDE DEF k, x
      <3>6. ((x % M) + k) % M = (x + k) % M
        BY <1>0, <3>1, <3>4, RemainderOfSum
      <3>7. QED
        BY <3>2, <3>3, <3>5, <3>6
    <2>3. QED
      BY <1>7, <2>1, <2>2
  <1>13. Follows(p, s, pid, L, N) /\ L \in Nat /\ N \in Nat /\ L <= N
    BY <1>7 DEF Follows
  <1>14. ASSUME NEW x
         PROVE  /\ x = pid => CountOf(s, x, N) = CountOf(p, x, L) + (N - L)
                /\ x # pid => CountOf(s, x, N) = CountOf(p, x, L)
    <2> DEFINE q == pid
    <2> HIDE DEF q
    <2>1. Follows(p, s, q, L, N)
      BY <1>13 DEF q
    <2>2. CASE x = q
      <3>1. CountOf(s, q, N) = CountOf(p, q, L) + (N - L)
        BY <1>13, <2>1, CountMore
      <3>2. QED
        BY <2>2, <3>1 DEF q
    <2>3. CASE x # q
      <3>1. CountOf(s, x, N) = CountOf(p, x, L)
        BY <1>13, <2>1, <2>3, CountOther
      <3>2. QED
        BY <2>3, <3>1 DEF q
    <2>4. QED
      BY <2>2, <2>3
  <1>10. ASSUME NEW x \in {"audio", "video"}, N < FileCap
         PROVE  v.ctx.nCounter[x] = CountOf(s, x, N) % M
    <2>1. N = L + n /\ L < FileCap /\ N - L = n /\ n \in Nat
      BY <1>0, <1>7, <1>10 DEF Least
    <2>2. /\ x = pid => CountOf(s, x, N) = CountOf(p, x, L) + (N - L)
          /\ x # pid => CountOf(s, x, N) = CountOf(p, x, L)
      BY <1>14
    <2>3. CountOf(p, x, L) \in Nat
      BY <1>7, CountTyped
    <2>4. t.ctx.nCounter[x] = CountOf(p, x, L) % M
      BY <1>6, <2>1
    <2>5. CASE x = pid
      <3> DEFINE y == CountOf(p, x, L)
      <3>1. v.ctx.nCounter[x] = (t.ctx.nCounter[x] + n) % M
        BY <1>0, <1>3, <2>5 DEF WroteCounters, M
      <3>2. y \in Nat
        BY <2>3
      <3> HIDE DEF y
      <3>3. ((y % M) + n) % M = (y + n) % M
        BY <1>0, <2>1, <3>2, RemainderOfSum
      <3>4. CountOf(s, x, N) = y + n
        BY <2>1, <2>2, <2>5 DEF y
      <3>5. t.ctx.nCounter[x] = y % M
        BY <2>4 DEF y
      <3>6. QED
        BY <3>1, <3>3, <3>4, <3>5
    <2>6. CASE x # pid
      <3>1. x \in Pids
        BY DEF Pids
      <3>2. v.ctx.nCounter[x] = t.ctx.nCounter[x]
        BY <1>3, <2>6, <3>1 DEF WroteCounters
      <3>3. CountOf(s, x, N) = CountOf(p, x, L)
        BY <2>2, <2>3, <2>6
      <3>4. QED
        BY <2>4, <3>2, <3>3
    <2>7. QED
      BY <2>5, <2>6
  <1>11. PacketsCounted(s)
    BY <1>9 DEF PacketsCounted, N, M
  <1>12. ContextCounted(s, v.ctx)
    BY <1>10 DEF ContextCounted, N, M
  <1>15. QED
    BY <1>11, <1>12 DEF CountersHold, s


-----------------------------------------------------------------------------
(* What is known of a file at any time.  Its non-table packets carry       *)
(* frames as they were pushed.                                             *)
FramesGood(p) ==
  \A i \in 1 .. Len(p) : p[i].pid \notin Tables => GoodFrame(p[i].pid, p[i].frame)

(* The packets of a frame follow one another as they were cut, to the last *)
(* one or to the end of a full file; no packet comes without those before. *)
Set(p, i, cut) ==
  /\ \A k \in 1 .. Len(cut) : i + k - 1 <= Len(p) =>
       /\ p[i + k - 1].pid = p[i].pid /\ p[i + k - 1].frame = p[i].frame
       /\ p[i + k - 1].first = (k = 1) /\ p[i + k - 1].parts = cut[k]
  /\ i + Len(cut) - 1 <= Len(p) \/ Len(p) = FileCap
  /\ i + Len(cut) <= Len(p) => p[i + Len(cut)].first
FramesSet(p) ==
  /\ \A i \in 1 .. Len(p) : p[i].first \/ (i > 1 /\ p[i-1].pid = p[i].pid)
  /\ \A i \in 1 .. Len(p) :
       p[i].first /\ p[i].pid \notin Tables => Set(p, i, CutOf(p[i].pid, p[i].frame))

(* The first frame is a key frame; a frame is missing only in a full file. *)
Leads(p, i) == p[i].pid \notin Tables /\ \A j \in 1 .. i - 1 : p[j].pid \in Tables
HasFrame(p) == \E i \in 1 .. Len(p) : p[i].pid \notin Tables
KeyLeads(p, lost) == \A i \in 1 .. Len(p) : Leads(p, i) => p[i].frame.key \/ lost

(* The entries of the index are right, and the position is the number of   *)
(* packets unless some found no room.                                      *)
Begins(p) == Len(p) >= 2 /\ p[1].pid = "PAT" /\ p[2].pid = "PMT"
EntryRight(p, m) ==
  LET from == m.nOffset + 1
      to == m.nOffset + m.nLength
  IN /\ from >= 1 /\ from <= to /\ to <= Len(p)
     /\ \A i \in from .. to : /\ p[i].pid = "video" /\ p[i].frame.key
                              /\ p[i].first <=> i = from
     /\ to < Len(p) => p[to + 1].first
     /\ BytesOf(p, from, to) = p[from].frame.es
IndexRight(p, metas, pos) ==
  Begins(p) => /\ \A m \in metas : EntryRight(p, m)
               /\ Len(p) < FileCap => pos = Len(p)

(* a and b are the times of the first and the last frame of pids, or 0.    *)
StartsOf(p, pids) == {i \in 1 .. Len(p) : p[i].first /\ p[i].pid \in pids}
Spanned(p, pids, a, b) ==
  IF StartsOf(p, pids) = {} THEN a = 0 /\ b = 0
  ELSE \E lo, hi \in StartsOf(p, pids) :
         /\ \A j \in StartsOf(p, pids) : lo <= j /\ j <= hi
         /\ a = p[lo].frame.pts /\ b = p[hi].frame.pts /\ a >= 1
Media == {"video", "audio"}

Spans(f) ==
  /\ f.first < 0 => f.firstVideo = 0 /\ f.lastVideo = 0
  /\ f.first >= 0 /\ Len(f.q.pkts) < FileCap =>
       /\ StartsOf(f.q.pkts, Media) # {}
       /\ Spanned(f.q.pkts, Media, f.first, f.last)
       /\ Spanned(f.q.pkts, {"video"}, f.firstVideo, f.lastVideo)
KeyFirst(f) ==
  /\ KeyLeads(f.q.pkts, f.keyLost)
  /\ f.first >= 0 /\ Len(f.q.pkts) < FileCap => HasFrame(f.q.pkts)
FileInv(f) ==
  /\ FileBase(f)
  /\ CountersHold(f.q, f.ctx)
  /\ FramesGood(f.q.pkts)
  /\ FramesSet(f.q.pkts)
  /\ KeyFirst(f)
  /\ IndexRight(f.q.pkts, f.metas, f.ctx.nCurrentPos)
  /\ Spans(f)

(* The inductive invariant: a key frame was counted that is in no file     *)
(* only if keyLost says so.                                                *)
Inv ==
  /\ FileInv(file)
  /\ keyLost \in BOOLEAN /\ nKeyFrameCount \in Int /\ isQuit \in BOOLEAN
  /\ file.first < 0 /\ nKeyFrameCount > 0 /\ ~isQuit => keyLost

LEMMA SameInv ==
  ASSUME NEW f, FileInv(f), NEW g, FileBase(g), SameFile(f, g)
  PROVE  FileInv(g)
  BY DEF FileInv, SameFile, KeyFirst, Spans

LEMMA EmptyInv ==
  ASSUME NEW g, FileBase(g), Empty(g)
  PROVE  FileInv(g)
  <1> DEFINE p == g.q.pkts
             none == {}
  <1>1. /\ g.first = -1 /\ g.first < 0 /\ ~(g.first >= 0) /\ p = <<>> /\ Len(p) = 0 /\ g.metas = none
        /\ g.firstVideo = 0 /\ g.lastVideo = 0 /\ g.ctx = NewTsMuxerContext
    BY DEF Empty, FileBase
  <1>2. \A i \in 1 .. Len(p) : FALSE
    BY <1>1
  <1>3. FramesGood(p) /\ FramesSet(p) /\ KeyLeads(p, g.keyLost)
    BY <1>2 DEF FramesGood, FramesSet, KeyLeads
  <1>4. CountersHold(g.q, g.ctx)
    <2>1. g.ctx.nCounter["audio"] = 0 /\ g.ctx.nCounter["video"] = 0
      BY <1>1 DEF NewTsMuxerContext, Pids
    <2>2. PacketsCounted(p) /\ ContextCounted(p, g.ctx)
      BY <1>1, <1>2, <2>1, NoneCounted
    <2>3. QED
      BY <2>2 DEF CountersHold
  <1>5. IndexRight(p, g.metas, g.ctx.nCurrentPos)
    BY <1>1 DEF IndexRight, Begins
  <1>6. KeyFirst(g) /\ Spans(g)
    BY <1>1, <1>3 DEF KeyFirst, Spans
  <1>7. QED
    BY <1>3, <1>4, <1>5, <1>6 DEF FileInv

-----------------------------------------------------------------------------
(* The packets s that a frame made of p keep what is known of p.           *)
LEMMA GrownFrames ==
  ASSUME NEW p, NEW s, NEW c, NEW pid, NEW fr, NEW n, Grown(p, s, c, pid, fr, n),
         GoodFrame(pid, fr), FramesGood(p)
  PROVE  FramesGood(s)
  <1> DEFINE L == Len(p)
             N == Len(s)
  <1>1. /\ L \in Nat /\ N \in Nat
        /\ \A i \in 1 .. L : s[i] = p[i]
        /\ \A i \in L + 1 .. N : s[i].pid = pid /\ s[i].frame = fr
    BY DEF Grown
  <1>2. \A i \in 1 .. L : p[i].pid \notin Tables => GoodFrame(p[i].pid, p[i].frame)
    BY DEF FramesGood
  <1> HIDE DEF L, N
  <1>3. ASSUME NEW i \in 1 .. N, s[i].pid \notin Tables
        PROVE  GoodFrame(s[i].pid, s[i].frame)
    <2>1. i \in 1 .. L \/ i \in L + 1 .. N
      BY <1>1
    <2>2. CASE i \in 1 .. L
      BY <1>1, <1>2, <1>3, <2>2
    <2>3. CASE i \in L + 1 .. N
      BY <1>1, <2>3
    <2>4. QED
      BY <2>1, <2>2, <2>3
  <1>4. QED
    BY <1>3 DEF FramesGood, N

LEMMA GrownSet ==
  ASSUME NEW p, NEW s, NEW c, NEW pid, NEW fr, NEW n, Grown(p, s, c, pid, fr, n),
         FramesGood(p), FramesSet(p), GoodFrame(pid, fr), n = Len(CutOf(pid, fr))
  PROVE  FramesSet(s)
  <1> DEFINE L == Len(p)
             N == Len(s)
  <1>0. FileCap \in Nat /\ n \in Nat \ {0}
    BY TsMuxAssumption, GoodCut
  <1>1. /\ L \in Nat /\ N \in Nat /\ L <= N /\ N = Least(L + n, FileCap) /\ L <= FileCap
        /\ \A i \in 1 .. L : s[i] = p[i]
        /\ \A i \in L + 1 .. N : /\ s[i].pid = pid /\ s[i].frame = fr /\ s[i].first = (i = L + 1)
                                /\ s[i].parts = CutOf(pid, fr)[i - L]
    BY DEF Grown
  <1>2. /\ \A i \in 1 .. L : p[i].first \/ (i > 1 /\ p[i-1].pid = p[i].pid)
        /\ \A i \in 1 .. L :
             p[i].first /\ p[i].pid \notin Tables => Set(p, i, CutOf(p[i].pid, p[i].frame))
        /\ \A i \in 1 .. L : p[i].pid \notin Tables => GoodFrame(p[i].pid, p[i].frame)
    BY DEF FramesSet, FramesGood
  <1>3. N <= FileCap /\ (N < L + n => N = FileCap) /\ N <= L + n
    BY <1>0, <1>1 DEF Least
  <1> HIDE DEF L, N
  <1>4. ASSUME NEW i \in 1 .. N
        PROVE  s[i].first \/ (i > 1 /\ s[i-1].pid = s[i].pid)
    <2>1. CASE i <= L
      <3>1. i \in 1 .. L /\ s[i] = p[i] /\ (i > 1 => i - 1 \in 1 .. L /\ s[i-1] = p[i-1])
        BY <1>1, <2>1
      <3>2. QED
        BY <1>2, <3>1
    <2>2. CASE i = L + 1
      <3>1. L + 1 \in L + 1 .. N
        BY <1>1, <2>2
      <3>2. s[L + 1].first = (L + 1 = L + 1)
        BY <1>1, <3>1
      <3>3. QED
        BY <2>2, <3>2
    <2>3. CASE i > L + 1
      <3>1. i \in L + 1 .. N /\ i - 1 \in L + 1 .. N /\ i > 1
        BY <1>1, <2>3
      <3>2. QED
        BY <1>1, <3>1
    <2>4. QED
      BY <1>1, <2>1, <2>2, <2>3
  <1>5. ASSUME NEW i \in 1 .. N, s[i].first, s[i].pid \notin Tables
        PROVE  Set(s, i, CutOf(s[i].pid, s[i].frame))
    <2> DEFINE cut == CutOf(s[i].pid, s[i].frame)
               m == Len(cut)
    <2>1. CASE i <= L
      <3>1. i \in 1 .. L /\ s[i] = p[i]
        BY <1>1, <2>1
      <3>2. Set(p, i, cut) /\ GoodFrame(s[i].pid, s[i].frame)
        BY <1>2, <1>5, <3>1
      <3>3. m \in Nat \ {0}
        BY <3>2, GoodCut
      <3> HIDE DEF cut
      <3>4. /\ \A k \in 1 .. m : i + k - 1 <= L =>
                 /\ p[i + k - 1].pid = p[i].pid /\ p[i + k - 1].frame = p[i].frame
                 /\ p[i + k - 1].first = (k = 1) /\ p[i + k - 1].parts = cut[k]
            /\ i + m - 1 <= L \/ L = FileCap
            /\ i + m <= L => p[i + m].first
        BY <3>2 DEF Set, L
      <3> HIDE DEF m
      <3>5. i + m - 1 <= L \/ N = L
        BY <1>1, <1>3, <3>4
      <3>6. ASSUME NEW k \in 1 .. m, i + k - 1 <= N
            PROVE  /\ s[i + k - 1].pid = s[i].pid /\ s[i + k - 1].frame = s[i].frame
                   /\ s[i + k - 1].first = (k = 1) /\ s[i + k - 1].parts = cut[k]
        <4>1. i + k - 1 \in 1 .. L /\ i + k - 1 <= L
          BY <1>1, <3>1, <3>3, <3>5, <3>6
        <4>2. s[i + k - 1] = p[i + k - 1]
          BY <1>1, <4>1
        <4>3. QED
          BY <3>1, <3>4, <4>1, <4>2
      <3>7. i + m - 1 <= N \/ N = FileCap
        BY <1>1, <1>3, <3>1, <3>3, <3>4
      <3>8. ASSUME i + m <= N PROVE s[i + m].first
        <4>1. CASE i + m <= L
          <5>1. i + m \in 1 .. L
            BY <1>1, <3>1, <3>3, <4>1
          <5>2. QED
            BY <1>1, <3>4, <4>1, <5>1
        <4>2. CASE i + m > L
          <5>1. i + m = L + 1 /\ i + m \in L + 1 .. N
            BY <1>1, <3>1, <3>3, <3>5, <3>8, <4>2
          <5>2. QED
            BY <1>1, <5>1
        <4>3. QED
          BY <1>1, <3>1, <3>3, <4>1, <4>2
      <3>9. QED
        BY <3>6, <3>7, <3>8 DEF Set, m, cut, N
    <2>2. CASE i > L
      <3>1. i \in L + 1 .. N
        BY <1>1, <2>2
      <3>2. i = L + 1 /\ cut = CutOf(pid, fr) /\ m = n /\ s[i].pid = pid /\ s[i].frame = fr
        BY <1>1, <1>5, <3>1
      <3> HIDE DEF cut, m
      <3>3. ASSUME NEW k \in 1 .. n, i + k - 1 <= N
            PROVE  /\ s[i + k - 1].pid = s[i].pid /\ s[i + k - 1].frame = s[i].frame
                   /\ s[i + k - 1].first = (k = 1) /\ s[i + k - 1].parts = cut[k]
        <4> DEFINE j == i + k - 1
        <4>1. j \in L + 1 .. N /\ j - L = k /\ (j = L + 1) = (k = 1)
          BY <1>0, <1>1, <3>2, <3>3
        <4> HIDE DEF j
        <4>2. s[j].pid = pid /\ s[j].frame = fr /\ s[j].first = (k = 1) /\ s[j].parts = cut[k]
          BY <1>1, <3>2, <4>1
        <4>3. QED
          BY <3>2, <4>2 DEF j
      <3>4. i + n - 1 <= N \/ N = FileCap
        BY <1>0, <1>1, <1>3, <3>2
      <3>5. ~(i + n <= N)
        BY <1>0, <1>1, <1>3, <3>2
      <3>6. Len(cut) = n
        BY <3>2 DEF m
      <3>7. QED
        BY <3>3, <3>4, <3>5, <3>6 DEF Set, cut, N
    <2>3. QED
      BY <1>1, <2>1, <2>2
  <1>6. QED
    BY <1>4, <1>5 DEF FramesSet, N

LEMMA GrownKey ==
  ASSUME NEW p, NEW s, NEW c, NEW pid, NEW fr, NEW n \in Nat, Grown(p, s, c, pid, fr, n),
         NEW lost, KeyLeads(p, lost), fr.key \/ lost \/ HasFrame(p) \/ Len(p) = FileCap
  PROVE  KeyLeads(s, lost)
  <1> DEFINE L == Len(p)
             N == Len(s)
  <1>0. FileCap \in Nat
    BY TsMuxAssumption
  <1>1. /\ L \in Nat /\ N \in Nat /\ N = Least(L + n, FileCap)
        /\ \A i \in 1 .. L : s[i] = p[i]
        /\ \A i \in L + 1 .. N : s[i].frame = fr
    BY DEF Grown
  <1>2. \A i \in 1 .. L : Leads(p, i) => p[i].frame.key \/ lost
    BY DEF KeyLeads
  <1>3. HasFrame(p) => \E k \in 1 .. L : p[k].pid \notin Tables
    BY DEF HasFrame
  <1>4. fr.key \/ lost \/ HasFrame(p) \/ L = FileCap
    OBVIOUS
  <1>5. N <= FileCap
    BY <1>0, <1>1 DEF Least
  <1> HIDE DEF L, N
  <1>6. ASSUME NEW i \in 1 .. N, Leads(s, i)
        PROVE  s[i].frame.key \/ lost
    <2>1. s[i].pid \notin Tables /\ \A j \in 1 .. i - 1 : s[j].pid \in Tables
      BY <1>6 DEF Leads
    <2>2. CASE i <= L
      <3>1. i \in 1 .. L /\ s[i] = p[i] /\ \A j \in 1 .. i - 1 : s[j] = p[j]
        BY <1>1, <2>2
      <3>2. Leads(p, i)
        BY <2>1, <3>1 DEF Leads
      <3>3. QED
        BY <1>2, <3>1, <3>2
    <2>3. CASE i > L
      <3>1. i \in L + 1 .. N /\ L # FileCap /\ s[i].frame = fr
        BY <1>0, <1>1, <1>5, <2>3
      <3>2. ~HasFrame(p)
        <4>1. ASSUME NEW k \in 1 .. L, p[k].pid \notin Tables PROVE FALSE
          <5>1. k \in 1 .. i - 1 /\ s[k] = p[k]
            BY <1>1, <2>3
          <5>2. QED
            BY <2>1, <4>1, <5>1
        <4>2. QED
          BY <1>3, <4>1
      <3>3. QED
        BY <1>4, <3>1, <3>2
    <2>4. QED
      BY <1>1, <2>2, <2>3
  <1>7. QED
    BY <1>6 DEF KeyLeads, N

LEMMA GrownHas ==
  ASSUME NEW p, NEW s, NEW c, NEW pid, NEW fr, NEW n \in Nat \ {0}, Grown(p, s, c, pid, fr, n),
         pid \notin Tables, Len(s) < FileCap
  PROVE  /\ HasFrame(s) /\ Len(s) = Len(p) + n /\ Len(p) < FileCap
         /\ s[Len(p) + 1].first /\ s[Len(p) + 1].pid = pid /\ s[Len(p) + 1].frame = fr
  <1> DEFINE L == Len(p)
             N == Len(s)
  <1>0. FileCap \in Nat
    BY TsMuxAssumption
  <1>1. /\ L \in Nat /\ N \in Nat /\ N = Least(L + n, FileCap) /\ N < FileCap
        /\ \A i \in L + 1 .. N : s[i].pid = pid /\ s[i].frame = fr /\ s[i].first = (i = L + 1)
    BY DEF Grown
  <1> HIDE DEF L, N
  <1>2. N = L + n /\ L < FileCap /\ L + 1 \in L + 1 .. N /\ L + 1 \in 1 .. N
    BY <1>0, <1>1 DEF Least
  <1>3. s[L + 1].pid = pid /\ s[L + 1].frame = fr /\ s[L + 1].first = (L + 1 = L + 1)
    BY <1>1, <1>2
  <1>4. HasFrame(s)
    BY <1>2, <1>3 DEF HasFrame, N
  <1>5. QED
    BY <1>2, <1>3, <1>4 DEF L, N

LEMMA GrownStarts ==
  ASSUME NEW p, NEW s, NEW c, NEW pid, NEW fr, NEW n \in Nat \ {0}, Grown(p, s, c, pid, fr, n),
         NEW pids, Len(s) < FileCap
  PROVE  StartsOf(s, pids) = StartsOf(p, pids) \cup (IF pid \in pids THEN {Len(p) + 1} ELSE {})
  <1> DEFINE L == Len(p)
             N == Len(s)
             A == StartsOf(s, pids)
             B == StartsOf(p, pids)
             C == IF pid \in pids THEN {L + 1} ELSE {}
  <1>0. FileCap \in Nat
    BY TsMuxAssumption
  <1>1. /\ L \in Nat /\ N \in Nat /\ N = Least(L + n, FileCap) /\ N < FileCap
        /\ \A i \in 1 .. L : s[i] = p[i]
        /\ \A i \in L + 1 .. N : s[i].pid = pid /\ s[i].frame = fr /\ s[i].first = (i = L + 1)
    BY DEF Grown
  <1>2. A = {i \in 1 .. N : s[i].first /\ s[i].pid \in pids}
    BY DEF StartsOf
  <1>3. B = {i \in 1 .. L : p[i].first /\ p[i].pid \in pids}
    BY DEF StartsOf
  <1> HIDE DEF L, N, A, B
  <1>4. L + 1 \in L + 1 .. N /\ L + 1 \in 1 .. N /\ L <= N
    BY <1>0, <1>1 DEF Least
  <1>5. ASSUME NEW i \in A PROVE i \in B \cup C
    <2>1. i \in 1 .. N /\ s[i].first /\ s[i].pid \in pids
      BY <1>2
    <2>2. i \in 1 .. L \/ i \in L + 1 .. N
      BY <1>1, <2>1
    <2>3. CASE i \in 1 .. L
      BY <1>1, <1>3, <2>1, <2>3
    <2>4. CASE i \in L + 1 .. N
      <3>1. i = L + 1 /\ pid \in pids
        BY <1>1, <2>1, <2>4
      <3>2. QED
        BY <3>1
    <2>5. QED
      BY <2>2, <2>3, <2>4
  <1>6. ASSUME NEW i \in B PROVE i \in A
    <2>1. i \in 1 .. L /\ p[i].first /\ p[i].pid \in pids
      BY <1>3
    <2>2. i \in 1 .. N /\ s[i] = p[i]
      BY <1>1, <1>4, <2>1
    <2>3. QED
      BY <1>2, <2>1, <2>2
  <1>7. ASSUME NEW i \in C PROVE i \in A
    <2>1. i = L + 1 /\ pid \in pids
      OBVIOUS
    <2>2. s[L + 1].pid = pid /\ s[L + 1].first = (L + 1 = L + 1)
      BY <1>1, <1>4
    <2>3. QED
      BY <1>2, <1>4, <2>1, <2>2
  <1> HIDE DEF C
  <1>8. A = B \cup C
    BY <1>5, <1>6, <1>7
  <1>9. QED
    BY <1>8 DEF A, B, C, L

LEMMA GrownSpanned ==
  ASSUME NEW p, NEW s, NEW c, NEW pid, NEW fr, NEW n \in Nat \ {0}, Grown(p, s, c, pid, fr, n),
         pid \notin Tables, NEW pids, Len(s) < FileCap, NEW a, NEW b, Spanned(p, pids, a, b),
         NEW k, a = 0 => k = fr.pts, a # 0 => k = a, fr.pts \in Nat \ {0}
  PROVE  /\ pid \in pids => Spanned(s, pids, k, fr.pts) /\ StartsOf(s, pids) # {}
         /\ pid \notin pids => Spanned(s, pids, a, b)
  <1> DEFINE A == StartsOf(p, pids)
             B == StartsOf(s, pids)
             L == Len(p)
  <1>1. B = A \cup (IF pid \in pids THEN {L + 1} ELSE {})
    BY GrownStarts
  <1>2. L \in Nat /\ s[L + 1].frame = fr /\ \A i \in 1 .. L : s[i] = p[i]
    <2>1. L \in Nat /\ \A i \in 1 .. L : s[i] = p[i]
      BY DEF Grown
    <2>2. s[L + 1].frame = fr
      BY GrownHas
    <2>3. QED
      BY <2>1, <2>2
  <1>3. A \subseteq 1 .. L
    BY DEF StartsOf
  <1>4. IF A = {} THEN a = 0 /\ b = 0
        ELSE \E lo, hi \in A : /\ \A j \in A : lo <= j /\ j <= hi
                               /\ a = p[lo].frame.pts /\ b = p[hi].frame.pts /\ a >= 1
    BY DEF Spanned
  <1> HIDE DEF A, B, L
  <1>5. CASE pid \in pids
    <2>1. B = A \cup {L + 1} /\ L + 1 \in B /\ B # {}
      BY <1>1, <1>5
    <2>2. \A j \in B : j <= L + 1
      BY <1>2, <1>3, <2>1
    <2>3. \E lo \in B : (\A j \in B : lo <= j) /\ k = s[lo].frame.pts
      <3>1. CASE A = {}
        <4>1. k = fr.pts /\ B = {L + 1}
          BY <1>4, <2>1, <3>1
        <4>2. L + 1 <= L + 1
          BY <1>2
        <4>3. QED
          BY <1>2, <2>1, <4>1, <4>2
      <3>2. CASE A # {}
        <4>1. PICK lo, hi \in A : /\ \A j \in A : lo <= j /\ j <= hi
                                  /\ a = p[lo].frame.pts /\ a >= 1
          BY <1>4, <3>2
        <4>2. k = a
          <5>1. a # 0
            BY <4>1
          <5>2. QED
            BY <5>1
        <4>3. lo \in 1 .. L /\ s[lo] = p[lo] /\ lo \in B
          BY <1>2, <1>3, <2>1
        <4>4. \A j \in B : lo <= j
          BY <1>2, <1>3, <2>1, <4>1, <4>3
        <4>5. QED
          BY <4>1, <4>2, <4>3, <4>4
      <3>3. QED
        BY <3>1, <3>2
    <2>4. k >= 1
      <3>1. CASE A = {}
        BY <1>4, <3>1
      <3>2. CASE A # {}
        <4>1. a >= 1 /\ a # 0
          <5>1. a >= 1
            BY <1>4, <3>2
          <5>2. QED
            BY <5>1
        <4>2. QED
          BY <4>1
      <3>3. QED
        BY <3>1, <3>2
    <2>5. PICK lo \in B : (\A j \in B : lo <= j) /\ k = s[lo].frame.pts
      BY <2>3
    <2>6. \A j \in B : lo <= j /\ j <= L + 1
      BY <2>2, <2>5
    <2>7. fr.pts = s[L + 1].frame.pts
      BY <1>2
    <2>8. \E l, h \in B : /\ \A j \in B : l <= j /\ j <= h
                          /\ k = s[l].frame.pts /\ fr.pts = s[h].frame.pts /\ k >= 1
      BY <2>1, <2>4, <2>5, <2>6, <2>7
    <2>9. Spanned(s, pids, k, fr.pts)
      BY <2>1, <2>8 DEF Spanned, B
    <2>10. QED
      BY <1>5, <2>1, <2>9 DEF B
  <1>6. CASE pid \notin pids
    <2>1. B = A
      BY <1>1, <1>6
    <2>2. CASE A = {}
      <3>1. Spanned(s, pids, a, b)
        BY <1>4, <2>1, <2>2 DEF Spanned, B
      <3>2. QED
        BY <1>6, <3>1
    <2>3. CASE A # {}
      <3>1. PICK lo, hi \in A : /\ \A j \in A : lo <= j /\ j <= hi
                                /\ a = p[lo].frame.pts /\ b = p[hi].frame.pts /\ a >= 1
        BY <1>4, <2>3
      <3>2. s[lo] = p[lo] /\ s[hi] = p[hi] /\ lo \in B /\ hi \in B
        BY <1>2, <1>3, <2>1
      <3>3. \E l, h \in B : /\ \A j \in B : l <= j /\ j <= h
                            /\ a = s[l].frame.pts /\ b = s[h].frame.pts /\ a >= 1
        BY <2>1, <3>1, <3>2
      <3>4. Spanned(s, pids, a, b)
        BY <2>1, <2>3, <3>3 DEF Spanned, B
      <3>5. QED
        BY <1>6, <3>4
    <2>4. QED
      BY <2>2, <2>3
  <1>7. QED
    BY <1>5, <1>6

(* An entry that was right stays right; the one added is the frame.        *)
LEMMA GrownEntry ==
  ASSUME NEW p, NEW s, NEW c, NEW pid, NEW fr, NEW n \in Nat \ {0}, Grown(p, s, c, pid, fr, n),
         NEW m \in [nOffset : Int, nLength : Nat], EntryRight(p, m)
  PROVE  EntryRight(s, m)
  <1> DEFINE L == Len(p)
             N == Len(s)
             from == m.nOffset + 1
             to == m.nOffset + m.nLength
  <1>1. /\ L \in Nat /\ N \in Nat /\ L <= N
        /\ \A i \in 1 .. L : s[i] = p[i]
        /\ \A i \in L + 1 .. N : s[i].first = (i = L + 1)
    BY DEF Grown
  <1>2. /\ from >= 1 /\ from <= to /\ to <= L
        /\ \A i \in from .. to : /\ p[i].pid = "video" /\ p[i].frame.key
                                 /\ p[i].first <=> i = from
        /\ to < L => p[to + 1].first
        /\ BytesOf(p, from, to) = p[from].frame.es
    BY DEF EntryRight
  <1>3. from \in Int /\ to \in Int
    OBVIOUS
  <1> HIDE DEF L, N, from, to
  <1>4. \A i \in from .. to : i \in 1 .. L /\ s[i] = p[i]
    BY <1>1, <1>2, <1>3
  <1>5. ASSUME to < N PROVE s[to + 1].first
    <2>1. CASE to < L
      <3>1. to + 1 \in 1 .. L
        BY <1>1, <1>2, <1>3, <2>1
      <3>2. QED
        BY <1>1, <1>2, <2>1, <3>1
    <2>2. CASE to = L
      <3>1. L + 1 \in L + 1 .. N
        BY <1>1, <1>5, <2>2
      <3>2. s[L + 1].first = (L + 1 = L + 1)
        BY <1>1, <3>1
      <3>3. QED
        BY <2>2, <3>2
    <2>3. QED
      BY <1>1, <1>2, <1>3, <2>1, <2>2
  <1>6. to <= N
    BY <1>1, <1>2, <1>3
  <1>7. \A i \in from .. to : /\ s[i].pid = "video" /\ s[i].frame.key
                              /\ s[i].first <=> i = from
    BY <1>2, <1>4
  <1>8. BytesOf(s, from, to) = s[from].frame.es
    <2>1. \A k \in 1 .. to - from + 1 : s[from + k - 1] = p[from + k - 1]
      BY <1>3, <1>4
    <2>2. [k \in 1 .. to - from + 1 |-> EsLen(s[from + k - 1].parts)]
            = [k \in 1 .. to - from + 1 |-> EsLen(p[from + k - 1].parts)]
      BY <2>1
    <2>3. s[from] = p[from]
      BY <1>2, <1>3, <1>4
    <2>4. QED
      BY <1>2, <2>2, <2>3 DEF BytesOf
  <1>9. /\ from >= 1 /\ from <= to /\ to <= N
        /\ \A i \in from .. to : /\ s[i].pid = "video" /\ s[i].frame.key
                                 /\ s[i].first <=> i = from
        /\ to < N => s[to + 1].first
        /\ BytesOf(s, from, to) = s[from].frame.es
    BY <1>2, <1>5, <1>6, <1>7, <1>8
  <1>10. QED
    BY <1>9 DEF EntryRight, from, to, N

Placed(p, n, pos, ok, len, after) ==   \* where a frame of n packets went
  /\ Len(p) + n <= FileCap => ok /\ len = n /\ after = pos + n
  /\ Len(p) + n > FileCap => ~ok /\ after = pos

LEMMA GrownIndex ==
  ASSUME NEW p, NEW s, NEW c, NEW pid, NEW fr, NEW n \in Nat \ {0}, Grown(p, s, c, pid, fr, n),
         GoodFrame(pid, fr), n = Len(CutOf(pid, fr)), fr.key => pid = "video",
         NEW metas \in SUBSET [nOffset : Int, nLength : Nat], NEW pos \in Int,
         IndexRight(p, metas, pos), NEW ok, NEW len, NEW after, Placed(p, n, pos, ok, len, after)
  PROVE  IndexRight(s, metas \cup (IF fr.key /\ ok
                                   THEN {[nOffset |-> after - len, nLength |-> len]}
                                   ELSE {}), after)
  <1> DEFINE L == Len(p)
             N == Len(s)
             new == IF fr.key /\ ok THEN {[nOffset |-> after - len, nLength |-> len]} ELSE {}
  <1>0. FileCap \in Nat
    BY TsMuxAssumption
  <1>1. /\ L \in Nat /\ N \in Nat /\ L <= N /\ N = Least(L + n, FileCap) /\ L <= FileCap
        /\ \A i \in 1 .. L : s[i] = p[i]
        /\ \A i \in L + 1 .. N : /\ s[i].pid = pid /\ s[i].frame = fr /\ s[i].first = (i = L + 1)
                                /\ s[i].parts = CutOf(pid, fr)[i - L]
    BY DEF Grown
  <1>2. /\ L + n <= FileCap => ok /\ len = n /\ after = pos + n
        /\ L + n > FileCap => ~ok /\ after = pos
    BY DEF Placed
  <1>3. SUFFICES ASSUME Begins(s)
                 PROVE  /\ \A m \in metas \cup new : EntryRight(s, m)
                        /\ N < FileCap => after = N
    BY DEF IndexRight
  <1>4. N >= 2 /\ s[1].pid = "PAT" /\ s[2].pid = "PMT"
    BY <1>3 DEF Begins
  <1> HIDE DEF N
  <1>5. L >= 2
    <2>1. SUFFICES ASSUME ~(L >= 2) PROVE FALSE
      OBVIOUS
    <2> HIDE DEF L
    <2>2. 2 \in L + 1 .. N
      BY <1>1, <1>4, <2>1
    <2>3. pid = "PMT"
      BY <1>1, <1>4, <2>2
    <2>4. QED
      BY <2>3 DEF GoodFrame
  <1>6. Begins(p)
    BY <1>1, <1>4, <1>5 DEF Begins
  <1>7. /\ \A m \in metas : EntryRight(p, m)
        /\ L < FileCap => pos = L
    BY <1>6 DEF IndexRight
  <1>8. ASSUME NEW m \in metas PROVE EntryRight(s, m)
    BY <1>7, GrownEntry
  <1> HIDE DEF L
  <1>9. N < FileCap => after = N
    BY <1>0, <1>1, <1>2, <1>7 DEF Least
  <1>10. ASSUME NEW m \in new PROVE EntryRight(s, m)
    <2>1. fr.key /\ ok /\ m = [nOffset |-> after - len, nLength |-> len]
      OBVIOUS
    <2>2. L + n <= FileCap /\ len = n /\ after = pos + n /\ N = L + n /\ L < FileCap /\ pos = L
      BY <1>0, <1>1, <1>2, <1>7, <2>1 DEF Least
    <2> DEFINE from == m.nOffset + 1
               to == m.nOffset + m.nLength
    <2>3. m.nOffset = L /\ m.nLength = n
      BY <1>1, <2>1, <2>2
    <2>4. from = L + 1 /\ to = N
      BY <2>2, <2>3
    <2> HIDE DEF from, to
    <2>5. \A i \in L + 1 .. N : /\ s[i].pid = "video" /\ s[i].frame.key
                                /\ s[i].first <=> i = L + 1
      BY <1>1, <2>1
    <2>6. from >= 1 /\ from <= to /\ to <= N /\ ~(to < N)
      <3>1. L \in Nat /\ N \in Nat /\ L + 1 <= N
        BY <1>1, <2>2
      <3>2. QED
        BY <2>4, <3>1
    <2>7. BytesOf(s, from, to) = s[from].frame.es
      <3> DEFINE i == L + 1
      <3>1. i \in Nat /\ i \in L + 1 .. N /\ i + n - 1 = N
        BY <1>1, <2>2
      <3>2. \A k \in 1 .. n : i + k - 1 \in L + 1 .. N /\ (i + k - 1) - L = k
        BY <1>1, <2>2
      <3>3. s[i].frame = fr
        BY <1>1, <3>1
      <3> HIDE DEF i
      <3>4. Carries(s, i, CutOf(pid, fr))
        BY <1>1, <3>2 DEF Carries
      <3>5. BytesOf(s, i, N) = fr.es
        BY <3>1, <3>4, FrameBytes
      <3>6. QED
        BY <2>4, <3>1, <3>3, <3>5 DEF i
    <2>8. /\ from >= 1 /\ from <= to /\ to <= N
          /\ \A i \in from .. to : /\ s[i].pid = "video" /\ s[i].frame.key
                                   /\ s[i].first <=> i = from
          /\ to < N => s[to + 1].first
          /\ BytesOf(s, from, to) = s[from].frame.es
      BY <2>4, <2>5, <2>6, <2>7
    <2>9. QED
      BY <2>8 DEF EntryRight, from, to, N
  <1>11. QED
    BY <1>8, <1>9, <1>10

-----------------------------------------------------------------------------
(* A frame that was accepted keeps the invariant of its file.              *)
LEMMA OnlyTablesKnown ==
  ASSUME NEW p, Len(p) \in Nat, OnlyTables(p)
  PROVE  /\ FramesGood(p) /\ FramesSet(p) /\ (\A lost : KeyLeads(p, lost)) /\ IndexRight(p, {}, 2)
         /\ Spanned(p, Media, 0, 0) /\ Spanned(p, {"video"}, 0, 0)
  <1>1. (\A i \in 1 .. Len(p) : p[i].pid \in Tables /\ p[i].first) /\ Len(p) <= 2
    BY DEF OnlyTables
  <1>2. FramesGood(p) /\ FramesSet(p) /\ \A lost : KeyLeads(p, lost)
    BY <1>1 DEF FramesGood, FramesSet, KeyLeads, Leads
  <1>3. StartsOf(p, Media) = {} /\ StartsOf(p, {"video"}) = {}
    BY <1>1 DEF StartsOf, Media, Tables
  <1>4. Len(p) >= 2 => Len(p) = 2
    <2> DEFINE L == Len(p)
    <2>1. L \in Nat /\ L <= 2
      BY <1>1
    <2> HIDE DEF L
    <2>2. L >= 2 => L = 2
      BY <2>1
    <2>3. QED
      BY <2>2 DEF L
  <1>5. IndexRight(p, {}, 2)
    BY <1>4 DEF IndexRight, Begins
  <1>6. QED
    BY <1>2, <1>3, <1>5 DEF Spanned

LEMMA SpannedSign ==
  ASSUME NEW p, NEW pids, NEW a, NEW b, Spanned(p, pids, a, b)
  PROVE  a = 0 \/ a >= 1
  BY DEF Spanned

(* What a frame finds: the packets p of the record t it begins with.       *)
Found(f, p, pos, lost, a, b) ==
  /\ FramesGood(p) /\ FramesSet(p) /\ KeyLeads(p, lost) /\ IndexRight(p, f.metas, pos)
  /\ f.first >= 0 => HasFrame(p) \/ Len(p) = FileCap
  /\ Len(p) < FileCap => /\ Spanned(p, Media, a, b)
                         /\ Spanned(p, {"video"}, f.firstVideo, f.lastVideo)
                         /\ a = 0 <=> f.first < 0

LEMMA StartedFound ==
  ASSUME NEW f, FileInv(f), NEW t, Started(f, t)
  PROVE  Found(f, t.q.pkts, t.ctx.nCurrentPos, IF f.first < 0 THEN keyLost ELSE f.keyLost,
               IF f.first < 0 THEN 0 ELSE f.first, IF f.first < 0 THEN 0 ELSE f.last)
  <1> DEFINE p == t.q.pkts
             pos == t.ctx.nCurrentPos
             lost == IF f.first < 0 THEN keyLost ELSE f.keyLost
             a == IF f.first < 0 THEN 0 ELSE f.first
             b == IF f.first < 0 THEN 0 ELSE f.last
  <1>1. Len(p) \in Nat /\ Len(p) <= FileCap /\ f.first \in Int
    BY DEF Started, WTyped, QueueTyped, FileInv, FileBase, Files
  <1>2. CASE f.first >= 0
    <2>1. p = f.q.pkts /\ pos = f.ctx.nCurrentPos
      BY <1>1, <1>2 DEF Started
    <2>2. lost = f.keyLost /\ a = f.first /\ b = f.last /\ ~(f.first < 0)
      BY <1>1, <1>2
    <2> HIDE DEF p, pos, lost, a, b
    <2>3. FramesGood(p) /\ FramesSet(p) /\ KeyLeads(p, lost) /\ IndexRight(p, f.metas, pos)
      BY <2>1, <2>2 DEF FileInv, KeyFirst
    <2>4. HasFrame(p) \/ Len(p) = FileCap
      <3>1. Len(p) < FileCap => HasFrame(p)
        BY <1>2, <2>1 DEF FileInv, KeyFirst
      <3>2. QED
        BY <1>1, <3>1, TsMuxAssumption
    <2>5. ASSUME Len(p) < FileCap
          PROVE  /\ Spanned(p, Media, a, b) /\ Spanned(p, {"video"}, f.firstVideo, f.lastVideo)
                 /\ StartsOf(p, Media) # {}
      BY <1>2, <2>1, <2>2, <2>5 DEF FileInv, Spans
    <2>6. ASSUME Len(p) < FileCap PROVE a # 0
      <3>1. a >= 1
        BY <2>5, <2>6 DEF Spanned
      <3>2. QED
        BY <3>1
    <2>7. Found(f, p, pos, lost, a, b)
      BY <2>2, <2>3, <2>4, <2>5, <2>6 DEF Found
    <2>8. QED
      BY <2>7 DEF p, pos, lost, a, b
  <1>3. CASE f.first < 0
    <2>1. OnlyTables(p) /\ pos = 2
      BY <1>1, <1>3 DEF Started
    <2>2. lost = keyLost /\ a = 0 /\ b = 0 /\ ~(f.first >= 0)
      BY <1>1, <1>3
    <2>3. f.metas = {} /\ f.firstVideo = 0 /\ f.lastVideo = 0
      BY <1>3 DEF FileInv, FileBase, Spans
    <2> HIDE DEF p, pos, lost, a, b
    <2>4. /\ FramesGood(p) /\ FramesSet(p) /\ (\A x : KeyLeads(p, x)) /\ IndexRight(p, {}, 2)
          /\ Spanned(p, Media, 0, 0) /\ Spanned(p, {"video"}, 0, 0)
      BY <1>1, <2>1, OnlyTablesKnown
    <2>5. Found(f, p, pos, lost, a, b)
      BY <1>3, <2>1, <2>2, <2>3, <2>4 DEF Found
    <2>6. QED
      BY <2>5 DEF p, pos, lost, a, b
  <1>4. QED
    BY <1>1, <1>2, <1>3

LEMMA AcceptedInv ==
  ASSUME NEW f, FileInv(f), NEW g, FileBase(g), NEW t, NEW pid, NEW fr, NEW n \in Nat \ {0}, NEW v,
         Accepted(f, g, t, pid, fr, n, v), fr.key => pid = "video",
         f.first < 0 => fr.key \/ keyLost
  PROVE  FileInv(g)
  <1> DEFINE p == t.q.pkts
             s == v.q.pkts
             c == t.ctx.nCounter[pid]
             pos == t.ctx.nCurrentPos
             lost == IF f.first < 0 THEN keyLost ELSE f.keyLost
             a == IF f.first < 0 THEN 0 ELSE f.first
             b == IF f.first < 0 THEN 0 ELSE f.last
  <1>1. /\ Started(f, t) /\ WTyped(t) /\ GoodFrame(pid, fr) /\ Wrote(t, pid, fr, n, v)
        /\ n = Len(CutOf(pid, fr))
        /\ g.ctx = v.ctx /\ g.q = v.q /\ g.q.pkts = s
    BY DEF Accepted, Started
  <1>2. pid \in {"audio", "video"} /\ pid \notin Tables /\ pid \in Media
    BY <1>1 DEF GoodFrame, Tables, Media
  <1>3. fr.pts \in Nat \ {0}
    BY <1>1, TsMuxUploaderAssumption DEF GoodFrame, Pts
  <1>4. Grown(p, s, c, pid, fr, n)
    BY <1>1, WroteGrown
  <1>5. Found(f, p, pos, lost, a, b)
    BY <1>1, StartedFound
  <1>6. Placed(p, n, pos, v.ok, v.len, v.ctx.nCurrentPos)
    <2>1. t.ok = TRUE /\ t.len = 0
      BY <1>1 DEF Started
    <2>2. WrotePosition(t, n, v)
      BY <1>1 DEF Wrote
    <2>3. 0 + n = n
      OBVIOUS
    <2>4. QED
      BY <2>1, <2>2, <2>3 DEF Placed, WrotePosition
  <1>7. CountersHold(g.q, g.ctx)
    <2>1. CountersHold(t.q, t.ctx)
      BY <1>1, StartedCounters DEF FileInv
    <2>2. CountersHold(v.q, v.ctx)
      BY <1>1, <1>2, <2>1, WroteCounted
    <2>3. QED
      BY <1>1, <2>2
  <1>8. f.first \in Int /\ g.first \in Int /\ f.metas \in SUBSET [nOffset : Int, nLength : Nat]
    BY DEF FileInv, FileBase, Files
  <1>9. pos \in Int
    BY <1>1 DEF WTyped, Contexts
  <1>10. g.first >= 0 /\ ~(g.first < 0) /\ g.keyLost = lost
    BY <1>3, <1>8 DEF Accepted
  <1>11. a = 0 => g.first = fr.pts \/ f.first = 0
    BY <1>8 DEF Accepted
  <1>12. g.last = fr.pts
    BY DEF Accepted
  <1> DEFINE new == IF fr.key /\ v.ok
                    THEN {[nOffset |-> v.ctx.nCurrentPos - v.len, nLength |-> v.len]}
                    ELSE {}
  <1>13. g.metas = f.metas \cup new
    BY DEF Accepted
  <1>14. /\ f.first < 0 => g.first = fr.pts
         /\ ~(f.first < 0) => g.first = f.first /\ a = f.first
    BY DEF Accepted
  <1> HIDE DEF p, s, c, pos, lost, a, b
  <1>15. FramesGood(s) /\ FramesSet(s)
    BY <1>1, <1>4, <1>5, GrownFrames, GrownSet DEF Found
  <1>16. KeyLeads(s, lost)
    <2>1. fr.key \/ lost \/ HasFrame(p) \/ Len(p) = FileCap
      <3>1. CASE f.first < 0
        BY <3>1 DEF lost
      <3>2. CASE f.first >= 0
        BY <1>5, <3>2 DEF Found
      <3>3. QED
        BY <1>8, <3>1, <3>2
    <2>2. KeyLeads(p, lost)
      BY <1>5 DEF Found
    <2>3. QED
      BY <1>4, <2>1, <2>2, GrownKey
  <1>17. IndexRight(g.q.pkts, g.metas, g.ctx.nCurrentPos)
    <2> DEFINE after == v.ctx.nCurrentPos
               ok == v.ok
               len == v.len
               metas == f.metas
    <2>1. IndexRight(p, metas, pos) /\ Placed(p, n, pos, ok, len, after)
          /\ metas \in SUBSET [nOffset : Int, nLength : Nat]
      BY <1>5, <1>6, <1>8 DEF Found
    <2>2. new = IF fr.key /\ ok THEN {[nOffset |-> after - len, nLength |-> len]} ELSE {}
      OBVIOUS
    <2> HIDE DEF after, ok, len, metas, new
    <2>3. IndexRight(s, metas \cup (IF fr.key /\ ok
                                    THEN {[nOffset |-> after - len, nLength |-> len]}
                                    ELSE {}), after)
      BY <1>1, <1>4, <1>9, <2>1, GrownIndex
    <2>4. IndexRight(s, metas \cup new, after)
      BY <2>2, <2>3
    <2>5. QED
      BY <1>1, <1>13, <2>4 DEF after, metas
  <1>18. ASSUME Len(s) < FileCap
         PROVE  /\ HasFrame(s) /\ StartsOf(s, Media) # {} /\ Spanned(s, Media, g.first, g.last)
                /\ Spanned(s, {"video"}, g.firstVideo, g.lastVideo)
    <2>1. HasFrame(s) /\ Len(p) < FileCap
      BY <1>2, <1>4, <1>18, GrownHas
    <2>2. /\ Spanned(p, Media, a, b) /\ Spanned(p, {"video"}, f.firstVideo, f.lastVideo)
          /\ a = 0 <=> f.first < 0
      BY <1>5, <2>1 DEF Found
    <2>3. a = 0 => g.first = fr.pts
      BY <1>14, <2>2
    <2>4. a # 0 => g.first = a
      BY <1>14, <2>2
    <2>5. Spanned(s, Media, g.first, fr.pts) /\ StartsOf(s, Media) # {}
      <3> DEFINE k == g.first
                 M == Media
      <3>1. /\ a = 0 => k = fr.pts
            /\ a # 0 => k = a
            /\ Spanned(p, M, a, b) /\ pid \in M
        BY <1>2, <2>2, <2>3, <2>4
      <3> HIDE DEF k, M
      <3>2. Spanned(s, M, k, fr.pts) /\ StartsOf(s, M) # {}
        BY <1>2, <1>3, <1>4, <1>18, <3>1, GrownSpanned
      <3>3. QED
        BY <3>2 DEF k, M
    <2>6. Spanned(s, {"video"}, g.firstVideo, g.lastVideo)
      <3> DEFINE x == f.firstVideo
                 y == f.lastVideo
                 k == IF x = 0 THEN fr.pts ELSE x
                 M == {"video"}
      <3>1. /\ x = 0 => k = fr.pts
            /\ x # 0 => k = x
            /\ Spanned(p, M, x, y)
        BY <2>2
      <3>2. x = 0 \/ x >= 1
        <4> HIDE DEF x, y, M
        <4>1. QED
          BY <3>1, SpannedSign
      <3>3. x \in Int
        BY DEF FileInv, FileBase, Files
      <3>4. /\ pid = "video" => g.firstVideo = k /\ g.lastVideo = fr.pts
            /\ pid # "video" => g.firstVideo = x /\ g.lastVideo = y
        <4>1. pid = "video" => g.firstVideo = (IF x <= 0 THEN fr.pts ELSE x) /\ g.lastVideo = fr.pts
          BY DEF Accepted
        <4>2. pid # "video" => g.firstVideo = x /\ g.lastVideo = y
          BY DEF Accepted
        <4>3. (IF x <= 0 THEN fr.pts ELSE x) = k
          BY <3>2, <3>3
        <4>4. QED
          BY <4>1, <4>2, <4>3
      <3>5. pid = "video" <=> pid \in M
        OBVIOUS
      <3> HIDE DEF x, y, k, M
      <3>6. /\ pid \in M => Spanned(s, M, k, fr.pts) /\ StartsOf(s, M) # {}
            /\ pid \notin M => Spanned(s, M, x, y)
        BY ZenonT(60), <1>2, <1>3, <1>4, <1>18, <3>1, GrownSpanned
      <3>7. Spanned(s, M, g.firstVideo, g.lastVideo)
        BY <3>4, <3>5, <3>6
      <3>8. QED
        BY <3>7 DEF M
    <2>7. QED
      BY <1>12, <2>1, <2>5, <2>6
  <1>19. KeyFirst(g)
    BY <1>1, <1>10, <1>16, <1>18 DEF KeyFirst
  <1>20. Spans(g)
    BY <1>1, <1>10, <1>18 DEF Spans
  <1>21. QED
    BY <1>1, <1>7, <1>15, <1>17, <1>19, <1>20 DEF FileInv

-----------------------------------------------------------------------------
(* One call: the file after it, and what was reported.                     *)
OnlyEnd(g) ==   \* the end reported is that of the file before the call
  \A i \in DOMAIN g.reports :
    g.reports[i].type = "END" => file.first >= 0 /\ g.reports[i] = TimeInfo(file, "END")
Outcome(g) == FileInv(g) /\ OnlyEnd(g)

LEMMA NoNewOutcome ==
  ASSUME NEW f, OnlyEnd(f), NEW g, NoNewEnd(f, g)
  PROVE  OnlyEnd(g)
  BY DEF OnlyEnd, NoNewEnd

LEMMA FrameOutcome ==
  ASSUME FileInv(file)
  PROVE  /\ Outcome(Frame(file)) /\ Frame(file).first = file.first /\ Frame(file).reports = <<>>
         /\ TimeInfo(Frame(file), "END") = TimeInfo(file, "END")
  <1> DEFINE g == Frame(file)
  <1>1. FileBase(g) /\ SameFile(file, g) /\ g.reports = <<>>
    BY FrameIs DEF FileInv
  <1> HIDE DEF g
  <1>2. FileInv(g)
    BY <1>1, SameInv
  <1>3. DOMAIN g.reports = {}
    BY <1>1
  <1>4. OnlyEnd(g)
    BY <1>3 DEF OnlyEnd
  <1>5. g.first = file.first /\ TimeInfo(g, "END") = TimeInfo(file, "END")
    BY <1>1 DEF SameFile, TimeInfo
  <1>6. QED
    BY <1>1, <1>2, <1>4, <1>5 DEF Outcome, g

LEMMA SwitchOutcome ==
  ASSUME FileInv(file)
  PROVE  Outcome(switchTs(Frame(file))) /\ switchTs(Frame(file)).first < 0
  <1> DEFINE f == Frame(file)
             g == switchTs(f)
  <1>1. /\ FileInv(f) /\ f.first = file.first /\ f.reports = <<>>
        /\ TimeInfo(f, "END") = TimeInfo(file, "END")
    BY FrameOutcome DEF Outcome
  <1> HIDE DEF f
  <1>2. f \in Files /\ QueueTyped(f.q) /\ f.first \in Int /\ (f.first < 0 => f.q.pkts = <<>> /\ f.metas = {})
    BY <1>1 DEF FileInv, FileBase, Files
  <1>3. /\ FileBase(g) /\ Empty(g)
        /\ f.first < 0 => g.reports = f.reports
        /\ f.first >= 0 => g.reports = Append(f.reports, TimeInfo(f, "END"))
    BY <1>2, SwitchedIs
  <1> HIDE DEF g
  <1>4. FileInv(g) /\ g.first < 0
    <2>1. FileInv(g)
      BY <1>3, EmptyInv
    <2>2. g.first = -1
      BY <1>3 DEF Empty
    <2>3. QED
      BY <2>1, <2>2
  <1>5. OnlyEnd(g)
    <2>1. CASE f.first < 0
      <3>1. DOMAIN g.reports = {}
        BY <1>1, <1>3, <2>1
      <3>2. QED
        BY <3>1 DEF OnlyEnd
    <2>2. CASE f.first >= 0
      <3> DEFINE r == TimeInfo(file, "END")
      <3>1. r \in Reports
        <4>1. file \in Files
          BY DEF FileInv, FileBase
        <4>2. QED
          BY <4>1, TimeInfoTyped
      <3>2. g.reports = Append(<<>>, r) /\ <<>> \in Seq(Reports) /\ Len(<<>>) = 0
        BY <1>1, <1>3, <2>2
      <3> HIDE DEF r
      <3>3. Append(<<>>, r) \in Seq(Reports) /\ Len(Append(<<>>, r)) = 1 /\ Append(<<>>, r)[1] = r
        BY <3>1, <3>2, AppendProperties
      <3>4. \A i \in DOMAIN g.reports : i = 1
        BY <3>2, <3>3
      <3>5. \A i \in DOMAIN g.reports : g.reports[i] = r
        BY <3>2, <3>3, <3>4
      <3>6. QED
        BY <1>1, <2>2, <3>5 DEF OnlyEnd, r
    <2>3. QED
      BY <1>2, <2>1, <2>2
  <1>6. QED
    BY <1>4, <1>5 DEF Outcome, g, f

LEMMA CaptureOutcome ==
  ASSUME NEW f, Outcome(f)
  PROVE  Outcome(Capture(f)) /\ Capture(f).first = f.first
  <1> DEFINE g == Capture(f)
  <1>1. FileBase(g) /\ SameFile(f, g) /\ NoNewEnd(f, g)
    BY CaptureIs DEF Outcome, FileInv
  <1> HIDE DEF g
  <1>2. FileInv(g) /\ g.first = f.first
    BY <1>1, SameInv DEF Outcome, SameFile
  <1>3. QED
    BY <1>1, <1>2, NoNewOutcome DEF Outcome, g

(* A call of push with the frame fr, muxed from t to v.                    *)
Pushing(f, t, pid, fr, v, video, key, force, g) ==
  /\ video = (pid = "video") /\ key = fr.key /\ (fr.key => pid = "video")
  /\ force \in BOOLEAN /\ keyLost \in BOOLEAN /\ (f.first < 0 => fr.key \/ keyLost)
  /\ Started(f, t) /\ GoodFrame(pid, fr) /\ Muxed(t, pid, fr, v)
  /\ g = Pushed(f, v, video, key, fr.pts, force)

LEMMA PushedOutcome ==
  ASSUME NEW f, Outcome(f), NEW t, NEW pid, NEW fr, NEW v, NEW video, NEW force, NEW key, NEW g,
         Pushing(f, t, pid, fr, v, video, key, force, g)
  PROVE  Outcome(g) /\ (g.first < 0 => v.ret < 0)
  <1>0. /\ video = (pid = "video") /\ key = fr.key /\ (fr.key => pid = "video")
        /\ force \in BOOLEAN /\ keyLost \in BOOLEAN /\ (f.first < 0 => fr.key \/ keyLost)
        /\ Started(f, t) /\ GoodFrame(pid, fr) /\ Muxed(t, pid, fr, v)
        /\ g = Pushed(f, v, video, key, fr.pts, force)
    BY DEF Pushing
  <1>1. FileInv(f) /\ FileBase(f) /\ OnlyEnd(f) /\ f.first \in Int
    BY DEF Outcome, FileInv, FileBase, Files
  <1>2. /\ FileBase(g)
        /\ \/ v.ret < 0 /\ Empty(g) /\ f.first < 0 /\ g.reports = f.reports
           \/ /\ v.ret >= 0 /\ NoNewEnd(f, g)
              /\ \E n \in Nat \ {0} : Accepted(f, g, t, pid, fr, n, v)
    BY <1>0, <1>1, PushedIs
  <1>3. CASE v.ret < 0 /\ Empty(g) /\ f.first < 0 /\ g.reports = f.reports
    <2>1. FileInv(g)
      BY <1>2, <1>3, EmptyInv
    <2>2. OnlyEnd(g)
      BY <1>1, <1>3 DEF OnlyEnd
    <2>3. QED
      BY <1>3, <2>1, <2>2 DEF Outcome
  <1>4. CASE /\ v.ret >= 0 /\ NoNewEnd(f, g)
             /\ \E n \in Nat \ {0} : Accepted(f, g, t, pid, fr, n, v)
    <2>1. PICK n \in Nat \ {0} : Accepted(f, g, t, pid, fr, n, v)
      BY <1>4
    <2>2. FileInv(g)
      BY <1>0, <1>1, <1>2, <2>1, AcceptedInv
    <2>3. OnlyEnd(g)
      BY <1>1, <1>4, NoNewOutcome
    <2>4. ~(g.first < 0)
      <3>1. fr.pts \in Nat
        BY <1>0, TsMuxUploaderAssumption DEF GoodFrame, Pts
      <3>2. g.first = IF f.first < 0 THEN fr.pts ELSE f.first
        BY <2>1 DEF Accepted
      <3>3. QED
        BY <1>1, <3>1, <3>2
    <2>5. QED
      BY <2>2, <2>3, <2>4 DEF Outcome
  <1>5. QED
    BY <1>2, <1>3, <1>4

LEMMA VideoOutcome ==
  ASSUME NEW f, Outcome(f), NEW noBuf \in Nat, NEW es \in KeyLens \cup DeltaLens, NEW pts \in Pts,
         NEW key \in BOOLEAN, NEW force \in BOOLEAN, keyLost \in BOOLEAN, f.first < 0 => key \/ keyLost,
         NEW v, v = LinkMuxerVideo(Writing(f.ctx, f.q, noBuf), es, pts, key),
         NEW g, g = Pushed(f, v, TRUE, key, pts, force)
  PROVE  Outcome(g) /\ (g.first < 0 => v.ret < 0)
  <1>1. FileBase(f)
    BY DEF Outcome, FileInv
  <1>2. PICK t, fr : /\ Started(f, t) /\ GoodFrame("video", fr) /\ fr.pts = pts /\ fr.key = key
                     /\ Muxed(t, "video", fr, v)
    BY <1>1, VideoMuxed
  <1> DEFINE pid == "video"
             video == TRUE
  <1>3. Pushing(f, t, pid, fr, v, video, key, force, g)
    BY <1>2 DEF Pushing
  <1> HIDE DEF pid, video
  <1>4. QED
    BY <1>3, PushedOutcome

LEMMA AudioOutcome ==
  ASSUME NEW f, Outcome(f), NEW noBuf \in Nat, NEW es \in AudioLens, NEW pts \in Pts,
         keyLost \in BOOLEAN, f.first < 0 => keyLost,
         NEW v, v = LinkMuxerAudio(Writing(f.ctx, f.q, noBuf), es, pts),
         NEW g, g = Pushed(f, v, FALSE, FALSE, pts, FALSE)
  PROVE  Outcome(g) /\ (g.first < 0 => v.ret < 0)
  <1>1. FileBase(f)
    BY DEF Outcome, FileInv
  <1>2. PICK t, fr : /\ Started(f, t) /\ GoodFrame("audio", fr) /\ fr.pts = pts /\ ~fr.key
                     /\ Muxed(t, "audio", fr, v)
    BY <1>1, AudioMuxed
  <1>3. fr.key = FALSE
    BY <1>2 DEF GoodFrame, Frames
  <1> DEFINE pid == "audio"
             video == FALSE
  <1>4. Pushing(f, t, pid, fr, v, video, video, video, g)
    BY <1>2, <1>3 DEF Pushing
  <1> HIDE DEF pid, video
  <1>5. QED
    BY <1>4, PushedOutcome

-----------------------------------------------------------------------------
(* Each call keeps the invariant.                                          *)
StepInv ==
  /\ FileInv(file') /\ OnlyEnd(file')
  /\ keyLost' \in BOOLEAN /\ nKeyFrameCount' \in Int /\ isQuit' \in BOOLEAN
  /\ file'.first < 0 /\ nKeyFrameCount' > 0 /\ ~isQuit' => keyLost'

LEMMA KeyFrameInv ==
  ASSUME Inv, NEW es \in KeyLens, NEW pts \in Pts, NEW sps, NEW segStart \in BOOLEAN,
         NEW noBuf \in NoBufs, PushKeyFrame(es, pts, sps, segStart, noBuf)
  PROVE  StepInv
  <1> DEFINE switch == MustSwitch(pts, sps, segStart)
             count == IF switch THEN 1 ELSE nKeyFrameCount + 1
             f0 == IF switch THEN switchTs(Frame(file)) ELSE Frame(file)
             f == IF count = 1 THEN Capture(f0) ELSE f0
             force == segStart \/ MetaChanged(sps)
             w == LinkMuxerVideo(Writing(f.ctx, f.q, noBuf), es, pts, TRUE)
             g == Pushed(f, w, TRUE, TRUE, pts, force)
  <1>1. FileInv(file) /\ keyLost \in BOOLEAN /\ nKeyFrameCount \in Int /\ noBuf \in Nat
    BY DEF Inv, NoBufs
  <1>2. /\ isQuit' = FALSE /\ nKeyFrameCount' = count
        /\ \/ file' = f /\ keyLost' = TRUE
           \/ file' = g /\ keyLost' = (w.ret < 0)
    <2>1. ~isQuit /\ isQuit \in BOOLEAN
      BY DEF PushKeyFrame, Inv
    <2>2. isQuit' = isQuit /\ nKeyFrameCount' = count
      BY DEF PushKeyFrame
    <2>3. \/ file' = f /\ keyLost' = TRUE
          \/ file' = g /\ keyLost' = (w.ret < 0)
      BY DEF PushKeyFrame
    <2>4. QED
      BY <2>1, <2>2, <2>3
  <1>3. count \in Int
    BY <1>1
  <1>4. Outcome(f0)
    BY <1>1, FrameOutcome, SwitchOutcome
  <1> HIDE DEF f0
  <1>5. Outcome(f)
    BY <1>4, CaptureOutcome
  <1>6. force \in BOOLEAN
    OBVIOUS
  <1> HIDE DEF f, force, count
  <1>7. Outcome(g) /\ (g.first < 0 => w.ret < 0)
    <2> DEFINE key == TRUE
    <2>1. /\ key \in BOOLEAN /\ (f.first < 0 => key \/ keyLost) /\ es \in KeyLens \cup DeltaLens
          /\ w = LinkMuxerVideo(Writing(f.ctx, f.q, noBuf), es, pts, key)
          /\ g = Pushed(f, w, TRUE, key, pts, force)
      OBVIOUS
    <2> HIDE DEF key, w, g
    <2>2. QED
      BY <1>1, <1>5, <1>6, <2>1, VideoOutcome
  <1> HIDE DEF w, g
  <1>8. CASE file' = f /\ keyLost' = TRUE
    <2>1. FileInv(file') /\ OnlyEnd(file')
      BY <1>5, <1>8 DEF Outcome
    <2>2. keyLost' \in BOOLEAN /\ isQuit' \in BOOLEAN /\ keyLost'
      BY <1>2, <1>8, Zenon
    <2>3. nKeyFrameCount' \in Int
      BY <1>2, <1>3
    <2>4. QED
      BY <2>1, <2>2, <2>3 DEF StepInv
  <1>9. CASE file' = g /\ keyLost' = (w.ret < 0)
    <2>1. FileInv(file') /\ OnlyEnd(file') /\ (file'.first < 0 => keyLost')
      BY <1>7, <1>9 DEF Outcome
    <2>2. keyLost' \in BOOLEAN /\ isQuit' \in BOOLEAN
      <3> DEFINE lost == w.ret < 0
      <3>1. lost \in BOOLEAN
        OBVIOUS
      <3>2. keyLost' = lost
        BY <1>9
      <3> HIDE DEF lost
      <3>3. QED
        BY <1>2, <3>1, <3>2
    <2>3. nKeyFrameCount' \in Int
      BY <1>2, <1>3
    <2>4. QED
      BY <2>1, <2>2, <2>3 DEF StepInv
  <1>10. QED
    BY <1>2, <1>8, <1>9

LEMMA DeltaFrameInv ==
  ASSUME Inv, NEW es \in DeltaLens, NEW pts \in Pts, NEW segStart \in BOOLEAN,
         NEW noBuf \in NoBufs, PushDeltaFrame(es, pts, segStart, noBuf)
  PROVE  StepInv
  <1> DEFINE f == Frame(file)
             w == LinkMuxerVideo(Writing(f.ctx, f.q, noBuf), es, pts, FALSE)
             g == Pushed(f, w, TRUE, FALSE, pts, segStart)
  <1>1. FileInv(file) /\ keyLost \in BOOLEAN /\ nKeyFrameCount \in Int /\ noBuf \in Nat
    BY DEF Inv, NoBufs
  <1>2. /\ ~isQuit /\ isQuit \in BOOLEAN /\ nKeyFrameCount > 0
        /\ isQuit' = isQuit /\ nKeyFrameCount' = nKeyFrameCount
    BY DEF PushDeltaFrame, Inv
  <1>3. \/ file' = f /\ keyLost' = keyLost
        \/ file' = g /\ keyLost' = (keyLost \/ w.ret < 0)
    BY DEF PushDeltaFrame
  <1>4. Outcome(f) /\ f.first = file.first
    BY <1>1, FrameOutcome
  <1>5. f.first < 0 => keyLost
    BY <1>2, <1>4 DEF Inv
  <1> HIDE DEF f
  <1>6. Outcome(g) /\ (g.first < 0 => w.ret < 0)
    <2> DEFINE key == FALSE
    <2>1. /\ key \in BOOLEAN /\ (f.first < 0 => key \/ keyLost) /\ es \in KeyLens \cup DeltaLens
          /\ w = LinkMuxerVideo(Writing(f.ctx, f.q, noBuf), es, pts, key)
          /\ g = Pushed(f, w, TRUE, key, pts, segStart)
      BY <1>5
    <2> HIDE DEF key, w, g
    <2>2. QED
      BY <1>1, <1>4, <2>1, VideoOutcome
  <1> HIDE DEF w, g
  <1>7. CASE file' = f /\ keyLost' = keyLost
    BY <1>1, <1>2, <1>4, <1>5, <1>7 DEF StepInv, Outcome
  <1>8. CASE file' = g /\ keyLost' = (keyLost \/ w.ret < 0)
    BY <1>1, <1>2, <1>6, <1>8 DEF StepInv, Outcome
  <1>9. QED
    BY <1>3, <1>7, <1>8

LEMMA AudioInv ==
  ASSUME Inv, NEW es \in AudioLens, NEW pts \in Pts, NEW noBuf \in NoBufs,
         PushAudio(es, pts, noBuf)
  PROVE  StepInv
  <1> DEFINE f == Frame(file)
             w == LinkMuxerAudio(Writing(f.ctx, f.q, noBuf), es, pts)
             g == Pushed(f, w, FALSE, FALSE, pts, FALSE)
  <1>1. FileInv(file) /\ keyLost \in BOOLEAN /\ nKeyFrameCount \in Int /\ noBuf \in Nat
    BY DEF Inv, NoBufs
  <1>2. /\ ~isQuit /\ isQuit \in BOOLEAN /\ nKeyFrameCount > 0
        /\ isQuit' = isQuit /\ nKeyFrameCount' = nKeyFrameCount
    BY DEF PushAudio, Inv
  <1>3. \/ file' = f /\ keyLost' = keyLost
        \/ file' = g /\ keyLost' = (keyLost \/ w.ret < 0)
    BY DEF PushAudio
  <1>4. Outcome(f) /\ f.first = file.first
    BY <1>1, FrameOutcome
  <1>5. f.first < 0 => keyLost
    BY <1>2, <1>4 DEF Inv
  <1> HIDE DEF f
  <1>6. Outcome(g) /\ (g.first < 0 => w.ret < 0)
    BY <1>1, <1>4, <1>5, AudioOutcome
  <1> HIDE DEF w, g
  <1>7. CASE file' = f /\ keyLost' = keyLost
    BY <1>1, <1>2, <1>4, <1>5, <1>7 DEF StepInv, Outcome
  <1>8. CASE file' = g /\ keyLost' = (keyLost \/ w.ret < 0)
    BY <1>1, <1>2, <1>6, <1>8 DEF StepInv, Outcome
  <1>9. QED
    BY <1>3, <1>7, <1>8

LEMMA OtherInv ==
  ASSUME Inv, LinkPauseUpload \/ LinkResumeUpload \/ LinkFlushUploader \/ LinkDestroyTsMuxUploader
  PROVE  StepInv
  <1> DEFINE f == Frame(file)
             g == switchTs(f)
  <1>1. /\ FileInv(file) /\ keyLost \in BOOLEAN /\ nKeyFrameCount \in Int /\ isQuit \in BOOLEAN
        /\ file.first < 0 /\ nKeyFrameCount > 0 /\ ~isQuit => keyLost
    BY DEF Inv
  <1>2. Outcome(f) /\ f.first = file.first /\ Outcome(g)
    BY <1>1, FrameOutcome, SwitchOutcome
  <1>3. CASE LinkPauseUpload \/ LinkFlushUploader
    <2>1. file' = g /\ nKeyFrameCount' = 0 /\ keyLost' = FALSE /\ isQuit' = isQuit
      BY <1>3 DEF LinkPauseUpload, LinkFlushUploader, EndFile
    <2> HIDE DEF f, g
    <2>2. FileInv(file') /\ OnlyEnd(file')
      BY <1>2, <2>1 DEF Outcome
    <2>3. keyLost' \in BOOLEAN /\ isQuit' \in BOOLEAN
      BY <1>1, <2>1, Zenon
    <2>4. nKeyFrameCount' \in Int /\ ~(nKeyFrameCount' > 0)
      BY <2>1
    <2>5. QED
      BY <2>2, <2>3, <2>4 DEF StepInv
  <1>4. CASE LinkResumeUpload
    <2>1. file' = f /\ nKeyFrameCount' = nKeyFrameCount /\ keyLost' = keyLost /\ isQuit' = isQuit
      BY <1>4 DEF LinkResumeUpload
    <2> HIDE DEF f, g
    <2>2. QED
      BY <1>1, <1>2, <2>1 DEF StepInv, Outcome
  <1>5. CASE LinkDestroyTsMuxUploader
    <2>1. file' = g /\ nKeyFrameCount' = nKeyFrameCount /\ keyLost' = keyLost /\ isQuit' = TRUE
      BY <1>5 DEF LinkDestroyTsMuxUploader
    <2> HIDE DEF f, g
    <2>2. QED
      BY <1>1, <1>2, <2>1 DEF StepInv, Outcome
  <1>6. QED
    BY <1>3, <1>4, <1>5

LEMMA NextInv == Inv /\ Next => StepInv
  <1> SUFFICES ASSUME Inv, Next PROVE StepInv
    OBVIOUS
  <1>1. ASSUME NEW pts \in Pts, NEW noBuf \in NoBufs, NEW segStart \in BOOLEAN,
               NEW es \in KeyLens, NEW sps \in SpsKinds, PushKeyFrame(es, pts, sps, segStart, noBuf)
        PROVE  StepInv
    BY <1>1, KeyFrameInv
  <1>2. ASSUME NEW pts \in Pts, NEW noBuf \in NoBufs, NEW segStart \in BOOLEAN,
               NEW es \in DeltaLens, PushDeltaFrame(es, pts, segStart, noBuf)
        PROVE  StepInv
    BY <1>2, DeltaFrameInv
  <1>3. ASSUME NEW pts \in Pts, NEW noBuf \in NoBufs, NEW es \in AudioLens,
               PushAudio(es, pts, noBuf)
        PROVE  StepInv
    BY <1>3, AudioInv
  <1>4. CASE LinkPauseUpload \/ LinkResumeUpload \/ LinkFlushUploader \/ LinkDestroyTsMuxUploader
    BY <1>4, OtherInv
  <1>5. QED
    BY <1>1, <1>2, <1>3, <1>4 DEF Next

LEMMA InitInv == Init => Inv
  <1> SUFFICES ASSUME Init PROVE Inv
    OBVIOUS
  <1> DEFINE none == <<>>
  <1>1. /\ file = NewFile(NewQueue, none) /\ nKeyFrameCount = 0 /\ isQuit = FALSE /\ keyLost = FALSE
    BY DEF Init
  <1>2. QueueTyped(NewQueue) /\ NewQueue.pkts = <<>> /\ none \in Seq(Reports)
    BY TsMuxAssumption DEF NewQueue, QueueTyped
  <1> HIDE DEF none
  <1>3. FileBase(file) /\ Empty(file)
    BY <1>1, <1>2, NewFileIs
  <1>4. FileInv(file)
    BY <1>3, EmptyInv
  <1>5. keyLost \in BOOLEAN /\ isQuit \in BOOLEAN
    BY <1>1, Zenon
  <1>6. nKeyFrameCount \in Int /\ ~(nKeyFrameCount > 0)
    BY <1>1
  <1>7. QED
    BY <1>4, <1>5, <1>6 DEF Inv

(* The inductive invariant, from which the properties below follow.        *)
THEOREM FileInvariant == Spec => []Inv
  <1>1. Inv /\ [Next]_vars => Inv'
    <2> SUFFICES ASSUME Inv, [Next]_vars PROVE Inv'
      OBVIOUS
    <2>1. CASE Next
      <3>1. StepInv
        BY <2>1, NextInv
      <3>2. QED
        BY <3>1 DEF StepInv, Inv
    <2>2. CASE UNCHANGED vars
      BY <2>2 DEF vars, Inv
    <2>3. QED
      BY <2>1, <2>2
  <1>2. QED
    BY InitInv, <1>1, PTL DEF Spec

-----------------------------------------------------------------------------
(* The counters: checked by the run ts_files as CountersContinuous.  A     *)
(* decoder finds no gap in any file, whatever was lost to missing buffers: *)
(* the counter is advanced before the packet is written, but then either   *)
(* the file is ended or no packet follows in it.                           *)
THEOREM CountersNeverSkip == Spec => []CountersContinuous
  <1>1. ASSUME Inv PROVE CountersContinuous
    <2>1. pkts \in Seq(AnyPacket) /\ PacketsCounted(pkts)
      BY <1>1 DEF Inv, FileInv, FileBase, QueueTyped, CountersHold, pkts
    <2>2. DOMAIN pkts = 1 .. Len(pkts)
      BY <2>1
    <2> HIDE DEF pkts
    <2>3. QED
      BY <2>1, <2>2 DEF CountersContinuous, PacketsCounted, CountOf
  <1>2. QED
    BY <1>1, FileInvariant, PTL

(* The index, checked by the run ts_files as IndexTrue: an entry made when *)
(* its frame was written stays true for the rest of the file, although the *)
(* position is put back when packets are lost to a full buffer, and the    *)
(* packets it names hold all the bytes of their key frame.                 *)
THEOREM IndexAlwaysTrue == Spec => []IndexTrue
  <1>1. ASSUME Inv PROVE IndexTrue
    <2>1. IndexRight(pkts, file.metas, file.ctx.nCurrentPos)
      BY <1>1 DEF Inv, FileInv, pkts
    <2> HIDE DEF pkts
    <2>2. QED
      BY <2>1 DEF IndexTrue, IndexRight, Begins, EntryRight, Bytes, BytesOf
  <1>2. QED
    BY <1>1, FileInvariant, PTL

(* A file begins at a key frame, checked by the run ts_files as            *)
(* FileStartsWithKeyFrame, but for the key frames counted and not written  *)
(* that keyLost is about.                                                  *)
THEOREM KeyFrameFirst == Spec => []FileStartsWithKeyFrame
  <1>1. ASSUME Inv PROVE FileStartsWithKeyFrame
    <2>1. pkts \in Seq(AnyPacket) /\ KeyLeads(pkts, file.keyLost)
      BY <1>1 DEF Inv, FileInv, FileBase, QueueTyped, KeyFirst, pkts
    <2>2. DOMAIN pkts = 1 .. Len(pkts)
      BY <2>1
    <2> HIDE DEF pkts
    <2>3. QED
      BY <2>1, <2>2 DEF FileStartsWithKeyFrame, KeyLeads, Leads
  <1>2. QED
    BY <1>1, FileInvariant, PTL

(* The frames of a file, checked by the run ts_files as FramesWhole: the   *)
(* packets of a frame, written one by one, are all in the file, one after  *)
(* the other, and hold all its bytes, whatever buffer was missing; only    *)
(* the last frame of a full file may be cut.  They can be decoded when a   *)
(* frame with the clock fills its first packet (20 bytes of PES header and *)
(* delimiter, 8 of clock, 4 of TS header).  Without that the code writes a *)
(* packet that cannot be decoded.                                          *)
ClockFits == \A es \in KeyLens \cup DeltaLens : es + 20 + 8 + 4 >= TsLen
LEMMA GoodFits ==
  ASSUME ClockFits, NEW pid, NEW fr, GoodFrame(pid, fr)
  PROVE  \A k \in 1 .. Len(CutOf(pid, fr)) : Decodable(CutOf(pid, fr)[k])
  <1> DEFINE pes == PesOf(pid, fr)
  <1>1. /\ Fresh(pes) /\ CutOf(pid, fr) = PESPackets(pes)
        /\ DOMAIN CutOf(pid, fr) = 1 .. Len(CutOf(pid, fr))
    BY GoodCut
  <1>2. /\ fr.es \in Nat \ {0} /\ fr.pcr \in BOOLEAN
        /\ pid # "video" => ~fr.pcr
        /\ pid = "video" => fr.es + 20 + 8 + 4 >= TsLen
    BY DEF GoodFrame, Frames, ClockFits
  <1>3. Fits(pes)
    BY <1>2 DEF InitPES, Fits, PesOf
  <1> HIDE DEF pes
  <1>4. FrameWhole(pes)
    BY <1>1, <1>3, PacketsWhole
  <1>5. QED
    BY <1>1, <1>4 DEF FrameWhole

(* What the packets i to j of p, all of one frame, are.                    *)
LEMMA FrameSet ==
  ASSUME NEW p, Len(p) \in Nat, Len(p) <= FileCap, FramesGood(p), FramesSet(p),
         NEW i \in 1 .. Len(p), NEW j \in 1 .. Len(p), i <= j,
         p[i].first, p[i].pid \notin Tables, \A k \in i + 1 .. j : ~p[k].first,
         j < Len(p) => p[j + 1].first
  PROVE  /\ \A k \in i .. j : /\ p[k].pid = p[i].pid /\ p[k].frame = p[i].frame
                              /\ k - i + 1 \in 1 .. Len(CutOf(p[i].pid, p[i].frame))
                              /\ p[k].parts = CutOf(p[i].pid, p[i].frame)[k - i + 1]
         /\ BytesOf(p, i, j) = p[i].frame.es \/ j = FileCap
  <1> DEFINE L == Len(p)
             cut == CutOf(p[i].pid, p[i].frame)
             n == Len(cut)
  <1>1. GoodFrame(p[i].pid, p[i].frame) /\ Set(p, i, cut)
    BY DEF FramesGood, FramesSet
  <1>2. n \in Nat \ {0}
    BY <1>1, GoodCut
  <1>3. /\ \A k \in 1 .. n : i + k - 1 <= L =>
             /\ p[i + k - 1].pid = p[i].pid /\ p[i + k - 1].frame = p[i].frame
             /\ p[i + k - 1].first = (k = 1) /\ p[i + k - 1].parts = cut[k]
        /\ i + n - 1 <= L \/ L = FileCap
        /\ i + n <= L => p[i + n].first
    BY <1>1 DEF Set
  <1>4. L \in Nat /\ L <= FileCap /\ i \in 1 .. L /\ j \in 1 .. L /\ i <= j
    OBVIOUS
  <1>5. j < L => p[j + 1].first
    OBVIOUS
  <1>6. \A k \in i + 1 .. j : ~p[k].first
    OBVIOUS
  <1> HIDE DEF cut, n, L
  <1>7. j <= i + n - 1
    <2> SUFFICES ASSUME i + n <= j PROVE FALSE
      BY <1>2, <1>4
    <2>1. i + n \in i + 1 .. j /\ i + n <= L
      BY <1>2, <1>4
    <2>2. QED
      BY <1>3, <1>6, <2>1
  <1>8. j = i + n - 1 \/ j = FileCap
    <2> SUFFICES ASSUME j < i + n - 1 PROVE j = FileCap
      BY <1>2, <1>4, <1>7
    <2>1. CASE j < L
      <3> DEFINE k == j + 1 - i + 1
      <3>1. k \in 1 .. n /\ i + k - 1 = j + 1 /\ i + k - 1 <= L /\ k # 1
        BY <1>2, <1>4, <2>1
      <3> HIDE DEF k
      <3>2. p[i + k - 1].first = (k = 1)
        BY <1>3, <3>1
      <3>3. p[j + 1].first
        BY <1>5, <2>1
      <3>4. QED
        BY <3>1, <3>2, <3>3
    <2>2. CASE j = L
      BY <1>2, <1>3, <1>4, <2>2
    <2>3. QED
      BY <1>4, <2>1, <2>2
  <1>9. ASSUME NEW k \in i .. j
        PROVE  /\ p[k].pid = p[i].pid /\ p[k].frame = p[i].frame
               /\ k - i + 1 \in 1 .. n /\ p[k].parts = cut[k - i + 1]
    <2> DEFINE m == k - i + 1
    <2>1. m \in 1 .. n /\ i + m - 1 = k /\ i + m - 1 <= L
      BY <1>2, <1>4, <1>7
    <2> HIDE DEF m
    <2>2. /\ p[i + m - 1].pid = p[i].pid /\ p[i + m - 1].frame = p[i].frame
          /\ p[i + m - 1].parts = cut[m]
      BY <1>3, <2>1
    <2>3. QED
      BY <2>1, <2>2 DEF m
  <1>10. ASSUME j = i + n - 1 PROVE BytesOf(p, i, j) = p[i].frame.es
    <2>1. \A k \in 1 .. n : p[i + k - 1].parts = cut[k]
      BY <1>2, <1>3, <1>4, <1>10
    <2>2. i \in Nat
      BY <1>4
    <2> DEFINE pid == p[i].pid
               fr == p[i].frame
    <2>3. GoodFrame(pid, fr) /\ n = Len(CutOf(pid, fr)) /\ cut = CutOf(pid, fr)
      BY <1>1 DEF n, cut
    <2> HIDE DEF pid, fr
    <2>4. Carries(p, i, CutOf(pid, fr))
      BY <2>1, <2>3 DEF Carries
    <2>5. BytesOf(p, i, j) = fr.es
      BY <1>10, <2>2, <2>3, <2>4, FrameBytes
    <2>6. QED
      BY <2>5 DEF fr
  <1>11. QED
    BY <1>8, <1>9, <1>10 DEF n, cut

THEOREM FramesNeverCut ==
  ASSUME ClockFits
  PROVE  Spec => []FramesWhole
  <1>1. ASSUME Inv PROVE FramesWhole
    <2>1. /\ pkts \in Seq(AnyPacket) /\ FramesGood(pkts) /\ FramesSet(pkts)
          /\ Len(pkts) <= FileCap
      BY <1>1 DEF Inv, FileInv, FileBase, QueueTyped, pkts
    <2>2. DOMAIN pkts = 1 .. Len(pkts) /\ Len(pkts) \in Nat
      BY <2>1
    <2> HIDE DEF pkts
    <2>3. \A i \in DOMAIN pkts : pkts[i].first \/ (i > 1 /\ pkts[i-1].pid = pkts[i].pid)
      BY <2>1, <2>2 DEF FramesSet
    <2>4. ASSUME NEW i \in DOMAIN pkts, NEW j \in DOMAIN pkts, i <= j, IsFrame(i, j)
          PROVE  /\ \A k \in i .. j : /\ pkts[k].pid = pkts[i].pid /\ pkts[k].frame = pkts[i].frame
                                      /\ Decodable(pkts[k].parts)
                 /\ Bytes(i, j) = pkts[i].frame.es \/ j = FileCap
      <3> DEFINE pid == pkts[i].pid
                 fr == pkts[i].frame
      <3>1. /\ \A k \in i .. j : /\ pkts[k].pid = pid /\ pkts[k].frame = fr
                                 /\ k - i + 1 \in 1 .. Len(CutOf(pid, fr))
                                 /\ pkts[k].parts = CutOf(pid, fr)[k - i + 1]
            /\ BytesOf(pkts, i, j) = fr.es \/ j = FileCap
        <4>1. /\ i \in 1 .. Len(pkts) /\ j \in 1 .. Len(pkts)
              /\ pkts[i].first /\ pkts[i].pid \notin Tables
              /\ \A k \in i + 1 .. j : ~pkts[k].first
              /\ j < Len(pkts) => pkts[j + 1].first
          BY <2>2, <2>4 DEF IsFrame
        <4>2. QED
          BY <2>1, <2>2, <2>4, <4>1, FrameSet
      <3>2. GoodFrame(pid, fr)
        BY <2>1, <2>2, <2>4 DEF IsFrame, FramesGood
      <3> HIDE DEF pid, fr
      <3>3. \A k \in 1 .. Len(CutOf(pid, fr)) : Decodable(CutOf(pid, fr)[k])
        BY <3>2, GoodFits
      <3>4. \A k \in i .. j : Decodable(pkts[k].parts)
        BY <3>1, <3>3
      <3>5. Bytes(i, j) = BytesOf(pkts, i, j)
        BY DEF Bytes, BytesOf
      <3>6. QED
        BY <3>1, <3>4, <3>5 DEF pid, fr
    <2>5. QED
      BY <2>3, <2>4 DEF FramesWhole
  <1>2. QED
    BY <1>1, FileInvariant, PTL

LEMMA SpanIs ==
  ASSUME pkts \in Seq(AnyPacket), NEW pids, NEW a, NEW b, Spanned(pkts, pids, a, b)
  PROVE  Span(pids) = b - a
  <1> DEFINE p == pkts
             S == Starts(pids)
             first == CHOOSE i \in S : \A j \in S : i <= j
             last == CHOOSE i \in S : \A j \in S : j <= i
  <1>1. S = StartsOf(p, pids) /\ S \subseteq Nat
    <2>1. DOMAIN p = 1 .. Len(p)
      OBVIOUS
    <2> HIDE DEF p
    <2>2. QED
      BY <2>1 DEF Starts, StartsOf, p
  <1>2. CASE S = {}
    <2>1. a = 0 /\ b = 0
      BY <1>1, <1>2 DEF Spanned
    <2>2. Span(pids) = 0
      BY <1>2 DEF Span
    <2>3. QED
      BY <2>1, <2>2
  <1>3. CASE S # {}
    <2>1. PICK lo, hi \in S : /\ \A j \in S : lo <= j /\ j <= hi
                              /\ a = p[lo].frame.pts /\ b = p[hi].frame.pts
      <3> HIDE DEF p, S
      <3>1. QED
        BY <1>1, <1>3 DEF Spanned, p
    <2>2. Span(pids) = p[last].frame.pts - p[first].frame.pts
      BY <1>3 DEF Span
    <2> HIDE DEF p, S
    <2>3. first \in S /\ \A j \in S : first <= j
      BY <2>1
    <2>4. last \in S /\ \A j \in S : j <= last
      BY <2>1
    <2> HIDE DEF first, last
    <2>5. first = lo /\ last = hi
      BY <1>1, <2>1, <2>3, <2>4
    <2>6. QED
      BY <2>1, <2>2, <2>5
  <1>4. QED
    BY <1>2, <1>3

(* The durations of a file, checked by the run ts_files as EndCoversFile:  *)
(* whatever call ends it, what is reported is the time between the first   *)
(* and the last frame that are in it, unless its buffer was full.          *)
THEOREM EndsCovered == Spec => EndCoversFile
  <1> DEFINE Covers ==
        \A i \in DOMAIN file'.reports :
          (file'.reports[i].type = "END" /\ Len(pkts) < FileCap) =>
            /\ file'.reports[i].video = Span({"video"})
            /\ file'.reports[i].media = Span({"video", "audio"})
  <1>1. ASSUME Inv, Next PROVE Covers
    <2>1. OnlyEnd(file')
      BY <1>1, NextInv DEF StepInv
    <2>2. pkts \in Seq(AnyPacket) /\ Spans(file)
      BY <1>1 DEF Inv, FileInv, FileBase, QueueTyped, pkts
    <2>3. ASSUME NEW i \in DOMAIN file'.reports, file'.reports[i].type = "END", Len(pkts) < FileCap
          PROVE  /\ file'.reports[i].video = Span({"video"})
                 /\ file'.reports[i].media = Span({"video", "audio"})
      <3>1. file.first >= 0 /\ file'.reports[i] = TimeInfo(file, "END")
        BY <2>1, <2>3 DEF OnlyEnd
      <3>2. /\ file'.reports[i].video = file.lastVideo - file.firstVideo
            /\ file'.reports[i].media = file.last - file.first
        BY <3>1 DEF TimeInfo, Report
      <3>3. /\ Spanned(pkts, Media, file.first, file.last)
            /\ Spanned(pkts, {"video"}, file.firstVideo, file.lastVideo)
        BY <2>2, <2>3, <3>1 DEF Spans, pkts
      <3>4. Span(Media) = file.last - file.first
        BY <2>2, <3>3, SpanIs
      <3>5. Span({"video"}) = file.lastVideo - file.firstVideo
        BY <2>2, <3>3, SpanIs
      <3>6. QED
        BY <3>2, <3>4, <3>5 DEF Media
    <2>4. QED
      BY <2>3
  <1>2. Inv /\ [Next]_vars => [Covers]_vars
    BY <1>1
  <1>3. QED
    BY <1>2, FileInvariant, PTL DEF Spec, EndCoversFile
=============================================================================
