---------------------------- MODULE TsUploaderProofs ----------------------------
(***************************************************************************)
(* The counts and the memory of TsUploader, for every size of the pool, of *)
(* the cache and of the command queues, and any number of TS files.        *)
(***************************************************************************)
EXTENDS TsUploader, FiniteSetTheorems, FunctionTheorems, SequenceTheorems, TLAPS

Uploads == {Cmd("UPLOAD", t) : t \in Ts}
Drops == {Cmd("DROP", t) : t \in Ts}
Files == Uploads \cup Drops
WorkCmds == Uploads \cup {Cmd(type, NoTs) : type \in {"START", "END", "DROP", "META", "OTHER", "QUIT"}}
CbCmds == Files \cup {Cmd(type, NoTs) : type \in {"META", "QUIT"}}

Typed ==
  /\ tsItemUsedFlag \in [Slots -> BOOLEAN]
  /\ nCount \in [Ts -> Nat]
  /\ item \in [Ts -> Slots \cup {NoSlot}]
  /\ pQueue_ \in Ts \cup {NoTs} /\ last \in Ts /\ open \in BOOLEAN
  /\ muxPc \in {"idle", "upload", "cb", "alloc"} /\ muxCmd \in Files \cup {NoCmd}
  /\ nTsCacheNum \in Nat
  /\ cmdQ \in Seq(WorkCmds) /\ cbQ \in Seq(CbCmds)
  /\ workPc \in {"pop", "upload", "uploaded", "dropped", "exited"}
  /\ workTs \in Ts \cup {NoTs}
  /\ cbPc \in {"pop", "output", "exited"} /\ cbCmd \in Files \cup {NoCmd}

(* Where the threads are, and what they have in their hands there.         *)
Places ==
  /\ muxPc = "upload" => muxCmd \in Uploads
  /\ muxPc = "cb" => muxCmd \in Files
  /\ muxPc # "idle" => open /\ pQueue_ = NoTs
  /\ muxPc = "idle" /\ open => pQueue_ # NoTs
  /\ open => last < MaxTs
  /\ workPc = "upload" => workTs \in Ts
  /\ cbPc = "output" <=> cbCmd \in Files
  /\ destroyPc # "no" => closed /\ muxPc = "idle" /\ ~open
  /\ destroyPc \in {"quitcb", "quitcmd", "join"} => pQueue_ # NoTs
  /\ closed => metaPc = "idle"
  /\ destroyPc = "done" => workPc = "exited" /\ cbPc = "exited" /\ cbQ = <<>>

(* A file has one holder on the callback's side, at most one on the        *)
(* worker's, and none there before it is handed over or when it is         *)
(* dropped.  Files to come have none.                                      *)
InMux(t) == muxPc \in {"upload", "cb"} /\ muxCmd.ts = t
Dropped(t) ==
  \/ muxPc = "cb" /\ muxCmd = Cmd("DROP", t)
  \/ cbCmd = Cmd("DROP", t)
  \/ Occurrences(cbQ, {Cmd("DROP", t)}) > 0
Held(t) ==
  /\ nCount[t] = WorkRefs(t) + CbRefs(t) + MuxRefs(t) + LostRefs(t)
  /\ B(pQueue_ = t) + B(InMux(t)) + CbRefs(t) + LostRefs(t) <= 1
  /\ WorkRefs(t) <= 1
  /\ pQueue_ = t \/ (InMux(t) /\ muxPc = "upload") \/ Dropped(t) => WorkRefs(t) = 0
  /\ t > last => nCount[t] = 0

(* The muxer has looked at the cache before it hands a file over.          *)
CacheInv ==
  /\ nTsCacheNum = Occurrences(cmdQ, Uploads) + B(workPc \in {"upload", "uploaded"})
  /\ nTsCacheNum <= nTsMaxCacheNum
  /\ muxPc = "upload" => nTsCacheNum < nTsMaxCacheNum

Running == destroyPc # "done"

UploaderInv ==
  /\ Typed /\ Places /\ SlotsOwned
  /\ Running => CacheInv /\ \A t \in Ts : Held(t)

-----------------------------------------------------------------------------
(* How often commands of a kind are in a queue.                            *)
LEMMA OccType ==
  ASSUME NEW C, NEW q \in Seq(C), NEW S
  PROVE  Occurrences(q, S) \in Nat /\ IsFiniteSet({i \in DOMAIN q : q[i] \in S})
  <1>1. DOMAIN q = 1 .. Len(q) /\ Len(q) \in Nat
    BY LenProperties
  <1>2. IsFiniteSet(1 .. Len(q))
    BY <1>1, FS_Interval
  <1>3. {i \in DOMAIN q : q[i] \in S} \in SUBSET (1 .. Len(q))
    BY <1>1
  <1>4. IsFiniteSet({i \in DOMAIN q : q[i] \in S})
    BY <1>2, <1>3, FS_Subset
  <1>5. QED BY <1>4, FS_CardinalityType DEF Occurrences

LEMMA OccEmpty == \A S : Occurrences(<<>>, S) = 0
  <1>1. \A S : {i \in DOMAIN <<>> : <<>>[i] \in S} = {}
    OBVIOUS
  <1>2. QED BY <1>1, FS_EmptySet DEF Occurrences

LEMMA OccSubset ==
  ASSUME NEW C, NEW q \in Seq(C), NEW S, NEW R \in SUBSET S
  PROVE  Occurrences(q, R) <= Occurrences(q, S)
  <1>1. {i \in DOMAIN q : q[i] \in R} \in SUBSET {i \in DOMAIN q : q[i] \in S}
    OBVIOUS
  <1>2. IsFiniteSet({i \in DOMAIN q : q[i] \in S})
    BY OccType
  <1>3. QED BY <1>1, <1>2, FS_Subset DEF Occurrences

(* A queue that holds one has at least one.                                *)
LEMMA OccSome ==
  ASSUME NEW C, NEW q \in Seq(C), NEW S, NEW i \in DOMAIN q, q[i] \in S
  PROVE  Occurrences(q, S) >= 1
  <1> DEFINE A == {j \in DOMAIN q : q[j] \in S}
  <1>1. A # {} /\ IsFiniteSet(A) /\ Occurrences(q, S) = Cardinality(A)
    BY OccType DEF Occurrences
  <1>2. Occurrences(q, S) \in Nat
    BY OccType
  <1> HIDE DEF A
  <1>3. QED BY <1>1, <1>2, FS_EmptySet

LEMMA OccAppend ==
  ASSUME NEW C, NEW q \in Seq(C), NEW c \in C, NEW S
  PROVE  Occurrences(Append(q, c), S) = Occurrences(q, S) + B(c \in S)
  <1> DEFINE n == Len(q) + 1
             A == {i \in DOMAIN q : q[i] \in S}
             a == {i \in DOMAIN Append(q, c) : Append(q, c)[i] \in S}
  <1>1. /\ DOMAIN q = 1 .. Len(q) /\ Len(q) \in Nat
        /\ DOMAIN Append(q, c) = 1 .. n
        /\ Append(q, c)[n] = c /\ \A i \in 1 .. Len(q) : Append(q, c)[i] = q[i]
    <2>1. DOMAIN q = 1 .. Len(q) /\ Len(q) \in Nat
      BY LenProperties
    <2>2. QED BY <2>1
  <1>2. a = IF c \in S THEN A \cup {n} ELSE A
    BY <1>1
  <1>3. n \notin A
    BY <1>1
  <1>0. IsFiniteSet(A)
    BY OccType
  <1>4. Cardinality(A \cup {n}) = Cardinality(A) + 1
    BY <1>0, <1>3, FS_AddElement
  <1>5. Cardinality(A) \in Nat
    BY <1>0, FS_CardinalityType
  <1>6. Occurrences(q, S) = Cardinality(A) /\ Occurrences(Append(q, c), S) = Cardinality(a)
    BY DEF Occurrences
  <1> HIDE DEF A, a
  <1>7. QED BY <1>2, <1>4, <1>5, <1>6 DEF B

LEMMA OccTail ==
  ASSUME NEW C, NEW q \in Seq(C), q # <<>>, NEW S
  PROVE  Occurrences(q, S) = Occurrences(Tail(q), S) + B(Head(q) \in S)
  <1> DEFINE n == Len(q)
             A == {i \in DOMAIN q : q[i] \in S}
             a == {i \in DOMAIN Tail(q) : Tail(q)[i] \in S}
             f == [i \in a |-> i + 1]
  <1>1. /\ DOMAIN q = 1 .. n /\ n \in Nat \ {0} /\ Head(q) = q[1]
        /\ DOMAIN Tail(q) = 1 .. n - 1
        /\ \A i \in 1 .. n - 1 : Tail(q)[i] = q[i + 1]
        /\ Tail(q) \in Seq(C)
    BY LenProperties, EmptySeq, HeadTailProperties
  <1>2. IsFiniteSet(A) /\ IsFiniteSet(a)
    BY <1>1, OccType
  <1>3. f \in [a -> A \ {1}]
    BY <1>1
  <1>4. \A j \in A \ {1} : j - 1 \in a /\ f[j - 1] = j
    BY <1>1
  <1>5. \A i, j \in a : f[i] = f[j] => i = j
    BY <1>1
  <1>6. f \in Bijection(a, A \ {1})
    <2>1. f \in Injection(a, A \ {1})
      BY <1>3, <1>5 DEF Injection, IsInjective
    <2>2. f \in Surjection(a, A \ {1})
      BY <1>3, <1>4 DEF Surjection
    <2>3. QED BY <2>1, <2>2 DEF Bijection
  <1>7. Cardinality(A \ {1}) = Cardinality(a)
    BY ZenonT(60), <1>2, <1>6, FS_Bijection DEF ExistsBijection
  <1>8. Cardinality(A \ {1}) = IF 1 \in A THEN Cardinality(A) - 1 ELSE Cardinality(A)
    BY <1>2, FS_RemoveElement
  <1>9. Cardinality(A) \in Nat /\ Cardinality(a) \in Nat
    BY <1>2, FS_CardinalityType
  <1>10. 1 \in A <=> Head(q) \in S
    BY <1>1
  <1>11. Occurrences(q, S) = Cardinality(A) /\ Occurrences(Tail(q), S) = Cardinality(a)
    BY DEF Occurrences
  <1> HIDE DEF A, a
  <1>12. QED BY <1>7, <1>8, <1>9, <1>10, <1>11 DEF B

-----------------------------------------------------------------------------
(* Commands.                                                               *)
LEMMA CmdShape == \A x, y, t, u :
  /\ Cmd(x, t) = Cmd(y, u) <=> x = y /\ t = u
  /\ Cmd(x, t).type = x /\ Cmd(x, t).ts = t
  BY DEF Cmd

LEMMA CmdFacts ==
  /\ NoTs \notin Ts /\ NoCmd \notin Files /\ NoCmd.ts = NoTs
  /\ \A c \in Files : c.ts \in Ts /\ c.type \in {"UPLOAD", "DROP"} /\ c = Cmd(c.type, c.ts)
  /\ \A c \in Files : c \in Uploads <=> c.type = "UPLOAD"
  /\ \A t \in Ts : Cmd("UPLOAD", t) \in Uploads \cap Files \cap WorkCmds \cap CbCmds
  /\ \A t \in Ts : Cmd("DROP", t) \in (Files \cap CbCmds) \ Uploads
  <1>1. NoTs \notin Ts
    BY DEF NoTs, Ts
  <1>2. \A c \in Files : c.ts \in Ts /\ c.type \in {"UPLOAD", "DROP"} /\ c = Cmd(c.type, c.ts)
    BY CmdShape DEF Files, Uploads, Drops
  <1>3. \A c \in Files : c \in Uploads <=> c.type = "UPLOAD"
    BY CmdShape DEF Files, Uploads, Drops
  <1>4. NoCmd \notin Files /\ NoCmd.ts = NoTs
    BY <1>1, <1>2, CmdShape DEF NoCmd
  <1>5. \A t \in Ts : Cmd("UPLOAD", t) \in Uploads \cap Files \cap WorkCmds \cap CbCmds
    BY DEF Files, Uploads, WorkCmds, CbCmds
  <1>6. \A t \in Ts : Cmd("DROP", t) \in Files \cap CbCmds
    BY DEF Files, Drops, CbCmds
  <1>7. QED BY <1>1, <1>2, <1>3, <1>4, <1>5, <1>6, CmdShape

LEMMA WorkCmdFacts ==
  /\ \A c \in WorkCmds :
       /\ c.type = "UPLOAD" <=> c \in Uploads
       /\ c \in Uploads => c \in Files /\ c = Cmd("UPLOAD", c.ts)
       /\ c.ts \in Ts \cup {NoTs}
  /\ \A type \in {"START", "END", "DROP", "META", "OTHER", "QUIT"} :
       Cmd(type, NoTs) \in WorkCmds \ Uploads
  <1>1. ASSUME NEW c \in Uploads
        PROVE  c \in Files /\ c.type = "UPLOAD" /\ c = Cmd("UPLOAD", c.ts) /\ c.ts \in Ts
    BY CmdFacts DEF Files
  <1>2. ASSUME NEW type \in {"START", "END", "DROP", "META", "OTHER", "QUIT"}
        PROVE  /\ Cmd(type, NoTs) \in WorkCmds /\ Cmd(type, NoTs) \notin Uploads
               /\ Cmd(type, NoTs).type # "UPLOAD" /\ Cmd(type, NoTs).ts = NoTs
    BY <1>1, CmdShape DEF WorkCmds
  <1>3. QED BY <1>1, <1>2 DEF WorkCmds

LEMMA CbCmdFacts ==
  /\ \A c \in CbCmds : c \in Files <=> c.type \in {"UPLOAD", "DROP"}
  /\ \A type \in {"META", "QUIT"} : Cmd(type, NoTs) \in CbCmds \ Files
  <1>1. ASSUME NEW type \in {"META", "QUIT"}
        PROVE  /\ Cmd(type, NoTs) \in CbCmds /\ Cmd(type, NoTs) \notin Files
               /\ Cmd(type, NoTs).type = type
    BY CmdFacts, CmdShape DEF CbCmds
  <1>2. QED BY <1>1, CmdFacts DEF CbCmds

(* What the counts are after a push and after a pop.                       *)
LEMMA CmdCounts ==
  ASSUME Typed
  PROVE  \A S : Occurrences(cmdQ, S) \in Nat
  BY OccType DEF Typed

LEMMA CbCounts ==
  ASSUME Typed
  PROVE  \A S : Occurrences(cbQ, S) \in Nat
  BY OccType DEF Typed

LEMMA PutCmdCounts ==
  ASSUME Typed, NEW c \in WorkCmds, PutCmd(c)
  PROVE  /\ cmdQ' \in Seq(WorkCmds)
         /\ \A S : Occurrences(cmdQ', S) = Occurrences(cmdQ, S) + B(c \in S)
  BY OccAppend DEF PutCmd, Typed

LEMMA PutCbCounts ==
  ASSUME Typed, NEW c \in CbCmds, PutCb(c)
  PROVE  /\ cbQ' \in Seq(CbCmds)
         /\ \A S : Occurrences(cbQ', S) = Occurrences(cbQ, S) + B(c \in S)
  BY OccAppend DEF PutCb, Typed

LEMMA PopCmdCounts ==
  ASSUME Typed, cmdQ # <<>>, cmdQ' = Tail(cmdQ)
  PROVE  /\ cmdQ' \in Seq(WorkCmds) /\ Head(cmdQ) \in WorkCmds
         /\ \A S : Occurrences(cmdQ, S) = Occurrences(cmdQ', S) + B(Head(cmdQ) \in S)
         /\ \A S : Occurrences(cmdQ', S) \in Nat
  <1>1. cmdQ' \in Seq(WorkCmds) /\ Head(cmdQ) \in WorkCmds
    BY HeadTailProperties DEF Typed
  <1>2. QED BY <1>1, OccTail, OccType DEF Typed

LEMMA PopCbCounts ==
  ASSUME Typed, cbQ # <<>>, cbQ' = Tail(cbQ)
  PROVE  /\ cbQ' \in Seq(CbCmds) /\ Head(cbQ) \in CbCmds
         /\ \A S : Occurrences(cbQ, S) = Occurrences(cbQ', S) + B(Head(cbQ) \in S)
         /\ \A S : Occurrences(cbQ', S) \in Nat
  <1>1. cbQ' \in Seq(CbCmds) /\ Head(cbQ) \in CbCmds
    BY HeadTailProperties DEF Typed
  <1>2. QED BY <1>1, OccTail, OccType DEF Typed

-----------------------------------------------------------------------------
(* The pool.                                                               *)
MemTyped ==
  /\ tsItemUsedFlag \in [Slots -> BOOLEAN]
  /\ nCount \in [Ts -> Nat]
  /\ item \in [Ts -> Slots \cup {NoSlot}]

LEMMA SlotFacts == NoSlot \notin Slots /\ NoTs \notin Ts
  BY UploaderAssumption DEF UploaderAssumption, NoSlot, Slots, NoTs, Ts

LEMMA DestroyQueueStep ==
  ASSUME MemTyped, SlotsOwned, NEW t \in Ts, nCount[t] >= 1, LinkDestroyQueue(t)
  PROVE  /\ MemTyped' /\ SlotsOwned'
         /\ nCount' = [nCount EXCEPT ![t] = @ - 1]
  <1>1. nCount' = [nCount EXCEPT ![t] = @ - 1] /\ nCount' \in [Ts -> Nat]
    BY DEF LinkDestroyQueue, MemTyped
  <1>2. CASE nCount[t] > 1
    <2>1. tsItemUsedFlag' = tsItemUsedFlag /\ item' = item
      BY <1>2 DEF LinkDestroyQueue, MemTyped
    <2>2. \A u \in Ts : nCount'[u] > 0 <=> nCount[u] > 0
      BY <1>1, <1>2 DEF MemTyped
    <2>3. QED BY <1>1, <2>1, <2>2 DEF MemTyped, SlotsOwned
  <1>3. CASE nCount[t] = 1
    <2>1. /\ tsItemUsedFlag' = [tsItemUsedFlag EXCEPT ![item[t]] = FALSE]
          /\ item' = [item EXCEPT ![t] = NoSlot]
      BY <1>3 DEF LinkDestroyQueue, FreeTs, MemTyped
    <2>2. item[t] \in Slots
      BY <1>3 DEF MemTyped, SlotsOwned
    <2>3. MemTyped'
      BY <1>1, <2>1, <2>2 DEF MemTyped
    <2>4. nCount'[t] = 0 /\ \A u \in Ts \ {t} : nCount'[u] = nCount[u]
      BY <1>1, <1>3 DEF MemTyped
    <2>5. item'[t] = NoSlot /\ \A u \in Ts \ {t} : item'[u] = item[u]
      BY <2>1 DEF MemTyped
    <2>6. \A u \in Ts : nCount'[u] > 0 <=> item'[u] # NoSlot
      BY <2>4, <2>5 DEF SlotsOwned
    <2>7. \A u, v \in Ts : item'[u] = item'[v] /\ item'[u] # NoSlot => u = v
      BY <2>5 DEF SlotsOwned
    <2>8. \A s \in Slots : tsItemUsedFlag'[s] <=> \E u \in Ts : item'[u] = s
      BY <2>1, <2>2, <2>5, SlotFacts DEF SlotsOwned, MemTyped
    <2>9. QED BY <1>1, <2>3, <2>6, <2>7, <2>8 DEF SlotsOwned
  <1>4. QED BY <1>2, <1>3 DEF MemTyped

LEMMA AllocStep ==
  ASSUME MemTyped, SlotsOwned, last + 1 \in Ts, nCount[last + 1] = 0, AllocDataQueue
  PROVE  /\ MemTyped' /\ SlotsOwned'
         /\ \/ FreeSlots = {} /\ pQueue_' = NoTs /\ last' = last /\ nCount' = nCount
            \/ pQueue_' = last + 1 /\ last' = last + 1 /\ nCount' = [nCount EXCEPT ![last + 1] = 1]
  <1>1. CASE FreeSlots = {} /\ pQueue_' = NoTs /\ UNCHANGED <<mem, last>>
    BY <1>1 DEF mem, MemTyped, SlotsOwned
  <1>2. ASSUME NEW s \in FreeSlots,
               tsItemUsedFlag' = [tsItemUsedFlag EXCEPT ![s] = TRUE],
               nCount' = [nCount EXCEPT ![last + 1] = 1],
               item' = [item EXCEPT ![last + 1] = s]
        PROVE  MemTyped' /\ SlotsOwned'
    <2>1. s \in Slots /\ ~tsItemUsedFlag[s] /\ item[last + 1] = NoSlot
      BY DEF FreeSlots, SlotsOwned
    <2>2. MemTyped'
      BY <1>2, <2>1 DEF MemTyped
    <2>3. nCount'[last + 1] = 1 /\ \A u \in Ts \ {last + 1} : nCount'[u] = nCount[u]
      BY <1>2 DEF MemTyped
    <2>4. item'[last + 1] = s /\ \A u \in Ts \ {last + 1} : item'[u] = item[u]
      BY <1>2 DEF MemTyped
    <2>5. \A u \in Ts : item[u] # s
      BY <2>1 DEF SlotsOwned
    <2>6. \A u \in Ts : nCount'[u] > 0 <=> item'[u] # NoSlot
      BY <2>1, <2>3, <2>4, SlotFacts DEF SlotsOwned
    <2>7. \A u, v \in Ts : item'[u] = item'[v] /\ item'[u] # NoSlot => u = v
      BY <2>4, <2>5 DEF SlotsOwned
    <2>8. \A r \in Slots : tsItemUsedFlag'[r] <=> \E u \in Ts : item'[u] = r
      BY <1>2, <2>1, <2>4, SlotFacts DEF SlotsOwned, MemTyped
    <2>9. QED BY <2>2, <2>6, <2>7, <2>8 DEF SlotsOwned
  <1>3. QED BY <1>1, <1>2 DEF AllocDataQueue

-----------------------------------------------------------------------------
LEMMA InitInv == Init => UploaderInv
  <1> SUFFICES ASSUME Init PROVE UploaderInv
    OBVIOUS
  <1> USE DEF Init
  <1>1. 1 \in Ts /\ 0 \in Slots /\ NoSlot # 0
    BY UploaderAssumption DEF UploaderAssumption, Ts, Slots, NoSlot
  <1>2. Typed
    BY <1>1, EmptySeq DEF Typed
  <1>3. Places
    BY CmdFacts DEF Places
  <1>4. SlotsOwned
    <2>1. \A s \in Slots : tsItemUsedFlag[s] <=> s = 0
      OBVIOUS
    <2>2. \A t \in Ts : item[t] = (IF t = 1 THEN 0 ELSE NoSlot) /\ (nCount[t] > 0 <=> t = 1)
      OBVIOUS
    <2>3. \A s \in Slots : s = 0 <=> \E t \in Ts : item[t] = s
      BY <1>1, <2>2, SlotFacts
    <2>4. QED BY <1>1, <2>1, <2>2, <2>3 DEF SlotsOwned
  <1>5. CacheInv
    BY OccEmpty, UploaderAssumption DEF CacheInv, B, UploaderAssumption
  <1>6. ASSUME NEW t \in Ts PROVE Held(t)
    <2>1. /\ WorkRefs(t) = 0 /\ CbRefs(t) = 0 /\ LostRefs(t) = 0 /\ MuxRefs(t) = B(t = 1)
          /\ ~InMux(t) /\ ~Dropped(t)
      BY OccEmpty, CmdFacts, CmdShape DEF WorkRefs, CbRefs, LostRefs, MuxRefs, B, InMux, Dropped, NoCmd
    <2>2. t > 1 \/ t = 1
      BY DEF Ts
    <2>3. QED BY <2>1, <2>2 DEF Held, B
  <1>7. QED BY <1>2, <1>3, <1>4, <1>5, <1>6 DEF UploaderInv

-----------------------------------------------------------------------------
(* Steps that hand over no file: other commands may be pushed, and threads *)
(* may leave.                                                              *)
Quiet ==
  /\ UNCHANGED <<mem, mux, nTsCacheNum, workTs, cbCmd, refused>>
  /\ cmdQ' = cmdQ \/ \E c \in WorkCmds \ Uploads : PutCmd(c)
  /\ cbQ' = cbQ \/ \E c \in CbCmds \ Files : PutCb(c)
  /\ workPc' = workPc \/ (workPc = "pop" /\ workPc' = "exited")
  /\ cbPc' = cbPc \/ (cbPc = "pop" /\ cbPc' = "exited")

LEMMA QuietInv ==
  ASSUME UploaderInv, Quiet, Places', destroyPc' = "done" <=> destroyPc = "done"
  PROVE  UploaderInv'
  <1> USE DEF UploaderInv
  <1>1. UNCHANGED <<tsItemUsedFlag, nCount, item, pQueue_, last, open, muxPc, muxCmd,
                    nTsCacheNum, workTs, cbCmd, refused>>
    BY DEF Quiet, mem, mux
  <1>2. /\ cmdQ' \in Seq(WorkCmds)
        /\ \A S \in SUBSET Uploads : Occurrences(cmdQ', S) = Occurrences(cmdQ, S)
    <2>1. CASE cmdQ' = cmdQ
      BY <2>1 DEF Typed
    <2>2. ASSUME NEW c \in WorkCmds \ Uploads, PutCmd(c)
          PROVE  /\ cmdQ' \in Seq(WorkCmds)
                 /\ \A S \in SUBSET Uploads : Occurrences(cmdQ', S) = Occurrences(cmdQ, S)
      BY <2>2, PutCmdCounts, CmdCounts DEF B
    <2>3. QED BY <2>1, <2>2 DEF Quiet
  <1>3. /\ cbQ' \in Seq(CbCmds)
        /\ \A S \in SUBSET Files : Occurrences(cbQ', S) = Occurrences(cbQ, S)
    <2>1. CASE cbQ' = cbQ
      BY <2>1 DEF Typed
    <2>2. ASSUME NEW c \in CbCmds \ Files, PutCb(c)
          PROVE  /\ cbQ' \in Seq(CbCmds)
                 /\ \A S \in SUBSET Files : Occurrences(cbQ', S) = Occurrences(cbQ, S)
      BY <2>2, PutCbCounts, CbCounts DEF B
    <2>3. QED BY <2>1, <2>2 DEF Quiet
  <1>4. Typed'
    BY <1>1, <1>2, <1>3 DEF Typed, Quiet
  <1>5. SlotsOwned'
    BY <1>1 DEF SlotsOwned
  <1>6. Uploads \in SUBSET Uploads
    OBVIOUS
  <1>7. (workPc' \in {"upload", "uploaded"} <=> workPc \in {"upload", "uploaded"})
        /\ (workPc' = "upload" <=> workPc = "upload")
    BY DEF Quiet
  <1>8. CacheInv => CacheInv'
    BY <1>1, <1>2, <1>6, <1>7 DEF CacheInv, B
  <1>9. ASSUME NEW t \in Ts, Held(t) PROVE Held(t)'
    <2>1. /\ {Cmd("UPLOAD", t)} \in SUBSET Uploads /\ {Cmd("DROP", t)} \in SUBSET Files
          /\ {Cmd("UPLOAD", t), Cmd("DROP", t)} \in SUBSET Files
      BY CmdFacts
    <2>2. WorkRefs(t)' = WorkRefs(t)
      BY <2>1, <1>1, <1>2, <1>7 DEF WorkRefs, B
    <2>3. CbRefs(t)' = CbRefs(t) /\ Dropped(t)' = Dropped(t)
      BY <2>1, <1>1, <1>3 DEF CbRefs, Dropped, B
    <2>4. MuxRefs(t)' = MuxRefs(t) /\ LostRefs(t)' = LostRefs(t) /\ InMux(t)' = InMux(t)
      BY <1>1 DEF MuxRefs, LostRefs, InMux, B
    <2>5. QED BY <1>1, <1>9, <2>2, <2>3, <2>4 DEF Held, B
  <1>10. QED BY <1>4, <1>5, <1>8, <1>9 DEF Running

LEMMA CallersInv ==
  ASSUME UploaderInv, SetMeta \/ SetMetaCb \/ PushOther
  PROVE  UploaderInv'
  <1>1. UNCHANGED <<mem, mux, nTsCacheNum, work, cb, ending, hist>>
    BY DEF SetMeta, SetMetaCb, PushOther
  <1>2. cmdQ' = cmdQ \/ \E c \in WorkCmds \ Uploads : PutCmd(c)
    BY WorkCmdFacts DEF SetMeta, SetMetaCb, PushOther
  <1>3. cbQ' = cbQ \/ \E c \in CbCmds \ Files : PutCb(c)
    BY CbCmdFacts DEF SetMeta, SetMetaCb, PushOther
  <1>4. Quiet
    BY <1>1, <1>2, <1>3 DEF Quiet, work, cb, hist
  <1>5. Places'
    <2> USE DEF UploaderInv, Places, mem, mux, work, cb, ending
    <2>1. closed' => metaPc' = "idle"
      BY <1>1 DEF SetMeta, SetMetaCb, PushOther
    <2>2. destroyPc = "done" => cbQ' = cbQ
      BY DEF SetMeta, SetMetaCb, PushOther
    <2>3. QED BY <1>1, <2>1, <2>2
  <1>6. QED BY <1>1, <1>4, <1>5, QuietInv DEF ending

LEMMA IdleInv ==
  ASSUME UploaderInv, WorkPopNothing \/ CbPopNothing
  PROVE  UploaderInv'
  <1>1. CASE WorkPopNothing
    <2>1. Quiet
      BY <1>1 DEF WorkPopNothing, WorkNext, Quiet, cb, hist
    <2>2. Places'
      BY <1>1 DEF WorkPopNothing, WorkNext, UploaderInv, Places, mux, cb, calls, ending
    <2>3. QED BY <1>1, <2>1, <2>2, QuietInv DEF WorkPopNothing, ending
  <1>2. CASE CbPopNothing
    <2>1. Quiet
      BY <1>2 DEF CbPopNothing, CbNext, Quiet, work, hist
    <2>2. Places'
      BY <1>2 DEF CbPopNothing, CbNext, UploaderInv, Places, mux, work, calls, ending
    <2>3. QED BY <1>2, <2>1, <2>2, QuietInv DEF CbPopNothing, ending
  <1>3. QED BY <1>1, <1>2

LEMMA QuitInv ==
  ASSUME UploaderInv, Close \/ Destroy \/ DestroyQuitCb \/ DestroyQuitCmd
  PROVE  UploaderInv'
  <1>1. UNCHANGED <<mem, mux, nTsCacheNum, work, cb, hist>>
    BY DEF Close, Destroy, DestroyQuitCb, DestroyQuitCmd
  <1>2. cmdQ' = cmdQ \/ \E c \in WorkCmds \ Uploads : PutCmd(c)
    BY WorkCmdFacts DEF Close, Destroy, DestroyQuitCb, DestroyQuitCmd
  <1>3. cbQ' = cbQ \/ \E c \in CbCmds \ Files : PutCb(c)
    BY CbCmdFacts DEF Close, Destroy, DestroyQuitCb, DestroyQuitCmd
  <1>4. Quiet
    BY <1>1, <1>2, <1>3 DEF Quiet, work, cb, hist
  <1>5. Places' /\ (destroyPc' = "done" <=> destroyPc = "done")
    <2> USE DEF UploaderInv, Places, mux, work, cb, calls
    <2>1. CASE Close
      BY <1>1, <2>1 DEF Close
    <2>2. CASE Destroy
      BY <1>1, <2>2 DEF Destroy
    <2>3. CASE DestroyQuitCb
      BY <1>1, <2>3 DEF DestroyQuitCb
    <2>4. CASE DestroyQuitCmd
      BY <1>1, <2>4 DEF DestroyQuitCmd
    <2>5. QED BY <2>1, <2>2, <2>3, <2>4
  <1>6. QED BY <1>4, <1>5, QuietInv

-----------------------------------------------------------------------------
(* The holders of a file the step does not touch, and the counts of one    *)
(* the muxer has.                                                          *)
LEMMA RefTypes ==
  ASSUME Typed, NEW t
  PROVE  WorkRefs(t) \in Nat /\ CbRefs(t) \in Nat /\ LostRefs(t) \in Nat /\ MuxRefs(t) \in Nat
  BY CmdCounts, CbCounts DEF WorkRefs, CbRefs, LostRefs, MuxRefs, B

LEMMA HeldSame ==
  ASSUME NEW t, Held(t), nCount'[t] = nCount[t],
         WorkRefs(t)' = WorkRefs(t), CbRefs(t)' = CbRefs(t), LostRefs(t)' = LostRefs(t),
         pQueue_' = t <=> pQueue_ = t,
         InMux(t)' <=> InMux(t), InMux(t) => muxPc' = muxPc,
         Dropped(t)' => Dropped(t), t > last' => t > last
  PROVE  Held(t)'
  <1>1. MuxRefs(t)' = MuxRefs(t)
    BY DEF MuxRefs, InMux, B
  <1>2. QED BY <1>1 DEF Held, B

LEMMA DroppedCb ==
  ASSUME Typed, NEW t \in Ts, Dropped(t)
  PROVE  (muxPc = "cb" /\ muxCmd = Cmd("DROP", t)) \/ CbRefs(t) >= 1
  <1> DEFINE n == Occurrences(cbQ, {Cmd("UPLOAD", t), Cmd("DROP", t)})
  <1>1. n \in Nat /\ Occurrences(cbQ, {Cmd("DROP", t)}) \in Nat
    BY CbCounts
  <1>2. Occurrences(cbQ, {Cmd("DROP", t)}) <= n
    BY OccSubset DEF Typed
  <1>3. CbRefs(t) = n + B(cbCmd.ts = t)
    BY DEF CbRefs
  <1> HIDE DEF n
  <1>4. CASE cbCmd = Cmd("DROP", t)
    BY <1>1, <1>3, <1>4, CmdShape DEF B
  <1>5. CASE Occurrences(cbQ, {Cmd("DROP", t)}) > 0
    BY <1>1, <1>2, <1>3, <1>5 DEF B
  <1>6. QED BY <1>4, <1>5 DEF Dropped

(* A file that is written, or that waits to be handed over, has no other   *)
(* holders.                                                                *)
LEMMA MuxAlone ==
  ASSUME Typed, NEW t \in Ts, Held(t), pQueue_ = t \/ InMux(t)
  PROVE  /\ CbRefs(t) = 0 /\ LostRefs(t) = 0 /\ nCount[t] = WorkRefs(t) + MuxRefs(t)
         /\ pQueue_ = t \/ muxPc = "upload" \/ muxCmd = Cmd("DROP", t) => WorkRefs(t) = 0
  <1>1. B(pQueue_ = t) + B(InMux(t)) >= 1
    BY DEF B
  <1>2. /\ CbRefs(t) = 0 /\ LostRefs(t) = 0
    BY <1>1, RefTypes DEF Held, B
  <1>3. nCount[t] = WorkRefs(t) + MuxRefs(t)
    BY <1>2, RefTypes DEF Held
  <1>4. ASSUME pQueue_ = t \/ muxPc = "upload" \/ muxCmd = Cmd("DROP", t)
        PROVE  WorkRefs(t) = 0
    <2>1. pQueue_ = t \/ (InMux(t) /\ muxPc = "upload") \/ Dropped(t)
      BY <1>4 DEF InMux, Dropped
    <2>2. QED BY <2>1 DEF Held
  <1>5. QED BY <1>2, <1>3, <1>4

(* The holders when a queue is made for the next file.                     *)
LEMMA NewHolder ==
  ASSUME Typed, NEW t \in Ts, Held(t), pQueue_ = NoTs,
         pQueue_' = last + 1, last' = last + 1, last + 1 \in Ts,
         nCount' = [nCount EXCEPT ![last + 1] = 1],
         WorkRefs(t)' = WorkRefs(t), CbRefs(t)' = CbRefs(t), LostRefs(t)' = LostRefs(t),
         ~InMux(t), ~InMux(t)', Dropped(t)' => Dropped(t)
  PROVE  Held(t)'
  <1>1. CASE t = last + 1
    <2>1. nCount'[t] = 1 /\ pQueue_' = t /\ pQueue_ # t /\ ~(t > last') /\ t > last
      BY <1>1, CmdFacts DEF Typed, Ts
    <2>2. MuxRefs(t) = 0 /\ MuxRefs(t)' = 1
      BY <2>1 DEF MuxRefs, InMux, B
    <2>3. WorkRefs(t) = 0 /\ CbRefs(t) = 0 /\ LostRefs(t) = 0
      <3>1. nCount[t] = 0 /\ nCount[t] = WorkRefs(t) + CbRefs(t) + MuxRefs(t) + LostRefs(t)
        BY <2>1 DEF Held
      <3>2. \A a, b, c \in Nat : a + b + 0 + c = 0 => a = 0 /\ b = 0 /\ c = 0
        OBVIOUS
      <3>3. QED BY RefTypes, <2>2, <3>1, <3>2
    <2>4. QED BY <2>1, <2>2, <2>3 DEF Held, B
  <1>2. CASE t # last + 1
    <2>1. nCount'[t] = nCount[t] /\ pQueue_' # t /\ pQueue_ # t /\ (t > last' => t > last)
      BY <1>2, CmdFacts DEF Typed, Ts
    <2>2. QED BY <2>1, HeldSame
  <1>3. QED BY <1>1, <1>2

-----------------------------------------------------------------------------
(* The muxer's thread.                                                     *)
LEMMA PushFrameInv ==
  ASSUME UploaderInv, PushFrame
  PROVE  UploaderInv'
  <1> USE DEF UploaderInv
  <1>1. /\ muxPc = "idle" /\ ~open /\ ~closed /\ destroyPc = "no" /\ destroyPc' = "no"
        /\ open' = TRUE /\ UNCHANGED <<muxPc, muxCmd, nTsCacheNum, cbQ, workPc, workTs, cbPc, cbCmd,
                                       closed, refused>>
    BY DEF PushFrame, Places, work, cb, ending, hist
  <1>2. /\ MemTyped' /\ SlotsOwned' /\ last' \in Ts /\ last' < MaxTs
        /\ \/ UNCHANGED <<nCount, pQueue_, last>> /\ pQueue_ # NoTs
           \/ /\ pQueue_ = NoTs /\ pQueue_' = last + 1 /\ last' = last + 1 /\ last + 1 \in Ts
              /\ nCount' = [nCount EXCEPT ![last + 1] = 1]
    <2>1. MemTyped
      BY DEF Typed, MemTyped
    <2>2. CASE pQueue_ # NoTs /\ last < MaxTs /\ UNCHANGED <<mem, pQueue_, last>>
      BY <2>1, <2>2 DEF mem, MemTyped, SlotsOwned, Typed
    <2>3. CASE pQueue_ = NoTs /\ last + 1 < MaxTs /\ FreeSlots # {} /\ AllocDataQueue
      <3>1. last + 1 \in Ts /\ last + 1 > last
        BY <2>3, UploaderAssumption DEF Typed, Ts, UploaderAssumption
      <3>2. nCount[last + 1] = 0
        BY <3>1, <1>1 DEF Held, Running
      <3>3. QED BY <2>1, <2>3, <3>1, <3>2, AllocStep
    <2>4. QED BY <2>2, <2>3 DEF PushFrame
  <1>3. /\ cmdQ' \in Seq(WorkCmds)
        /\ \A S \in SUBSET Uploads : Occurrences(cmdQ', S) = Occurrences(cmdQ, S)
    <2>1. CASE cmdQ' = cmdQ
      BY <2>1 DEF Typed
    <2>2. CASE PutCmd(Cmd("START", NoTs))
      <3>1. Cmd("START", NoTs) \in WorkCmds \ Uploads
        BY WorkCmdFacts
      <3>2. QED BY <2>2, <3>1, PutCmdCounts, CmdCounts DEF B
    <2>3. QED BY <2>1, <2>2 DEF PushFrame, ReportTsStart
  <1>4. Typed'
    BY <1>1, <1>2, <1>3 DEF Typed, MemTyped
  <1>5. Places'
    BY <1>1, <1>2, CmdFacts DEF Places
  <1>6. CacheInv'
    BY <1>1, <1>3 DEF CacheInv, B, Running
  <1>7. ASSUME NEW t \in Ts PROVE Held(t)'
    <2>1. {Cmd("UPLOAD", t)} \in SUBSET Uploads
      BY CmdFacts
    <2>2. WorkRefs(t)' = WorkRefs(t) /\ CbRefs(t)' = CbRefs(t) /\ LostRefs(t)' = LostRefs(t)
          /\ Dropped(t)' = Dropped(t) /\ ~InMux(t) /\ ~InMux(t)'
      BY <1>1, <1>3, <2>1 DEF WorkRefs, CbRefs, LostRefs, Dropped, InMux, B
    <2>3. Held(t)
      BY <1>1 DEF Running
    <2>4. CASE UNCHANGED <<nCount, pQueue_, last>>
      BY <1>1, <2>2, <2>3, <2>4, HeldSame
    <2>5. CASE /\ pQueue_ = NoTs /\ pQueue_' = last + 1 /\ last' = last + 1 /\ last + 1 \in Ts
               /\ nCount' = [nCount EXCEPT ![last + 1] = 1]
      BY <2>2, <2>3, <2>5, NewHolder
    <2>6. QED BY <1>2, <2>4, <2>5
  <1>8. QED BY <1>2, <1>4, <1>5, <1>6, <1>7

(* notifyDataPrapared, up to the first push.                               *)
LEMMA TsEndsInv ==
  ASSUME UploaderInv, TsEndDrop \/ TsEnd
  PROVE  UploaderInv'
  <1> USE DEF UploaderInv
  <1> DEFINE f == pQueue_
  <1>1. /\ muxPc = "idle" /\ open /\ destroyPc = "no" /\ f \in Ts /\ Held(f)
        /\ CacheInv /\ \A t \in Ts : Held(t)
    BY DEF TsEndDrop, TsEnd, Places, Running, Typed
  <1>2. /\ UNCHANGED <<tsItemUsedFlag, item, last, open, nTsCacheNum, cbQ, workPc, workTs,
                       cbPc, cbCmd, metaPc, closed, destroyPc, refused>>
        /\ pQueue_' = NoTs
    BY DEF TsEndDrop, TsEnd, mem, work, cb, calls, ending, hist
  <1>3. \/ /\ muxPc' = "cb" /\ muxCmd' = Cmd("DROP", f) /\ nCount' = nCount
        \/ /\ muxPc' = "upload" /\ muxCmd' = Cmd("UPLOAD", f) /\ nTsCacheNum < nTsMaxCacheNum
           /\ nCount' = [nCount EXCEPT ![f] = @ + 1]
    BY DEF TsEndDrop, TsEnd, mem
  <1>4. /\ cmdQ' \in Seq(WorkCmds)
        /\ \A S \in SUBSET Uploads : Occurrences(cmdQ', S) = Occurrences(cmdQ, S)
    <2>1. CASE cmdQ' = cmdQ
      BY <2>1 DEF Typed
    <2>2. ASSUME NEW c \in WorkCmds \ Uploads, PutCmd(c)
          PROVE  /\ cmdQ' \in Seq(WorkCmds)
                 /\ \A S \in SUBSET Uploads : Occurrences(cmdQ', S) = Occurrences(cmdQ, S)
      BY <2>2, PutCmdCounts, CmdCounts DEF B
    <2>3. QED BY <2>1, <2>2, WorkCmdFacts DEF TsEndDrop, TsEnd
  <1>5. CbRefs(f) = 0 /\ LostRefs(f) = 0 /\ WorkRefs(f) = 0 /\ nCount[f] = 1
    <2>1. MuxRefs(f) = 1
      BY <1>1 DEF MuxRefs, B
    <2>2. QED BY <1>1, <2>1, MuxAlone
  <1>6. muxCmd' \in Files /\ muxCmd'.ts = f
    BY <1>1, <1>3, CmdFacts, CmdShape
  <1>7. Typed'
    <2>1. nCount' \in [Ts -> Nat]
      BY <1>1, <1>3 DEF Typed
    <2>2. QED BY <2>1, <1>1, <1>2, <1>3, <1>4, <1>6 DEF Typed
  <1>8. Places'
    BY <1>1, <1>2, <1>3, <1>6, CmdFacts DEF Places
  <1>9. SlotsOwned'
    <2>1. \A t \in Ts : nCount'[t] > 0 <=> nCount[t] > 0
      <3>1. CASE nCount' = nCount
        BY <3>1
      <3>2. CASE nCount' = [nCount EXCEPT ![f] = @ + 1]
        <4>1. nCount'[f] = 2 /\ \A t \in Ts \ {f} : nCount'[t] = nCount[t]
          BY <1>1, <1>5, <3>2 DEF Typed
        <4>2. QED BY <1>5, <4>1
      <3>3. QED BY <1>3, <3>1, <3>2
    <2>2. QED BY <1>2, <2>1 DEF SlotsOwned
  <1>10. CacheInv'
    BY <1>1, <1>2, <1>3, <1>4 DEF CacheInv, B
  <1>11. ASSUME NEW t \in Ts PROVE Held(t)'
    <2>1. {Cmd("UPLOAD", t)} \in SUBSET Uploads
      BY CmdFacts
    <2>2. WorkRefs(t)' = WorkRefs(t) /\ CbRefs(t)' = CbRefs(t) /\ LostRefs(t)' = LostRefs(t)
      BY <1>2, <1>4, <2>1 DEF WorkRefs, CbRefs, LostRefs, B
    <2>3. CASE t = f
      <3>1. ~InMux(t) /\ InMux(t)' /\ pQueue_' # t /\ ~(t > last')
        BY <1>1, <1>2, <1>3, <1>5, <1>6, <2>3, CmdFacts DEF InMux, Held, Typed
      <3>2. nCount'[t] = MuxRefs(t)'
        BY <1>1, <1>3, <1>5, <1>6, <2>3, <3>1 DEF MuxRefs, B, InMux, Typed
      <3>3. MuxRefs(t)' \in Nat
        BY DEF MuxRefs, B
      <3>4. WorkRefs(t)' = 0 /\ CbRefs(t)' = 0 /\ LostRefs(t)' = 0
        BY <1>5, <2>2, <2>3
      <3>5. QED BY <3>1, <3>2, <3>3, <3>4 DEF Held, B
    <2>4. CASE t # f
      <3>1. nCount'[t] = nCount[t] /\ ~InMux(t) /\ ~InMux(t)' /\ pQueue_' # t /\ pQueue_ # t
        BY <1>1, <1>2, <1>3, <1>6, <2>4, CmdFacts DEF InMux, Typed
      <3>2. Dropped(t)' => Dropped(t)
        BY <1>1, <1>2, <1>3, <2>4, CmdShape DEF Dropped
      <3>3. QED BY <1>1, <1>2, <2>2, <3>1, <3>2, HeldSame
    <2>5. QED BY <2>3, <2>4
  <1>12. QED BY <1>7, <1>8, <1>9, <1>10, <1>11

(* Its second push: the file goes to the worker, or is dropped after all.  *)
LEMMA PutUploadInv ==
  ASSUME UploaderInv, PutUpload
  PROVE  UploaderInv'
  <1> USE DEF UploaderInv
  <1> DEFINE f == muxCmd.ts
  <1>1. /\ muxPc = "upload" /\ open /\ destroyPc = "no" /\ pQueue_ = NoTs
        /\ muxCmd \in Uploads /\ f \in Ts /\ muxCmd = Cmd("UPLOAD", f) /\ muxCmd \in WorkCmds
        /\ CacheInv /\ \A t \in Ts : Held(t)
    <2>1. muxPc = "upload" /\ muxCmd \in Uploads /\ open /\ pQueue_ = NoTs /\ destroyPc = "no"
      BY DEF PutUpload, Places, Typed
    <2>2. muxCmd \in Files /\ muxCmd \in WorkCmds
      BY <2>1 DEF Files, WorkCmds
    <2>3. f \in Ts /\ muxCmd = Cmd("UPLOAD", f)
      BY <2>1, <2>2, CmdFacts
    <2>4. QED BY <2>1, <2>2, <2>3 DEF Running
  <1>2. /\ UNCHANGED <<tsItemUsedFlag, item, pQueue_, last, open, cbQ, workPc, workTs,
                       cbPc, cbCmd, metaPc, closed, destroyPc, refused>>
        /\ muxPc' = "cb"
    BY DEF PutUpload, work, cb, calls, ending, hist
  <1>3. InMux(f) /\ CbRefs(f) = 0 /\ LostRefs(f) = 0 /\ WorkRefs(f) = 0 /\ nCount[f] = 2
    <2>1. InMux(f) /\ MuxRefs(f) = 2
      BY <1>1, CmdFacts DEF InMux, MuxRefs, B
    <2>2. QED BY <1>1, <2>1, MuxAlone
  <1>4. CASE /\ PutCmd(muxCmd) /\ nTsCacheNum' = nTsCacheNum + 1 /\ UNCHANGED <<nCount, muxCmd>>
    <2>1. /\ cmdQ' \in Seq(WorkCmds)
          /\ \A S : Occurrences(cmdQ', S) = Occurrences(cmdQ, S) + B(muxCmd \in S)
      BY <1>1, <1>4, PutCmdCounts
    <2>2. Typed'
      BY <1>1, <1>2, <1>4, <2>1, CmdFacts DEF Typed
    <2>3. Places'
      BY <1>1, <1>2, <1>4, CmdFacts DEF Places, Files
    <2>4. SlotsOwned'
      BY <1>2, <1>4 DEF SlotsOwned
    <2>5. CacheInv'
      BY <1>1, <1>2, <1>4, <2>1, CmdCounts, UploaderAssumption DEF CacheInv, B, Typed, UploaderAssumption
    <2>6. ASSUME NEW t \in Ts PROVE Held(t)'
      <3>1. CbRefs(t)' = CbRefs(t) /\ LostRefs(t)' = LostRefs(t)
        BY <1>2 DEF CbRefs, LostRefs, B
      <3>2. muxCmd \in {Cmd("UPLOAD", t)} <=> t = f
        BY <1>1, CmdShape
      <3>3. WorkRefs(t)' = WorkRefs(t) + B(t = f)
        BY <1>2, <2>1, <3>2, CmdCounts DEF WorkRefs, B
      <3>4. CASE t = f
        <4>1. WorkRefs(t)' = 1 /\ CbRefs(t)' = 0 /\ LostRefs(t)' = 0
          BY <1>3, <3>1, <3>3, <3>4 DEF B
        <4>2. InMux(t)' /\ MuxRefs(t)' = 1 /\ pQueue_' # t
          BY <1>1, <1>2, <1>4, <3>4, CmdFacts DEF InMux, MuxRefs, B
        <4>3. ~Dropped(t)'
          <5>1. ~Dropped(t)
            BY <1>1, <1>3, <3>4, DroppedCb
          <5>2. muxCmd' # Cmd("DROP", t)
            BY <1>1, <1>4, CmdShape
          <5>3. QED BY <1>2, <5>1, <5>2 DEF Dropped
        <4>4. ~(t > last') /\ nCount'[t] = 2
          BY <1>1, <1>2, <1>3, <1>4, <3>4 DEF Held
        <4>5. QED BY <1>2, <4>1, <4>2, <4>3, <4>4 DEF Held, B
      <3>5. CASE t # f
        <4>1. ~InMux(t) /\ ~InMux(t)' /\ (Dropped(t)' => Dropped(t))
          BY <1>1, <1>2, <1>4, <3>5, CmdShape DEF InMux, Dropped
        <4>2. WorkRefs(t)' = WorkRefs(t)
          BY <3>3, <3>5, RefTypes DEF B
        <4>3. QED BY <1>1, <1>2, <1>4, <3>1, <4>1, <4>2, HeldSame
      <3>6. QED BY <3>4, <3>5
    <2>7. QED BY <2>2, <2>3, <2>4, <2>5, <2>6
  <1>5. CASE /\ muxCmd' = [muxCmd EXCEPT !.type = "DROP"] /\ nCount' = DecRef(f)
             /\ UNCHANGED <<cmdQ, nTsCacheNum>>
    <2>1. muxCmd' = Cmd("DROP", f) /\ muxCmd'.ts = f /\ muxCmd' \in Files
      BY <1>1, <1>5, CmdFacts DEF Cmd
    <2>2. nCount' = [nCount EXCEPT ![f] = 1]
      BY <1>1, <1>3, <1>5 DEF DecRef, Typed
    <2>3. Typed'
      BY <1>1, <1>2, <1>5, <2>1, <2>2 DEF Typed
    <2>4. Places'
      BY <1>1, <1>2, <2>1 DEF Places
    <2>5. SlotsOwned'
      <3>1. \A t \in Ts : nCount'[t] > 0 <=> nCount[t] > 0
        BY <1>1, <1>3, <2>2 DEF Typed
      <3>2. QED BY <1>2, <3>1 DEF SlotsOwned
    <2>6. CacheInv'
      BY <1>1, <1>2, <1>5 DEF CacheInv, B
    <2>7. ASSUME NEW t \in Ts PROVE Held(t)'
      <3>1. WorkRefs(t)' = WorkRefs(t) /\ CbRefs(t)' = CbRefs(t) /\ LostRefs(t)' = LostRefs(t)
        BY <1>2, <1>5 DEF WorkRefs, CbRefs, LostRefs, B
      <3>2. CASE t = f
        <4>1. WorkRefs(t)' = 0 /\ CbRefs(t)' = 0 /\ LostRefs(t)' = 0 /\ nCount'[t] = 1
          BY <1>1, <1>3, <2>2, <3>1, <3>2 DEF Typed
        <4>2. InMux(t)' /\ MuxRefs(t)' = 1 /\ pQueue_' # t /\ muxPc' # "upload"
          BY <1>1, <1>2, <2>1, <3>2, CmdFacts DEF InMux, MuxRefs, B
        <4>3. t > last' => FALSE
          BY <1>1, <1>2, <1>3, <3>2 DEF Held
        <4>4. QED BY <4>1, <4>2, <4>3 DEF Held, B
      <3>3. CASE t # f
        <4>1. ~InMux(t) /\ ~InMux(t)' /\ (Dropped(t)' => Dropped(t)) /\ nCount'[t] = nCount[t]
          BY SMTT(40), <1>1, <1>2, <1>5, <2>1, <2>2, <3>3, CmdShape DEF InMux, Dropped, Typed
        <4>2. QED BY <1>1, <1>2, <3>1, <4>1, HeldSame
      <3>4. QED BY <3>2, <3>3
    <2>8. QED BY <2>3, <2>4, <2>5, <2>6, <2>7
  <1>6. QED BY <1>4, <1>5 DEF PutUpload

(* Its third push: the tscb thread gets the file, or it is destroyed when  *)
(* it was dropped, or the reference is lost.                               *)
LEMMA PutTsCbInv ==
  ASSUME UploaderInv, PutTsCb
  PROVE  UploaderInv'
  <1> USE DEF UploaderInv
  <1> DEFINE f == muxCmd.ts
  <1>1. /\ muxPc = "cb" /\ open /\ destroyPc = "no" /\ pQueue_ = NoTs
        /\ muxCmd \in Files /\ f \in Ts /\ muxCmd \in CbCmds /\ muxCmd = Cmd(muxCmd.type, f)
        /\ muxCmd.type \in {"UPLOAD", "DROP"}
        /\ CacheInv /\ \A t \in Ts : Held(t)
    <2>1. muxPc = "cb" /\ muxCmd \in Files /\ open /\ pQueue_ = NoTs /\ destroyPc = "no"
      BY DEF PutTsCb, Places, Typed
    <2>2. muxCmd \in CbCmds
      BY <2>1 DEF CbCmds
    <2>3. QED BY <2>1, <2>2, CmdFacts DEF Running
  <1>2. /\ UNCHANGED <<pQueue_, last, open, nTsCacheNum, cmdQ, workPc, workTs,
                       cbPc, cbCmd, metaPc, closed, destroyPc>>
        /\ muxPc' = "alloc" /\ muxCmd' = NoCmd
    BY DEF PutTsCb, work, cb, calls, ending
  <1>3. /\ InMux(f) /\ CbRefs(f) = 0 /\ LostRefs(f) = 0 /\ nCount[f] = WorkRefs(f) + 1
        /\ muxCmd.type = "DROP" => WorkRefs(f) = 0
    <2>1. InMux(f) /\ MuxRefs(f) = 1
      BY <1>1, CmdFacts DEF InMux, MuxRefs, B
    <2>2. QED BY <1>1, <2>1, MuxAlone
  <1>4. Places'
    BY <1>1, <1>2, CmdFacts DEF Places
  <1>5. CacheInv'
    BY <1>1, <1>2 DEF CacheInv, B
  <1>6. \A t \in Ts : ~InMux(t)' /\ WorkRefs(t)' = WorkRefs(t) /\ MuxRefs(t)' = 0 /\ pQueue_' # t
    BY <1>1, <1>2, CmdFacts DEF InMux, WorkRefs, MuxRefs, B
  <1>7. \A t \in Ts : t # f => ~InMux(t) /\ muxCmd # Cmd("DROP", t)
    BY CmdShape DEF InMux
  <1>8. ~(f > last) /\ WorkRefs(f) \in Nat
    BY <1>1, <1>3, RefTypes DEF Held
  <1>9. CASE PutCb(muxCmd) /\ UNCHANGED <<mem, refused>>
    <2>1. /\ cbQ' \in Seq(CbCmds)
          /\ \A S : Occurrences(cbQ', S) = Occurrences(cbQ, S) + B(muxCmd \in S)
      BY <1>1, <1>9, PutCbCounts
    <2>2. Typed'
      BY <1>2, <1>9, <2>1 DEF Typed, mem
    <2>3. SlotsOwned'
      BY <1>9 DEF SlotsOwned, mem
    <2>4. ASSUME NEW t \in Ts PROVE Held(t)'
      <3>1. LostRefs(t)' = LostRefs(t) /\ nCount'[t] = nCount[t]
        BY <1>9 DEF LostRefs, mem
      <3>2. /\ muxCmd \in {Cmd("UPLOAD", t), Cmd("DROP", t)} <=> t = f
            /\ muxCmd \in {Cmd("DROP", t)} <=> t = f /\ muxCmd.type = "DROP"
        BY <1>1, CmdShape
      <3>3. CbRefs(t)' = CbRefs(t) + B(t = f)
        BY <1>2, <2>1, <3>2, CbCounts DEF CbRefs, B
      <3>4. Dropped(t)' => Dropped(t) \/ (t = f /\ muxCmd.type = "DROP")
        BY <1>2, <2>1, <3>2, CbCounts DEF Dropped, B
      <3>5. CASE t = f
        <4>1. CbRefs(t)' = 1 /\ LostRefs(t)' = 0 /\ nCount'[t] = WorkRefs(t)' + 1
          BY <1>3, <1>6, <3>1, <3>3, <3>5 DEF B
        <4>2. Dropped(t)' => WorkRefs(t)' = 0
          <5>1. Dropped(t) => muxCmd = Cmd("DROP", t)
            BY <1>3, <3>5, DroppedCb
          <5>2. Dropped(t) => muxCmd.type = "DROP"
            BY <5>1, CmdShape
          <5>3. QED BY <1>3, <1>6, <3>4, <3>5, <5>2
        <4>3. WorkRefs(t)' <= 1 /\ WorkRefs(t)' \in Nat
          BY <1>1, <1>6, RefTypes DEF Held
        <4>4. QED BY <1>2, <1>6, <1>8, <3>5, <4>1, <4>2, <4>3 DEF Held, B
      <3>6. CASE t # f
        <4>1. CbRefs(t)' = CbRefs(t)
          BY <3>3, <3>6, RefTypes DEF B
        <4>2. Held(t) /\ pQueue_ # t
          BY <1>1, CmdFacts
        <4>3. QED BY <1>2, <1>6, <1>7, <3>1, <3>4, <3>6, <4>1, <4>2, HeldSame
      <3>7. QED BY <3>5, <3>6
    <2>5. QED BY <1>4, <1>5, <2>2, <2>3, <2>4
  <1>10. CASE ~CbRoom /\ UNCHANGED cbQ /\ refused' = refused \cup {muxCmd}
    <2>1. \A t \in Ts : CbRefs(t)' = CbRefs(t)
      BY <1>2, <1>10 DEF CbRefs
    <2>2. \A t \in Ts : Dropped(t)' => Dropped(t)
      BY <1>2, <1>10 DEF Dropped
    <2>3. \A t \in Ts : t # f => LostRefs(t)' = LostRefs(t)
      <3>1. \A t \in Ts : t # f => muxCmd # Cmd("UPLOAD", t)
        BY CmdShape
      <3>2. QED BY <1>10, <3>1 DEF LostRefs, B
    <2>4. CASE muxCmd.type = "DROP" /\ LinkDestroyQueue(f)
      <3>1. MemTyped' /\ SlotsOwned' /\ nCount' = [nCount EXCEPT ![f] = @ - 1]
        <4>1. MemTyped /\ nCount[f] >= 1
          BY <1>3, <2>4 DEF MemTyped, Typed
        <4>2. QED BY <1>1, <2>4, <4>1, DestroyQueueStep
      <3>2. Typed'
        BY <1>2, <1>10, <3>1 DEF Typed, MemTyped
      <3>3. ASSUME NEW t \in Ts PROVE Held(t)'
        <4>1. CASE t = f
          <5>1. muxCmd # Cmd("UPLOAD", t)
            BY <2>4, CmdShape
          <5>2. LostRefs(t)' = 0
            BY <1>3, <1>10, <4>1, <5>1 DEF LostRefs, B
          <5>3. nCount'[t] = 0
            BY <1>1, <1>3, <2>4, <3>1, <4>1 DEF Typed
          <5>4. CbRefs(t)' = 0 /\ WorkRefs(t)' = 0
            BY <1>3, <1>6, <2>1, <2>4, <4>1
          <5>5. QED BY <1>6, <5>2, <5>3, <5>4 DEF Held, B
        <4>2. CASE t # f
          <5>1. nCount'[t] = nCount[t] /\ Held(t) /\ pQueue_ # t
            BY <1>1, <3>1, <4>2, CmdFacts DEF Typed
          <5>2. QED BY <1>2, <1>6, <1>7, <2>1, <2>2, <2>3, <4>2, <5>1, HeldSame
        <4>3. QED BY <4>1, <4>2
      <3>4. QED BY <1>4, <1>5, <3>1, <3>2, <3>3
    <2>5. CASE muxCmd.type # "DROP" /\ UNCHANGED mem
      <3>1. Typed' /\ SlotsOwned'
        BY <1>2, <1>10, <2>5 DEF Typed, SlotsOwned, mem
      <3>2. nCount' = nCount
        BY <2>5 DEF mem
      <3>3. ASSUME NEW t \in Ts PROVE Held(t)'
        <4>1. CASE t = f
          <5>1. muxCmd = Cmd("UPLOAD", t)
            BY <1>1, <2>5, <4>1
          <5>2. LostRefs(t)' = 1 /\ CbRefs(t)' = 0
            BY <1>3, <1>10, <2>1, <4>1, <5>1 DEF LostRefs, B
          <5>3. ~Dropped(t)'
            <6>1. ~Dropped(t)
              BY <1>3, <4>1, <5>1, DroppedCb, CmdShape
            <6>2. QED BY <2>2, <6>1
          <5>4. WorkRefs(t)' <= 1 /\ WorkRefs(t)' \in Nat /\ nCount'[t] = WorkRefs(t)' + 1
            BY <1>1, <1>3, <1>6, <3>2, <4>1, RefTypes DEF Held
          <5>5. QED BY <1>2, <1>6, <1>8, <4>1, <5>2, <5>3, <5>4 DEF Held, B
        <4>2. CASE t # f
          <5>1. Held(t) /\ pQueue_ # t
            BY <1>1, CmdFacts
          <5>2. QED BY <1>2, <1>6, <1>7, <2>1, <2>2, <2>3, <3>2, <4>2, <5>1, HeldSame
        <4>3. QED BY <4>1, <4>2
      <3>4. QED BY <1>4, <1>5, <3>1, <3>3
    <2>6. QED BY <1>10, <2>4, <2>5 DEF PutTsCb, PutCb
  <1>11. QED BY <1>9, <1>10 DEF PutTsCb

(* Its last step: a queue for the next file, if the pool has a slot.       *)
LEMMA NextQueueInv ==
  ASSUME UploaderInv, NextQueue
  PROVE  UploaderInv'
  <1> USE DEF UploaderInv
  <1>1. /\ muxPc = "alloc" /\ open /\ destroyPc = "no" /\ pQueue_ = NoTs /\ last + 1 \in Ts
        /\ last + 1 > last
        /\ CacheInv /\ \A t \in Ts : Held(t)
    BY UploaderAssumption DEF NextQueue, Places, Running, Typed, Ts, UploaderAssumption
  <1>2. /\ UNCHANGED <<muxCmd, nTsCacheNum, cmdQ, cbQ, workPc, workTs, cbPc, cbCmd, metaPc,
                       closed, destroyPc, refused>>
        /\ muxPc' = "idle" /\ open' = FALSE
    BY DEF NextQueue, work, cb, calls, ending, hist
  <1>3. /\ MemTyped' /\ SlotsOwned'
        /\ \/ pQueue_' = NoTs /\ UNCHANGED <<nCount, last>>
           \/ pQueue_' = last + 1 /\ last' = last + 1 /\ nCount' = [nCount EXCEPT ![last + 1] = 1]
    <2>1. MemTyped
      BY DEF Typed, MemTyped
    <2>2. nCount[last + 1] = 0
      BY <1>1 DEF Held
    <2>3. QED BY <1>1, <2>1, <2>2, AllocStep DEF NextQueue
  <1>4. Typed'
    BY <1>1, <1>2, <1>3 DEF Typed, MemTyped
  <1>5. Places'
    BY <1>1, <1>2 DEF Places
  <1>6. CacheInv'
    BY <1>1, <1>2 DEF CacheInv, B
  <1>7. ASSUME NEW t \in Ts PROVE Held(t)'
    <2>1. /\ WorkRefs(t)' = WorkRefs(t) /\ CbRefs(t)' = CbRefs(t) /\ LostRefs(t)' = LostRefs(t)
          /\ ~InMux(t) /\ ~InMux(t)' /\ (Dropped(t)' => Dropped(t)) /\ Held(t) /\ pQueue_ # t
      BY <1>1, <1>2, CmdFacts DEF WorkRefs, CbRefs, LostRefs, InMux, Dropped, B
    <2>2. CASE pQueue_' = NoTs /\ UNCHANGED <<nCount, last>>
      BY <1>1, <2>1, <2>2, HeldSame
    <2>3. CASE pQueue_' = last + 1 /\ last' = last + 1 /\ nCount' = [nCount EXCEPT ![last + 1] = 1]
      BY <1>1, <2>1, <2>3, NewHolder
    <2>4. QED BY <1>3, <2>2, <2>3
  <1>8. QED BY <1>3, <1>4, <1>5, <1>6, <1>7

-----------------------------------------------------------------------------
(* The worker's thread.                                                    *)
LEMMA WorkPopInv ==
  ASSUME UploaderInv, WorkPop
  PROVE  UploaderInv'
  <1> USE DEF UploaderInv
  <1> DEFINE c == Head(cmdQ)
  <1>1. /\ workPc = "pop" /\ cmdQ # <<>> /\ cmdQ' = Tail(cmdQ) /\ workTs' = c.ts
        /\ UNCHANGED <<tsItemUsedFlag, nCount, item, pQueue_, last, open, muxPc, muxCmd,
                       nTsCacheNum, cbQ, cbPc, cbCmd, metaPc, closed, destroyPc, refused>>
    BY DEF WorkPop, mem, mux, cb, calls, ending, hist
  <1>2. /\ cmdQ' \in Seq(WorkCmds) /\ c \in WorkCmds
        /\ \A S : Occurrences(cmdQ, S) = Occurrences(cmdQ', S) + B(c \in S)
        /\ \A S : Occurrences(cmdQ', S) \in Nat
    BY <1>1, PopCmdCounts
  <1>3. /\ c \in Uploads => workPc' = "upload"
        /\ c \notin Uploads => workPc' \in {"pop", "dropped", "exited"}
        /\ c.ts \in Ts \cup {NoTs} /\ (c \in Uploads => c.ts \in Ts /\ c = Cmd("UPLOAD", c.ts))
    <2> HIDE DEF c
    <2>1. c \in WorkCmds
      BY <1>2
    <2>2. /\ c.type = "UPLOAD" <=> c \in Uploads
          /\ c.ts \in Ts \cup {NoTs}
          /\ c \in Uploads => c \in Files /\ c = Cmd("UPLOAD", c.ts)
      BY <2>1, WorkCmdFacts
    <2>3. c \in Uploads => c.ts \in Ts
      BY <2>2, CmdFacts
    <2>4. c.type = "UPLOAD" => workPc' = "upload"
      BY <1>1 DEF WorkPop, c
    <2>5. c.type # "UPLOAD" => workPc' \in {"pop", "dropped", "exited"}
      BY <1>1 DEF WorkPop, WorkNext, c
    <2>6. QED BY <2>2, <2>3, <2>4, <2>5
  <1> HIDE DEF c
  <1>4. destroyPc # "done" /\ CacheInv /\ \A t \in Ts : Held(t)
    BY <1>1 DEF Places, Running
  <1>5. Typed'
    BY <1>1, <1>2, <1>3 DEF Typed
  <1>6. Places'
    BY <1>1, <1>3, <1>4 DEF Places
  <1>7. SlotsOwned'
    BY <1>1 DEF SlotsOwned
  <1>8. CacheInv'
    <2>1. Occurrences(cmdQ', Uploads) + B(workPc' \in {"upload", "uploaded"})
            = Occurrences(cmdQ, Uploads) + B(workPc \in {"upload", "uploaded"})
      BY <1>1, <1>2, <1>3 DEF B
    <2>2. QED BY <1>1, <1>4, <2>1 DEF CacheInv
  <1>9. ASSUME NEW t \in Ts PROVE Held(t)'
    <2>1. B(c \in {Cmd("UPLOAD", t)}) = B(workPc' = "upload" /\ workTs' = t)
      <3>1. c = Cmd("UPLOAD", t) => c \in Uploads /\ c.ts = t
        BY CmdShape, CmdFacts
      <3>2. QED BY <1>1, <1>3, <3>1 DEF B
    <2>2. WorkRefs(t) = Occurrences(cmdQ, {Cmd("UPLOAD", t)})
      BY <1>1, CmdCounts DEF WorkRefs, B
    <2>3. WorkRefs(t)' = WorkRefs(t)
      BY <1>2, <2>1, <2>2 DEF WorkRefs
    <2>4. CbRefs(t)' = CbRefs(t) /\ LostRefs(t)' = LostRefs(t) /\ InMux(t)' = InMux(t)
          /\ Dropped(t)' = Dropped(t)
      BY <1>1 DEF CbRefs, LostRefs, InMux, Dropped, B
    <2>5. QED BY <1>1, <1>4, <2>3, <2>4, HeldSame
  <1>10. QED BY <1>5, <1>6, <1>7, <1>8, <1>9

LEMMA WorkDestroyQueueInv ==
  ASSUME UploaderInv, WorkDestroyQueue
  PROVE  UploaderInv'
  <1> USE DEF UploaderInv
  <1> DEFINE f == workTs
  <1>1. /\ workPc = "upload" /\ workPc' = "uploaded" /\ f \in Ts /\ LinkDestroyQueue(f)
        /\ workTs' = NoTs
        /\ UNCHANGED <<pQueue_, last, open, muxPc, muxCmd, nTsCacheNum, cmdQ, cbQ, cbPc, cbCmd,
                       metaPc, closed, destroyPc, refused>>
    BY DEF WorkDestroyQueue, Places, mux, cb, calls, ending, hist
  <1>2. destroyPc # "done" /\ CacheInv /\ \A t \in Ts : Held(t)
    BY <1>1 DEF Places, Running
  <1>3. WorkRefs(f) = 1 /\ nCount[f] >= 1 /\ nCount[f] \in Nat
    <2>1. WorkRefs(f) >= 1
      BY <1>1, CmdCounts DEF WorkRefs, B
    <2>2. WorkRefs(f) <= 1 /\ nCount[f] = WorkRefs(f) + CbRefs(f) + MuxRefs(f) + LostRefs(f)
      BY <1>1, <1>2 DEF Held
    <2>3. QED BY <1>1, <2>1, <2>2, RefTypes DEF Typed
  <1>4. MemTyped' /\ SlotsOwned' /\ nCount' = [nCount EXCEPT ![f] = @ - 1]
    <2>1. MemTyped
      BY DEF MemTyped, Typed
    <2>2. QED BY <1>1, <1>3, <2>1, DestroyQueueStep
  <1>5. Typed'
    BY <1>1, <1>4 DEF Typed, MemTyped
  <1>6. Places'
    BY <1>1, <1>2 DEF Places
  <1>7. CacheInv'
    BY <1>1, <1>2 DEF CacheInv, B
  <1>8. ASSUME NEW t \in Ts PROVE Held(t)'
    <2>1. CbRefs(t)' = CbRefs(t) /\ LostRefs(t)' = LostRefs(t) /\ MuxRefs(t)' = MuxRefs(t)
          /\ InMux(t)' = InMux(t) /\ Dropped(t)' = Dropped(t) /\ Held(t)
      BY <1>1, <1>2 DEF CbRefs, LostRefs, MuxRefs, InMux, Dropped, B
    <2>2. CASE t = f
      <3>1. WorkRefs(t)' = 0
        BY <1>1, <1>3, <2>2, CmdCounts DEF WorkRefs, B
      <3>2. nCount'[t] = nCount[t] - 1
        BY <1>1, <1>4, <2>2 DEF Typed
      <3>3. nCount'[t] = CbRefs(t) + MuxRefs(t) + LostRefs(t)
        BY <1>3, <2>1, <2>2, <3>2, RefTypes DEF Held
      <3>4. ~(t > last')
        BY <1>1, <1>3, <2>1, <2>2 DEF Held
      <3>5. QED BY <1>1, <2>1, <3>1, <3>3, <3>4, RefTypes DEF Held
    <2>3. CASE t # f
      <3>1. WorkRefs(t)' = WorkRefs(t) /\ nCount'[t] = nCount[t]
        BY <1>1, <1>4, <2>3, CmdFacts DEF WorkRefs, B, Typed
      <3>2. QED BY <1>1, <2>1, <3>1, HeldSame
    <2>4. QED BY <2>2, <2>3
  <1>9. QED BY <1>4, <1>5, <1>6, <1>7, <1>8

LEMMA WorkCountInv ==
  ASSUME UploaderInv, WorkCount
  PROVE  UploaderInv'
  <1> USE DEF UploaderInv
  <1>1. /\ workPc \in {"uploaded", "dropped"} /\ muxPc = "idle" /\ workPc' \in {"pop", "exited"}
        /\ nTsCacheNum' = IF workPc = "dropped" THEN nTsCacheNum ELSE nTsCacheNum - 1
        /\ UNCHANGED <<tsItemUsedFlag, nCount, item, pQueue_, last, open, muxPc, muxCmd,
                       cmdQ, cbQ, workTs, cbPc, cbCmd, metaPc, closed, destroyPc, refused>>
    BY DEF WorkCount, WorkNext, UploadMutexFree, mem, mux, cb, calls, ending, hist
  <1>2. destroyPc # "done" /\ CacheInv /\ \A t \in Ts : Held(t)
    BY <1>1 DEF Places, Running
  <1>3. CacheInv' /\ nTsCacheNum' \in Nat
    <2>1. Occurrences(cmdQ, Uploads) \in Nat
      BY CmdCounts
    <2>2. QED BY <1>1, <1>2, <2>1, UploaderAssumption DEF CacheInv, B, Typed, UploaderAssumption
  <1>4. Typed'
    BY <1>1, <1>3 DEF Typed
  <1>5. Places'
    BY <1>1, <1>2 DEF Places
  <1>6. SlotsOwned'
    BY <1>1 DEF SlotsOwned
  <1>7. ASSUME NEW t \in Ts PROVE Held(t)'
    <2>1. /\ WorkRefs(t)' = WorkRefs(t) /\ CbRefs(t)' = CbRefs(t) /\ LostRefs(t)' = LostRefs(t)
          /\ InMux(t)' = InMux(t) /\ Dropped(t)' = Dropped(t) /\ Held(t)
      BY <1>1, <1>2 DEF WorkRefs, CbRefs, LostRefs, InMux, Dropped, B
    <2>2. QED BY <1>1, <2>1, HeldSame
  <1>8. QED BY <1>3, <1>4, <1>5, <1>6, <1>7

-----------------------------------------------------------------------------
(* The callback's thread.                                                  *)
LEMMA CbPopInv ==
  ASSUME UploaderInv, CbPop
  PROVE  UploaderInv'
  <1> USE DEF UploaderInv
  <1> DEFINE c == Head(cbQ)
  <1>1. /\ cbPc = "pop" /\ cbQ # <<>> /\ cbQ' = Tail(cbQ) /\ cbCmd = NoCmd
        /\ UNCHANGED <<tsItemUsedFlag, nCount, item, pQueue_, last, open, muxPc, muxCmd,
                       nTsCacheNum, cmdQ, workPc, workTs, metaPc, closed, destroyPc, refused>>
    BY DEF CbPop, Places, Typed, mem, mux, work, calls, ending, hist
  <1>2. /\ cbQ' \in Seq(CbCmds) /\ c \in CbCmds
        /\ \A S : Occurrences(cbQ, S) = Occurrences(cbQ', S) + B(c \in S)
        /\ \A S : Occurrences(cbQ', S) \in Nat
    BY <1>1, PopCbCounts
  <1>3. \/ c \in Files /\ cbPc' = "output" /\ cbCmd' = c
        \/ c \notin Files /\ cbPc' \in {"pop", "exited"} /\ cbCmd' = NoCmd
    <2>1. c.type \in {"UPLOAD", "DROP"} <=> c \in Files
      BY <1>2, CbCmdFacts
    <2>2. QED BY <1>1, <2>1 DEF CbPop, CbNext
  <1> HIDE DEF c
  <1>4. destroyPc # "done" /\ CacheInv /\ \A t \in Ts : Held(t)
    BY <1>1 DEF Places, Running
  <1>5. Typed'
    BY <1>1, <1>2, <1>3 DEF Typed
  <1>6. Places'
    BY <1>1, <1>3, <1>4, CmdFacts DEF Places
  <1>7. SlotsOwned'
    BY <1>1 DEF SlotsOwned
  <1>8. CacheInv'
    BY <1>1, <1>4 DEF CacheInv, B
  <1>9. ASSUME NEW t \in Ts PROVE Held(t)'
    <2>1. B(c \in {Cmd("UPLOAD", t), Cmd("DROP", t)}) = B(cbCmd'.ts = t)
      <3>1. CASE c \in Files /\ cbCmd' = c
        <4>1. c = Cmd(c.type, c.ts) /\ c.type \in {"UPLOAD", "DROP"}
          BY <3>1, CmdFacts
        <4>2. c \in {Cmd("UPLOAD", t), Cmd("DROP", t)} <=> c.ts = t
          BY <4>1, CmdShape
        <4>3. QED BY <3>1, <4>2 DEF B
      <3>2. CASE c \notin Files /\ cbCmd' = NoCmd
        BY <3>2, CmdFacts DEF B
      <3>3. QED BY <1>3, <3>1, <3>2
    <2>2. CbRefs(t) = Occurrences(cbQ, {Cmd("UPLOAD", t), Cmd("DROP", t)})
      BY <1>1, CbCounts, CmdFacts DEF CbRefs, B
    <2>3. CbRefs(t)' = CbRefs(t)
      BY <1>2, <2>1, <2>2 DEF CbRefs
    <2>4. Dropped(t)' => Dropped(t)
      <3>1. cbCmd' = Cmd("DROP", t) => c = Cmd("DROP", t)
        BY <1>3, CmdFacts
      <3>2. cbCmd' = Cmd("DROP", t) \/ Occurrences(cbQ', {Cmd("DROP", t)}) > 0
              => Occurrences(cbQ, {Cmd("DROP", t)}) > 0
        BY <1>2, <3>1 DEF B
      <3>3. QED BY <1>1, <3>2 DEF Dropped
    <2>5. WorkRefs(t)' = WorkRefs(t) /\ LostRefs(t)' = LostRefs(t) /\ InMux(t)' = InMux(t)
      BY <1>1 DEF WorkRefs, LostRefs, InMux, B
    <2>6. QED BY <1>1, <1>4, <2>3, <2>4, <2>5, HeldSame
  <1>10. QED BY <1>5, <1>6, <1>7, <1>8, <1>9

LEMMA CbDestroyQueueInv ==
  ASSUME UploaderInv, CbDestroyQueue
  PROVE  UploaderInv'
  <1> USE DEF UploaderInv
  <1> DEFINE f == cbCmd.ts
  <1>1. /\ cbPc = "output" /\ cbPc' \in {"pop", "exited"} /\ cbCmd' = NoCmd
        /\ cbCmd \in Files /\ f \in Ts /\ LinkDestroyQueue(f)
        /\ UNCHANGED <<pQueue_, last, open, muxPc, muxCmd, nTsCacheNum, cmdQ, cbQ, workPc,
                       workTs, metaPc, closed, destroyPc, refused>>
    BY CmdFacts DEF CbDestroyQueue, CbNext, Places, mux, work, calls, ending
  <1>2. destroyPc # "done" /\ CacheInv /\ \A t \in Ts : Held(t)
    BY <1>1 DEF Places, Running
  <1>3. CbRefs(f) = 1 /\ nCount[f] >= 1 /\ nCount[f] \in Nat /\ pQueue_ # f /\ ~InMux(f)
    <2>1. CbRefs(f) >= 1
      BY <1>1, CbCounts DEF CbRefs, B
    <2>2. /\ nCount[f] = WorkRefs(f) + CbRefs(f) + MuxRefs(f) + LostRefs(f)
          /\ B(pQueue_ = f) + B(InMux(f)) + CbRefs(f) + LostRefs(f) <= 1
      BY <1>1, <1>2 DEF Held
    <2>3. QED BY <1>1, <2>1, <2>2, RefTypes DEF Typed, B
  <1>4. MemTyped' /\ SlotsOwned' /\ nCount' = [nCount EXCEPT ![f] = @ - 1]
    <2>1. MemTyped
      BY DEF MemTyped, Typed
    <2>2. QED BY <1>1, <1>3, <2>1, DestroyQueueStep
  <1>5. Typed'
    BY <1>1, <1>4 DEF Typed, MemTyped
  <1>6. Places'
    BY <1>1, <1>2, CmdFacts DEF Places
  <1>7. CacheInv'
    BY <1>1, <1>2 DEF CacheInv, B
  <1>8. ASSUME NEW t \in Ts PROVE Held(t)'
    <2>1. WorkRefs(t)' = WorkRefs(t) /\ LostRefs(t)' = LostRefs(t) /\ MuxRefs(t)' = MuxRefs(t)
          /\ InMux(t)' = InMux(t) /\ Held(t)
      BY <1>1, <1>2 DEF WorkRefs, LostRefs, MuxRefs, InMux, B
    <2>2. Dropped(t)' => Dropped(t)
      <3>1. cbCmd' # Cmd("DROP", t)
        BY <1>1, CmdShape DEF NoCmd
      <3>2. QED BY <1>1, <3>1 DEF Dropped
    <2>3. CASE t = f
      <3>1. CbRefs(t)' = 0
        BY <1>1, <1>3, <2>3, CbCounts, CmdFacts DEF CbRefs, B
      <3>2. nCount'[t] = nCount[t] - 1
        BY <1>1, <1>4, <2>3 DEF Typed
      <3>3. nCount'[t] = WorkRefs(t) + MuxRefs(t) + LostRefs(t)
        BY <1>3, <2>1, <2>3, <3>2, RefTypes DEF Held
      <3>4. LostRefs(t) = 0
        BY <1>3, <2>1, <2>3, RefTypes DEF Held, B
      <3>5. ~(t > last')
        BY <1>1, <1>3, <2>1, <2>3 DEF Held
      <3>6. nCount'[t] = WorkRefs(t)' + CbRefs(t)' + MuxRefs(t)' + LostRefs(t)'
        BY <2>1, <3>1, <3>3, RefTypes
      <3>7. B(pQueue_' = t) + B(InMux(t)') + CbRefs(t)' + LostRefs(t)' <= 1
        BY <1>1, <1>3, <2>1, <2>3, <3>1, <3>4 DEF B
      <3>8. QED BY <1>1, <2>1, <2>2, <3>5, <3>6, <3>7 DEF Held
    <2>4. CASE t # f
      <3>1. nCount'[t] = nCount[t]
        BY <1>1, <1>4, <2>4 DEF Typed
      <3>2. CbRefs(t)' = CbRefs(t)
        BY <1>1, <2>4, CmdFacts DEF CbRefs, B
      <3>3. QED BY <1>1, <2>1, <2>2, <3>1, <3>2, HeldSame
    <2>5. QED BY <2>3, <2>4
  <1>9. QED BY <1>4, <1>5, <1>6, <1>7, <1>8

(* LinkDestroyTsUploader, when both threads have ended.                    *)
LEMMA DestroyJoinInv ==
  ASSUME UploaderInv, DestroyJoin
  PROVE  UploaderInv'
  <1> USE DEF UploaderInv
  <1> DEFINE f == pQueue_
  <1>1. /\ f \in Ts /\ LinkDestroyQueue(f) /\ destroyPc = "join" /\ destroyPc' = "done"
        /\ workPc = "exited" /\ cbPc = "exited" /\ pQueue_' = NoTs /\ cmdQ' = <<>> /\ cbQ' = <<>>
        /\ UNCHANGED <<last, open, muxPc, muxCmd, nTsCacheNum, workPc, workTs, cbPc, cbCmd,
                       metaPc, closed>>
    BY DEF DestroyJoin, Places, Typed, work, cb, calls
  <1>2. nCount[f] >= 1
    <2>1. Held(f) /\ MuxRefs(f) >= 1
      BY <1>1 DEF Running, MuxRefs, B
    <2>2. nCount[f] = WorkRefs(f) + CbRefs(f) + MuxRefs(f) + LostRefs(f)
      BY <2>1 DEF Held
    <2>3. QED BY <2>1, <2>2, RefTypes
  <1>3. MemTyped' /\ SlotsOwned'
    <2>1. MemTyped
      BY DEF MemTyped, Typed
    <2>2. QED BY <1>1, <1>2, <2>1, DestroyQueueStep
  <1>4. Typed'
    BY <1>1, <1>3, EmptySeq DEF Typed, MemTyped
  <1>5. Places'
    BY <1>1 DEF Places
  <1>6. QED BY <1>1, <1>3, <1>4, <1>5 DEF Running

-----------------------------------------------------------------------------
LEMMA StepInv == UploaderInv /\ [Next]_vars => UploaderInv'
  <1> SUFFICES ASSUME UploaderInv, [Next]_vars PROVE UploaderInv'
    OBVIOUS
  <1>1. CASE Mux
    BY <1>1, PushFrameInv, TsEndsInv, PutUploadInv, PutTsCbInv, NextQueueInv DEF Mux
  <1>2. CASE Callers
    BY <1>2, CallersInv DEF Callers
  <1>3. CASE Worker
    BY <1>3, IdleInv, WorkPopInv, WorkDestroyQueueInv, WorkCountInv DEF Worker
  <1>4. CASE CbWorker
    BY <1>4, IdleInv, CbPopInv, CbDestroyQueueInv DEF CbWorker
  <1>5. CASE Close \/ DestroyUploader
    BY <1>5, QuitInv, DestroyJoinInv DEF DestroyUploader
  <1>6. CASE UNCHANGED vars
    <2>1. Quiet
      BY <1>6 DEF vars, Quiet, work, cb, hist
    <2>2. Places'
      BY <1>6 DEF vars, UploaderInv, Places, mux, work, cb, calls, ending
    <2>3. QED BY <1>6, <2>1, <2>2, QuietInv DEF vars, ending
  <1>7. QED BY <1>1, <1>2, <1>3, <1>4, <1>5, <1>6 DEF Next

LEMMA Inductive == Spec => []UploaderInv
  <1>1. QED BY InitInv, StepInv, PTL DEF Spec

(* The holders of every data queue and the files in the cache are counted  *)
(* exactly, however the muxer, the worker and the callback's thread        *)
(* interleave, with pools, caches and command queues of any size.          *)
THEOREM CountsSafe == Spec => []CountsExact
  <1>1. UploaderInv => CountsExact
    BY DEF UploaderInv, CountsExact, RefsCounted, CacheCounted, CacheInv, Held, Running, Uploads
  <1>2. QED BY <1>1, Inductive, PTL

(* A slot of the pool is in use exactly by the one live data queue that    *)
(* has it: freeTs never finds a slot that is free already.                 *)
THEOREM PoolSafe == Spec => []SlotsOwned
  <1>1. UploaderInv => SlotsOwned
    BY DEF UploaderInv
  <1>2. QED BY <1>1, Inductive, PTL

(* A file that was dropped is held by the callback's side alone, so that   *)
(* tsCbWorker's destroy frees it.                                          *)
THEOREM DropSafe == Spec => []DropHasOneHolder
  <1>1. ASSUME UploaderInv, NEW t \in Ts,
               \/ muxPc = "cb" /\ muxCmd = Cmd("DROP", t)
               \/ cbCmd = Cmd("DROP", t)
               \/ \E i \in DOMAIN cbQ : cbQ[i] = Cmd("DROP", t)
        PROVE  nCount[t] = 1
    <2>0. Typed /\ Places /\ (Running => Held(t))
      BY <1>1 DEF UploaderInv
    <2>1. Dropped(t)
      <3>1. ASSUME NEW i \in DOMAIN cbQ, cbQ[i] = Cmd("DROP", t)
            PROVE  Occurrences(cbQ, {Cmd("DROP", t)}) >= 1
        BY <2>0, <3>1, OccSome DEF Typed
      <3>2. Occurrences(cbQ, {Cmd("DROP", t)}) \in Nat
        BY <2>0, CbCounts
      <3>3. QED BY <1>1, <3>1, <3>2 DEF Dropped
    <2>2. Running
      <3>1. destroyPc = "done" => cbQ = <<>> /\ muxPc = "idle" /\ cbCmd \notin Files
        BY <2>0 DEF Places
      <3>2. destroyPc = "done" => cbQ = <<>> /\ muxPc = "idle" /\ cbCmd # Cmd("DROP", t)
        BY <3>1, CmdFacts
      <3>3. destroyPc = "done" => ~Dropped(t)
        BY <3>2, OccEmpty DEF Dropped
      <3>4. QED BY <2>1, <3>3 DEF Running
    <2>3. Held(t) /\ WorkRefs(t) = 0
      BY <2>0, <2>1, <2>2 DEF Held
    <2>4. CASE muxPc = "cb" /\ muxCmd = Cmd("DROP", t)
      <3>1. InMux(t) /\ MuxRefs(t) = 1
        BY <2>0, <2>4, CmdShape, CmdFacts DEF InMux, MuxRefs, B, Places
      <3>2. QED BY <2>0, <2>3, <3>1, MuxAlone
    <2>5. CASE CbRefs(t) >= 1
      <3>1. /\ B(pQueue_ = t) + B(InMux(t)) + CbRefs(t) + LostRefs(t) <= 1
            /\ nCount[t] = WorkRefs(t) + CbRefs(t) + MuxRefs(t) + LostRefs(t)
        BY <2>3 DEF Held
      <3>2. pQueue_ # t /\ ~InMux(t) /\ LostRefs(t) = 0 /\ CbRefs(t) = 1
        BY <2>0, <2>5, <3>1, RefTypes DEF B
      <3>3. MuxRefs(t) = 0
        BY <3>2 DEF MuxRefs, InMux, B
      <3>4. QED BY <2>3, <3>1, <3>2, <3>3
    <2>6. QED BY <2>0, <2>1, <2>4, <2>5, DroppedCb
  <1>2. UploaderInv => DropHasOneHolder
    BY <1>1 DEF DropHasOneHolder
  <1>3. QED BY <1>2, Inductive, PTL

-----------------------------------------------------------------------------
(* The files the worker's side holds are no more than the cache counts.    *)
Working == {t \in Ts : WorkRefs(t) > 0}

LEMMA TsFinite == IsFiniteSet(Ts)
  BY UploaderAssumption, FS_Interval DEF Ts, UploaderAssumption

LEMMA WorkingBound ==
  ASSUME UploaderInv, Running
  PROVE  IsFiniteSet(Working) /\ Cardinality(Working) <= nTsMaxCacheNum
  <1> DEFINE I == {i \in DOMAIN cmdQ : cmdQ[i] \in Uploads}
             Queued == {t \in Ts : \E i \in I : cmdQ[i] = Cmd("UPLOAD", t)}
             Now == {t \in Ts : workPc = "upload" /\ workTs = t}
             g == [i \in I |-> cmdQ[i].ts]
  <1>1. Typed /\ CacheInv
    BY DEF UploaderInv
  <1>2. IsFiniteSet(I) /\ Cardinality(I) = Occurrences(cmdQ, Uploads) /\ Cardinality(I) \in Nat
    <2>1. IsFiniteSet(I) /\ Occurrences(cmdQ, Uploads) \in Nat
      BY <1>1, OccType DEF Typed
    <2>2. QED BY <2>1 DEF Occurrences
  <1>3. IsFiniteSet(Queued) /\ Cardinality(Queued) <= Cardinality(I)
    <2>1. \A i \in I : cmdQ[i] = Cmd("UPLOAD", cmdQ[i].ts) /\ cmdQ[i].ts \in Ts
      <3>1. \A c \in Uploads : c = Cmd("UPLOAD", c.ts) /\ c.ts \in Ts
        BY CmdFacts DEF Files
      <3>2. QED BY <3>1
    <2>2. g \in [I -> Queued]
      BY <2>1
    <2>3. \A t \in Queued : \E i \in I : g[i] = t
      BY CmdShape
    <2> HIDE DEF I, Queued, g
    <2>4. g \in Surjection(I, Queued)
      BY <2>2, <2>3, Fun_IsSurj
    <2>5. QED BY <1>2, <2>4, FS_Surjection
  <1>4. IsFiniteSet(Now) /\ Cardinality(Now) \in Nat /\ Cardinality(Now) <= B(workPc = "upload")
    <2>1. CASE workPc = "upload"
      <3>1. Now \in SUBSET {workTs}
        OBVIOUS
      <3> HIDE DEF Now
      <3>2. IsFiniteSet({workTs}) /\ Cardinality({workTs}) = 1
        BY FS_Singleton
      <3>3. QED BY <2>1, <3>1, <3>2, FS_Subset, FS_CardinalityType DEF B
    <2>2. CASE workPc # "upload"
      <3>1. Now = {}
        BY <2>2
      <3> HIDE DEF Now
      <3>2. QED BY <2>2, <3>1, FS_EmptySet DEF B
    <2>3. QED BY <2>1, <2>2
  <1>5. Working \in SUBSET (Queued \cup Now)
    <2> SUFFICES ASSUME NEW t \in Ts, WorkRefs(t) > 0, t \notin Now PROVE t \in Queued
      BY DEF Working
    <2>1. Occurrences(cmdQ, {Cmd("UPLOAD", t)}) > 0
      BY <1>1, CmdCounts DEF WorkRefs, B
    <2>2. {i \in DOMAIN cmdQ : cmdQ[i] \in {Cmd("UPLOAD", t)}} # {}
      BY <2>1, FS_EmptySet DEF Occurrences
    <2>3. Cmd("UPLOAD", t) \in Uploads
      BY DEF Uploads
    <2>4. QED BY <2>2, <2>3
  <1> HIDE DEF I, Queued, Now
  <1>6. /\ IsFiniteSet(Queued \cup Now)
        /\ Cardinality(Queued \cup Now) <= Cardinality(Queued) + Cardinality(Now)
        /\ Cardinality(Queued \cup Now) \in Nat /\ Cardinality(Queued) \in Nat
    <2>1. IsFiniteSet(Queued \cap Now)
      BY <1>3, FS_Subset
    <2>2. Cardinality(Queued \cap Now) \in Nat /\ Cardinality(Queued) \in Nat
      BY <1>3, <2>1, FS_CardinalityType
    <2>3. /\ IsFiniteSet(Queued \cup Now)
          /\ Cardinality(Queued \cup Now)
               = Cardinality(Queued) + Cardinality(Now) - Cardinality(Queued \cap Now)
      BY <1>3, <1>4, FS_Union
    <2>4. QED BY <1>4, <2>2, <2>3, FS_CardinalityType
  <1>7. IsFiniteSet(Working) /\ Cardinality(Working) <= Cardinality(Queued \cup Now)
        /\ Cardinality(Working) \in Nat
    BY <1>5, <1>6, FS_Subset, FS_CardinalityType
  <1>8. Cardinality(Queued) + Cardinality(Now) <= nTsMaxCacheNum
    <2>1. B(workPc = "upload") <= B(workPc \in {"upload", "uploaded"})
      BY DEF B
    <2>2. B(workPc = "upload") \in Nat /\ B(workPc \in {"upload", "uploaded"}) \in Nat
      BY DEF B
    <2>3. QED BY <1>1, <1>2, <1>3, <1>4, <1>6, <2>1, <2>2, UploaderAssumption
          DEF CacheInv, Typed, UploaderAssumption
  <1>9. QED BY <1>6, <1>7, <1>8, <1>4, UploaderAssumption DEF UploaderAssumption

(* allocTs fails only when the callback's side alone keeps as many slots   *)
(* as the pool has beyond the cache: what the worker's side holds is       *)
(* bounded by nTsMaxCacheNum, whatever the sizes.                          *)
THEOREM PoolExhaustedByCallback == Spec => AllocFailsOnlyBehindCallback
  <1> DEFINE Behind == {t \in Ts : CbRefs(t) + LostRefs(t) > 0 /\ WorkRefs(t) = 0}
             Live == {t \in Ts : nCount[t] > 0}
  <1>1. ASSUME UploaderInv, Next, muxPc = "alloc", muxPc' = "idle", pQueue_' = NoTs
        PROVE  Cardinality(Behind) >= NSlots - nTsMaxCacheNum
    <2>1. Typed /\ Running /\ pQueue_ = NoTs /\ CacheInv /\ SlotsOwned /\ \A t \in Ts : Held(t)
      BY <1>1 DEF UploaderInv, Places, Running
    <2>2. NextQueue
      BY <1>1 DEF Next, Mux, Callers, Worker, CbWorker, DestroyUploader, PushFrame, TsEndDrop,
         TsEnd, PutUpload, PutTsCb, SetMeta, SetMetaCb, PushOther, WorkPopNothing, WorkPop,
         WorkDestroyQueue, WorkCount, UploadMutexFree, CbPopNothing, CbPop, CbDestroyQueue,
         Close, Destroy, DestroyQuitCb, DestroyQuitCmd, DestroyJoin, mux
    <2>3. FreeSlots = {}
      BY <1>1, <2>1, <2>2, SlotFacts, UploaderAssumption
         DEF NextQueue, AllocDataQueue, NoTs, Typed, Ts, UploaderAssumption
    <2>4. Live \in SUBSET (Behind \cup Working)
      <3> SUFFICES ASSUME NEW t \in Ts, nCount[t] > 0, WorkRefs(t) = 0
                   PROVE  CbRefs(t) + LostRefs(t) > 0
        BY <2>1, RefTypes DEF Working
      <3>1. MuxRefs(t) = 0
        BY <1>1, <2>1, CmdFacts DEF MuxRefs, B
      <3>2. nCount[t] = WorkRefs(t) + CbRefs(t) + MuxRefs(t) + LostRefs(t)
        BY <2>1 DEF Held
      <3>3. QED BY <2>1, <3>1, <3>2, RefTypes
    <2>5. /\ IsFiniteSet(Live) /\ IsFiniteSet(Behind) /\ IsFiniteSet(Working)
          /\ Cardinality(Live) \in Nat /\ Cardinality(Behind) \in Nat
          /\ Cardinality(Working) \in Nat /\ Cardinality(Working) <= nTsMaxCacheNum
      <3>1. Live \in SUBSET Ts /\ Behind \in SUBSET Ts
        OBVIOUS
      <3> HIDE DEF Live, Behind
      <3>2. QED BY <1>1, <2>1, <3>1, TsFinite, FS_Subset, FS_CardinalityType, WorkingBound
    <2>6. NSlots <= Cardinality(Live)
      <3> DEFINE g == [t \in Live |-> item[t]]
      <3>1. g \in [Live -> Slots]
        BY <2>1 DEF SlotsOwned, Typed
      <3>2. \A s \in Slots : \E t \in Live : g[t] = s
        <4>1. \A s \in Slots : \E t \in Ts : item[t] = s
          BY <2>1, <2>3 DEF FreeSlots, SlotsOwned
        <4>2. \A t \in Ts : item[t] \in Slots => t \in Live
          BY <2>1, SlotFacts DEF SlotsOwned
        <4>3. QED BY <4>1, <4>2
      <3> HIDE DEF g, Live
      <3>3. Cardinality(Slots) <= Cardinality(Live)
        BY <2>5, <3>1, <3>2, Fun_IsSurj, FS_Surjection
      <3>4. Cardinality(Slots) = NSlots
        BY UploaderAssumption, FS_Interval DEF Slots, UploaderAssumption
      <3>5. QED BY <3>3, <3>4
    <2> HIDE DEF Live, Behind
    <2>7. Cardinality(Live) <= Cardinality(Behind) + Cardinality(Working)
      <3>1. IsFiniteSet(Behind \cup Working) /\ Cardinality(Behind \cup Working) \in Nat
        BY <2>5, FS_Union, FS_CardinalityType
      <3>2. Cardinality(Behind \cap Working) \in Nat
        BY <2>5, FS_Subset, FS_CardinalityType
      <3>3. Cardinality(Behind \cup Working) <= Cardinality(Behind) + Cardinality(Working)
        BY <2>5, <3>1, <3>2, FS_Union
      <3>4. Cardinality(Live) <= Cardinality(Behind \cup Working)
        BY <2>4, <3>1, FS_Subset
      <3>5. QED BY <2>5, <3>1, <3>3, <3>4
    <2>8. QED BY <2>5, <2>6, <2>7, UploaderAssumption DEF UploaderAssumption
  <1>2. UploaderInv /\ [Next]_vars =>
          [muxPc = "alloc" /\ muxPc' = "idle" /\ pQueue_' = NoTs
             => Cardinality(Behind) >= NSlots - nTsMaxCacheNum]_vars
    BY <1>1
  <1>3. QED BY <1>2, Inductive, PTL DEF Spec, AllocFailsOnlyBehindCallback

-----------------------------------------------------------------------------
(* What TypeOK says beyond Typed.                                          *)
Bounds ==
  /\ \A t \in Ts : nCount[t] <= 2
  /\ nTsCacheNum <= nTsMaxCacheNum

Lengths ==
  /\ Len(cmdQ) <= CmdCap /\ Len(cbQ) <= CbCap
  /\ workLen \in 0 .. CmdCap /\ workQuit \in BOOLEAN
  /\ cbLen \in 0 .. CbCap /\ cbQuit \in BOOLEAN

Calling ==
  /\ metaPc \in {"idle", "cb"} /\ metas \in 0 .. MaxMeta /\ others \in 0 .. MaxOther
  /\ closed \in BOOLEAN /\ nQuit_ \in BOOLEAN
  /\ destroyPc \in {"no", "crashed", "quitcb", "quitcmd", "join", "done"}
  /\ outputs \in SUBSET Ts /\ refused \in SUBSET Files

Sizes == Bounds /\ Lengths /\ Calling

LEMMA SizesInit == Init => Sizes
  <1> SUFFICES ASSUME Init PROVE Sizes
    OBVIOUS
  <1>1. Bounds
    BY UploaderAssumption DEF Init, Bounds, UploaderAssumption
  <1>2. Lengths
    <2>1. cmdQ = <<>> /\ cbQ = <<>> /\ workLen = 0 /\ cbLen = 0 /\ ~workQuit /\ ~cbQuit
      BY DEF Init
    <2>2. workQuit \in BOOLEAN /\ cbQuit \in BOOLEAN
      BY DEF Init
    <2>3. QED BY <2>1, <2>2, UploaderAssumption DEF Lengths, UploaderAssumption
  <1>3. Calling
    <2>1. /\ metaPc = "idle" /\ metas = 0 /\ others = 0 /\ destroyPc = "no"
          /\ outputs = {} /\ refused = {}
      BY DEF Init
    <2>2. closed \in BOOLEAN /\ nQuit_ \in BOOLEAN
      BY DEF Init
    <2>3. QED BY <2>1, <2>2, UploaderAssumption DEF Calling, UploaderAssumption
  <1>4. QED BY <1>1, <1>2, <1>3 DEF Sizes

(* A running uploader's counts are bounded by who can hold a file.         *)
LEMMA HeldBound == UploaderInv /\ Running => Bounds
  <1> SUFFICES ASSUME UploaderInv, Running PROVE Bounds
    OBVIOUS
  <1>1. Typed /\ CacheInv /\ \A t \in Ts : Held(t)
    BY DEF UploaderInv
  <1>2. ASSUME NEW t \in Ts PROVE nCount[t] <= 2
    <2>1. MuxRefs(t) = B(pQueue_ = t) + B(InMux(t)) + B(muxPc = "upload" /\ muxCmd.ts = t)
      BY DEF MuxRefs, InMux
    <2>2. B(muxPc = "upload" /\ muxCmd.ts = t) + WorkRefs(t) <= 1
      BY <1>1, RefTypes DEF Held, InMux, B
    <2>3. /\ nCount[t] = WorkRefs(t) + CbRefs(t) + MuxRefs(t) + LostRefs(t)
          /\ B(pQueue_ = t) + B(InMux(t)) + CbRefs(t) + LostRefs(t) <= 1
      BY <1>1 DEF Held
    <2>4. /\ B(pQueue_ = t) \in Nat /\ B(InMux(t)) \in Nat
          /\ B(muxPc = "upload" /\ muxCmd.ts = t) \in Nat
      BY DEF B
    <2>5. QED BY <1>1, <2>1, <2>2, <2>3, <2>4, RefTypes
  <1>3. QED BY <1>1, <1>2 DEF CacheInv, Bounds

(* Nothing moves once the uploader is destroyed.                           *)
LEMMA Over == UploaderInv /\ destroyPc = "done" => ~Next
  <1> SUFFICES ASSUME UploaderInv, destroyPc = "done", Next PROVE FALSE
    OBVIOUS
  <1>1. /\ closed /\ muxPc = "idle" /\ ~open /\ metaPc = "idle"
        /\ workPc = "exited" /\ cbPc = "exited"
    BY DEF UploaderInv, Places
  <1>2. ~Mux
    BY <1>1 DEF Mux, PushFrame, TsEndDrop, TsEnd, PutUpload, PutTsCb, NextQueue
  <1>3. ~Callers
    BY <1>1 DEF Callers, SetMeta, SetMetaCb, PushOther
  <1>4. ~Worker /\ ~CbWorker
    BY <1>1 DEF Worker, WorkPopNothing, WorkPop, WorkDestroyQueue, WorkCount,
       CbWorker, CbPopNothing, CbPop, CbDestroyQueue
  <1>5. ~Close /\ ~DestroyUploader
    BY <1>1 DEF Close, DestroyUploader, Destroy, DestroyQuitCb, DestroyQuitCmd, DestroyJoin
  <1>6. QED BY <1>2, <1>3, <1>4, <1>5 DEF Next

LEMMA BoundsStep ==
  ASSUME UploaderInv, (UploaderInv /\ Running => Bounds)', Bounds, Next, UploaderInv'
  PROVE  Bounds'
  <1>1. CASE Running'
    BY <1>1
  <1>2. CASE ~Running'
    <2>1. DestroyJoin
      BY <1>2, Over DEF Running, Next, Mux, Callers, Worker, CbWorker, DestroyUploader, PushFrame,
         TsEndDrop, TsEnd, PutUpload, PutTsCb, NextQueue, SetMeta, SetMetaCb, PushOther,
         WorkPopNothing, WorkPop, WorkDestroyQueue, WorkCount, CbPopNothing, CbPop,
         CbDestroyQueue, Close, Destroy, DestroyQuitCb, DestroyQuitCmd, ending
    <2>2. nCount' = [nCount EXCEPT ![pQueue_] = @ - 1] /\ nTsCacheNum' = nTsCacheNum
      BY <2>1 DEF DestroyJoin, LinkDestroyQueue
    <2>3. nCount \in [Ts -> Nat]
      BY DEF UploaderInv, Typed
    <2>4. QED BY <2>2, <2>3 DEF Bounds
  <1>3. QED BY <1>1, <1>2

(* Pushes find room and pops shorten.                                      *)
LEMMA LengthOf ==
  /\ \A C : \A q \in Seq(C), c \in C : Len(q) \in Nat /\ Len(Append(q, c)) = Len(q) + 1
  /\ \A C : \A q \in Seq(C) : q # <<>> => Len(q) \in Nat \ {0} /\ Len(Tail(q)) = Len(q) - 1
  <1>1. \A C : \A q \in Seq(C), c \in C : Len(q) \in Nat /\ Len(Append(q, c)) = Len(q) + 1
    BY LenProperties, AppendProperties
  <1>2. \A C : \A q \in Seq(C) : q # <<>> => Len(q) \in Nat \ {0} /\ Len(Tail(q)) = Len(q) - 1
    BY LenProperties, HeadTailProperties, EmptySeq
  <1>3. QED BY <1>1, <1>2

LEMMA PutCmdLen ==
  ASSUME Typed, NEW c \in WorkCmds, PutCmd(c)
  PROVE  Len(cmdQ') <= CmdCap
  BY LengthOf, UploaderAssumption DEF PutCmd, CmdRoom, Typed, UploaderAssumption

LEMMA PutCbLen ==
  ASSUME Typed, NEW c \in CbCmds, PutCb(c)
  PROVE  Len(cbQ') <= CbCap
  BY LengthOf, UploaderAssumption DEF PutCb, CbRoom, Typed, UploaderAssumption

LEMMA LengthsStep ==
  ASSUME UploaderInv, Lengths, Next
  PROVE  Lengths'
  <1>1. Typed /\ Places
    BY DEF UploaderInv
  <1>2. Len(cmdQ') <= CmdCap
    <2>1. \/ UNCHANGED cmdQ
          \/ \E c \in WorkCmds : PutCmd(c)
          \/ cmdQ # <<>> /\ cmdQ' = Tail(cmdQ)
          \/ cmdQ' = <<>>
      <3>1. CASE Mux
        <4>1. muxPc = "upload" => muxCmd \in WorkCmds
          BY <1>1 DEF Places, WorkCmds
        <4>2. QED BY <3>1, <4>1, WorkCmdFacts DEF Mux, PushFrame, ReportTsStart, TsEndDrop, TsEnd,
                  PutUpload, PutTsCb, NextQueue
      <3>2. CASE Callers
        BY <3>2, WorkCmdFacts DEF Callers, SetMeta, SetMetaCb, PushOther
      <3>3. CASE Worker \/ CbWorker
        BY <3>3 DEF Worker, CbWorker, WorkPopNothing, WorkPop, WorkDestroyQueue, WorkCount,
           CbPopNothing, CbPop, CbDestroyQueue
      <3>4. CASE Close \/ DestroyUploader
        BY <3>4, WorkCmdFacts DEF Close, DestroyUploader, Destroy, DestroyQuitCb, DestroyQuitCmd,
           DestroyJoin
      <3>5. QED BY <3>1, <3>2, <3>3, <3>4 DEF Next
    <2>2. cmdQ # <<>> => Len(Tail(cmdQ)) <= CmdCap
      BY <1>1, LengthOf, UploaderAssumption DEF Lengths, Typed, UploaderAssumption
    <2>3. QED BY <1>1, <2>1, <2>2, PutCmdLen, UploaderAssumption DEF Lengths, UploaderAssumption
  <1>3. Len(cbQ') <= CbCap
    <2>1. \/ UNCHANGED cbQ
          \/ \E c \in CbCmds : PutCb(c)
          \/ cbQ # <<>> /\ cbQ' = Tail(cbQ)
          \/ cbQ' = <<>>
      <3>1. CASE Mux
        <4>1. muxPc = "cb" => muxCmd \in CbCmds
          BY <1>1 DEF Places, CbCmds
        <4>2. QED BY <3>1, <4>1 DEF Mux, PushFrame, TsEndDrop, TsEnd, PutUpload, PutTsCb, NextQueue
      <3>2. CASE Callers
        BY <3>2, CbCmdFacts DEF Callers, SetMeta, SetMetaCb, PushOther
      <3>3. CASE Worker \/ CbWorker
        BY <3>3 DEF Worker, CbWorker, WorkPopNothing, WorkPop, WorkDestroyQueue, WorkCount,
           CbPopNothing, CbPop, CbDestroyQueue
      <3>4. CASE Close \/ DestroyUploader
        BY <3>4, CbCmdFacts DEF Close, DestroyUploader, Destroy, DestroyQuitCb, DestroyQuitCmd,
           DestroyJoin
      <3>5. QED BY <3>1, <3>2, <3>3, <3>4 DEF Next
    <2>2. cbQ # <<>> => Len(Tail(cbQ)) <= CbCap
      BY <1>1, LengthOf, UploaderAssumption DEF Lengths, Typed, UploaderAssumption
    <2>3. QED BY <1>1, <2>1, <2>2, PutCbLen, UploaderAssumption DEF Lengths, UploaderAssumption
  <1>4. workLen' \in 0 .. CmdCap /\ workQuit' \in BOOLEAN
    <2>1. cmdQ # <<>> => Len(cmdQ) - 1 \in 0 .. CmdCap
      BY <1>1, LengthOf, UploaderAssumption DEF Lengths, Typed, UploaderAssumption
    <2>2. CASE Worker
      <3>1. workLen' = 0 \/ workLen' = workLen \/ (cmdQ # <<>> /\ workLen' = Len(cmdQ) - 1)
        <4>1. CASE WorkPop
          BY <4>1 DEF WorkPop, WorkNext
        <4>2. CASE WorkPopNothing \/ WorkCount
          BY <4>2 DEF WorkPopNothing, WorkCount, WorkNext
        <4>3. CASE WorkDestroyQueue
          BY <4>3 DEF WorkDestroyQueue
        <4>4. QED BY <2>2, <4>1, <4>2, <4>3 DEF Worker
      <3>2. workQuit' \in BOOLEAN
        BY <2>2 DEF Worker, WorkPopNothing, WorkPop, WorkDestroyQueue, WorkCount, Lengths
      <3>3. QED BY <2>1, <3>1, <3>2, UploaderAssumption DEF Lengths, UploaderAssumption
    <2>3. CASE ~Worker
      <3>1. UNCHANGED work
        BY <2>3 DEF Next, Mux, Callers, CbWorker, DestroyUploader, PushFrame, TsEndDrop, TsEnd,
           PutUpload, PutTsCb, NextQueue, SetMeta, SetMetaCb, PushOther, CbPopNothing, CbPop,
           CbDestroyQueue, Close, Destroy, DestroyQuitCb, DestroyQuitCmd, DestroyJoin
      <3>2. QED BY <3>1 DEF work, Lengths
    <2>4. QED BY <2>2, <2>3
  <1>5. cbLen' \in 0 .. CbCap /\ cbQuit' \in BOOLEAN
    <2>1. cbQ # <<>> => Len(cbQ) - 1 \in 0 .. CbCap
      BY <1>1, LengthOf, UploaderAssumption DEF Lengths, Typed, UploaderAssumption
    <2>2. CASE CbWorker
      <3>1. cbLen' = 0 \/ cbLen' = cbLen \/ (cbQ # <<>> /\ cbLen' = Len(cbQ) - 1)
        <4>1. CASE CbPop
          BY <4>1 DEF CbPop, CbNext
        <4>2. CASE CbPopNothing \/ CbDestroyQueue
          BY <4>2 DEF CbPopNothing, CbDestroyQueue, CbNext
        <4>3. QED BY <2>2, <4>1, <4>2 DEF CbWorker
      <3>2. cbQuit' \in BOOLEAN
        <4>1. cbQuit' = cbQuit \/ cbQuit' \in BOOLEAN
          BY <2>2 DEF CbWorker, CbPopNothing, CbPop, CbDestroyQueue
        <4>2. QED BY <4>1 DEF Lengths
      <3>3. QED BY <2>1, <3>1, <3>2, UploaderAssumption DEF Lengths, UploaderAssumption
    <2>3. CASE ~CbWorker
      <3>1. UNCHANGED cb
        BY <2>3 DEF Next, Mux, Callers, Worker, DestroyUploader, PushFrame, TsEndDrop, TsEnd,
           PutUpload, PutTsCb, NextQueue, SetMeta, SetMetaCb, PushOther, WorkPopNothing, WorkPop,
           WorkDestroyQueue, WorkCount, Close, Destroy, DestroyQuitCb, DestroyQuitCmd, DestroyJoin
      <3>2. QED BY <3>1 DEF cb, Lengths
    <2>4. QED BY <2>2, <2>3
  <1>6. QED BY <1>2, <1>3, <1>4, <1>5 DEF Lengths

LEMMA CallingStep ==
  ASSUME UploaderInv, Calling, Next
  PROVE  Calling'
  <1>1. Typed /\ Places
    BY DEF UploaderInv
  <1>2. CASE PushFrame \/ TsEndDrop \/ TsEnd \/ PutUpload \/ NextQueue
    BY <1>2 DEF PushFrame, TsEndDrop, TsEnd, PutUpload, NextQueue, calls, ending, hist, Calling
  <1>3. CASE PutTsCb
    <2>1. muxCmd \in Files
      BY <1>1, <1>3 DEF Places, PutTsCb
    <2>2. refused' = refused \/ refused' = refused \cup {muxCmd}
      BY <1>3 DEF PutTsCb
    <2>3. UNCHANGED <<calls, ending, outputs>>
      BY <1>3 DEF PutTsCb
    <2>4. QED BY <2>1, <2>2, <2>3 DEF calls, ending, Calling
  <1>4. CASE Callers
    <2>1. UNCHANGED <<ending, hist>>
      BY <1>4 DEF Callers, SetMeta, SetMetaCb, PushOther
    <2>2. metaPc' \in {"idle", "cb"} /\ metas' \in 0 .. MaxMeta /\ others' \in 0 .. MaxOther
      BY <1>4, UploaderAssumption
         DEF Callers, SetMeta, SetMetaCb, PushOther, Calling, UploaderAssumption
    <2>3. QED BY <2>1, <2>2 DEF ending, hist, Calling
  <1>5. CASE Worker
    BY <1>5 DEF Worker, WorkPopNothing, WorkPop, WorkDestroyQueue, WorkCount, calls, ending, hist,
       Calling
  <1>6. CASE CbPopNothing \/ CbPop
    BY <1>6 DEF CbPopNothing, CbPop, calls, ending, hist, Calling
  <1>7. CASE CbDestroyQueue
    <2>1. cbCmd.ts \in Ts
      BY <1>1, <1>7, CmdFacts DEF Places, CbDestroyQueue
    <2>2. outputs' = outputs \cup {cbCmd.ts} /\ UNCHANGED <<calls, ending, refused>>
      BY <1>7 DEF CbDestroyQueue
    <2>3. QED BY <2>1, <2>2 DEF calls, ending, Calling
  <1>8. CASE Close \/ DestroyUploader
    <2>1. UNCHANGED <<calls, hist>>
      BY <1>8 DEF Close, DestroyUploader, Destroy, DestroyQuitCb, DestroyQuitCmd, DestroyJoin
    <2>2. closed' \in BOOLEAN
      BY <1>8 DEF Close, DestroyUploader, Destroy, DestroyQuitCb, DestroyQuitCmd, DestroyJoin, Calling
    <2>3. nQuit_' \in BOOLEAN
      BY <1>8 DEF Close, DestroyUploader, Destroy, DestroyQuitCb, DestroyQuitCmd, DestroyJoin, Calling
    <2>4. destroyPc' \in {"no", "crashed", "quitcb", "quitcmd", "join", "done"}
      BY <1>8 DEF Close, DestroyUploader, Destroy, DestroyQuitCb, DestroyQuitCmd, DestroyJoin, Calling
    <2>5. QED BY <2>1, <2>2, <2>3, <2>4 DEF calls, hist, Calling
  <1>9. QED BY <1>2, <1>3, <1>4, <1>5, <1>6, <1>7, <1>8 DEF Next, Mux, CbWorker

LEMMA TypesHold == UploaderInv /\ Sizes => TypeOK
  <1> SUFFICES ASSUME UploaderInv, Sizes PROVE TypeOK
    OBVIOUS
  <1> DEFINE Both == {"UPLOAD", "DROP"}
  <1>1. Typed
    BY DEF UploaderInv
  <1>2. nCount \in [Ts -> 0 .. 2] /\ nTsCacheNum \in 0 .. nTsMaxCacheNum
    <2>1. \A t \in Ts : nCount[t] \in 0 .. 2
      BY <1>1 DEF Typed, Sizes, Bounds
    <2>2. nTsCacheNum \in 0 .. nTsMaxCacheNum
      BY <1>1, UploaderAssumption DEF Typed, Sizes, Bounds, UploaderAssumption
    <2>3. QED BY <1>1, <2>1, <2>2 DEF Typed
  <1>3. \A c \in Files : c \in [type : Both, ts : Ts]
    <2>1. \A t \in Ts : Cmd("UPLOAD", t) \in [type : Both, ts : Ts]
      BY DEF Cmd
    <2>2. \A t \in Ts : Cmd("DROP", t) \in [type : Both, ts : Ts]
      BY DEF Cmd
    <2>3. QED BY <2>1, <2>2 DEF Files, Uploads, Drops
  <1>4. \A c \in Files \cup {NoCmd} : c \in [type : {"NONE", "UPLOAD", "DROP"}, ts : Ts \cup {NoTs}]
    <2>1. NoCmd \in [type : {"NONE", "UPLOAD", "DROP"}, ts : Ts \cup {NoTs}]
      BY DEF NoCmd, Cmd
    <2>2. QED BY <1>3, <2>1
  <1>5. \A c \in WorkCmds : c \in [type : WorkTypes, ts : Ts \cup {NoTs}]
    <2>1. \A type \in {"START", "END", "DROP", "META", "OTHER", "QUIT"} :
            Cmd(type, NoTs) \in [type : WorkTypes, ts : Ts \cup {NoTs}]
      BY DEF Cmd, WorkTypes
    <2>2. \A t \in Ts : Cmd("UPLOAD", t) \in [type : WorkTypes, ts : Ts \cup {NoTs}]
      BY DEF Cmd, WorkTypes
    <2>3. QED BY <2>1, <2>2 DEF WorkCmds, Uploads
  <1>6. \A c \in CbCmds : c \in [type : CbTypes, ts : Ts \cup {NoTs}]
    <2>1. \A type \in {"META", "QUIT"} : Cmd(type, NoTs) \in [type : CbTypes, ts : Ts \cup {NoTs}]
      BY DEF Cmd, CbTypes
    <2>2. \A c \in Files : c \in [type : CbTypes, ts : Ts \cup {NoTs}]
      BY <1>3 DEF CbTypes
    <2>3. QED BY <2>1, <2>2 DEF CbCmds
  <1>7. /\ cmdQ \in Seq([type : WorkTypes, ts : Ts \cup {NoTs}])
        /\ cbQ \in Seq([type : CbTypes, ts : Ts \cup {NoTs}])
    <2>1. \A C, D : \A q \in Seq(C) : (\A c \in C : c \in D) => q \in Seq(D)
      OBVIOUS
    <2>2. cmdQ \in Seq(WorkCmds) /\ cbQ \in Seq(CbCmds)
      BY <1>1 DEF Typed
    <2>3. QED BY <1>5, <1>6, <2>1, <2>2
  <1>8. refused \subseteq [type : {"UPLOAD", "DROP"}, ts : Ts] /\ outputs \subseteq Ts
    BY <1>3 DEF Sizes, Calling
  <1>9. QED BY <1>1, <1>2, <1>4, <1>7, <1>8 DEF TypeOK, Typed, Sizes, Lengths, Calling

(* Every variable keeps its type: no counter leaves its range and no queue *)
(* outgrows its capacity.                                                  *)
THEOREM TypesSafe == Spec => []TypeOK
  <1>1. UploaderInv /\ UploaderInv' /\ Sizes /\ [Next]_vars => Sizes'
    <2> SUFFICES ASSUME UploaderInv, UploaderInv', Sizes, [Next]_vars PROVE Sizes'
      OBVIOUS
    <2>1. (UploaderInv /\ Running => Bounds)'
      BY HeldBound, PTL
    <2>2. CASE Next
      BY <2>1, <2>2, BoundsStep, LengthsStep, CallingStep DEF Sizes
    <2>3. CASE UNCHANGED vars
      BY <2>3 DEF vars, mem, mux, work, cb, calls, ending, hist, Sizes, Bounds, Lengths, Calling
    <2>4. QED BY <2>2, <2>3
  <1>2. QED BY <1>1, SizesInit, Inductive, TypesHold, PTL DEF Spec
=============================================================================
