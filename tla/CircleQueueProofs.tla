------------------------- MODULE CircleQueueProofs -------------------------
(***************************************************************************)
(* Proofs about CircleQueue, for every number of producers, every ring     *)
(* size and every length of data.                                          *)
(***************************************************************************)
EXTENDS CircleQueue, TLAPS

(* The worker holds the mutex exactly while it takes an item it was woken  *)
(* for, and there is one: nobody else can take it.                         *)
LockInv ==
  /\ locked <=> popPc = "taking"
  /\ popPc = "taking" => nLen > 0

(* isWait is set from before the worker blocks until after it has left the *)
(* condition wait, and a worker caught between PopQueue's first check and  *)
(* the mutex by LinkDestroyQueue finds READ_ONLY there.                    *)
WaitInv ==
  /\ popPc \in {"waiting", "woken", "expired", "leaving"} => isWait
  /\ destroyPc # "out" /\ popPc = "locking" => nQState = "readonly"

(* The inductive invariant.                                                *)
IInv ==
  /\ TypeOK
  /\ RingConsistent
  /\ LockInv
  /\ WaitInv
  /\ NoByteLost
  /\ NoLostWakeup
  /\ FreedAfterWait

-----------------------------------------------------------------------------
LEMMA InitIInv == Init => IInv
  <1> SUFFICES ASSUME Init PROVE IInv
    OBVIOUS
  <1> USE QueueAssumption DEF Init
  <1>1. ring \in [Slots -> Chunk]
    BY DEF Slots, Chunk, Nothing
  <1>2. TypeOK
    <2>1. nStart \in Slots /\ nEnd \in Slots /\ nLen \in 0 .. nCap /\ put \in Nat
      BY DEF Slots
    <2>2. buf \in Chunk
      BY DEF Chunk, Nothing
    <2>3. pushPc \in [Producers -> {"out", "signal", "signal_count", "count"}]
      OBVIOUS
    <2>4. QED
      BY <1>1, <2>1, <2>2, <2>3 DEF TypeOK
  <1>3. RingConsistent
    BY DEF RingConsistent, Wrap
  <1>4. NoByteLost
    BY DEF NoByteLost, Nothing
  <1>5. LockInv /\ WaitInv /\ NoLostWakeup /\ FreedAfterWait
    BY DEF LockInv, WaitInv, NoLostWakeup, FreedAfterWait
  <1>6. QED
    BY <1>2, <1>3, <1>4, <1>5 DEF IInv

(* A push that finds room.                                                 *)
LEMMA PushRoomStep ==
  ASSUME IInv, NEW p \in Producers, NEW n \in Lens, PushRoom(p, n)
  PROVE  IInv'
  <1> USE QueueAssumption DEF IInv
  <1>1. ring' \in [Slots -> Chunk]
    BY DEF TypeOK, PushRoom, Store, Slots, Chunk
  <1>2. nEnd' \in Slots /\ nLen' \in 0 .. nCap /\ put' \in Nat
    BY DEF TypeOK, PushRoom, Store, Succ, Slots
  <1>3. pushPc' \in [Producers -> {"out", "signal", "signal_count", "count"}]
    BY DEF TypeOK, PushRoom
  <1>4. TypeOK'
    BY <1>1, <1>2, <1>3 DEF TypeOK, PushRoom, rigid, Slots
  <1>5. nEnd' = Wrap(nStart' + nLen') /\ nLen' <= put'
    BY DEF TypeOK, RingConsistent, PushRoom, Store, Succ, Wrap, Slots
  <1>6. \A k \in 0 .. nLen - 1 : Held(k)' = Held(k)
    BY DEF TypeOK, RingConsistent, PushRoom, Store, Wrap, Held, Slots
  <1>7. \A k \in Nat : k = nLen => Held(k)' = [id |-> put + 1, off |-> 0, len |-> n]
    BY DEF TypeOK, RingConsistent, PushRoom, Store, Wrap, Held, Slots
  <1>8. RingConsistent'
    <2> SUFFICES ASSUME NEW k \in 0 .. nLen' - 1
                 PROVE  /\ Held(k)'.id = put' - nLen' + 1 + k
                        /\ Held(k)'.len > 0
                        /\ k > 0 => Held(k)'.off = 0
      BY <1>5 DEF RingConsistent
    <2>1. CASE k = nLen
      BY <2>1, <1>7 DEF TypeOK, PushRoom, Store
    <2>2. CASE k # nLen
      BY <2>2, <1>6 DEF TypeOK, RingConsistent, PushRoom, Store
    <2>3. QED
      BY <2>1, <2>2
  <1>9. NoByteLost'
    <2>1. CASE nLen = 0
      BY <2>1, <1>7 DEF TypeOK, NoByteLost, PushRoom, Store, rigid
    <2>2. CASE nLen > 0
      BY <2>2, <1>6 DEF TypeOK, NoByteLost, PushRoom, Store, rigid
    <2>3. QED
      BY <2>1, <2>2 DEF TypeOK
  <1>10. LockInv' /\ WaitInv' /\ FreedAfterWait'
    BY DEF TypeOK, LockInv, WaitInv, FreedAfterWait, PushRoom, CanPush
  <1>11. NoLostWakeup'
    BY DEF TypeOK, NoLostWakeup, PushRoom
  <1>12. QED
    BY <1>4, <1>8, <1>9, <1>10, <1>11

(* A push that evicts: the ring is full, so nStart = nEnd, both advance,   *)
(* and every chunk held becomes one place older.                           *)
LEMMA PushOverwriteStep ==
  ASSUME IInv, NEW p \in Producers, NEW n \in Lens, PushOverwrite(p, n)
  PROVE  IInv'
  <1> USE QueueAssumption DEF IInv
  <1>1. ring' \in [Slots -> Chunk]
    BY DEF TypeOK, PushOverwrite, Store, Slots, Chunk
  <1>2. nStart = nEnd
    BY DEF TypeOK, RingConsistent, PushOverwrite, Wrap, Slots
  <1>3. nEnd' = nStart' /\ nStart' \in Slots /\ nStart' = Succ(nStart)
    BY <1>2 DEF TypeOK, PushOverwrite, AdvanceBoth, Succ, Slots
  <1>4. pushPc' \in [Producers -> {"out", "signal", "signal_count", "count"}]
    BY DEF TypeOK, PushOverwrite
  <1>5. TypeOK'
    BY <1>1, <1>3, <1>4 DEF TypeOK, PushOverwrite, Store, rigid, Slots
  <1>6. nEnd' = Wrap(nStart' + nLen') /\ nLen' <= put'
    BY <1>3 DEF TypeOK, RingConsistent, PushOverwrite, Store, Wrap, Slots
  <1>7. \A k \in 0 .. nLen - 2 : Held(k)' = Held(k + 1)
    BY <1>2, <1>3 DEF TypeOK, PushOverwrite, Store, Succ, Wrap, Held, Slots
  <1>8. \A k \in Nat :
           k = nLen - 1 => Held(k)' = [id |-> put + 1, off |-> 0, len |-> n]
    BY <1>2, <1>3 DEF TypeOK, PushOverwrite, Store, Succ, Wrap, Held, Slots
  <1>9. RingConsistent'
    <2> SUFFICES ASSUME NEW k \in 0 .. nLen' - 1
                 PROVE  /\ Held(k)'.id = put' - nLen' + 1 + k
                        /\ Held(k)'.len > 0
                        /\ k > 0 => Held(k)'.off = 0
      BY <1>6 DEF RingConsistent
    <2>1. CASE k = nLen - 1
      BY <2>1, <1>8 DEF TypeOK, PushOverwrite, Store
    <2>2. CASE k # nLen - 1
      BY <2>2, <1>7 DEF TypeOK, RingConsistent, PushOverwrite, Store
    <2>3. QED
      BY <2>1, <2>2
  <1>10. NoByteLost'
    BY DEF NoByteLost, PushOverwrite, rigid
  <1>11. LockInv' /\ WaitInv' /\ FreedAfterWait'
    BY DEF TypeOK, LockInv, WaitInv, FreedAfterWait, PushOverwrite, CanPush
  <1>12. NoLostWakeup'
    BY DEF TypeOK, NoLostWakeup, PushOverwrite
  <1>13. QED
    BY <1>5, <1>9, <1>10, <1>11, <1>12

(* A pop's copy out, whole or partial.                                     *)
LEMMA TakeStep ==
  ASSUME TypeOK, RingConsistent, NoByteLost, nLen > 0,
         Take, UNCHANGED <<rigid, nEnd, put>>
  PROVE  /\ ring' \in [Slots -> Chunk]
         /\ nStart' \in Slots /\ nEnd' \in Slots /\ nLen' \in 0 .. nCap
         /\ buf' \in Chunk
         /\ RingConsistent'
         /\ NoByteLost'
  <1> USE QueueAssumption
  <1>1. ring[nStart] \in Chunk /\ ring[nStart] = Held(0)
    BY DEF TypeOK, Held, Wrap, Slots
  <1>2. CASE ring[nStart].len > BufLen
    <2>1. /\ buf' = [ring[nStart] EXCEPT !.len = BufLen]
          /\ ring' = [ring EXCEPT ![nStart].off = @ + BufLen,
                                  ![nStart].len = @ - BufLen]
          /\ nStart' = nStart /\ nLen' = nLen
      BY <1>1, <1>2 DEF Take, Chunk
    <2>2. buf' \in Chunk
      BY <1>1, <2>1 DEF Chunk
    <2>3. /\ ring'[nStart].id = ring[nStart].id
          /\ ring'[nStart].off = ring[nStart].off + BufLen
          /\ ring'[nStart].len = ring[nStart].len - BufLen
          /\ ring'[nStart] \in Chunk
      BY <1>1, <1>2, <2>1 DEF TypeOK, Chunk
    <2>4. \A i \in Slots \ {nStart} : ring'[i] = ring[i]
      BY <2>1 DEF TypeOK
    <2>5. ring' \in [Slots -> Chunk]
      BY <2>1, <2>3, <2>4 DEF TypeOK
    <2>6. Held(0)' = ring'[nStart]
      BY <2>1 DEF TypeOK, Held, Wrap, Slots
    <2>7. \A k \in 1 .. nLen - 1 : Held(k)' = Held(k)
      BY <2>1, <2>4 DEF TypeOK, Held, Wrap, Slots
    <2>8. RingConsistent'
      BY <1>1, <1>2, <2>1, <2>3, <2>6, <2>7 DEF TypeOK, RingConsistent, Chunk
    <2>9. NoByteLost'
      BY <1>1, <1>2, <2>1, <2>3, <2>6 DEF TypeOK, RingConsistent, NoByteLost, rigid, Chunk
    <2>10. QED
      BY <2>1, <2>2, <2>5, <2>8, <2>9 DEF TypeOK
  <1>3. CASE ring[nStart].len <= BufLen
    <2>1. buf' = ring[nStart] /\ nStart' = Succ(nStart) /\ nLen' = nLen - 1 /\ ring' = ring
      BY <1>1, <1>3 DEF Take, Chunk
    <2>2. nStart' \in Slots /\ nLen' \in 0 .. nCap
      BY <2>1 DEF TypeOK, Succ, Slots
    <2>3. \A k \in 0 .. nLen - 2 : Held(k)' = Held(k + 1)
      BY <2>1 DEF TypeOK, Held, Wrap, Succ, Slots
    <2>4. nEnd' = Wrap(nStart' + nLen')
      BY <2>1 DEF TypeOK, RingConsistent, Wrap, Succ, Slots
    <2>5. RingConsistent'
      BY <2>1, <2>3, <2>4 DEF TypeOK, RingConsistent
    <2>6. NoByteLost'
      BY <1>1, <2>1, <2>3 DEF TypeOK, RingConsistent, NoByteLost, rigid, Chunk
    <2>7. QED
      BY <1>1, <2>1, <2>2, <2>5, <2>6 DEF TypeOK
  <1>4. QED
    BY <1>1, <1>2, <1>3 DEF Chunk

LEMMA QueueUnchanged ==
  ASSUME IInv, UNCHANGED <<rigid, queue, buf>>
  PROVE  RingConsistent' /\ NoByteLost'
  BY DEF IInv, RingConsistent, NoByteLost, Held, rigid, queue

(* The steps that leave the ring and the buffer alone.                     *)
LEMMA ProducerStep ==
  ASSUME IInv, NEW p \in Producers,
         PushOverflow(p) \/ PushSignal(p) \/ PushCountOverwrite(p) \/ StopPush(p)
  PROVE  IInv'
  <1> USE DEF IInv
  <1>1. UNCHANGED <<rigid, queue, buf>>
    BY DEF PushOverflow, PushSignal, PushCountOverwrite, StopPush
  <1>2. RingConsistent' /\ NoByteLost'
    BY <1>1, QueueUnchanged
  <1>3. CASE PushOverflow(p)
    BY <1>2, <1>3 DEF PushOverflow, CanPush, TypeOK, LockInv, WaitInv,
                      NoLostWakeup, FreedAfterWait, rigid, queue
  <1>4. CASE PushSignal(p)
    <2>1. popPc' # "waiting"
      BY <1>4 DEF PushSignal, Wake
    <2>2. popPc' = popPc \/ (popPc = "waiting" /\ popPc' = "woken")
      BY <1>4 DEF PushSignal, Wake
    <2>3. pushPc' \in [Producers -> {"out", "signal", "signal_count", "count"}]
      BY <1>4 DEF TypeOK, PushSignal
    <2>4. QED
      BY <1>2, <1>4, <2>1, <2>2, <2>3
         DEF PushSignal, TypeOK, LockInv, WaitInv, NoLostWakeup,
             FreedAfterWait, rigid, queue
  <1>5. CASE PushCountOverwrite(p)
    <2>1. pushPc' \in [Producers -> {"out", "signal", "signal_count", "count"}]
      BY <1>5 DEF TypeOK, PushCountOverwrite
    <2>2. NoLostWakeup'
      BY <1>5 DEF PushCountOverwrite, TypeOK, NoLostWakeup, queue
    <2>3. QED
      BY <1>2, <1>5, <2>1, <2>2
         DEF PushCountOverwrite, TypeOK, LockInv, WaitInv, FreedAfterWait,
             rigid, queue
  <1>6. CASE StopPush(p)
    BY <1>2, <1>6 DEF StopPush, TypeOK, LockInv, WaitInv, NoLostWakeup,
                      FreedAfterWait, rigid, queue
  <1>7. QED
    BY <1>3, <1>4, <1>5, <1>6

(* A pop that finds something at once.                                     *)
LEMMA PopAtOnceStep ==
  ASSUME IInv, PopAtOnce
  PROVE  IInv'
  <1>1. TypeOK /\ RingConsistent /\ NoByteLost /\ nLen > 0 /\ Take
        /\ UNCHANGED <<rigid, nEnd, put>>
    BY DEF IInv, PopAtOnce, TypeOK
  <1>2. /\ ring' \in [Slots -> Chunk]
        /\ nStart' \in Slots /\ nEnd' \in Slots /\ nLen' \in 0 .. nCap
        /\ buf' \in Chunk
        /\ RingConsistent'
        /\ NoByteLost'
    BY <1>1, TakeStep
  <1>3. QED
    BY <1>2 DEF IInv, PopAtOnce, TypeOK, LockInv, WaitInv, NoLostWakeup,
                FreedAfterWait, rigid

(* A pop that takes what it was woken for.                                 *)
LEMMA PopTakeStep ==
  ASSUME IInv, PopTake
  PROVE  IInv'
  <1>1. TypeOK /\ RingConsistent /\ NoByteLost /\ nLen > 0 /\ Take
        /\ UNCHANGED <<rigid, nEnd, put>>
    BY DEF IInv, PopTake, LockInv
  <1>2. /\ ring' \in [Slots -> Chunk]
        /\ nStart' \in Slots /\ nEnd' \in Slots /\ nLen' \in 0 .. nCap
        /\ buf' \in Chunk
        /\ RingConsistent'
        /\ NoByteLost'
    BY <1>1, TakeStep
  <1>3. QED
    BY <1>2 DEF IInv, PopTake, TypeOK, LockInv, WaitInv, NoLostWakeup,
                FreedAfterWait, rigid

(* The worker's other steps.                                               *)
LEMMA WorkerStep ==
  ASSUME IInv,
         \/ PopCall \/ PopRefused \/ PopWait \/ PopTimeout \/ PopSpurious
         \/ PopWokenEmpty \/ PopLeave \/ PopWokenFull
         \/ PopExpired \/ PopMarkTimeout
  PROVE  IInv'
  <1> USE DEF IInv, TypeOK, LockInv, WaitInv, NoLostWakeup, FreedAfterWait,
              rigid, queue
  <1>1. UNCHANGED <<rigid, queue, buf>>
    BY DEF PopCall, PopRefused, PopWait, PopTimeout, PopSpurious,
           PopWokenEmpty, PopLeave, PopWokenFull, PopExpired, PopMarkTimeout
  <1>2. RingConsistent' /\ NoByteLost'
    BY <1>1, QueueUnchanged
  <1>3. CASE PopCall
    BY <1>2, <1>3 DEF PopCall
  <1>4. CASE PopRefused
    BY <1>2, <1>4 DEF PopRefused
  <1>5. CASE PopWait
    BY <1>2, <1>5 DEF PopWait
  <1>6. CASE PopTimeout
    BY <1>2, <1>6 DEF PopTimeout
  <1>7. CASE PopSpurious
    BY <1>2, <1>7 DEF PopSpurious
  <1>8. CASE PopWokenEmpty
    BY <1>2, <1>8 DEF PopWokenEmpty
  <1>9. CASE PopLeave
    BY <1>2, <1>9 DEF PopLeave
  <1>10. CASE PopWokenFull
    <2>1. nLen > 0 /\ nLen' = nLen
      BY <1>10, QueueAssumption DEF PopWokenFull
    <2>2. TypeOK' /\ WaitInv'
      BY <1>10 DEF PopWokenFull
    <2>3. LockInv'
      BY <1>10, <2>1 DEF PopWokenFull
    <2>4. NoLostWakeup' /\ FreedAfterWait'
      BY <1>10, <2>1 DEF PopWokenFull
    <2>5. QED
      BY <1>2, <2>2, <2>3, <2>4
  <1>11. CASE PopExpired
    BY <1>2, <1>11 DEF PopExpired
  <1>12. CASE PopMarkTimeout
    BY <1>2, <1>12 DEF PopMarkTimeout
  <1>13. QED
    BY <1>3, <1>4, <1>5, <1>6, <1>7, <1>8, <1>9, <1>10, <1>11, <1>12

LEMMA DestroyStep ==
  ASSUME IInv, DestroyQueue
  PROVE  IInv'
  <1> USE DEF IInv, TypeOK, LockInv, WaitInv, NoLostWakeup, FreedAfterWait,
              rigid, queue
  <1>1. UNCHANGED <<rigid, queue, buf>>
    BY DEF DestroyQueue, Destroy, DestroySignal, DestroyFree
  <1>2. RingConsistent' /\ NoByteLost'
    BY <1>1, QueueUnchanged
  <1>3. CASE Destroy
    BY <1>2, <1>3 DEF Destroy
  <1>4. CASE DestroySignal
    BY <1>2, <1>4 DEF DestroySignal, Wake
  <1>5. CASE DestroyFree
    BY <1>2, <1>5 DEF DestroyFree
  <1>6. QED
    BY <1>3, <1>4, <1>5 DEF DestroyQueue

-----------------------------------------------------------------------------
(* The invariant holds in every reachable state.                           *)
THEOREM Invariance == Spec => []IInv
  <1>1. Init => IInv
    BY InitIInv
  <1>2. IInv /\ [Next]_vars => IInv'
    <2> SUFFICES ASSUME IInv, [Next]_vars
                 PROVE  IInv'
      OBVIOUS
    <2>1. ASSUME NEW p \in Producers, Push(p)
          PROVE  IInv'
      BY <2>1, PushRoomStep, PushOverwriteStep, ProducerStep DEF Push
    <2>2. CASE Pop
      BY <2>2, PopAtOnceStep, PopTakeStep, WorkerStep DEF Pop, PopRun
    <2>3. CASE DestroyQueue
      BY <2>3, DestroyStep
    <2>4. CASE UNCHANGED vars
      BY <2>4, QueueUnchanged
         DEF IInv, TypeOK, LockInv, WaitInv, NoLostWakeup, FreedAfterWait,
             vars, rigid, queue
    <2>5. QED
      BY <2>1, <2>2, <2>3, <2>4 DEF Next
  <1>3. QED
    BY <1>1, <1>2, PTL DEF Spec

(* Every variable keeps its type: no index of PushQueue or PopQueue leaves *)
(* the ring.                                                               *)
THEOREM TypeCorrect == Spec => []TypeOK
  BY Invariance, PTL DEF IInv

(* The ring always holds the newest nLen pushes in order.                  *)
THEOREM RingCorrect == Spec => []RingConsistent
  BY Invariance, PTL DEF IInv

(* The worker of a TSQ_FIX_LENGTH queue reads the accepted bytes in order, *)
(* none lost and none twice.                                               *)
THEOREM NoByteLostHolds == Spec => []NoByteLost
  BY Invariance, PTL DEF IInv

(* The worker is never left blocked on a ring that holds something.        *)
THEOREM NoLostWakeupHolds == Spec => []NoLostWakeup
  BY Invariance, PTL DEF IInv

(* LinkDestroyQueue outlasts a worker blocked in the condition wait.       *)
THEOREM FreedAfterWaitHolds == Spec => []FreedAfterWait
  BY Invariance, PTL DEF IInv

-----------------------------------------------------------------------------
(* The refinement: the chunks held, oldest first, are a BoundedFifo.       *)

ItemsSeq ==
  /\ items \in Seq(Chunk)
  /\ Len(items) = nLen
  /\ \A k \in 1 .. nLen : items[k] = Held(k - 1)

LEMMA ItemsAreHeld == TypeOK => ItemsSeq
  <1> SUFFICES ASSUME TypeOK PROVE ItemsSeq
    OBVIOUS
  <1>1. \A k \in 0 .. nLen - 1 : Held(k) \in Chunk
    BY QueueAssumption DEF TypeOK, Held, Wrap, Slots
  <1>2. \A k \in 1 .. nLen : items[k] = Held(k - 1) /\ items[k] \in Chunk
    BY <1>1 DEF TypeOK, items
  <1>3. nLen \in Nat /\ items = [k \in 1 .. nLen |-> items[k]]
    BY QueueAssumption DEF TypeOK, items
  <1>4. QED
    BY <1>2, <1>3 DEF ItemsSeq

LEMMA ItemsAreHeldNext == TypeOK' => ItemsSeq'
  BY ItemsAreHeld, PTL

LEMMA PushRoomRefines ==
  ASSUME IInv, IInv', NEW p \in Producers, NEW n \in Lens, PushRoom(p, n)
  PROVE  Fifo!Put(n)
  <1> USE QueueAssumption DEF IInv
  <1>1. /\ items \in Seq(Chunk) /\ Len(items) = nLen
        /\ \A k \in 1 .. nLen : items[k] = Held(k - 1)
    BY ItemsAreHeld DEF ItemsSeq
  <1>2. /\ items' \in Seq(Chunk) /\ Len(items') = nLen + 1
        /\ \A k \in 1 .. nLen + 1 : items'[k] = Held(k - 1)'
    BY ItemsAreHeldNext DEF ItemsSeq, PushRoom
  <1>3. \A k \in 0 .. nLen - 1 : Held(k)' = Held(k)
    BY DEF TypeOK, RingConsistent, PushRoom, Store, Wrap, Held, Slots
  <1>4. \A k \in Nat : k = nLen => Held(k)' = Fifo!Fresh(n)
    BY DEF TypeOK, RingConsistent, PushRoom, Store, Wrap, Held, Slots, Fifo!Fresh
  <1>5. Fifo!Fresh(n) \in Chunk
    BY DEF TypeOK, Chunk, Fifo!Fresh
  <1>6. items' = Append(items, Fifo!Fresh(n))
    <2>1. /\ Append(items, Fifo!Fresh(n)) \in Seq(Chunk)
          /\ Len(Append(items, Fifo!Fresh(n))) = nLen + 1
      BY <1>1, <1>5
    <2>2. ASSUME NEW k \in 1 .. nLen + 1
          PROVE  items'[k] = Append(items, Fifo!Fresh(n))[k]
      <3>1. CASE k = nLen + 1
        <4>1. k - 1 \in Nat /\ k - 1 = nLen /\ items'[k] = Held(k - 1)'
          BY <3>1, <1>2 DEF TypeOK
        <4>2. items'[k] = Fifo!Fresh(n)
          BY <4>1, <1>4
        <4>3. QED
          BY SMTT(40), <3>1, <4>2, <1>1, <1>5 DEF TypeOK
      <3>2. CASE k # nLen + 1
        BY <3>2, <1>1, <1>2, <1>3, <1>5 DEF TypeOK
      <3>3. QED
        BY <3>1, <3>2
    <2>3. QED
      BY <1>2, <2>1, <2>2
  <1>7. QED
    BY <1>1, <1>6 DEF Fifo!Put, PushRoom, Store, rigid

LEMMA PushOverwriteRefines ==
  ASSUME IInv, IInv', NEW p \in Producers, NEW n \in Lens, PushOverwrite(p, n)
  PROVE  Fifo!PutEvicting(n)
  <1> USE QueueAssumption DEF IInv
  <1>1. /\ items \in Seq(Chunk) /\ Len(items) = nLen /\ nLen = nCap /\ nCap \in Nat \ {0}
        /\ \A k \in 1 .. nLen : items[k] = Held(k - 1)
    BY QueueAssumption, ItemsAreHeld DEF ItemsSeq, PushOverwrite
  <1>2. /\ items' \in Seq(Chunk) /\ Len(items') = nLen
        /\ \A k \in 1 .. nLen : items'[k] = Held(k - 1)'
    BY ItemsAreHeldNext DEF ItemsSeq, PushOverwrite
  <1>3. nStart = nEnd /\ nStart' = Succ(nStart)
    <2>1. nStart = nEnd
      BY DEF TypeOK, RingConsistent, PushOverwrite, Wrap, Slots
    <2>2. QED
      BY <2>1 DEF TypeOK, PushOverwrite, AdvanceBoth, Succ, Slots
  <1>4. \A k \in 0 .. nLen - 2 : Held(k)' = Held(k + 1)
    BY <1>3 DEF TypeOK, PushOverwrite, Store, Succ, Wrap, Held, Slots
  <1>5. \A k \in Nat : k = nLen - 1 => Held(k)' = Fifo!Fresh(n)
    BY <1>3 DEF TypeOK, PushOverwrite, Store, Succ, Wrap, Held, Slots, Fifo!Fresh
  <1>6. Fifo!Fresh(n) \in Chunk
    BY DEF TypeOK, Chunk, Fifo!Fresh
  <1>7. items' = Append(Tail(items), Fifo!Fresh(n))
    <2>1. /\ Tail(items) \in Seq(Chunk) /\ Len(Tail(items)) = nLen - 1
          /\ \A k \in 1 .. nLen - 1 : Tail(items)[k] = items[k + 1]
      BY <1>1
    <2> DEFINE new == Append(Tail(items), Fifo!Fresh(n))
    <2>2. /\ new \in Seq(Chunk) /\ Len(new) = nLen
          /\ new[nLen] = Fifo!Fresh(n)
          /\ \A k \in 1 .. nLen - 1 : new[k] = Tail(items)[k]
      BY <1>1, <1>6, <2>1
    <2>3. ASSUME NEW k \in 1 .. nLen
          PROVE  items'[k] = new[k]
      <3>1. CASE k = nLen
        BY <3>1, <1>1, <1>2, <1>5, <2>2
      <3>2. CASE k # nLen
        BY <3>2, <1>1, <1>2, <1>4, <2>1, <2>2
      <3>3. QED
        BY <3>1, <3>2
    <2>4. QED
      BY <1>2, <2>2, <2>3
  <1>8. QED
    BY <1>1, <1>7 DEF Fifo!PutEvicting, PushOverwrite, Store, rigid

LEMMA TakeRefines ==
  ASSUME IInv, IInv', nLen > 0, Take, UNCHANGED <<rigid, nEnd, put>>
  PROVE  Fifo!TakeWhole \/ Fifo!TakePart
  <1> USE QueueAssumption DEF IInv
  <1>1. /\ items \in Seq(Chunk) /\ Len(items) = nLen
        /\ \A k \in 1 .. nLen : items[k] = Held(k - 1)
    BY ItemsAreHeld DEF ItemsSeq
  <1>2. /\ items' \in Seq(Chunk) /\ Len(items') = nLen'
        /\ \A k \in 1 .. nLen' : items'[k] = Held(k - 1)'
    BY ItemsAreHeldNext DEF ItemsSeq
  <1>3. ring[nStart] \in Chunk /\ Head(items) = ring[nStart] /\ items # <<>>
    BY <1>1 DEF TypeOK, Held, Wrap, Slots
  <1>4. CASE ring[nStart].len > BufLen
    <2>1. /\ buf' = [ring[nStart] EXCEPT !.len = BufLen]
          /\ ring' = [ring EXCEPT ![nStart].off = @ + BufLen,
                                  ![nStart].len = @ - BufLen]
          /\ nStart' = nStart /\ nLen' = nLen
      BY <1>3, <1>4 DEF Take, Chunk
    <2>2. ring'[nStart] = Fifo!Rest(ring[nStart])
      BY <2>1, <1>3 DEF TypeOK, Fifo!Rest, Chunk
    <2>3. \A i \in Slots \ {nStart} : ring'[i] = ring[i]
      BY <2>1 DEF TypeOK
    <2>4. Held(0)' = Fifo!Rest(ring[nStart])
      BY <2>1, <2>2 DEF TypeOK, Held, Wrap, Slots
    <2>5. \A k \in 1 .. nLen - 1 : Held(k)' = Held(k)
      BY <2>1, <2>3 DEF TypeOK, Held, Wrap, Slots
    <2>6. items[1] = ring[nStart]
      BY <1>1, <1>3
    <2>7. items' = [items EXCEPT ![1] = Fifo!Rest(@)]
      <3> DEFINE new == [items EXCEPT ![1] = Fifo!Rest(@)]
      <3>1. Fifo!Rest(ring[nStart]) \in Chunk
        BY <1>3, <1>4 DEF Fifo!Rest, Chunk
      <3>2. /\ new \in Seq(Chunk) /\ Len(new) = nLen
            /\ new[1] = Fifo!Rest(ring[nStart])
            /\ \A k \in 2 .. nLen : new[k] = items[k]
        BY <1>1, <2>6, <3>1
      <3>3. items'[1] = new[1]
        BY <1>2, <2>1, <2>4, <3>2 DEF TypeOK
      <3>4. ASSUME NEW k \in 2 .. nLen
            PROVE  items'[k] = new[k]
        BY <1>1, <1>2, <2>1, <2>5, <3>2 DEF TypeOK
      <3>5. QED
        BY <1>2, <2>1, <3>2, <3>3, <3>4 DEF TypeOK
    <2>8. buf' = Fifo!Copied(Head(items))
      BY <1>3, <1>4, <2>1 DEF Fifo!Copied
    <2>9. QED
      BY <1>3, <1>4, <2>7, <2>8 DEF Fifo!TakePart, rigid
  <1>5. CASE ring[nStart].len <= BufLen
    <2>1. buf' = ring[nStart] /\ nStart' = Succ(nStart) /\ nLen' = nLen - 1 /\ ring' = ring
      BY <1>3, <1>5 DEF Take, Chunk
    <2>2. \A k \in 0 .. nLen - 2 : Held(k)' = Held(k + 1)
      BY <2>1 DEF TypeOK, Held, Wrap, Succ, Slots
    <2>3. /\ Tail(items) \in Seq(Chunk) /\ Len(Tail(items)) = nLen - 1
          /\ \A k \in 1 .. nLen - 1 : Tail(items)[k] = items[k + 1]
      BY <1>1 DEF TypeOK
    <2>4. ASSUME NEW k \in 1 .. nLen - 1
          PROVE  items'[k] = Tail(items)[k]
      BY <1>1, <1>2, <2>1, <2>2, <2>3 DEF TypeOK
    <2>5. items' = Tail(items)
      BY <1>2, <2>1, <2>3, <2>4 DEF TypeOK
    <2>6. QED
      BY <1>3, <1>5, <2>1, <2>5 DEF Fifo!TakeWhole, rigid
  <1>6. QED
    BY <1>3, <1>4, <1>5 DEF Chunk

(* CircleQueue implements BoundedFifo: whatever the threads' interleaving, *)
(* its chunks are put, evicted and taken in first-in first-out order, and  *)
(* every other step of queue.c leaves what it holds as it is.              *)
THEOREM Refinement == Spec => RefinesFifo
  <1>1. Init => Fifo!Init
    <2> SUFFICES ASSUME Init PROVE Fifo!Init
      OBVIOUS
    <2>1. items = <<>>
      BY DEF Init, items
    <2>2. QED
      BY <2>1 DEF Init, Fifo!Init, Policies, Nothing, Fifo!Nothing
  <1>2. IInv /\ IInv' /\ [Next]_vars => [Fifo!Next]_(Fifo!vars)
    <2> SUFFICES ASSUME IInv, IInv', [Next]_vars
                 PROVE  [Fifo!Next]_(Fifo!vars)
      OBVIOUS
    <2>1. ASSUME UNCHANGED <<rigid, queue, buf>>
          PROVE  UNCHANGED Fifo!vars
      BY <2>1 DEF Fifo!vars, items, Held, rigid, queue
    <2>2. ASSUME NEW p \in Producers, Push(p)
          PROVE  [Fifo!Next]_(Fifo!vars)
      <3>1. ASSUME NEW n \in Lens, PushRoom(p, n)
            PROVE  Fifo!Next
        BY <3>1, PushRoomRefines DEF Fifo!Next
      <3>2. ASSUME NEW n \in Lens, PushOverwrite(p, n)
            PROVE  Fifo!Next
        BY <3>2, PushOverwriteRefines DEF Fifo!Next
      <3>3. CASE PushOverflow(p) \/ PushSignal(p) \/ PushCountOverwrite(p) \/ StopPush(p)
        BY <3>3, <2>1 DEF PushOverflow, PushSignal, PushCountOverwrite, StopPush
      <3>4. QED
        BY <2>2, <3>1, <3>2, <3>3 DEF Push
    <2>3. CASE Pop
      <3>1. CASE PopAtOnce
        <4>1. nLen > 0 /\ Take /\ UNCHANGED <<rigid, nEnd, put>>
          BY <3>1, QueueAssumption DEF PopAtOnce, IInv, TypeOK
        <4>2. QED
          BY <4>1, TakeRefines DEF Fifo!Next
      <3>2. CASE PopTake
        <4>1. nLen > 0 /\ Take /\ UNCHANGED <<rigid, nEnd, put>>
          BY <3>2 DEF PopTake, IInv, LockInv
        <4>2. QED
          BY <4>1, TakeRefines DEF Fifo!Next
      <3>3. CASE ~PopAtOnce /\ ~PopTake
        <4>1. UNCHANGED <<rigid, queue, buf>>
          BY <2>3, <3>3 DEF Pop, PopRun, PopCall, PopRefused, PopWait, PopTimeout,
                PopSpurious, PopWokenEmpty, PopLeave, PopWokenFull, PopExpired,
                PopMarkTimeout
        <4>2. QED
          BY <4>1, <2>1
      <3>4. QED
        BY <3>1, <3>2, <3>3
    <2>4. CASE DestroyQueue
      BY <2>1, <2>4 DEF DestroyQueue, Destroy, DestroySignal, DestroyFree
    <2>5. CASE UNCHANGED vars
      BY <2>1, <2>5 DEF vars
    <2>6. QED
      BY <2>2, <2>3, <2>4, <2>5 DEF Next
  <1>3. QED
    BY <1>1, <1>2, Invariance, PTL DEF Spec, RefinesFifo, Fifo!Spec
=============================================================================
