----------------------------- MODULE CircleQueue -----------------------------
(***************************************************************************)
(* libtsuploader/queue.c: the ring buffer under one mutex and one          *)
(* condition variable through which every thread of the SDK hands commands *)
(* to a worker.  Any number of threads push; one worker pops (as in every  *)
(* use the SDK makes of it); the owner destroys the queue.                 *)
(*                                                                         *)
(* Grain of atomicity: what a thread does between pthread_mutex_lock and   *)
(* pthread_mutex_unlock is one step, except where the worker blocks in     *)
(* pthread_cond_timedwait and where LinkDestroyQueue can read isWait       *)
(* without the mutex; the signals, counters and states that queue.c writes *)
(* after the unlock are steps of their own.  The mutex is therefore seen   *)
(* held only while the worker, woken with an item to take, has cleared     *)
(* isWait and not yet taken it (locked).                                   *)
(*                                                                         *)
(* The policies are TSQ_FIX_LENGTH and TSQ_FIX_LENGTH_CAN_OVERWRITE.  The  *)
(* append policies (the buffer of one TS file) have no ring: the module    *)
(* TsUploader models them.  A push that is refused changes no more than    *)
(* the statistics, which nothing here reads, and is no step.               *)
(***************************************************************************)
EXTENDS Integers, Sequences

CONSTANTS
  Producers,  \* the threads that push
  nCap,       \* nCap_: slots of the ring
  Lens,       \* the lengths nDataLen of pushed data
  BufLen,     \* nBufLen of the worker's pops
  MaxPush     \* bound: pushes accepted in a behaviour

ASSUME QueueAssumption ==
  /\ nCap \in Nat \ {0}
  /\ Lens \subseteq Nat \ {0}
  /\ BufLen \in Nat \ {0}
  /\ MaxPush \in Nat

VARIABLES
  policy,          \* the policy the queue was created with
  nIsAvailableAfterTimeout,
  ring,            \* pData_: the slots, each a chunk of a push
  nStart, nEnd, nLen,
  nQState,         \* "open" (0), "readonly" or "timeout"
  isWait,
  overwritten,     \* statInfo.nOverwriteCnt > 0
  locked,          \* the worker holds the mutex between two steps
  pushPc, popPc, destroyPc,
  put,             \* pushes accepted so far: the number of the newest
  buf              \* what the last pop that returned data put in pBuf_

queue == <<ring, nStart, nEnd, nLen, put>>
rigid == <<policy, nIsAvailableAfterTimeout>>
vars == <<rigid, queue, nQState, isWait, overwritten, locked,
          pushPc, popPc, destroyPc, buf>>

Policies == {"TSQ_FIX_LENGTH", "TSQ_FIX_LENGTH_CAN_OVERWRITE"}
Slots == 0 .. nCap - 1

(* Bytes off .. off + len - 1 of the id-th accepted push.                  *)
Chunk == [id : Nat, off : Nat, len : Nat]
Nothing == [id |-> 0, off |-> 0, len |-> 0]

(* A ring index advanced past the last slot starts again at 0.             *)
Wrap(i) == IF i >= nCap THEN i - nCap ELSE i
SuccNoWrap(i) == i + 1  \* faulty variant: the end of the ring forgotten
Succ(i) == IF i + 1 = nCap THEN 0 ELSE i + 1

(* The k-th oldest chunk held, k in 0 .. nLen - 1.                         *)
Held(k) == ring[Wrap(nStart + k)]

-----------------------------------------------------------------------------
(* LinkNewCircleQueue *)
Init ==
  /\ policy \in Policies
  /\ nIsAvailableAfterTimeout \in BOOLEAN
  /\ ring = [i \in Slots |-> Nothing]
  /\ nStart = 0 /\ nEnd = 0 /\ nLen = 0
  /\ nQState = "open"
  /\ isWait = FALSE
  /\ overwritten = FALSE
  /\ locked = FALSE
  /\ pushPc = [p \in Producers |-> "out"]
  /\ popPc = "out"
  /\ destroyPc = "out"
  /\ put = 0
  /\ buf = Nothing

TimedOutForGood == ~nIsAvailableAfterTimeout /\ nQState = "timeout"

(* pthread_cond_signal: the waiting worker, if there is one, is to run.    *)
Wake == popPc' = IF popPc = "waiting" THEN "woken" ELSE popPc

-----------------------------------------------------------------------------
(* PushQueue.  No thread may start a push once LinkDestroyQueue was called *)
(* (the SDK joins or stops its users first).                               *)

CanPush(p) ==
  /\ pushPc[p] = "out"
  /\ destroyPc = "out"
  /\ ~locked
  /\ ~TimedOutForGood
  /\ nQState # "readonly"
  /\ put < MaxPush

StorePastEnd(n) ==  \* faulty variant: nEnd advanced before the copy
  /\ ring' = [ring EXCEPT ![Succ(nEnd)] = [id |-> put + 1, off |-> 0, len |-> n]]
  /\ put' = put + 1

(* The chunk goes into the slot nEnd, under the mutex.                     *)
Store(n) ==
  /\ ring' = [ring EXCEPT ![nEnd] = [id |-> put + 1, off |-> 0, len |-> n]]
  /\ put' = put + 1

PushRoomNoSignal(p, n) ==  \* faulty variant: signals only an overflow
  /\ CanPush(p)
  /\ nLen < nCap
  /\ Store(n)
  /\ nEnd' = Succ(nEnd)
  /\ nLen' = nLen + 1
  /\ UNCHANGED <<rigid, nStart, nQState, isWait, overwritten, locked,
                 pushPc, popPc, destroyPc, buf>>

PushRoom(p, n) ==
  /\ CanPush(p)
  /\ nLen < nCap
  /\ Store(n)
  /\ nEnd' = Succ(nEnd)
  /\ nLen' = nLen + 1
  /\ pushPc' = [pushPc EXCEPT ![p] = "signal"]
  /\ UNCHANGED <<rigid, nStart, nQState, isWait, overwritten, locked,
                 popPc, destroyPc, buf>>

(* A full TSQ_FIX_LENGTH queue refuses (LINK_Q_OVERFLOW), and signals.     *)
PushOverflow(p) ==
  /\ CanPush(p)
  /\ nLen = nCap
  /\ policy = "TSQ_FIX_LENGTH"
  /\ pushPc' = [pushPc EXCEPT ![p] = "signal"]
  /\ UNCHANGED <<rigid, queue, nQState, isWait, overwritten, locked,
                 popPc, destroyPc, buf>>

(* A full queue that can overwrite drops its oldest chunk.  Like queue.c,  *)
(* nStart is advanced as nEnd is: when nEnd wraps, nStart does too.        *)
AdvanceBothNoWrap ==  \* faulty variant: nStart is left behind when nEnd wraps
  IF nEnd + 1 = nCap
  THEN nEnd' = 0 /\ UNCHANGED nStart
  ELSE nEnd' = nEnd + 1 /\ nStart' = nStart + 1

AdvanceBoth ==
  IF nEnd + 1 = nCap
  THEN nEnd' = 0 /\ nStart' = 0
  ELSE nEnd' = nEnd + 1 /\ nStart' = nStart + 1

PushOverwrite(p, n) ==
  /\ CanPush(p)
  /\ nLen = nCap
  /\ policy = "TSQ_FIX_LENGTH_CAN_OVERWRITE"
  /\ Store(n)
  /\ AdvanceBoth
  /\ pushPc' = [pushPc EXCEPT ![p] = "signal_count"]
  /\ UNCHANGED <<rigid, nLen, nQState, isWait, overwritten, locked,
                 popPc, destroyPc, buf>>

(* After the unlock.                                                       *)
PushSignal(p) ==
  /\ pushPc[p] \in {"signal", "signal_count"}
  /\ pushPc' = [pushPc EXCEPT ![p] = IF @ = "signal" THEN "out" ELSE "count"]
  /\ Wake
  /\ UNCHANGED <<rigid, queue, nQState, isWait, overwritten, locked,
                 destroyPc, buf>>

PushCountOverwrite(p) ==
  /\ pushPc[p] = "count"
  /\ overwritten' = TRUE
  /\ pushPc' = [pushPc EXCEPT ![p] = "out"]
  /\ UNCHANGED <<rigid, queue, nQState, isWait, locked, popPc, destroyPc, buf>>

(* StopPush: READ_ONLY under the mutex, then a signal.                     *)
StopPush(p) ==
  /\ pushPc[p] = "out"
  /\ destroyPc = "out"
  /\ ~locked
  /\ nQState' = "readonly"
  /\ pushPc' = [pushPc EXCEPT ![p] = "signal"]
  /\ UNCHANGED <<rigid, queue, isWait, overwritten, locked, popPc,
                 destroyPc, buf>>

-----------------------------------------------------------------------------
(* PopQueue, PopQueueWithNoOverwrite and PopQueueWithTimeout, by the       *)
(* worker.                                                                 *)

(* nOverwriteCnt is read before the mutex is taken.  Once it is not 0      *)
(* every pop returns LINK_Q_OVERWRIT and changes nothing.                  *)
PopCall ==
  /\ popPc = "out"
  /\ destroyPc = "out"
  /\ ~overwritten
  /\ popPc' = "locking"
  /\ UNCHANGED <<rigid, queue, nQState, isWait, overwritten, locked,
                 pushPc, destroyPc, buf>>

PopRefusedEarly ==  \* faulty variant: READ_ONLY also refuses what is held
  /\ popPc = "locking"
  /\ ~locked
  /\ TimedOutForGood \/ nQState = "readonly"
  /\ popPc' = "out"
  /\ UNCHANGED <<rigid, queue, nQState, isWait, overwritten, locked,
                 pushPc, destroyPc, buf>>

PopRefused ==
  /\ popPc = "locking"
  /\ ~locked
  /\ TimedOutForGood \/ (nQState = "readonly" /\ nLen = 0)
  /\ popPc' = "out"
  /\ UNCHANGED <<rigid, queue, nQState, isWait, overwritten, locked,
                 pushPc, destroyPc, buf>>

TakeNoMove ==  \* faulty variant: the unread bytes are not moved to the front
  LET c == ring[nStart] IN
  \/ /\ c.len > BufLen
     /\ buf' = [c EXCEPT !.len = BufLen]
     /\ ring' = [ring EXCEPT ![nStart].len = @ - BufLen]
     /\ UNCHANGED <<nStart, nLen>>
  \/ /\ c.len <= BufLen
     /\ buf' = c
     /\ nStart' = Succ(nStart)
     /\ nLen' = nLen - 1
     /\ UNCHANGED ring

(* The copy out: a chunk longer than the buffer keeps its slot and the     *)
(* bytes not yet read; any other gives its slot up.                        *)
Take ==
  LET c == ring[nStart] IN
  \/ /\ c.len > BufLen
     /\ buf' = [c EXCEPT !.len = BufLen]
     /\ ring' = [ring EXCEPT ![nStart].off = @ + BufLen,
                             ![nStart].len = @ - BufLen]
     /\ UNCHANGED <<nStart, nLen>>
  \/ /\ c.len <= BufLen
     /\ buf' = c
     /\ nStart' = Succ(nStart)
     /\ nLen' = nLen - 1
     /\ UNCHANGED ring

PopAtOnce ==
  /\ popPc = "locking"
  /\ ~locked
  /\ ~TimedOutForGood
  /\ nLen # 0
  /\ Take
  /\ popPc' = "out"
  /\ UNCHANGED <<rigid, nEnd, put, nQState, isWait, overwritten, locked,
                 pushPc, destroyPc>>

PopWait ==
  /\ popPc = "locking"
  /\ ~locked
  /\ ~TimedOutForGood
  /\ nQState # "readonly"
  /\ nLen = 0
  /\ isWait' = TRUE
  /\ popPc' = "waiting"
  /\ UNCHANGED <<rigid, queue, nQState, overwritten, locked, pushPc,
                 destroyPc, buf>>

(* The time given to pthread_cond_timedwait is over, or it returns with no *)
(* signal, which POSIX allows.                                             *)
PopTimeout ==
  /\ popPc = "waiting"
  /\ popPc' = "expired"
  /\ UNCHANGED <<rigid, queue, nQState, isWait, overwritten, locked, pushPc,
                 destroyPc, buf>>

PopSpurious ==
  /\ popPc = "waiting"
  /\ popPc' = "woken"
  /\ UNCHANGED <<rigid, queue, nQState, isWait, overwritten, locked, pushPc,
                 destroyPc, buf>>

(* Woken with nothing to take: unlock, and isWait is cleared afterwards.   *)
PopWokenEmpty ==
  /\ popPc = "woken"
  /\ ~locked
  /\ nLen = 0
  /\ popPc' = "leaving"
  /\ UNCHANGED <<rigid, queue, nQState, isWait, overwritten, locked, pushPc,
                 destroyPc, buf>>

PopLeave ==
  /\ popPc = "leaving"
  /\ isWait' = FALSE
  /\ popPc' = "out"
  /\ UNCHANGED <<rigid, queue, nQState, overwritten, locked, pushPc,
                 destroyPc, buf>>

(* Woken with something to take: isWait is cleared under the mutex.        *)
PopWokenFull ==
  /\ popPc = "woken"
  /\ ~locked
  /\ nLen # 0
  /\ isWait' = FALSE
  /\ locked' = TRUE
  /\ popPc' = "taking"
  /\ UNCHANGED <<rigid, queue, nQState, overwritten, pushPc, destroyPc, buf>>

PopTake ==
  /\ popPc = "taking"
  /\ Take
  /\ locked' = FALSE
  /\ popPc' = "out"
  /\ UNCHANGED <<rigid, nEnd, put, nQState, isWait, overwritten, pushPc,
                 destroyPc>>

(* ETIMEDOUT is returned whatever the ring holds by now; isWait and the    *)
(* state are written after the unlock, the state over whatever it is.      *)
PopExpired ==
  /\ popPc = "expired"
  /\ ~locked
  /\ isWait' = FALSE
  /\ popPc' = "marking"
  /\ UNCHANGED <<rigid, queue, nQState, overwritten, locked, pushPc,
                 destroyPc, buf>>

PopMarkTimeout ==
  /\ popPc = "marking"
  /\ nQState' = "timeout"
  /\ popPc' = "out"
  /\ UNCHANGED <<rigid, queue, isWait, overwritten, locked, pushPc,
                 destroyPc, buf>>

-----------------------------------------------------------------------------
(* LinkDestroyQueue by the last holder (nCount becomes 0), when no push is *)
(* under way: READ_ONLY under the mutex, a signal, then wait for isWait.   *)
Destroy ==
  /\ destroyPc = "out"
  /\ \A p \in Producers : pushPc[p] = "out"
  /\ ~locked
  /\ nQState' = "readonly"
  /\ destroyPc' = "signal"
  /\ UNCHANGED <<rigid, queue, isWait, overwritten, locked, pushPc, popPc, buf>>

DestroySignalMissing ==  \* faulty variant: no pthread_cond_signal
  /\ destroyPc = "signal"
  /\ destroyPc' = "spin"
  /\ UNCHANGED <<rigid, queue, nQState, isWait, overwritten, locked, pushPc,
                 popPc, buf>>

DestroySignal ==
  /\ destroyPc = "signal"
  /\ destroyPc' = "spin"
  /\ Wake
  /\ UNCHANGED <<rigid, queue, nQState, isWait, overwritten, locked, pushPc, buf>>

DestroyFreeNoWait ==  \* faulty variant: isWait not looked at
  /\ destroyPc = "spin"
  /\ destroyPc' = "freed"
  /\ UNCHANGED <<rigid, queue, nQState, isWait, overwritten, locked, pushPc,
                 popPc, buf>>

DestroyFree ==
  /\ destroyPc = "spin"
  /\ ~isWait
  /\ destroyPc' = "freed"
  /\ UNCHANGED <<rigid, queue, nQState, isWait, overwritten, locked, pushPc,
                 popPc, buf>>

-----------------------------------------------------------------------------
Push(p) ==
  \/ \E n \in Lens : PushRoom(p, n) \/ PushOverwrite(p, n)
  \/ PushOverflow(p)
  \/ PushSignal(p)
  \/ PushCountOverwrite(p)
  \/ StopPush(p)

(* What the worker does once it runs: it never waits for anybody else but  *)
(* at "waiting".                                                           *)
PopRun ==
  \/ PopRefused \/ PopAtOnce \/ PopWait
  \/ PopWokenEmpty \/ PopLeave \/ PopWokenFull \/ PopTake
  \/ PopExpired \/ PopMarkTimeout

Pop == PopCall \/ PopTimeout \/ PopSpurious \/ PopRun

DestroyQueue == Destroy \/ DestroySignal \/ DestroyFree

Next == (\E p \in Producers : Push(p)) \/ Pop \/ DestroyQueue

Spec == Init /\ [][Next]_vars

(* Scheduling: a thread inside a call goes on with it; the worker calls    *)
(* pop again in its loop.  Nothing says that a timeout or a spurious       *)
(* wake-up ever happens.                                                   *)
Fairness ==
  /\ \A p \in Producers : WF_vars(PushSignal(p) \/ PushCountOverwrite(p))
  /\ WF_vars(PopCall)
  /\ WF_vars(PopRun)
  /\ WF_vars(DestroySignal \/ DestroyFree)

FairSpec == Spec /\ Fairness

-----------------------------------------------------------------------------
(* The abstract queue this one implements.                                 *)
items == [k \in 1 .. nLen |-> Held(k - 1)]

Fifo == INSTANCE BoundedFifo
          WITH Cap <- nCap, lossy <- (policy = "TSQ_FIX_LENGTH_CAN_OVERWRITE")

RefinesFifo == Fifo!Spec

-----------------------------------------------------------------------------
(* Types of every variable, and the ranges of the ring indices.            *)
TypeOK ==
  /\ policy \in Policies
  /\ nIsAvailableAfterTimeout \in BOOLEAN
  /\ ring \in [Slots -> Chunk]
  /\ nStart \in Slots /\ nEnd \in Slots /\ nLen \in 0 .. nCap
  /\ nQState \in {"open", "readonly", "timeout"}
  /\ isWait \in BOOLEAN /\ overwritten \in BOOLEAN /\ locked \in BOOLEAN
  /\ pushPc \in [Producers -> {"out", "signal", "signal_count", "count"}]
  /\ popPc \in {"out", "locking", "waiting", "woken", "leaving", "taking",
                "expired", "marking"}
  /\ destroyPc \in {"out", "signal", "spin", "freed"}
  /\ put \in Nat
  /\ buf \in Chunk

(* Ring geometry: nEnd is nLen slots past nStart, and the chunks held are  *)
(* the newest nLen pushes in order, all but the oldest of them whole.      *)
RingConsistent ==
  /\ nEnd = Wrap(nStart + nLen)
  /\ nLen <= put
  /\ \A k \in 0 .. nLen - 1 :
       /\ Held(k).id = put - nLen + 1 + k
       /\ Held(k).len > 0
       /\ k > 0 => Held(k).off = 0

(* No byte that a TSQ_FIX_LENGTH queue accepted is lost, repeated or       *)
(* reordered, through wrap-around, partial pops and timeouts: what the     *)
(* last pop returned ends where the oldest chunk held begins.              *)
NoByteLost ==
  policy = "TSQ_FIX_LENGTH" =>
    IF nLen > 0 /\ Held(0).off > 0
    THEN buf.id = Held(0).id /\ buf.off + buf.len = Held(0).off
    ELSE buf.id = put - nLen

(* The mutex is given up before pthread_cond_signal is called: whenever    *)
(* the worker is blocked though the ring holds something, some producer    *)
(* still owes it a signal.                                                 *)
NoLostWakeup ==
  popPc = "waiting" /\ nLen > 0 =>
    \E p \in Producers : pushPc[p] \in {"signal", "signal_count"}

(* LinkDestroyQueue's wait on isWait: the queue is not freed under a       *)
(* worker that has blocked on it and not yet left pthread_cond_timedwait.  *)
FreedAfterWait ==
  destroyPc = "freed" => popPc \notin {"waiting", "woken", "expired", "leaving"}

(* Every push a TSQ_FIX_LENGTH queue accepts is returned by some pop, as   *)
(* long as the queue is not destroyed, however often the pops time out.    *)
(* (With nIsAvailableAfterTimeout = 0 the first timeout ends the queue.)   *)
EveryPushDelivered ==
  \A i \in 1 .. MaxPush :
    (put >= i /\ policy = "TSQ_FIX_LENGTH" /\ nIsAvailableAfterTimeout)
      ~> (buf.id >= i \/ destroyPc # "out")

(* LinkDestroyQueue returns: its one signal reaches a blocked worker, and  *)
(* a late timeout of the worker does not make it wait again.               *)
DestroyReturns == (destroyPc = "signal") ~> (destroyPc = "freed")
=============================================================================
