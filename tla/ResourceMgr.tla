------------------------------ MODULE ResourceMgr ------------------------------
(***************************************************************************)
(* libtsuploader/resource.c: the thread that runs the destructions.        *)
(*                                                                         *)
(* LinkPushFunction hands a function to the thread, which runs one after   *)
(* the other; LinkStopMgr lets it finish what it sees in the queue.  What  *)
(* the functions do is the user's of this module to say.                   *)
(***************************************************************************)
EXTENDS Integers, Sequences, FiniteSets

CONSTANT MgrCap    \* functions the queue can hold: 100

ASSUME ResourceMgrAssumption == MgrCap \in Nat \ {0}

(* manager: the queue, nQuit_, nIsStarted_, the thread's pc, the length it *)
(* last read and the function it runs; unseen is history: what other       *)
(* threads pushed since it read that length.                               *)
VARIABLE manager

NullFn == [fn |-> "NULL", arg |-> "NULL"]

MgrInit ==
  manager = [q |-> <<>>, nQuit |-> FALSE, nIsStarted |-> FALSE,
             pc |-> "none", nLen |-> 0, run |-> NullFn, unseen |-> {}]

(* LinkStartMgr: the thread first reads the length of its empty queue.     *)
LinkStartMgr ==
  /\ ~manager.nIsStarted
  /\ manager' = [manager EXCEPT !.nIsStarted = TRUE, !.pc = "loop", !.nLen = 0]

(* LinkPushFunction: m is the manager, whoever calls.                      *)
Accepts(m) == m.nIsStarted /\ Len(m.q) < MgrCap
Pushed(m, f) == IF Accepts(m) THEN [m EXCEPT !.q = Append(@, f)] ELSE m
LinkPushFunction(f) ==
  manager' = [Pushed(manager, f) EXCEPT !.unseen = IF Accepts(manager) THEN @ \cup {f} ELSE @]

(* LinkStopMgr, up to its join and after it.                               *)
StopQuit == manager' = [manager EXCEPT !.nQuit = TRUE]
StopPush == manager' = Pushed(manager, NullFn)
StopJoin ==
  /\ manager.pc = "done"
  /\ manager' = [manager EXCEPT !.nIsStarted = FALSE, !.q = <<>>]

-----------------------------------------------------------------------------
(* recycle.                                                                *)
RecycleLoop ==
  /\ manager.pc = "loop"
  /\ manager' = [manager EXCEPT !.pc = IF manager.nQuit /\ manager.nLen = 0 THEN "done" ELSE "pop"]

RecyclePop ==
  /\ manager.pc = "pop" /\ manager.q # <<>>
  /\ manager' = [manager EXCEPT !.q = Tail(@), !.run = Head(manager.q), !.nLen = Len(manager.q) - 1,
                   !.unseen = {}, !.pc = IF Head(manager.q) = NullFn THEN "stat" ELSE "run"]

(* The pop times out after a day.                                          *)
RecycleTimeout ==
  /\ manager.pc = "pop" /\ manager.q = <<>>
  /\ manager' = [manager EXCEPT !.pc = "loop", !.nLen = 0, !.unseen = {}]

RecycleNoStat ==  \* faulty variant: the length is read before the function only
  /\ manager.pc = "stat"
  /\ manager' = [manager EXCEPT !.pc = "loop", !.run = NullFn]

(* The length is read again after the function, which may have pushed.     *)
RecycleStat ==
  /\ manager.pc = "stat"
  /\ manager' = [manager EXCEPT !.pc = "loop", !.run = NullFn, !.nLen = Len(manager.q), !.unseen = {}]

Recycle == RecycleLoop \/ RecyclePop \/ RecycleTimeout \/ RecycleStat
=============================================================================
