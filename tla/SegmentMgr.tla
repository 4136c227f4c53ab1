------------------------------ MODULE SegmentMgr ------------------------------
(***************************************************************************)
(* libtsuploader/segmentmgr.c: the thread that reports sessions to the     *)
(* server.  Uploaders take one of a few handles and push UPDATE commands;  *)
(* the thread posts them, or adds them up in tmpSession until the time the *)
(* server asked for (ttl), and posts that when its pop times out.          *)
(*                                                                         *)
(* The thread is cut where another one can come in between: after the pop, *)
(* after the handling of a command (which may be a long HTTP post), and    *)
(* after each handle of a TTL report.  nLen_ is the queue length that was  *)
(* read before the handling; the loop condition uses it afterwards.        *)
(*                                                                         *)
(* Time is left out: once a next report time is set, it may or may not     *)
(* have come whenever the code compares it with the clock.  Of a session   *)
(* the manager looks at reason, acc, avd and gap (see module Session).     *)
(***************************************************************************)
EXTENDS Integers, Sequences

CONSTANTS
  NHandles,   \* the handles are 0 .. NHandles - 1 (eight in the code)
  Cap,        \* capacity of pSegQueue_ (32 in the code)
  NoSession   \* a LinkSession of zeros

ASSUME SegmentAssumption ==
  /\ NHandles \in Nat \ {0} /\ Cap \in Nat \ {0}
  /\ NoSession.acc = 0 /\ NoSession.avd = 0 /\ NoSession.gap = 0 /\ NoSession.reason = 0

VARIABLES
  handles,    \* used: handle # -1; ttl: nReportTTL > 0; next: a report time
              \* is set; tmp: tmpSession
  pSegQueue_,
  nQuit_,
  nLen_,      \* info.nLen_
  segInfo,    \* the command being handled
  mgrPc,      \* "test" (the loop condition), "pop", "handle", "ttl", "done"
  idx,        \* of handleTTLReportSegInfo
  uninitPc,   \* LinkUninitSegmentMgr: "idle", "push", "join", "done"
  posted      \* the sessions that the last step posted

thread == <<nLen_, segInfo, mgrPc, idx>>
mgrVars == <<handles, pSegQueue_, nQuit_, thread, uninitPc, posted>>

Handle == 0 .. NHandles - 1
Timeout == [op |-> "TIMEOUT"]
Update(h, s, isNew) == [op |-> "UPDATE", h |-> h, session |-> s, isNew |-> isNew]
Release(h) == [op |-> "RELEASE", h |-> h]
Quit == [op |-> "QUIT"]

MgrInit ==
  /\ handles = [h \in Handle |-> [used |-> FALSE, ttl |-> FALSE, next |-> FALSE,
                                  tmp |-> NoSession]]
  /\ pSegQueue_ = <<>>
  /\ nQuit_ = FALSE
  /\ nLen_ = 0 /\ segInfo = Timeout /\ mgrPc = "test" /\ idx = 0
  /\ uninitPc = "idle"
  /\ posted = <<>>

-----------------------------------------------------------------------------
(* The calls of the uploaders' threads.                                    *)

(* LinkNewSegmentHandle: the first free handle; none is free: LINK_MAX_SEG *)
NewSegmentHandle(h) ==
  /\ uninitPc = "idle"
  /\ ~handles[h].used /\ \A i \in Handle : i < h => handles[i].used
  /\ handles' = [handles EXCEPT ![h].used = TRUE, ![h].next = FALSE,
                                ![h].tmp = NoSession]
  /\ posted' = <<>>
  /\ UNCHANGED <<pSegQueue_, nQuit_, thread, uninitPc>>

NoHandleLeft == uninitPc = "idle" /\ \A h \in Handle : handles[h].used

Push(cmd) ==
  /\ Len(pSegQueue_) < Cap
  /\ pSegQueue_' = Append(pSegQueue_, cmd)
  /\ posted' = <<>>
  /\ UNCHANGED <<handles, nQuit_, thread, uninitPc>>

(* LinkUpdateSegment: what the full queue refuses is not reported.         *)
UpdateSegment(h, s, isNew) == Push(Update(h, s, isNew))

UpdateRefused ==
  /\ Len(pSegQueue_) = Cap
  /\ posted' = <<>>
  /\ UNCHANGED <<handles, pSegQueue_, nQuit_, thread, uninitPc>>

ReleaseHandleNow(h) ==  \* faulty variant: the handle is freed by the caller
  /\ handles' = [handles EXCEPT ![h].used = FALSE]
  /\ posted' = <<>>
  /\ UNCHANGED <<pSegQueue_, nQuit_, thread, uninitPc>>

(* LinkReleaseSegmentHandle, which tries until the queue has room.         *)
ReleaseSegmentHandle(h) == Push(Release(h))

-----------------------------------------------------------------------------
(* reportSegInfo of session s for handle g; the answer sets a ttl or not.  *)
Reported(g, s, ttlSet) ==
  [g EXCEPT !.tmp.avd = IF s.reason # 0 THEN 0 ELSE @,
            !.ttl = @ \/ ttlSet, !.next = @ \/ ttlSet]

Post(h, s) == <<[h |-> h, session |-> s]>>

FlushKeepGap(h, g) ==  \* faulty variant: what was posted stays in tmpSession
  IF g.tmp.acc <= 0 \/ g.tmp.gap <= 0
  THEN {[g |-> g, post |-> <<>>]}
  ELSE {LET r == Reported(g, g.tmp, ttlSet) IN
        [g |-> [r EXCEPT !.next = r.ttl], post |-> Post(h, g.tmp)] :
          ttlSet \in BOOLEAN}

FlushNever(h, g) ==  \* faulty variant: what was buffered is kept for ever
  {[g |-> g, post |-> <<>>]}

(* handleOnSegReportSegInfo: the outcomes of posting what handle h, in     *)
(* state g, has added up.                                                  *)
Flush(h, g) ==
  IF g.tmp.acc <= 0 \/ g.tmp.gap <= 0
  THEN {[g |-> g, post |-> <<>>]}
  ELSE {LET r == Reported(g, g.tmp, ttlSet) IN
        [g |-> [r EXCEPT !.next = r.ttl, !.tmp.gap = 0], post |-> Post(h, g.tmp)] :
          ttlSet \in BOOLEAN}

SumUpKeepGap(g, s) ==  \* faulty variant: checkShouldReport does not clear the gap
  LET t == [g.tmp EXCEPT !.avd = s.avd]
      total == s.gap + g.tmp.gap
      report == [s EXCEPT !.gap = total]
  IN
  (IF s.reason = 0 /\ g.next
   THEN {[g |-> [g EXCEPT !.tmp = [t EXCEPT !.gap = total]], post |-> <<>>]} ELSE {})
  \union
  (IF s.avd <= 0
   THEN {[g |-> [g EXCEPT !.tmp = t], post |-> <<>>]}
   ELSE {[g |-> Reported([g EXCEPT !.tmp = t], report, ttlSet),
          post |-> Post(segInfo.h, report)] : ttlSet \in BOOLEAN})

(* checkShouldReport and the rest of handleReportSegInfo for a session     *)
(* that was not just started: added up in tmpSession before the next       *)
(* report time, posted with what was added up if that has come or the      *)
(* session ends, and not posted without a duration.                        *)
SumUp(g, s) ==
  LET t == [g.tmp EXCEPT !.avd = s.avd]
      total == s.gap + g.tmp.gap
      report == [s EXCEPT !.gap = total]
      cleared == [g EXCEPT !.tmp = [t EXCEPT !.gap = 0]]
  IN
  (IF s.reason = 0 /\ g.next
   THEN {[g |-> [g EXCEPT !.tmp = [t EXCEPT !.gap = total]], post |-> <<>>]} ELSE {})
  \union
  (IF s.avd <= 0
   THEN {[g |-> cleared, post |-> <<>>]}
   ELSE {[g |-> Reported(cleared, report, ttlSet), post |-> Post(segInfo.h, report)] :
           ttlSet \in BOOLEAN})

-----------------------------------------------------------------------------
(* segmetMgrRun                                                            *)
MgrTest ==
  /\ mgrPc = "test"
  /\ mgrPc' = IF nQuit_ /\ nLen_ = 0 THEN "done" ELSE "pop"
  /\ posted' = <<>>
  /\ UNCHANGED <<handles, pSegQueue_, nQuit_, nLen_, segInfo, idx, uninitPc>>

MgrPop ==
  /\ mgrPc = "pop" /\ pSegQueue_ # <<>>
  /\ segInfo' = Head(pSegQueue_)
  /\ pSegQueue_' = Tail(pSegQueue_)
  /\ mgrPc' = "handle"
  /\ posted' = <<>>
  /\ UNCHANGED <<handles, nQuit_, nLen_, idx, uninitPc>>

MgrPopTimeout ==
  /\ mgrPc = "pop" /\ pSegQueue_ = <<>>
  /\ segInfo' = Timeout
  /\ mgrPc' = "handle"
  /\ posted' = <<>>
  /\ UNCHANGED <<handles, pSegQueue_, nQuit_, nLen_, idx, uninitPc>>

GetStatInfo == nLen_' = Len(pSegQueue_)

(* SEGMENT_UPDATE for a handle that is not in use is dropped; a new        *)
(* session replaces what was added up for the old one.                     *)
HandleUpdate ==
  LET h == segInfo.h
      g == handles[h]
  IN
  /\ mgrPc = "handle" /\ segInfo.op = "UPDATE"
  /\ GetStatInfo
  /\ \/ /\ ~g.used
        /\ posted' = <<>> /\ UNCHANGED handles
     \/ /\ g.used /\ segInfo.isNew
        /\ handles' = [handles EXCEPT ![h].tmp = segInfo.session]
        /\ posted' = <<>>
     \/ /\ g.used /\ ~segInfo.isNew
        /\ \E out \in SumUp(g, segInfo.session) :
             /\ handles' = [handles EXCEPT ![h] = out.g]
             /\ posted' = out.post
  /\ mgrPc' = "test" /\ segInfo' = Timeout
  /\ UNCHANGED <<pSegQueue_, nQuit_, idx, uninitPc>>

(* SEGMENT_RELEASE                                                         *)
HandleRelease ==
  LET h == segInfo.h IN
  /\ mgrPc = "handle" /\ segInfo.op = "RELEASE"
  /\ GetStatInfo
  /\ \E out \in Flush(h, handles[h]) :
       /\ handles' = [handles EXCEPT ![h] = [out.g EXCEPT !.used = FALSE, !.ttl = FALSE,
                                                          !.next = FALSE]]
       /\ posted' = out.post
  /\ mgrPc' = "test" /\ segInfo' = Timeout
  /\ UNCHANGED <<pSegQueue_, nQuit_, idx, uninitPc>>

(* SEGMENT_QUIT or a timeout: handleTTLReportSegInfo, handle by handle.    *)
StartTtlReport ==
  /\ mgrPc = "handle" /\ segInfo.op \in {"QUIT", "TIMEOUT"}
  /\ GetStatInfo
  /\ mgrPc' = "ttl" /\ idx' = 0
  /\ posted' = <<>>
  /\ UNCHANGED <<handles, pSegQueue_, nQuit_, segInfo, uninitPc>>

TtlReport ==
  LET g == handles[idx]
      force == segInfo.op = "QUIT"
  IN
  /\ mgrPc = "ttl" /\ idx < NHandles
  /\ idx' = idx + 1
  /\ \/ /\ ~g.used \/ (~force /\ g.next)
        /\ posted' = <<>> /\ UNCHANGED handles
     \/ /\ g.used
        /\ \E out \in Flush(idx, IF force /\ g.tmp.reason = 0
                                 THEN [g EXCEPT !.tmp.reason = 4] ELSE g) :
             /\ handles' = [handles EXCEPT ![idx] = out.g]
             /\ posted' = out.post
  /\ UNCHANGED <<pSegQueue_, nQuit_, nLen_, segInfo, mgrPc, uninitPc>>

EndTtlReport ==
  /\ mgrPc = "ttl" /\ idx = NHandles
  /\ mgrPc' = "test" /\ idx' = 0
  /\ posted' = <<>>
  /\ UNCHANGED <<handles, pSegQueue_, nQuit_, nLen_, segInfo, uninitPc>>

MgrRun == MgrTest \/ MgrPop \/ HandleUpdate \/ HandleRelease
          \/ StartTtlReport \/ TtlReport \/ EndTtlReport

-----------------------------------------------------------------------------
UninitQuitNoFlag ==  \* faulty variant: QUIT alone has to end the thread
  /\ uninitPc = "idle"
  /\ uninitPc' = "push"
  /\ posted' = <<>>
  /\ UNCHANGED <<handles, pSegQueue_, nQuit_, thread>>

(* LinkUninitSegmentMgr: nQuit_, then the push of QUIT, tried until there  *)
(* is room, then the join.                                                 *)
UninitQuit ==
  /\ uninitPc = "idle"
  /\ nQuit_' = TRUE
  /\ uninitPc' = "push"
  /\ posted' = <<>>
  /\ UNCHANGED <<handles, pSegQueue_, thread>>

UninitPush ==
  /\ uninitPc = "push" /\ Len(pSegQueue_) < Cap
  /\ pSegQueue_' = Append(pSegQueue_, Quit)
  /\ uninitPc' = "join"
  /\ posted' = <<>>
  /\ UNCHANGED <<handles, nQuit_, thread>>

UninitJoin ==
  /\ uninitPc = "join" /\ mgrPc = "done"
  /\ pSegQueue_' = <<>>
  /\ uninitPc' = "done"
  /\ posted' = <<>>
  /\ UNCHANGED <<handles, nQuit_, thread>>

(* The manager's thread and LinkUninitSegmentMgr never just stop; a pop    *)
(* need not time out.                                                      *)
MgrFairness ==
  /\ WF_mgrVars(MgrRun) /\ WF_mgrVars(UninitPush \/ UninitJoin)
=============================================================================
