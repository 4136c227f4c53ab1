----------------------------- MODULE SegmentUsers -----------------------------
(***************************************************************************)
(* SegmentMgr with the uploaders that use it.                              *)
(*                                                                         *)
(* The worker of an uploader (listenTsUpload, module Session) starts       *)
(* inside LinkNewTsMuxUploaderWillPicAndSeg, before the uploader has its   *)
(* handle, and reports session 1 at once.  The handle is copied into a     *)
(* session by handNewSession, so that session 1 is reported with a zeroed  *)
(* segHandle, which is some uploader's handle too.  An uploader reports    *)
(* the start of a session, its segments and its end, in that order; its    *)
(* destruction stops the worker, which reports the end of its session      *)
(* (LINK_TSU_QUIT), and then releases the handle.                          *)
(***************************************************************************)
EXTENDS SegmentMgr

CONSTANTS
  Uploaders,
  MaxReports   \* bound: reports of all uploaders

VARIABLES
  user,       \* of each uploader: see Init
  owner,      \* history: the uploader that has the handle, or "none"
  given,      \* history: what UPDATEs for the handle brought since then
  sum,        \* history: what was posted of it
  disturbed,  \* history: an UPDATE of another uploader was handled, or one
              \* of the owner refused
  ended,      \* history: the sessions whose end the manager handled
  reports     \* the number of reports

userVars == <<user, owner, given, sum, disturbed, ended, reports>>
vars == <<mgrVars, userVars>>

Session(id, reason, acc, avd, gap) ==
  [id |-> id, reason |-> reason, acc |-> acc, avd |-> avd, gap |-> gap]

ASSUME UsersAssumption ==
  /\ "none" \notin Uploaders
  /\ MaxReports \in Nat
  /\ NoSession = Session(<<>>, 0, 0, 0, 0)

Init ==
  /\ MgrInit
  /\ user = [u \in Uploaders |->
       [life |-> "none",  \* "new" (the worker runs), "live", "failed", "stopped", "released"
        seg |-> -1,       \* segmentHandle
        n |-> 0,          \* the session
        open |-> FALSE,   \* its start was reported
        avd |-> 0]]
  /\ owner = [h \in Handle |-> "none"]
  /\ given = [h \in Handle |-> 0]
  /\ sum = [h \in Handle |-> 0]
  /\ disturbed = [h \in Handle |-> FALSE]
  /\ ended = {}
  /\ reports = 0

-----------------------------------------------------------------------------
(* linkNewTsMuxUploader                                                    *)
NewTsMuxUploader(u) ==
  /\ user[u].life = "none" /\ uninitPc = "idle"
  /\ user' = [user EXCEPT ![u].life = "new"]
  /\ posted' = <<>>
  /\ UNCHANGED <<handles, pSegQueue_, nQuit_, thread, uninitPc,
                 owner, given, sum, disturbed, ended, reports>>

(* The rest of LinkNewTsMuxUploaderWillPicAndSeg: without a handle the     *)
(* uploader is destroyed, and has none to release.                         *)
GetHandle(u) ==
  /\ user[u].life = "new"
  /\ \/ \E h \in Handle :
          /\ NewSegmentHandle(h)
          /\ user' = [user EXCEPT ![u].life = "live", ![u].seg = h]
          /\ owner' = [owner EXCEPT ![h] = u]
          /\ given' = [given EXCEPT ![h] = 0]
          /\ sum' = [sum EXCEPT ![h] = 0]
          /\ disturbed' = [disturbed EXCEPT ![h] = FALSE]
     \/ /\ NoHandleLeft
        /\ user' = [user EXCEPT ![u].life = "failed"]
        /\ posted' = <<>>
        /\ UNCHANGED <<handles, pSegQueue_, nQuit_, thread, uninitPc,
                       owner, given, sum, disturbed>>
  /\ UNCHANGED <<ended, reports>>

(* An UPDATE is pushed to handle h, or refused by the full queue.          *)
Send(u, h, s, isNew) ==
  /\ uninitPc = "idle" /\ reports < MaxReports /\ reports' = reports + 1
  /\ \/ UpdateSegment(h, s, isNew) /\ UNCHANGED disturbed
     \/ /\ UpdateRefused
        /\ disturbed' = [i \in Handle |-> disturbed[i] \/ owner[i] = u]
  /\ UNCHANGED <<owner, given, sum, ended>>

(* The zeroed segHandle of session 1.                                      *)
SegHandle(u, n) == IF n = 1 THEN 0 ELSE user[u].seg

(* The reports of a session n: its start, with what the TS file that began *)
(* it brought (nothing for session 1, which starts with the worker) and    *)
(* the reason for which the last session ended; its segments; its end.     *)
ReportStart(u) ==
  LET n == user[u].n + 1 IN
  /\ ~user[u].open
  /\ IF n = 1 THEN user[u].life \in {"new", "live"} ELSE user[u].life = "live"
  /\ \E d \in IF n = 1 THEN {0} ELSE {0, 1} :
       /\ Send(u, SegHandle(u, n), Session(<<u, n>>, IF n = 1 THEN 0 ELSE 1, d, d, d), TRUE)
       /\ user' = [user EXCEPT ![u].n = n, ![u].open = TRUE, ![u].avd = d]

ReportSegment(u) ==
  /\ user[u].open /\ user[u].life = "live"
  /\ LET avd == user[u].avd + 1 IN
       /\ Send(u, SegHandle(u, user[u].n), Session(<<u, user[u].n>>, 0, 1, avd, 1), FALSE)
       /\ user' = [user EXCEPT ![u].avd = avd]

(* The end is reported through the new session (bufferUpload), which has   *)
(* the handle, or through the ended one (LINK_TSU_SEG_TIME).               *)
ReportEnd(u) ==
  /\ user[u].open /\ user[u].life = "live"
  /\ \E h \in {SegHandle(u, user[u].n), user[u].seg} :
       Send(u, h, Session(<<u, user[u].n>>, 1, 1, user[u].avd, 0), FALSE)
  /\ user' = [user EXCEPT ![u].open = FALSE]

(* LinkFreeUploader: the worker is stopped; LINK_TSU_QUIT ends a session   *)
(* that has a duration.                                                    *)
StopWorker(u) ==
  /\ user[u].life = "live"
  /\ user' = [user EXCEPT ![u].life = "stopped", ![u].open = FALSE]
  /\ IF user[u].open /\ user[u].avd > 0
     THEN Send(u, SegHandle(u, user[u].n), Session(<<u, user[u].n>>, 4, 1, user[u].avd, 0), FALSE)
     ELSE /\ uninitPc = "idle" /\ posted' = <<>>
          /\ UNCHANGED <<handles, pSegQueue_, nQuit_, thread, uninitPc,
                         owner, given, sum, disturbed, ended, reports>>

ReleaseHandle(u) ==
  /\ user[u].life = "stopped" /\ uninitPc = "idle"
  /\ ReleaseSegmentHandle(user[u].seg)
  /\ user' = [user EXCEPT ![u].life = "released"]
  /\ UNCHANGED <<owner, given, sum, disturbed, ended, reports>>

-----------------------------------------------------------------------------
(* The manager's steps, with the history.                                  *)
PostedGap(h) == IF posted' # <<>> /\ posted'[1].h = h THEN posted'[1].session.gap ELSE 0

Account ==
  LET update == mgrPc = "handle" /\ segInfo.op = "UPDATE"
      counts(h) == update /\ segInfo.h = h /\ handles[h].used
      gap(h) == IF counts(h) THEN segInfo.session.gap ELSE 0
  IN
  /\ given' = [h \in Handle |-> given[h] + gap(h)]
  /\ sum' = [h \in Handle |-> sum[h] + PostedGap(h)]
  /\ disturbed' = [h \in Handle |-> disturbed[h] \/
                     (counts(h) /\ segInfo.session.id[1] # owner[h])]
  /\ ended' = IF update /\ ~segInfo.isNew /\ segInfo.session.reason # 0
              THEN ended \union {segInfo.session.id} ELSE ended
  /\ owner' = [h \in Handle |-> IF handles'[h].used THEN owner[h] ELSE "none"]
  /\ UNCHANGED <<user, reports>>

Manager == (MgrRun \/ MgrPopTimeout) /\ Account

Uninit == (UninitQuit \/ UninitPush \/ UninitJoin) /\ UNCHANGED userVars

Next ==
  \/ \E u \in Uploaders :
       \/ NewTsMuxUploader(u) \/ GetHandle(u)
       \/ ReportStart(u) \/ ReportSegment(u) \/ ReportEnd(u)
       \/ StopWorker(u) \/ ReleaseHandle(u)
  \/ Manager
  \/ Uninit

Spec == Init /\ [][Next]_vars
FairSpec == Spec /\ MgrFairness

-----------------------------------------------------------------------------
(* Types, and that no command is in a queue nobody reads: the queue is     *)
(* freed only behind the thread.                                           *)
TypeOK ==
  /\ \A h \in Handle :
       /\ handles[h].used \in BOOLEAN /\ handles[h].next \in BOOLEAN
       /\ handles[h].tmp.reason \in {0, 1, 4} /\ handles[h].tmp.gap \in Nat
       /\ owner[h] # "none" <=> handles[h].used
  /\ Len(pSegQueue_) <= Cap /\ nLen_ \in 0 .. Cap /\ idx \in 0 .. NHandles
  /\ mgrPc \in {"test", "pop", "handle", "ttl", "done"}
  /\ uninitPc = "done" => mgrPc = "done" /\ pSegQueue_ = <<>>

(* A handle stays its uploader's until the last command that the uploader  *)
(* gave for it was handled, because RELEASE goes through the same queue:   *)
(* no report of an uploader that is gone falls to the next owner.          *)
HandleKept ==
  \A i \in DOMAIN pSegQueue_ :
    LET c == pSegQueue_[i] IN
    c.op = "UPDATE" /\ user[c.session.id[1]].seg = c.h =>
      owner[c.h] = c.session.id[1]

(* "vd", the duration since the last report: what was posted of a handle   *)
(* and what waits in tmpSession never exceed what the uploader gave, and   *)
(* are all of it unless reports were refused or went to a wrong handle.    *)
GapsAddUp ==
  \A h \in Handle : handles[h].used =>
    /\ sum[h] + handles[h].tmp.gap <= given[h]
    /\ ~disturbed[h] => sum[h] + handles[h].tmp.gap = given[h]

(* After the end of a session was handled, no TTL report, forced report or *)
(* release posts anything of it again, on a handle used by its owner alone.*)
NothingPostedAfterEnd ==
  [][\A i \in DOMAIN posted' :
       LET p == posted'[i] IN
       p.session.id \in ended => disturbed[p.h]]_vars

(* When LinkUninitSegmentMgr has returned and the thread has handled QUIT, *)
(* nothing that was added up for a started session is left unposted.       *)
FlushedAtUninit ==
  uninitPc = "done" /\ segInfo.op = "QUIT" =>
    \A h \in Handle :
      handles[h].used => handles[h].tmp.gap <= 0 \/ handles[h].tmp.acc <= 0

(* LinkUninitSegmentMgr returns, unless the thread took the length it read *)
(* before a post for the present one, ended, and left the queue full.      *)
UninitReturns ==
  uninitPc = "push" ~> \/ uninitPc = "done"
                       \/ mgrPc = "done" /\ uninitPc = "push" /\ Len(pSegQueue_) = Cap
=============================================================================
