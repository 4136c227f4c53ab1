------------------------------ MODULE Reporting ------------------------------
(***************************************************************************)
(* One uploader's worker (module Session) and the segment manager (module  *)
(* SegmentMgr): every LinkUpdateSegment of the worker is a command of the  *)
(* manager's thread, which posts it or adds it up and posts it later.      *)
(*                                                                         *)
(* The uploader is the first one, its handle is 0, which is also the       *)
(* zeroed segHandle of its session 1; it has the handle from the start.    *)
(* LinkUninitSegmentMgr is not called.                                     *)
(***************************************************************************)
EXTENDS Session

CONSTANT QueueCap

VARIABLES handles, pSegQueue_, nQuit_, nLen_, segInfo, mgrPc, idx, uninitPc, posted

Mgr == INSTANCE SegmentMgr WITH NHandles <- 1, Cap <- QueueCap, NoSession <- ZeroSession

mgrVars == <<handles, pSegQueue_, nQuit_, nLen_, segInfo, mgrPc, idx, uninitPc, posted>>

Commands(reports) ==
  [i \in DOMAIN reports |-> Mgr!Update(0, reports[i].session, reports[i].isNew)]

(* The queue after the reports were pushed one by one: what does not fit   *)
(* is refused.                                                             *)
Pushed(reports) ==
  LET room == QueueCap - Len(pSegQueue_) IN
  pSegQueue_ \o SubSeq(Commands(reports), 1, IF Len(reports) < room THEN Len(reports) ELSE room)

ReportingInit ==
  /\ Init
  /\ handles = [h \in {0} |-> [used |-> TRUE, ttl |-> FALSE, next |-> FALSE,
                              tmp |-> ZeroSession]]
  /\ pSegQueue_ = Commands(sent)
  /\ nQuit_ = FALSE /\ uninitPc = "idle"
  /\ nLen_ = 0 /\ segInfo = Mgr!Timeout /\ mgrPc = "test" /\ idx = 0
  /\ posted = <<>>

Worker ==
  /\ Next
  /\ pSegQueue_' = Pushed(sent')
  /\ posted' = <<>>
  /\ UNCHANGED <<handles, nQuit_, nLen_, segInfo, mgrPc, idx, uninitPc>>

Manager ==
  /\ Mgr!MgrRun \/ Mgr!MgrPopTimeout
  /\ UNCHANGED vars

ReportingSpec == ReportingInit /\ [][Worker \/ Manager]_<<vars, mgrVars>>

-----------------------------------------------------------------------------
(* The comment above reportSegInfo says of "end" and "endReason" that they *)
(* are not needed for a session that has not ended (segmentmgr.c:90-91):   *)
(* a report with an end reason is of a session whose end was reported.     *)
(* It does not hold: the start report of a session still carries the       *)
(* reason for which the last one ended (bufferUpload resets it after the   *)
(* report), checkShouldReport copies it into tmpSession, and the TTL       *)
(* report of tmpSession then says that the running session has ended.      *)
EndOnlyWhenEnded ==
  \A i \in DOMAIN posted :
    posted[i].session.reason # 0 => posted[i].session.id \in ended
=============================================================================
