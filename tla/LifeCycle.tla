------------------------------- MODULE LifeCycle -------------------------------
(***************************************************************************)
(* libtsuploader/tsuploaderapi.c with the destruction of an uploader in    *)
(* tsmuxuploader.c: LinkInit, LinkNewUploader, LinkFreeUploader and        *)
(* LinkCleanup over the resource manager, the token threads and the        *)
(* picture uploaders.                                                      *)
(*                                                                         *)
(* The program calls the SDK from one thread and, as the manual has it,    *)
(* between LinkInit and LinkCleanup, which it calls when it has freed its  *)
(* uploaders.  LinkFreeUploader only pushes the destruction to the         *)
(* resource manager.  The TS uploader and the segment manager have modules *)
(* of their own; here their ends are single steps.                         *)
(***************************************************************************)
EXTENDS TokenThread, ResourceMgr, PicUploader

ASSUME LifeCycleAssumption == Cameras = Uploaders

VARIABLES
  nProcStatus,   \* 0, 1 after LinkInit, 2 after LinkCleanup
  user,          \* the program: "out" of the SDK, "in" it, or in LinkStopMgr
  life,          \* per uploader: none, live, freed, drained, reclaimed
  refused        \* history: functions the resource manager did not take

vars == <<tokenVars, manager, pic, nProcStatus, user, life, refused>>

Fn(fn, u) == [fn |-> fn, arg |-> u]
HasPicture(u) == pic[u].pc # "none"

Init ==
  /\ TokenInit /\ MgrInit /\ PicInit
  /\ nProcStatus = 0 /\ user = "out" /\ refused = {}
  /\ life = [u \in Uploaders |-> "none"]

(* LinkPushFunction, with its result, which no caller looks at.            *)
Defer(f) ==
  /\ LinkPushFunction(f)
  /\ refused' = IF Accepts(manager) THEN refused ELSE refused \cup {f}

-----------------------------------------------------------------------------
(* LinkInit: it starts the manager once in the life of the program.        *)
LinkInit ==
  /\ user = "out" /\ user' = "in"
  /\ IF nProcStatus # 0 THEN UNCHANGED <<manager, nProcStatus>>
     ELSE LinkStartMgr /\ nProcStatus' = 1
  /\ UNCHANGED <<tokenVars, pic, life, refused>>

(* LinkCreateAndStartAVUploader: an uploader without sessions and pictures.*)
LinkCreateAndStartAVUploader(u) ==
  /\ user = "in" /\ life[u] = "none"
  /\ life' = [life EXCEPT ![u] = "live"]
  /\ TokenThreadStart(u)
  /\ UNCHANGED <<manager, pic, nProcStatus, user, refused>>

(* LinkNewUploader.                                                        *)
LinkNewUploader(u) ==
  /\ user = "in" /\ life[u] = "none"
  /\ life' = [life EXCEPT ![u] = "live"]
  /\ TokenThreadStart(u) /\ LinkNewPictureUploader(u)
  /\ UNCHANGED <<manager, nProcStatus, user, refused>>

(* LinkFreeUploader and pushRecycle.                                       *)
LinkFreeUploader(u) ==
  /\ user = "in" /\ life[u] = "live"
  /\ life' = [life EXCEPT ![u] = "freed"]
  /\ Quit(u) /\ Defer(Fn("uploader", u))
  /\ UNCHANGED <<pic, nProcStatus, user>>

(* LinkNewUploader finds no segment handle: the uploader is destroyed at   *)
(* once, without a picture uploader.                                       *)
LinkNewUploaderNoHandle(u) ==
  /\ user = "in" /\ life[u] = "none"
  /\ life' = [life EXCEPT ![u] = "freed"]
  /\ tokenThread' = [tokenThread EXCEPT ![u].pc = "start"]
  /\ isQuit' = [isQuit EXCEPT ![u] = TRUE]
  /\ Defer(Fn("uploader", u))
  /\ UNCHANGED <<pUpdateQueue, remoteConfig, token, session, accepted, pic, nProcStatus, user>>

(* A key frame starts a TS file; the worker opens a session.               *)
Capture(u) ==
  /\ life[u] = "live" /\ user = "in" /\ HasPicture(u)
  /\ LinkSendItIsTimeToCaptureSignal(u)
  /\ UNCHANGED <<tokenVars, manager, nProcStatus, user, life, refused>>
Worker(u) ==
  /\ life[u] \in {"live", "freed"} /\ HasPicture(u) /\ NewSession(u)
  /\ UNCHANGED <<manager, pic, nProcStatus, user, life, refused>>

(* LinkCleanup: LinkStopMgr, then LinkUninitSegmentMgr.                    *)
Stop(from, to, step) ==
  /\ user = from /\ user' = to /\ step
  /\ UNCHANGED <<tokenVars, pic, life, refused>>
LinkCleanup ==
  /\ \A u \in Uploaders : life[u] # "live"
  /\ \/ nProcStatus = 1 /\ Stop("in", "quitSet", StopQuit /\ nProcStatus' = 2)
     \/ nProcStatus # 1 /\ Stop("in", "out", UNCHANGED <<manager, nProcStatus>>)
CleanupPush == Stop("quitSet", "join", StopPush /\ UNCHANGED nProcStatus)
CleanupJoin == Stop("join", "out", StopJoin /\ UNCHANGED nProcStatus)

-----------------------------------------------------------------------------
(* The recycle thread runs a function in steps.                            *)
Running(fn, pc, u) ==
  manager.pc = pc /\ manager.run = Fn(fn, u)
GoTo(pc) == manager' = [manager EXCEPT !.pc = pc]

(* waitToCompleUploadAndDestroyTsMuxContext: the TS uploader is destroyed, *)
(* which joins its threads; then the token thread is told and joined, and  *)
(* the rest released.                                                      *)
DestroyTsUploader(u) ==
  /\ Running("uploader", "run", u) /\ GoTo("join")
  /\ life' = [life EXCEPT ![u] = "drained"]
  /\ PushQuit(u) /\ UNCHANGED <<pic, refused>>
JoinTokenThread(u) ==
  /\ Running("uploader", "join", u) /\ GoTo("release")
  /\ At(u, "done")
  /\ UNCHANGED <<tokenVars, pic, life, refused>>

(* LinkDestroyPictureUploader defers its own destruction in turn.          *)
Release(u) ==
  /\ Running("uploader", "release", u)
  /\ life' = [life EXCEPT ![u] = "reclaimed"]
  /\ IF ~HasPicture(u) THEN GoTo("stat") /\ UNCHANGED refused
     ELSE /\ manager' = [Pushed(manager, Fn("picture", u)) EXCEPT !.pc = "stat"]
          /\ refused' = IF Accepts(manager) THEN refused ELSE refused \cup {Fn("picture", u)}
  /\ UNCHANGED <<tokenVars, pic>>

(* waitUploadMgrThread.                                                    *)
PicQuit(u) ==
  /\ Running("picture", "run", u) /\ GoTo("stop") /\ WaitPicQuit(u)
  /\ UNCHANGED <<tokenVars, life, refused>>
PicStop(u) ==
  /\ Running("picture", "stop", u) /\ GoTo("join") /\ WaitPicStop(u)
  /\ UNCHANGED <<tokenVars, life, refused>>
PicJoin(u) ==
  /\ Running("picture", "join", u) /\ GoTo("stat") /\ WaitPicJoin(u)
  /\ UNCHANGED <<tokenVars, life, refused>>

RunFunction ==
  \E u \in Uploaders :
    \/ DestroyTsUploader(u) \/ JoinTokenThread(u) \/ Release(u)
    \/ PicQuit(u) \/ PicStop(u) \/ PicJoin(u)

MgrThread ==
  /\ Recycle /\ UNCHANGED <<tokenVars, pic, life, refused>>
  /\ UNCHANGED <<nProcStatus, user>>
FunctionThread == RunFunction /\ UNCHANGED <<nProcStatus, user>>
TokenThreadOf(u) == TokenStep(u) /\ UNCHANGED <<manager, pic, nProcStatus, user, life, refused>>
PicThreadOf(u) == ListenPicUpload(u) /\ UNCHANGED <<tokenVars, manager, nProcStatus, user, life, refused>>

Next ==
  \/ LinkInit \/ LinkCleanup \/ CleanupPush \/ CleanupJoin
  \/ MgrThread \/ FunctionThread
  \/ \E u \in Uploaders :
       \/ LinkCreateAndStartAVUploader(u) \/ LinkNewUploader(u)
       \/ LinkNewUploaderNoHandle(u) \/ LinkFreeUploader(u)
       \/ Capture(u) \/ Worker(u) \/ TokenThreadOf(u) \/ PicThreadOf(u)

Spec == Init /\ [][Next]_vars

(* The scheduler runs every thread that can go on, pops time out, and the  *)
(* servers answer again and again.                                         *)
Fairness ==
  /\ WF_vars(CleanupPush) /\ WF_vars(CleanupJoin)
  /\ WF_vars(MgrThread) /\ WF_vars(FunctionThread)
  /\ \A u \in Uploaders :
       /\ WF_vars(TokenThreadOf(u)) /\ WF_vars(PicThreadOf(u))
       /\ SF_vars(ConfigFetched(u) /\ UNCHANGED <<manager, pic, nProcStatus, user, life, refused>>)
       /\ SF_vars(TokenUpdated(u) /\ UNCHANGED <<manager, pic, nProcStatus, user, life, refused>>)
FairSpec == Spec /\ Fairness

-----------------------------------------------------------------------------
(* No thread of an uploader outlives its memory, and when LinkCleanup has  *)
(* returned every uploader freed before is gone, with its picture          *)
(* uploader, whose destruction is deferred by the destruction of the       *)
(* uploader while the manager is stopping.  Two exceptions: the manager    *)
(* did not take the function (its queue was full, or it is not started     *)
(* again by a second LinkInit), or the function came after the thread's    *)
(* last look at its queue and before nQuit_ was set.                       *)
Lost(f) == f \in refused \cup manager.unseen
FreedIsReclaimed ==
  /\ \A u \in Uploaders : life[u] = "reclaimed" => At(u, "done")
  /\ (nProcStatus = 2 /\ user = "out") =>
       /\ \A u \in Uploaders : life[u] \in {"none", "reclaimed"} \/ Lost(Fn("uploader", u))
       /\ \A u \in Uploaders : life[u] = "reclaimed" =>
            pic[u].pc \in {"none", "freed"} \/ Fn("picture", u) \in refused

(* LinkCleanup returns: the token thread ends even when the message that   *)
(* tells it is lost, and the picture thread even when its queue is full,   *)
(* unless that thread ended on a length read before the queue filled up.   *)
CleanupReturns ==
  (user = "quitSet") ~> (user = "out" \/ \E u \in Uploaders : Stranded(u))

(* Of the sessions the thread was told of, the newest gets a token that    *)
(* uploads can use in the end, whatever fetches fail before: its number is *)
(* kept over them, and a configuration that comes at last brings a token   *)
(* with it.                                                                *)
NewestSessionServed ==
  \A u \in Uploaders : []<>(uploadParamCallback(u) = accepted[u] \/ isQuit[u])
=============================================================================
