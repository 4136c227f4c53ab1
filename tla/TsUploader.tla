------------------------------ MODULE TsUploader ------------------------------
(***************************************************************************)
(* libtsuploader/tsuploader.c (KodoUploader): how one TS file travels from *)
(* the muxer to the cloud and to the user's callback, and who owns its     *)
(* memory on the way.                                                      *)
(*                                                                         *)
(* The muxer appends packets to the current data queue pQueue_, whose      *)
(* buffer is one of the four slots of the memory pool.  At the end of the  *)
(* file it hands the queue to two threads at once: listenTsUpload (the     *)
(* worker), through pCommandQueue_, uploads it; tsCbWorker, through        *)
(* pTsCbQueue_, gives it to the user's output callback.  The queue counts  *)
(* its holders (nCount) and the last of them gives the slot back.  When    *)
(* nTsMaxCacheNum files wait for the worker, the file is dropped: only the *)
(* callback gets it.  LinkDestroyTsUploader stops both threads.            *)
(*                                                                         *)
(* The two command queues are the BoundedFifo that CircleQueue implements. *)
(* A step ends where a mutex is released or a blocking call begins.  What  *)
(* the worker does to the session it reports is left to other modules; a   *)
(* frame is pushed whole.                                                  *)
(***************************************************************************)
EXTENDS Integers, Sequences, FiniteSets

CONSTANTS
  NSlots,          \* slots of the TS memory pool: 4
  nTsMaxCacheNum,  \* TS files that may wait for the worker: 2
  CmdCap, CbCap,   \* capacities of the two command queues: 96 and 24
  MaxTs,           \* bound: TS files started in a behaviour
  MaxMeta,         \* bound: LinkSetTsType and LinkClearTsType calls
  MaxOther         \* bound: commands for the worker alone (picture, plan, segment)

ASSUME UploaderAssumption ==
  /\ NSlots \in Nat \ {0}
  /\ nTsMaxCacheNum \in Nat \ {0}
  /\ CmdCap \in Nat \ {0} /\ CbCap \in Nat \ {0}
  /\ MaxTs \in Nat \ {0} /\ MaxMeta \in Nat /\ MaxOther \in Nat

VARIABLES
  tsItemUsedFlag,  \* of each slot of the pool
  nCount,          \* holders of the data queue of each TS file, 0 when freed
  item,            \* the slot of the data queue of each TS file
  pQueue_,         \* the TS file being written, or NoTs (NULL)
  last,            \* the newest TS file a data queue was made for
  open,            \* nFirstFrameTimestamp >= 0: the file has a frame
  muxPc,           \* where the muxer's thread is
  muxCmd,          \* uploadCommand of notifyDataPrapared
  nTsCacheNum,
  cmdQ, cbQ,       \* pCommandQueue_ and pTsCbQueue_
  workPc, workTs, workLen, workQuit,  \* listenTsUpload: its TS file, info.nLen_, recvQuit
  cbPc, cbCmd, cbLen, cbQuit,         \* tsCbWorker: its command, info.nLen_, recvQuit
  metaPc, metas, others,              \* the callers of LinkSetTsType and the rest
  closed,          \* pushRecycle has taken the context away from the muxer
  nQuit_, destroyPc,                  \* LinkDestroyTsUploader
  outputs,         \* TS files given to the output callback
  refused          \* commands of TS files that a full pTsCbQueue_ refused

mem == <<tsItemUsedFlag, nCount, item>>
mux == <<pQueue_, last, open, muxPc, muxCmd>>
work == <<workPc, workTs, workLen, workQuit>>
cb == <<cbPc, cbCmd, cbLen, cbQuit>>
calls == <<metaPc, metas, others>>
ending == <<closed, nQuit_, destroyPc>>
hist == <<outputs, refused>>
vars == <<mem, mux, nTsCacheNum, cmdQ, cbQ, work, cb, calls, ending, hist>>

Slots == 0 .. NSlots - 1
NoSlot == NSlots
NoTs == 0
Ts == 1 .. MaxTs

Cmd(type, t) == [type |-> type, ts |-> t]
NoCmd == Cmd("NONE", NoTs)
WorkTypes == {"START", "END", "UPLOAD", "DROP", "META", "OTHER", "QUIT"}
CbTypes == {"UPLOAD", "DROP", "META", "QUIT"}

-----------------------------------------------------------------------------
(* LinkNewTsUploader: a data queue is allocated for the first TS file.     *)
Init ==
  /\ tsItemUsedFlag = [s \in Slots |-> s = 0]
  /\ nCount = [t \in Ts |-> IF t = 1 THEN 1 ELSE 0]
  /\ item = [t \in Ts |-> IF t = 1 THEN 0 ELSE NoSlot]
  /\ pQueue_ = 1 /\ last = 1
  /\ open = FALSE
  /\ muxPc = "idle" /\ muxCmd = NoCmd
  /\ nTsCacheNum = 0
  /\ cmdQ = <<>> /\ cbQ = <<>>
  /\ workPc = "pop" /\ workTs = NoTs /\ workLen = 0 /\ workQuit = FALSE
  /\ cbPc = "pop" /\ cbCmd = NoCmd /\ cbLen = 0 /\ cbQuit = FALSE
  /\ metaPc = "idle" /\ metas = 0 /\ others = 0
  /\ closed = FALSE /\ nQuit_ = FALSE /\ destroyPc = "no"
  /\ outputs = {} /\ refused = {}

(* Push on a TSQ_FIX_LENGTH command queue with room.                       *)
CmdRoom == Len(cmdQ) < CmdCap
CbRoom == Len(cbQ) < CbCap
PutCmd(c) == CmdRoom /\ cmdQ' = Append(cmdQ, c)
PutCb(c) == CbRoom /\ cbQ' = Append(cbQ, c)

(* uploadMutex_ is held by notifyDataPrapared over several steps.          *)
UploadMutexFree == muxPc = "idle"

(* allocDataQueueAndUploadMeta: the first free slot for a new data queue,  *)
(* with one holder; with no free slot pQueue_ stays NULL.                  *)
FreeSlots == {s \in Slots : ~tsItemUsedFlag[s]}
AllocDataQueue ==
  \/ /\ FreeSlots = {}
     /\ pQueue_' = NoTs
     /\ UNCHANGED <<mem, last>>
  \/ \E s \in FreeSlots :
       /\ \A r \in FreeSlots : s <= r
       /\ tsItemUsedFlag' = [tsItemUsedFlag EXCEPT ![s] = TRUE]
       /\ nCount' = [nCount EXCEPT ![last + 1] = 1]
       /\ item' = [item EXCEPT ![last + 1] = s]
       /\ pQueue_' = last + 1
       /\ last' = last + 1

FreeTs(t) == tsItemUsedFlag' = [tsItemUsedFlag EXCEPT ![item[t]] = FALSE]

LinkDestroyQueueAlways(t) ==  \* faulty variant: the slot goes with any holder
  /\ nCount' = [nCount EXCEPT ![t] = @ - 1]
  /\ FreeTs(t)
  /\ UNCHANGED item

(* LinkDestroyQueue by one holder: the last one gives the slot back to the *)
(* pool (freeTs).  Nobody else looks at the queue between the two.         *)
LinkDestroyQueue(t) ==
  /\ nCount' = [nCount EXCEPT ![t] = @ - 1]
  /\ \/ nCount[t] > 1 /\ UNCHANGED <<tsItemUsedFlag, item>>
     \/ /\ nCount[t] <= 1
        /\ FreeTs(t)
        /\ item' = [item EXCEPT ![t] = NoSlot]

-----------------------------------------------------------------------------
(* The muxer's thread, under muxUploaderMutex_.                            *)

(* reportTimeInfo(LINK_TS_START): a full command queue loses it.           *)
ReportTsStart == PutCmd(Cmd("START", NoTs)) \/ (~CmdRoom /\ UNCHANGED cmdQ)

(* streamPushData: a frame is appended to the current queue, which is      *)
(* first allocated when the last attempt failed; when that fails again the *)
(* frame is refused and nothing changes.  The first frame of a file is     *)
(* followed by the time it begins; a later frame changes nothing here.     *)
PushFrame ==
  /\ muxPc = "idle" /\ ~closed
  /\ ~open
  /\ \/ pQueue_ # NoTs /\ last < MaxTs /\ UNCHANGED <<mem, pQueue_, last>>
     \/ pQueue_ = NoTs /\ last + 1 < MaxTs /\ FreeSlots # {} /\ AllocDataQueue
  /\ open' = TRUE
  /\ ReportTsStart
  /\ UNCHANGED <<muxPc, muxCmd, nTsCacheNum, cbQ, work, cb, calls, ending, hist>>

(* LinkQueueDecRefCount never gives up the last reference.                 *)
DecRef(t) == [nCount EXCEPT ![t] = IF @ > 1 THEN @ - 1 ELSE @]

(* notifyDataPrapared with the cache full: the worker is told the times    *)
(* only, and the reference taken for it is given back at once.             *)
TsEndDrop ==
  /\ muxPc = "idle" /\ open
  /\ nTsCacheNum >= nTsMaxCacheNum
  /\ \/ PutCmd(Cmd("DROP", NoTs))
     \/ ~CmdRoom /\ UNCHANGED cmdQ
  /\ muxCmd' = Cmd("DROP", pQueue_)
  /\ pQueue_' = NoTs
  /\ muxPc' = "cb"
  /\ UNCHANGED <<mem, last, open, nTsCacheNum, cbQ, work, cb, calls, ending, hist>>

TsEndLateRef ==  \* faulty variant: the second holder is counted with the cb push
  /\ muxPc = "idle" /\ open
  /\ nTsCacheNum < nTsMaxCacheNum
  /\ PutCmd(Cmd("END", NoTs))
  /\ muxCmd' = Cmd("UPLOAD", pQueue_)
  /\ pQueue_' = NoTs
  /\ muxPc' = "upload"
  /\ UNCHANGED <<mem, last, open, nTsCacheNum, cbQ, work, cb, calls, ending, hist>>

(* Room in the cache: the queue gets a second holder, and the end time     *)
(* goes to the worker.  A full command queue turns the file into a drop.   *)
TsEnd ==
  /\ muxPc = "idle" /\ open
  /\ nTsCacheNum < nTsMaxCacheNum
  /\ \/ /\ PutCmd(Cmd("END", NoTs))
        /\ nCount' = [nCount EXCEPT ![pQueue_] = @ + 1]
        /\ muxCmd' = Cmd("UPLOAD", pQueue_)
        /\ muxPc' = "upload"
     \/ /\ ~CmdRoom /\ UNCHANGED <<cmdQ, nCount>>
        /\ muxCmd' = Cmd("DROP", pQueue_)
        /\ muxPc' = "cb"
  /\ pQueue_' = NoTs
  /\ UNCHANGED <<tsItemUsedFlag, item, last, open, nTsCacheNum, cbQ, work, cb,
                 calls, ending, hist>>

PutUploadKeepRef ==  \* faulty variant: no LinkQueueDecRefCount when refused
  /\ muxPc = "upload"
  /\ \/ /\ PutCmd(muxCmd)
        /\ nTsCacheNum' = nTsCacheNum + 1
        /\ UNCHANGED <<nCount, muxCmd>>
     \/ /\ ~CmdRoom
        /\ muxCmd' = [muxCmd EXCEPT !.type = "DROP"]
        /\ UNCHANGED <<cmdQ, nTsCacheNum, nCount>>
  /\ muxPc' = "cb"
  /\ UNCHANGED <<tsItemUsedFlag, item, pQueue_, last, open, cbQ, work, cb,
                 calls, ending, hist>>

PutUpload ==
  /\ muxPc = "upload"
  /\ \/ /\ PutCmd(muxCmd)
        /\ nTsCacheNum' = nTsCacheNum + 1
        /\ UNCHANGED <<nCount, muxCmd>>
     \/ /\ ~CmdRoom
        /\ muxCmd' = [muxCmd EXCEPT !.type = "DROP"]
        /\ nCount' = DecRef(muxCmd.ts)
        /\ UNCHANGED <<cmdQ, nTsCacheNum>>
  /\ muxPc' = "cb"
  /\ UNCHANGED <<tsItemUsedFlag, item, pQueue_, last, open, cbQ, work, cb,
                 calls, ending, hist>>

(* The tscb thread gets the file too.  When its queue is full a dropped    *)
(* file is destroyed here; an uploaded one keeps the reference for good.   *)
PutTsCb ==
  /\ muxPc = "cb"
  /\ \/ PutCb(muxCmd) /\ UNCHANGED <<mem, refused>>
     \/ /\ ~CbRoom /\ UNCHANGED cbQ
        /\ refused' = refused \union {muxCmd}
        /\ IF muxCmd.type = "DROP"
           THEN LinkDestroyQueue(muxCmd.ts)
           ELSE UNCHANGED mem
  /\ muxPc' = "alloc"
  /\ muxCmd' = NoCmd
  /\ UNCHANGED <<pQueue_, last, open, nTsCacheNum, cmdQ, work, cb, calls,
                 ending, outputs>>

NextQueue ==
  /\ muxPc = "alloc"
  /\ AllocDataQueue
  /\ open' = FALSE
  /\ muxPc' = "idle"
  /\ UNCHANGED <<muxCmd, nTsCacheNum, cmdQ, cbQ, work, cb, calls, ending, hist>>

-----------------------------------------------------------------------------
(* Other callers.                                                          *)

(* LinkSetSessionMeta and LinkClearSessionMeta, under tokenMutex_: the     *)
(* command for the worker first, and the one for the tscb thread only if   *)
(* that was accepted.                                                      *)
SetMeta ==
  /\ metaPc = "idle" /\ ~closed /\ metas < MaxMeta
  /\ PutCmd(Cmd("META", NoTs))
  /\ metas' = metas + 1
  /\ metaPc' = "cb"
  /\ UNCHANGED <<mem, mux, nTsCacheNum, cbQ, work, cb, others, ending, hist>>

SetMetaCb ==
  /\ metaPc = "cb"
  /\ \/ PutCb(Cmd("META", NoTs))
     \/ ~CbRoom /\ UNCHANGED cbQ
  /\ metaPc' = "idle"
  /\ UNCHANGED <<mem, mux, nTsCacheNum, cmdQ, work, cb, metas, others, ending, hist>>

(* LinkTsUploaderPushPic, LinkTsUploaderSetPlanType and the segment time   *)
(* of reportTimeInfo.                                                      *)
PushOther ==
  /\ ~closed /\ others < MaxOther
  /\ PutCmd(Cmd("OTHER", NoTs))
  /\ others' = others + 1
  /\ UNCHANGED <<mem, mux, nTsCacheNum, cbQ, work, cb, metaPc, metas, ending, hist>>

-----------------------------------------------------------------------------
(* listenTsUpload.  The loop's condition uses info.nLen_, read right after *)
(* the last pop: the step that ends an iteration also decides whether      *)
(* there is another one.  The length is kept while a file is uploaded.     *)
WorkNext(len, quit) ==
  /\ workPc' = IF (nQuit_ \/ quit) /\ len = 0 THEN "exited" ELSE "pop"
  /\ workLen' = 0

(* A pop that times out or is woken for nothing.                           *)
WorkPopNothing ==
  /\ workPc = "pop"
  /\ cmdQ = <<>>
  /\ WorkNext(0, workQuit)
  /\ UNCHANGED <<mem, mux, nTsCacheNum, cmdQ, cbQ, workTs, workQuit, cb, calls,
                 ending, hist>>

(* bufferUpload also ends a DROP, which has no queue to destroy; any other *)
(* command is handled without another thread noticing.                     *)
WorkPop ==
  /\ workPc = "pop"
  /\ cmdQ # <<>>
  /\ cmdQ' = Tail(cmdQ)
  /\ workQuit' = (workQuit \/ Head(cmdQ).type = "QUIT")
  /\ workTs' = Head(cmdQ).ts
  /\ \/ /\ Head(cmdQ).type \in {"UPLOAD", "DROP"}
        /\ workPc' = IF Head(cmdQ).type = "UPLOAD" THEN "upload" ELSE "dropped"
        /\ workLen' = Len(cmdQ) - 1
     \/ /\ Head(cmdQ).type \notin {"UPLOAD", "DROP"}
        /\ WorkNext(Len(cmdQ) - 1, workQuit')
  /\ UNCHANGED <<mem, mux, nTsCacheNum, cbQ, cb, calls, ending, hist>>

(* bufferUpload has put the buffer on the network and destroys the queue.  *)
WorkDestroyQueue ==
  /\ workPc = "upload"
  /\ LinkDestroyQueue(workTs)
  /\ workTs' = NoTs
  /\ workPc' = "uploaded"
  /\ UNCHANGED <<mux, nTsCacheNum, cmdQ, cbQ, workLen, workQuit, cb, calls,
                 ending, hist>>

WorkCountDrops ==  \* faulty variant: isDrop not looked at
  /\ workPc \in {"uploaded", "dropped"}
  /\ UploadMutexFree
  /\ nTsCacheNum' = nTsCacheNum - 1
  /\ WorkNext(workLen, workQuit)
  /\ UNCHANGED <<mem, mux, cmdQ, cbQ, workTs, workQuit, cb, calls,
                 ending, hist>>

(* Its last statements, under uploadMutex_: an upload makes room in the    *)
(* cache, a drop does not (isDrop).                                        *)
WorkCount ==
  /\ workPc \in {"uploaded", "dropped"}
  /\ UploadMutexFree
  /\ nTsCacheNum' = IF workPc = "dropped" THEN nTsCacheNum ELSE nTsCacheNum - 1
  /\ WorkNext(workLen, workQuit)
  /\ UNCHANGED <<mem, mux, cmdQ, cbQ, workTs, workQuit, cb, calls,
                 ending, hist>>

-----------------------------------------------------------------------------
(* tsCbWorker, whose loop ends like the other one's.                       *)
CbNext(len, quit) ==
  /\ cbPc' = IF (nQuit_ \/ quit) /\ len = 0 THEN "exited" ELSE "pop"
  /\ cbLen' = 0

CbPopNothing ==
  /\ cbPc = "pop"
  /\ cbQ = <<>>
  /\ CbNext(0, cbQuit)
  /\ UNCHANGED <<mem, mux, nTsCacheNum, cmdQ, cbQ, work, cbCmd, cbQuit, calls,
                 ending, hist>>

CbPopNoDrop ==  \* faulty variant: only LINK_TSU_UPLOAD is output
  /\ cbPc = "pop"
  /\ cbQ # <<>>
  /\ cbQ' = Tail(cbQ)
  /\ cbQuit' = (cbQuit \/ Head(cbQ).type = "QUIT")
  /\ IF Head(cbQ).type = "UPLOAD"
     THEN cbCmd' = Head(cbQ) /\ cbPc' = "output" /\ cbLen' = Len(cbQ) - 1
     ELSE CbNext(Len(cbQ) - 1, cbQuit') /\ UNCHANGED cbCmd
  /\ UNCHANGED <<mem, mux, nTsCacheNum, cmdQ, work, calls, ending, hist>>

CbPop ==
  /\ cbPc = "pop"
  /\ cbQ # <<>>
  /\ cbQ' = Tail(cbQ)
  /\ cbQuit' = (cbQuit \/ Head(cbQ).type = "QUIT")
  /\ IF Head(cbQ).type \in {"UPLOAD", "DROP"}
     THEN cbCmd' = Head(cbQ) /\ cbPc' = "output" /\ cbLen' = Len(cbQ) - 1
     ELSE CbNext(Len(cbQ) - 1, cbQuit') /\ UNCHANGED cbCmd
  /\ UNCHANGED <<mem, mux, nTsCacheNum, cmdQ, work, calls, ending, hist>>

(* The output callback has returned.                                       *)
CbDestroyQueue ==
  /\ cbPc = "output"
  /\ outputs' = outputs \union {cbCmd.ts}
  /\ LinkDestroyQueue(cbCmd.ts)
  /\ cbCmd' = NoCmd
  /\ CbNext(cbLen, cbQuit)
  /\ UNCHANGED <<mux, nTsCacheNum, cmdQ, cbQ, work, cbQuit, calls, ending,
                 refused>>

-----------------------------------------------------------------------------
(* LinkDestroyTsMuxUploader and, two seconds later in the recycle thread,  *)
(* GetStatInfo and LinkDestroyTsUploader.                                  *)

(* pushRecycle: the file being written is ended, no other is begun.        *)
Close ==
  /\ muxPc = "idle" /\ metaPc = "idle" /\ ~closed
  /\ closed' = TRUE
  /\ UNCHANGED <<mem, mux, nTsCacheNum, cmdQ, cbQ, work, cb, calls, nQuit_,
                 destroyPc, hist>>

(* getStatInfo reads the current queue: a crash if the last allocation     *)
(* failed.  Otherwise both threads are told to quit, by nQuit_ ...         *)
Destroy ==
  /\ destroyPc = "no"
  /\ closed /\ muxPc = "idle" /\ ~open
  /\ \/ pQueue_ = NoTs /\ destroyPc' = "crashed" /\ UNCHANGED nQuit_
     \/ pQueue_ # NoTs /\ destroyPc' = "quitcb" /\ nQuit_' = TRUE
  /\ UNCHANGED <<mem, mux, nTsCacheNum, cmdQ, cbQ, work, cb, calls, closed, hist>>

(* ... and by a QUIT command each, pushed until there is room for it.      *)
DestroyQuitCb ==
  /\ destroyPc = "quitcb"
  /\ PutCb(Cmd("QUIT", NoTs))
  /\ destroyPc' = "quitcmd"
  /\ UNCHANGED <<mem, mux, nTsCacheNum, cmdQ, work, cb, calls, closed, nQuit_, hist>>

DestroyQuitCmdWrong ==  \* faulty variant: both QUITs go to pTsCbQueue_
  /\ destroyPc = "quitcmd"
  /\ PutCb(Cmd("QUIT", NoTs))
  /\ destroyPc' = "join"
  /\ UNCHANGED <<mem, mux, nTsCacheNum, cmdQ, work, cb, calls, closed, nQuit_, hist>>

DestroyQuitCmd ==
  /\ destroyPc = "quitcmd"
  /\ PutCmd(Cmd("QUIT", NoTs))
  /\ destroyPc' = "join"
  /\ UNCHANGED <<mem, mux, nTsCacheNum, cbQ, work, cb, calls, closed, nQuit_, hist>>

(* Both threads joined: the queues go with what is left in them, then the  *)
(* current data queue and the pool.                                        *)
DestroyJoin ==
  /\ destroyPc = "join"
  /\ workPc = "exited" /\ cbPc = "exited"
  /\ cmdQ' = <<>> /\ cbQ' = <<>>
  /\ LinkDestroyQueue(pQueue_)
  /\ pQueue_' = NoTs
  /\ destroyPc' = "done"
  /\ UNCHANGED <<last, open, muxPc, muxCmd, nTsCacheNum, work, cb, calls,
                 closed, nQuit_, hist>>

-----------------------------------------------------------------------------
Mux ==
  \/ PushFrame
  \/ TsEndDrop \/ TsEnd \/ PutUpload \/ PutTsCb \/ NextQueue

Callers == SetMeta \/ SetMetaCb \/ PushOther

Worker ==
  \/ WorkPopNothing \/ WorkPop \/ WorkDestroyQueue \/ WorkCount

CbWorker ==
  \/ CbPopNothing \/ CbPop \/ CbDestroyQueue

DestroyUploader ==
  Destroy \/ DestroyQuitCb \/ DestroyQuitCmd \/ DestroyJoin

Next ==
  /\ destroyPc # "crashed"
  /\ Mux \/ Callers \/ Worker \/ CbWorker \/ Close \/ DestroyUploader

Spec == Init /\ [][Next]_vars

(* Scheduling: a thread inside a call goes on with it, the network and the *)
(* user's callback answer, a worker pops what its queue holds.  Nothing    *)
(* says that frames go on arriving or that a pop ever times out.           *)
Fairness ==
  /\ WF_vars(PutUpload \/ PutTsCb \/ NextQueue)
  /\ WF_vars(SetMetaCb)
  /\ WF_vars(WorkPop \/ WorkDestroyQueue \/ WorkCount)
  /\ WF_vars(CbPop \/ CbDestroyQueue)
  /\ WF_vars(DestroyQuitCb \/ DestroyQuitCmd \/ DestroyJoin)

FairSpec == Spec /\ Fairness

-----------------------------------------------------------------------------
(* Who holds the data queue of a TS file.                                  *)
B(p) == IF p THEN 1 ELSE 0
Occurrences(q, cmds) == Cardinality({i \in DOMAIN q : q[i] \in cmds})

(* References of the worker's side and of the callback's side; between     *)
(* the two pushes of notifyDataPrapared the muxer holds those still to be  *)
(* handed over, and a refused callback command keeps its own for good.     *)
WorkRefs(t) ==
  Occurrences(cmdQ, {Cmd("UPLOAD", t)}) + B(workPc = "upload" /\ workTs = t)
CbRefs(t) ==
  Occurrences(cbQ, {Cmd("UPLOAD", t), Cmd("DROP", t)}) + B(cbCmd.ts = t)
MuxRefs(t) ==
  B(pQueue_ = t) + B(muxPc \in {"upload", "cb"} /\ muxCmd.ts = t)
  + B(muxPc = "upload" /\ muxCmd.ts = t)
LostRefs(t) == B(Cmd("UPLOAD", t) \in refused)

-----------------------------------------------------------------------------
(* Types of every variable: no reference count goes below 0 or above two   *)
(* holders, no queue above its capacity.                                   *)
TypeOK ==
  /\ tsItemUsedFlag \in [Slots -> BOOLEAN]
  /\ nCount \in [Ts -> 0 .. 2]
  /\ item \in [Ts -> Slots \union {NoSlot}]
  /\ pQueue_ \in Ts \union {NoTs} /\ last \in Ts
  /\ open \in BOOLEAN
  /\ muxPc \in {"idle", "upload", "cb", "alloc"}
  /\ muxCmd \in [type : {"NONE", "UPLOAD", "DROP"}, ts : Ts \union {NoTs}]
  /\ nTsCacheNum \in 0 .. nTsMaxCacheNum
  /\ cmdQ \in Seq([type : WorkTypes, ts : Ts \union {NoTs}]) /\ Len(cmdQ) <= CmdCap
  /\ cbQ \in Seq([type : CbTypes, ts : Ts \union {NoTs}]) /\ Len(cbQ) <= CbCap
  /\ workPc \in {"pop", "upload", "uploaded", "dropped", "exited"}
  /\ workTs \in Ts \union {NoTs} /\ workLen \in 0 .. CmdCap /\ workQuit \in BOOLEAN
  /\ cbPc \in {"pop", "output", "exited"}
  /\ cbCmd \in [type : {"NONE", "UPLOAD", "DROP"}, ts : Ts \union {NoTs}]
  /\ cbLen \in 0 .. CbCap /\ cbQuit \in BOOLEAN
  /\ metaPc \in {"idle", "cb"} /\ metas \in 0 .. MaxMeta /\ others \in 0 .. MaxOther
  /\ closed \in BOOLEAN /\ nQuit_ \in BOOLEAN
  /\ destroyPc \in {"no", "crashed", "quitcb", "quitcmd", "join", "done"}
  /\ outputs \subseteq Ts
  /\ refused \subseteq [type : {"UPLOAD", "DROP"}, ts : Ts]

(* nCount is exactly the number of holders: neither thread can find a      *)
(* queue freed under it, however their destroys interleave with the two    *)
(* pushes of notifyDataPrapared, and nothing leaks but what the full       *)
(* pTsCbQueue_ refused.                                                    *)
RefsCounted ==
  destroyPc # "done" =>
    \A t \in Ts : nCount[t] = WorkRefs(t) + CbRefs(t) + MuxRefs(t) + LostRefs(t)

(* The pool: a slot is used exactly by one live queue, so that freeTs      *)
(* always finds a used slot and never logs "cannot be here. %d".           *)
SlotsOwned ==
  /\ \A t \in Ts : nCount[t] > 0 <=> item[t] # NoSlot
  /\ \A s \in Slots : tsItemUsedFlag[s] <=> \E t \in Ts : item[t] = s
  /\ \A t, u \in Ts : item[t] = item[u] /\ item[t] # NoSlot => t = u

(* nTsCacheNum, raised by the muxer and lowered by the worker, counts the  *)
(* files that wait for the worker or are being uploaded.                   *)
CacheCounted ==
  destroyPc # "done" =>
    nTsCacheNum = Occurrences(cmdQ, {Cmd("UPLOAD", t) : t \in Ts})
                  + B(workPc \in {"upload", "uploaded"})

(* The two counters that threads update without seeing each other, the     *)
(* holders of a data queue and the files in the cache, are exact.          *)
CountsExact ==
  /\ RefsCounted
  /\ CacheCounted

(* A dropped file has the callback's side as its only holder, so that      *)
(* tsCbWorker never logs "not release".                                    *)
DropHasOneHolder ==
  \A t \in Ts :
    \/ muxPc = "cb" /\ muxCmd = Cmd("DROP", t)
    \/ cbCmd = Cmd("DROP", t)
    \/ \E i \in DOMAIN cbQ : cbQ[i] = Cmd("DROP", t)
    => nCount[t] = 1

(* allocTs fails only when the callback's side alone keeps at least the    *)
(* slots that neither the cache nor the file being written may take.       *)
AllocFailsOnlyBehindCallback ==
  [][muxPc = "alloc" /\ muxPc' = "idle" /\ pQueue_' = NoTs =>
       Cardinality({t \in Ts : CbRefs(t) + LostRefs(t) > 0 /\ WorkRefs(t) = 0})
         >= NSlots - nTsMaxCacheNum]_vars

(* What the log line of allocTs says, "cannot be here": the pool has a     *)
(* slot for every file that is begun.                                      *)
PoolSuffices ==
  [][muxPc = "alloc" /\ muxPc' = "idle" => pQueue_' # NoTs]_vars

(* Every file that ends reaches the output callback, unless pTsCbQueue_    *)
(* was full or the uploader is being destroyed.                            *)
EveryTsOutput ==
  \A t \in Ts :
    (muxCmd.ts = t) ~> \/ t \in outputs
                       \/ Cmd("UPLOAD", t) \in refused \/ Cmd("DROP", t) \in refused
                       \/ destroyPc # "no"

(* Every file that ends gives its slot back, with the same exceptions.     *)
EverySlotRecycled ==
  \A t \in Ts :
    (muxCmd.ts = t) ~> \/ nCount[t] = 0
                       \/ Cmd("UPLOAD", t) \in refused
                       \/ destroyPc # "no"

(* LinkDestroyTsUploader returns, unless a thread that saw nQuit_ and a    *)
(* stale length of 0 left its queue full: no retry finds room then.        *)
QuitStuck ==
  \/ destroyPc = "quitcb" /\ cbPc = "exited" /\ ~CbRoom
  \/ destroyPc = "quitcmd" /\ workPc = "exited" /\ ~CmdRoom
DestroyEnds == (destroyPc = "quitcb") ~> (destroyPc = "done" \/ QuitStuck)
=============================================================================
