------------------------------ MODULE PicUploader ------------------------------
(***************************************************************************)
(* libtsuploader/picuploader.c: the thread that asks the camera for the    *)
(* picture of each TS file.                                                *)
(*                                                                         *)
(* The muxer sends a signal per file and the thread calls the user's       *)
(* getPicCallback; the destruction is run by the resource manager.  The    *)
(* functions that send a picture through this queue are not called by the  *)
(* SDK: a picture is pushed with LinkPushPicture and uploaded by the TS    *)
(* uploader's worker.                                                      *)
(***************************************************************************)
EXTENDS Integers, Sequences

CONSTANTS
  Cameras,    \* the uploaders that have a picture uploader
  PicCap      \* signals a queue can hold: 64

ASSUME PicUploaderAssumption == PicCap \in Nat \ {0}

(* pic[u]: pSignalQueue_, nQuit_, the thread's pc and the length it last   *)
(* read.                                                                   *)
VARIABLE pic

PicInit == pic = [u \in Cameras |-> [q |-> <<>>, nQuit |-> FALSE, pc |-> "none", nLen |-> 0]]

LinkNewPictureUploader(u) ==
  /\ pic[u].pc = "none"
  /\ pic' = [pic EXCEPT ![u].pc = "start"]

PicRoom(u) == Len(pic[u].q) < PicCap

(* LinkSendItIsTimeToCaptureSignal: a full queue loses the signal.         *)
LinkSendItIsTimeToCaptureSignal(u) ==
  /\ pic' = IF PicRoom(u) THEN [pic EXCEPT ![u].q = Append(@, "GET")] ELSE pic

(* listenPicUpload: the pop (or its timeout after a day), the user's       *)
(* callback, and the test of the loop, whose length is not initialized     *)
(* before the first pop.                                                   *)
PicNext(u, nLen) == IF pic[u].nQuit /\ nLen = 0 THEN "done" ELSE "pop"
PicStart(u) ==
  /\ pic[u].pc = "start"
  /\ \E nLen \in 0 .. 1 : pic' = [pic EXCEPT ![u].pc = PicNext(u, nLen)]

PicPop(u) ==
  /\ pic[u].pc = "pop" /\ pic[u].q # <<>>
  /\ pic' = [pic EXCEPT ![u].q = Tail(@), ![u].nLen = Len(pic[u].q) - 1,
               ![u].pc = IF Head(pic[u].q) = "STOP" THEN "done" ELSE "callback"]

PicTimeout(u) ==
  /\ pic[u].pc = "pop" /\ pic[u].q = <<>>
  /\ pic' = [pic EXCEPT ![u].pc = PicNext(u, 0), ![u].nLen = 0]

PicCallback(u) ==
  /\ pic[u].pc = "callback"
  /\ pic' = [pic EXCEPT ![u].pc = PicNext(u, pic[u].nLen)]

ListenPicUpload(u) == PicStart(u) \/ PicPop(u) \/ PicTimeout(u) \/ PicCallback(u)

(* waitUploadMgrThread: nQuit_ is set, and the stop signal is pushed until *)
(* there is room for it.                                                   *)
WaitPicQuit(u) == pic' = [pic EXCEPT ![u].nQuit = TRUE]
WaitPicStop(u) == PicRoom(u) /\ pic' = [pic EXCEPT ![u].q = Append(@, "STOP")]
WaitPicJoin(u) == pic[u].pc = "done" /\ pic' = [pic EXCEPT ![u].pc = "freed", ![u].q = <<>>]

(* The thread ended on a length it had read before the queue filled up:    *)
(* nobody makes room for the stop signal any more.                         *)
Stranded(u) == pic[u].pc = "done" /\ ~PicRoom(u)
=============================================================================
