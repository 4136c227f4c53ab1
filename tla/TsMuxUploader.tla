----------------------------- MODULE TsMuxUploader -----------------------------
(***************************************************************************)
(* libtsuploader/tsmuxuploader.c (FFTsMuxUploader): the frames of a camera *)
(* are sliced into TS files.                                               *)
(*                                                                         *)
(* A file begins at a key frame and ends at the first key frame after      *)
(* nTsDuration, when the parameter sets change, when the user asks for a   *)
(* new segment, when no TS buffer is left, and when the upload is paused,  *)
(* flushed or destroyed.  Every call runs under muxUploaderMutex_.  What   *)
(* becomes of a finished file is the subject of TsUploader and Session.    *)
(* Timestamps are those of the frames; the system's clock and the audio    *)
(* durations are left out.                                                 *)
(***************************************************************************)
EXTENDS TsMux, FiniteSets

CONSTANTS
  nTsDuration,   \* remoteConfig.nTsDuration: a file is at least this long
  SpsKinds,      \* parameter sets the camera may send
  MaxPts,        \* bound: timestamps of the frames
  MaxCount       \* bound: frames pushed in a file, those dropped counted

ASSUME TsMuxUploaderAssumption ==
  nTsDuration \in Nat /\ MaxPts \in Nat /\ MaxCount \in Nat

VARIABLES
  file,            \* the file being written: see NewFile
  nKeyFrameCount, nFrameCount,
  nPrevVideoTimestamp, nPrevAudioTimestamp,  \* of pTsMuxCtx, 0 before the first
  pVideoMeta,      \* the parameter sets of the last key frame
  isPause,
  isQuit,          \* LinkDestroyTsMuxUploader was called: pTsMuxCtx is NULL
  keyLost          \* history: the last key frame counted was not written, or
                   \* its file ended for want of a TS buffer

vars == <<file, nKeyFrameCount, nFrameCount, nPrevVideoTimestamp,
          nPrevAudioTimestamp, pVideoMeta, isPause, isQuit, keyLost>>

NoMeta == "NULL"
Report(type, video, media) == [type |-> type, video |-> video, media |-> media]

(* The muxer context, the data queue and its index of key frames, the      *)
(* first and last timestamps (resetTimeInfo), what the last call reported  *)
(* to pTsUploader_ and pPicUploader, and keyLost as the file was started.  *)
NewFile(q, reports) ==
  [ctx |-> NewTsMuxerContext, q |-> q, metas |-> {},
   first |-> -1, last |-> 0, firstVideo |-> 0, lastVideo |-> 0,
   keyLost |-> FALSE, reports |-> reports]

(* linkNewTsMuxUploader, newTsMuxContext and LinkTsMuxUploaderStart.       *)
Init ==
  /\ file = NewFile(NewQueue, <<>>)
  /\ nKeyFrameCount = 0 /\ nFrameCount = 0
  /\ nPrevVideoTimestamp = 0 /\ nPrevAudioTimestamp = 0
  /\ pVideoMeta = NoMeta
  /\ isPause = FALSE /\ isQuit = FALSE /\ keyLost = FALSE

(* getLinkReportTimeInfo, for the report of that type.                     *)
TimeInfo(f, type) == Report(type, f.lastVideo - f.firstVideo, f.last - f.first)

(* switchTs: a file with a frame is ended and goes to the uploader         *)
(* (pQueue_ = NULL); the context and the times are reset in any case.      *)
switchTs(f) ==
  IF f.first >= 0 THEN NewFile(NoQueue, Append(f.reports, TimeInfo(f, "END")))
  ELSE [NewFile(f.q, f.reports) EXCEPT !.metas = f.metas]

(* linkCapturePictureCallback: the picture of the file.                    *)
Capture(f) == [f EXCEPT !.reports = Append(@, Report("CAPTURE", 0, 0))]

acceptedStickyFirst(f, w, video, pts, force) ==  \* faulty variant: firstVideo is set with the file
  LET starts == f.first < 0
  IN [f EXCEPT !.ctx = w.ctx, !.q = w.q,
        !.first = IF starts THEN pts ELSE @,
        !.keyLost = IF starts THEN keyLost ELSE @,
        !.last = pts,
        !.firstVideo = IF starts THEN pts ELSE @,
        !.lastVideo = IF video THEN pts ELSE @,
        !.reports = @ \o (IF force THEN <<TimeInfo(f, "SEG")>> ELSE <<>>)
                      \o (IF starts THEN <<TimeInfo(f, "START")>> ELSE <<>>)]

(* push, after the muxer accepted the frame: the segment and the start of  *)
(* the file are reported, and the times are kept.                          *)
accepted(f, w, video, pts, force) ==
  LET starts == f.first < 0
  IN [f EXCEPT !.ctx = w.ctx, !.q = w.q,
        !.first = IF starts THEN pts ELSE @,
        !.keyLost = IF starts THEN keyLost ELSE @,
        !.last = pts,
        !.firstVideo = IF video /\ @ <= 0 THEN pts ELSE @,
        !.lastVideo = IF video THEN pts ELSE @,
        !.reports = @ \o (IF force THEN <<TimeInfo(f, "SEG")>> ELSE <<>>)
                      \o (IF starts THEN <<TimeInfo(f, "START")>> ELSE <<>>)]

(* LinkAppendKeyframeMetaInfo: where a key frame lies that was written     *)
(* whole.                                                                  *)
indexed(f, w, key) ==
  IF key /\ w.ok
  THEN [f EXCEPT !.metas = @ \cup {[nOffset |-> w.ctx.nCurrentPos - w.len, nLength |-> w.len]}]
  ELSE f

(* push and what its callers do with the result: LINK_NO_MEMORY ends the   *)
(* file, and leaves the count of key frames as it is.                      *)
Pushed(f, w, video, key, pts, force) ==
  IF w.ret < 0 THEN switchTs([f EXCEPT !.ctx = w.ctx, !.q = w.q])
  ELSE indexed(accepted(f, w, video, pts, force), w, key)

Frame(f) == [f EXCEPT !.reports = <<>>]

-----------------------------------------------------------------------------
(* getVideoSpsAndCompare and checkSwitch, for a key frame.  A key frame    *)
(* without parameter sets is refused by the former.                        *)
MetaChanged(sps) == pVideoMeta \notin {NoMeta, sps}
MustSwitch(pts, sps, segStart) ==
  \/ file.first >= 0 /\ pts - file.first > nTsDuration /\ nKeyFrameCount > 0
  \/ MetaChanged(sps)
  \/ segStart /\ nFrameCount # 0

(* The frame is dropped before the muxer when it is not newer than the one *)
(* before it; push still returns 0.                                        *)
Stale(prev, pts) == prev # 0 /\ pts <= prev

(* PushVideo with a key frame: it may end the file, is the first of the    *)
(* next one, and asks for a picture.  noBuf allocations fail during it.    *)
PushKeyFrame(es, pts, sps, segStart, noBuf) ==
  LET switch == MustSwitch(pts, sps, segStart)
      count == IF switch THEN 1 ELSE nKeyFrameCount + 1
      f0 == IF switch THEN switchTs(Frame(file)) ELSE Frame(file)
      f == IF count = 1 THEN Capture(f0) ELSE f0
      force == segStart \/ MetaChanged(sps)
      w == LinkMuxerVideo(Writing(f.ctx, f.q, noBuf), es, pts, TRUE)
      frames == IF switch THEN 0 ELSE nFrameCount
  IN /\ ~isQuit /\ ~isPause
     /\ count <= MaxCount /\ frames < MaxCount
     /\ pVideoMeta' = sps
     /\ nKeyFrameCount' = count
     /\ \/ /\ Stale(nPrevVideoTimestamp, pts)
           /\ noBuf = 0
           /\ file' = f
           /\ nFrameCount' = frames + 1
           /\ keyLost' = TRUE
           /\ UNCHANGED nPrevVideoTimestamp
        \/ /\ ~Stale(nPrevVideoTimestamp, pts)
           /\ file' = Pushed(f, w, TRUE, TRUE, pts, force)
           /\ nFrameCount' = IF w.ret < 0 THEN frames ELSE frames + 1
           /\ keyLost' = (w.ret < 0)
           /\ nPrevVideoTimestamp' = pts
     /\ UNCHANGED <<nPrevAudioTimestamp, isPause, isQuit>>

(* PushVideo with another frame: dropped until there is a key frame, which *)
(* changes nothing.  checkSwitch does nothing for it.                      *)
PushDeltaFrame(es, pts, segStart, noBuf) ==
  LET f == Frame(file)
      w == LinkMuxerVideo(Writing(f.ctx, f.q, noBuf), es, pts, FALSE)
  IN /\ ~isQuit /\ ~isPause
     /\ nKeyFrameCount > 0 /\ nFrameCount < MaxCount
     /\ \/ /\ Stale(nPrevVideoTimestamp, pts)
           /\ noBuf = 0 /\ ~segStart
           /\ file' = f
           /\ nFrameCount' = nFrameCount + 1
           /\ UNCHANGED <<nPrevVideoTimestamp, keyLost>>
        \/ /\ ~Stale(nPrevVideoTimestamp, pts)
           /\ file' = Pushed(f, w, TRUE, FALSE, pts, segStart)
           /\ nFrameCount' = IF w.ret < 0 THEN nFrameCount ELSE nFrameCount + 1
           /\ keyLost' = (keyLost \/ w.ret < 0)
           /\ nPrevVideoTimestamp' = pts
     /\ UNCHANGED <<nKeyFrameCount, nPrevAudioTimestamp, pVideoMeta, isPause, isQuit>>

(* PushAudio: dropped until there is a key frame.  The timestamp is kept   *)
(* before the muxer is tried.                                              *)
PushAudio(es, pts, noBuf) ==
  LET f == Frame(file)
      w == LinkMuxerAudio(Writing(f.ctx, f.q, noBuf), es, pts)
  IN /\ ~isQuit /\ ~isPause
     /\ nKeyFrameCount > 0 /\ nFrameCount < MaxCount
     /\ \/ /\ Stale(nPrevAudioTimestamp, pts)
           /\ noBuf = 0
           /\ file' = f
           /\ nFrameCount' = nFrameCount + 1
           /\ UNCHANGED <<nPrevAudioTimestamp, keyLost>>
        \/ /\ ~Stale(nPrevAudioTimestamp, pts)
           /\ file' = Pushed(f, w, FALSE, FALSE, pts, FALSE)
           /\ nFrameCount' = IF w.ret < 0 THEN nFrameCount ELSE nFrameCount + 1
           /\ keyLost' = (keyLost \/ w.ret < 0)
           /\ nPrevAudioTimestamp' = pts
     /\ UNCHANGED <<nKeyFrameCount, nPrevVideoTimestamp, pVideoMeta, isPause, isQuit>>

EndFileKeepCount ==  \* faulty variant: the next file does not wait for a key frame
  /\ file' = switchTs(Frame(file))
  /\ nFrameCount' = 0 /\ UNCHANGED nKeyFrameCount
  /\ keyLost' = FALSE

(* The file is ended between frames, and the next one waits for a key      *)
(* frame.                                                                  *)
EndFile ==
  /\ file' = switchTs(Frame(file))
  /\ nKeyFrameCount' = 0 /\ nFrameCount' = 0
  /\ keyLost' = FALSE

LinkPauseUpload ==
  /\ ~isQuit
  /\ EndFile
  /\ isPause' = TRUE
  /\ UNCHANGED <<nPrevVideoTimestamp, nPrevAudioTimestamp, pVideoMeta, isQuit>>

LinkResumeUpload ==
  /\ ~isQuit /\ isPause
  /\ isPause' = FALSE
  /\ file' = Frame(file)
  /\ UNCHANGED <<nKeyFrameCount, nFrameCount, nPrevVideoTimestamp,
                 nPrevAudioTimestamp, pVideoMeta, isQuit, keyLost>>

LinkFlushUploader ==
  /\ ~isQuit
  /\ EndFile
  /\ UNCHANGED <<nPrevVideoTimestamp, nPrevAudioTimestamp, pVideoMeta, isPause, isQuit>>

(* LinkDestroyTsMuxUploader and pushRecycle: the file is ended and the     *)
(* context goes to the resource manager.                                   *)
LinkDestroyTsMuxUploader ==
  /\ ~isQuit
  /\ file' = switchTs(Frame(file))
  /\ isQuit' = TRUE
  /\ UNCHANGED <<nKeyFrameCount, nFrameCount, nPrevVideoTimestamp,
                 nPrevAudioTimestamp, pVideoMeta, isPause, keyLost>>

Pts == 1 .. MaxPts
NoBufs == 0 .. 3    \* PAT, PMT and the frame's first packet may find no buffer

Next ==
  \/ \E pts \in Pts, noBuf \in NoBufs, segStart \in BOOLEAN :
       \/ \E es \in KeyLens, sps \in SpsKinds : PushKeyFrame(es, pts, sps, segStart, noBuf)
       \/ \E es \in DeltaLens : PushDeltaFrame(es, pts, segStart, noBuf)
  \/ \E pts \in Pts, noBuf \in NoBufs, es \in AudioLens : PushAudio(es, pts, noBuf)
  \/ LinkPauseUpload \/ LinkResumeUpload \/ LinkFlushUploader
  \/ LinkDestroyTsMuxUploader

Spec == Init /\ [][Next]_vars

-----------------------------------------------------------------------------
pkts == file.q.pkts
Tables == {"PAT", "PMT"}

(* A decoder sees no gap: the continuity counter of every audio and video  *)
(* packet of a file is the number of packets of its PID before it, though  *)
(* it is advanced before the packet is known to be written.                *)
CountersContinuous ==
  \A i \in DOMAIN pkts :
    pkts[i].pid \notin Tables =>
      pkts[i].cc = Cardinality({j \in 1 .. i - 1 : pkts[j].pid = pkts[i].pid}) % (MaxCounter + 1)

(* The bytes of their frame that the packets i to j of the file hold.      *)
Bytes(i, j) == Total([k \in 1 .. j - i + 1 |-> EsLen(pkts[i + k - 1].parts)])

(* The index points at key frames: in a file that begins with its tables,  *)
(* every entry is exactly the packets of one key frame, with all its       *)
(* bytes, whatever was lost to a full buffer.                              *)
IndexTrue ==
  (Len(pkts) >= 2 /\ pkts[1].pid = "PAT" /\ pkts[2].pid = "PMT") =>
    \A m \in file.metas :
      LET from == m.nOffset + 1
          to == m.nOffset + m.nLength
      IN /\ from >= 1 /\ from <= to /\ to <= Len(pkts)
         /\ \A i \in from .. to : /\ pkts[i].pid = "video" /\ pkts[i].frame.key
                                  /\ pkts[i].first <=> i = from
         /\ to < Len(pkts) => pkts[to + 1].first
         /\ Bytes(from, to) = pkts[from].frame.es

(* The packets i to j of the file are what it has of one frame.            *)
IsFrame(i, j) ==
  /\ pkts[i].first /\ pkts[i].pid \notin Tables
  /\ \A k \in i + 1 .. j : ~pkts[k].first
  /\ j < Len(pkts) => pkts[j + 1].first

(* No frame is cut in a file, though its packets are written one by one    *)
(* and each may find no buffer or no room: a packet that starts no frame   *)
(* comes after one of its PID; the packets from the start of a frame to    *)
(* the next start are of that frame, can be decoded, and hold as many      *)
(* bytes as it has.  Only the last frame of a full file may have lost its  *)
(* end.                                                                    *)
FramesWhole ==
  /\ \A i \in DOMAIN pkts : pkts[i].first \/ (i > 1 /\ pkts[i-1].pid = pkts[i].pid)
  /\ \A i, j \in DOMAIN pkts :
       (i <= j /\ IsFrame(i, j)) =>
         /\ \A k \in i .. j : /\ pkts[k].pid = pkts[i].pid /\ pkts[k].frame = pkts[i].frame
                              /\ Decodable(pkts[k].parts)
         /\ Bytes(i, j) = pkts[i].frame.es \/ j = FileCap

(* The end of a file is reported with the time its frames span: the video  *)
(* duration is that of the video frames in it, from the first to the last, *)
(* whatever calls ended it, unless its buffer was full.                    *)
Starts(pids) == {i \in DOMAIN pkts : pkts[i].first /\ pkts[i].pid \in pids}
Span(pids) ==
  IF Starts(pids) = {} THEN 0
  ELSE LET lo == CHOOSE i \in Starts(pids) : \A j \in Starts(pids) : i <= j
           hi == CHOOSE i \in Starts(pids) : \A j \in Starts(pids) : j <= i
       IN pkts[hi].frame.pts - pkts[lo].frame.pts
EndCoversFile ==
  [][\A i \in DOMAIN file'.reports :
       (file'.reports[i].type = "END" /\ Len(pkts) < FileCap) =>
         /\ file'.reports[i].video = Span({"video"})
         /\ file'.reports[i].media = Span({"video", "audio"})]_vars

(* A file begins at a key frame, as checkSwitch has it ('if start new      *)
(* uploader, start from keyframe'), whatever ended the file before it.     *)
(* There are two exceptions, both because nKeyFrameCount then counts a key *)
(* frame that is in no file: push dropped it for its timestamp, or its     *)
(* file ended when no TS buffer was left.                                  *)
FileStartsWithKeyFrame ==
  \A i \in DOMAIN pkts :
    (/\ pkts[i].pid \notin Tables
     /\ \A j \in 1 .. i - 1 : pkts[j].pid \in Tables) => pkts[i].frame.key \/ file.keyLost
=============================================================================
