------------------------------- MODULE Session -------------------------------
(***************************************************************************)
(* libtsuploader/tsuploader.c, the worker listenTsUpload, and              *)
(* updateSegmentId of libtsuploader/tsmuxuploader.c: how the stream is cut *)
(* into sessions (segments of the recording) and what is reported of them. *)
(*                                                                         *)
(* The worker handles the commands of pCommandQueue_ one at a time, in the *)
(* order in which they were pushed (module CircleQueue), so that one       *)
(* action here is the handling of one command.  The muxer's thread sends   *)
(* START, then END and UPLOAD or a DROP, for each TS file, and SEG when    *)
(* the user marks a frame as the start of a segment, just before START or, *)
(* when that frame is no key frame, in the middle of a file; the other     *)
(* threads send the rest at any time.                                      *)
(* A command that the full queue refused is skipped (Lost).                *)
(*                                                                         *)
(* Every report is a LinkUpdateSegment(session): sent is what the last     *)
(* step reported.  Module Reporting gives it to the segment manager.       *)
(*                                                                         *)
(* Times are left out: whether a session has lasted nSessionDuration or    *)
(* timed out is a free choice at each START.  Durations are those of the   *)
(* video, in units of one.                                                 *)
(***************************************************************************)
EXTENDS Integers, Sequences, FiniteSets

CONSTANTS
  Durations,   \* video durations of a TS file
  MaxTs,       \* bound: TS files
  MaxSession,  \* bound: sessions
  MaxCalls,    \* bound: LinkSetTsType, LinkClearTsType, plan changes
  MaxSeg,      \* bound: frames marked as the start of a segment
  MaxLost      \* bound: commands that a full pCommandQueue_ refused

ASSUME SessionAssumption ==
  /\ Durations \subseteq Nat /\ Durations # {}
  /\ MaxTs \in Nat /\ MaxSession \in Nat \ {0} /\ MaxCalls \in Nat
  /\ MaxSeg \in Nat /\ MaxLost \in Nat

VARIABLES
  session, bakSession,
  reportType,      \* the bits of reportType: 1 start, 2 segment, 4 end
  isSegStartReport, isFirstSessionPicReported, nInternalForceSegFlag, isForceSeg,
  firstSys,        \* nFirstSystime > 0
  nVideoDuration,
  pSessionMeta,    \* "none", "kept", or "oneshot" (isOneShot)
  isClr,
  planType,
  nSegSeqNum,      \* of uploadArgBak
  configured,      \* remoteConfig.nSessionDuration > 0
  mux,             \* the muxer's TS file: "closed", "open", "ended" (UPLOAD is next)
  files, calls, segs, lost,
  last,            \* the newest session id
  sent,            \* what the last step gave to LinkUpdateSegment
  started, ended,  \* the sessions whose start, whose end was given to it
  quit             \* the worker has handled QUIT

flags == <<isSegStartReport, isFirstSessionPicReported, nInternalForceSegFlag,
           isForceSeg, firstSys>>
meta == <<pSessionMeta, isClr>>
state == <<session, bakSession, reportType, flags, nVideoDuration, meta,
           planType, nSegSeqNum>>
counts == <<files, calls, segs, lost>>
hist == <<sent, started, ended>>
vars == <<state, configured, mux, counts, last, hist, quit>>

Plans == {"LINK_PLAN_TYPE_MOVE", "LINK_PLAN_TYPE_24", "LINK_PLAN_TYPE_BAN"}
Reasons == 0 .. 4  \* nSessionEndResonCode: normal 1, timeout 2, force 3, destroy 4

(* LinkSession: seq nTsSequenceNumber, reason nSessionEndResonCode, acc    *)
(* nAccSessionDuration, avd nAccSessionVideoDuration, gap                  *)
(* nVideoGapFromLastReport, dur nTsDuration.                               *)
ZeroSession == [id |-> 0, seq |-> 0, reason |-> 0, acc |-> 0, avd |-> 0,
                gap |-> 0, dur |-> 0]

(* A report: a copy of the session, and isNewSessionStarted.               *)
Report(s, isNew) == [session |-> s, isNew |-> isNew]
IsStart(r) == r.isNew
IsEnd(r) == ~r.isNew /\ r.session.reason # 0

LinkUpdateSegment(reports) ==
  /\ sent' = reports
  /\ started' = started \union {reports[i].session.id : i \in {j \in DOMAIN reports : IsStart(reports[j])}}
  /\ ended' = ended \union {reports[i].session.id : i \in {j \in DOMAIN reports : IsEnd(reports[j])}}

-----------------------------------------------------------------------------
(* listenTsUpload's first statement: updateSegmentId for the first session *)
(* reports it at once.                                                     *)
Init ==
  /\ session = [ZeroSession EXCEPT !.id = 1]
  /\ bakSession = ZeroSession
  /\ reportType = {}
  /\ isSegStartReport = TRUE /\ isFirstSessionPicReported = TRUE
  /\ nInternalForceSegFlag = FALSE /\ isForceSeg = FALSE
  /\ firstSys = FALSE
  /\ nVideoDuration = 0
  /\ pSessionMeta = "none" /\ isClr = FALSE
  /\ planType = "LINK_PLAN_TYPE_MOVE"
  /\ nSegSeqNum = 0
  /\ configured = FALSE
  /\ mux = "closed"
  /\ files = 0 /\ calls = 0 /\ segs = 0 /\ lost = 0
  /\ last = 1
  /\ sent = <<Report(session, TRUE)>> /\ started = {1} /\ ended = {}
  /\ quit = FALSE

NewSessionClears(s, reason) ==  \* faulty variant: LinkUpdateSessionId resets the reason
  [id |-> last + 1, seq |-> 0, reason |-> 0,
   acc |-> s.dur, avd |-> s.gap, gap |-> s.gap, dur |-> s.dur]

NewSessionZero(s, reason) ==  \* faulty variant: no duration goes to the new session
  [id |-> last + 1, seq |-> 0, reason |-> reason,
   acc |-> 0, avd |-> 0, gap |-> s.gap, dur |-> s.dur]

(* LinkUpdateSessionId of handNewSession: what belongs to the current TS   *)
(* file goes to the new session.                                           *)
NewSession(s, reason) ==
  [id |-> last + 1, seq |-> 0, reason |-> reason,
   acc |-> s.dur, avd |-> s.gap, gap |-> s.gap, dur |-> s.dur]

(* updateSegmentId when a new session is forced: reportType 5.             *)
ForcedSession(s) ==
  /\ last < MaxSession /\ last' = last + 1
  /\ session' = NewSession(s, 3)
  /\ reportType' = {1, 4}
  /\ nSegSeqNum' = 0

(* updateSegmentId otherwise: the result is added to the bits old.         *)
CheckedSession(s, old) ==
  \/ \E reason \in {1, 2} :
       /\ configured
       /\ last < MaxSession /\ last' = last + 1
       /\ session' = NewSession(s, reason)
       /\ reportType' = old \union {1, 4}
       /\ nSegSeqNum' = 0
  \/ /\ UNCHANGED last
     /\ session' = s
     /\ reportType' = IF configured /\ nSegSeqNum < s.seq THEN old \union {2} ELSE old
     /\ nSegSeqNum' = s.seq

(* The remote configuration arrives (updateRemoteConfig).                  *)
Configure ==
  /\ ~configured
  /\ configured' = TRUE
  /\ LinkUpdateSegment(<<>>)
  /\ UNCHANGED <<state, mux, counts, last, quit>>

-----------------------------------------------------------------------------
(* handleTsStartTimeReport, and the one-shot meta of a CLR_META that came  *)
(* between two TS files.                                                   *)
TsStart ==
  LET s == [session EXCEPT !.gap = 0] IN
  /\ mux = "closed" /\ files < MaxTs
  /\ IF isForceSeg
     THEN bakSession' = s /\ ForcedSession(s)
     ELSE IF reportType = {}
     THEN bakSession' = s /\ CheckedSession([s EXCEPT !.seq = @ + 1], {})
     ELSE UNCHANGED bakSession /\ CheckedSession(s, reportType)
  /\ isForceSeg' = FALSE
  /\ firstSys' = TRUE
  /\ IF isClr /\ pSessionMeta = "oneshot"
     THEN pSessionMeta' = "none" /\ isClr' = FALSE
     ELSE UNCHANGED meta
  /\ mux' = "open"
  /\ files' = files + 1
  /\ LinkUpdateSegment(<<>>)
  /\ UNCHANGED <<isSegStartReport, isFirstSessionPicReported, nInternalForceSegFlag,
                 nVideoDuration, planType, configured, calls, segs, lost, quit>>

(* handleTsEndTimeReport.                                                  *)
AddTs(s, d) ==
  [s EXCEPT !.avd = @ + d, !.gap = @ + d, !.dur = d, !.acc = @ + d]

TsEnd(d) ==
  /\ mux = "open"
  /\ session' = AddTs(session, d)
  /\ nVideoDuration' = d
  /\ firstSys' = TRUE
  /\ mux' = "ended"
  /\ LinkUpdateSegment(<<>>)
  /\ UNCHANGED <<bakSession, reportType, isSegStartReport, isFirstSessionPicReported,
                 nInternalForceSegFlag, isForceSeg, meta, planType, nSegSeqNum,
                 configured, counts, last, quit>>

(* restoreDuration: a TS file that was not uploaded does not count.        *)
RestoreDuration(s, d) ==
  [s EXCEPT !.avd = @ - d, !.gap = @ - d, !.acc = @ - s.dur, !.dur = 0]

BufferUploadKeepType(s, d, shouldUpload, ok) ==  \* faulty variant: reportType not reset
  LET uploaded == shouldUpload /\ ok
      ends == isSegStartReport /\ 4 \in reportType
      starts == shouldUpload /\ 1 \in reportType
      s1 == IF uploaded THEN s ELSE RestoreDuration(s, d)
      s2 == IF starts THEN [s1 EXCEPT !.seq = 1] ELSE s1
  IN
  /\ LinkUpdateSegment(
       (IF ends THEN <<Report([bakSession EXCEPT !.reason = s.reason], FALSE)>> ELSE <<>>)
       \o (IF starts THEN <<Report(s2, TRUE)>>
           ELSE IF uploaded /\ 2 \in reportType THEN <<Report(s2, FALSE)>> ELSE <<>>))
  /\ bakSession' = IF ends THEN ZeroSession ELSE bakSession
  /\ isSegStartReport' = (starts \/ (isSegStartReport /\ ~ends))
  /\ session' = [s2 EXCEPT !.gap = 0, !.reason = 0]
  /\ nVideoDuration' = IF uploaded THEN d ELSE 0
  /\ pSessionMeta' = IF pSessionMeta = "oneshot" THEN "none" ELSE pSessionMeta
  /\ UNCHANGED reportType
  /\ isFirstSessionPicReported' = FALSE
  /\ nInternalForceSegFlag' = FALSE
  /\ firstSys' = FALSE
  /\ UNCHANGED <<isForceSeg, isClr, planType, nSegSeqNum, configured, last, quit>>

(* bufferUpload.  The pending end of the last session (bakSession) goes    *)
(* out first, when that session's start was reported; then the start of    *)
(* this session, whether the file could be uploaded or not, or a segment   *)
(* report if it was.                                                       *)
BufferUpload(s, d, shouldUpload, ok) ==
  LET uploaded == shouldUpload /\ ok
      ends == isSegStartReport /\ 4 \in reportType
      starts == shouldUpload /\ 1 \in reportType
      s1 == IF uploaded THEN s ELSE RestoreDuration(s, d)
      s2 == IF starts THEN [s1 EXCEPT !.seq = 1] ELSE s1
  IN
  /\ LinkUpdateSegment(
       (IF ends THEN <<Report([bakSession EXCEPT !.reason = s.reason], FALSE)>> ELSE <<>>)
       \o (IF starts THEN <<Report(s2, TRUE)>>
           ELSE IF uploaded /\ 2 \in reportType THEN <<Report(s2, FALSE)>> ELSE <<>>))
  /\ bakSession' = IF ends THEN ZeroSession ELSE bakSession
  /\ isSegStartReport' = (starts \/ (isSegStartReport /\ ~ends))
  /\ session' = [s2 EXCEPT !.gap = 0, !.reason = 0]
  /\ nVideoDuration' = IF uploaded THEN d ELSE 0
  /\ pSessionMeta' = IF pSessionMeta = "oneshot" THEN "none" ELSE pSessionMeta
  /\ reportType' = {}
  /\ isFirstSessionPicReported' = FALSE
  /\ nInternalForceSegFlag' = FALSE
  /\ firstSys' = FALSE
  /\ UNCHANGED <<isForceSeg, isClr, planType, nSegSeqNum, configured, last, quit>>

(* A file is uploaded under the plan for all day, and under the plan on    *)
(* movement while a session meta is set; the upload may fail.              *)
ShouldUpload ==
  \/ planType = "LINK_PLAN_TYPE_MOVE" /\ pSessionMeta # "none"
  \/ planType = "LINK_PLAN_TYPE_24"

TsUpload(ok) ==
  /\ mux = "ended"
  /\ BufferUpload(session, nVideoDuration, ShouldUpload, ok)
  /\ mux' = "closed"
  /\ UNCHANGED counts

(* handleDropTsReport                                                      *)
TsDrop(d) ==
  /\ mux = "open"
  /\ BufferUpload(AddTs(session, d), d, FALSE, FALSE)
  /\ mux' = "closed"
  /\ UNCHANGED counts

-----------------------------------------------------------------------------
(* A command before the first TS file was handled: the first session is    *)
(* taken not to have been reported.                                        *)
ForgetFirstSession == isFirstSessionPicReported' = FALSE
SegStartKnown == isSegStartReport /\ ~isFirstSessionPicReported

(* LINK_TSU_SEG_TIME: the end is reported at once if anything of the old   *)
(* session was uploaded.                                                   *)
SegTime ==
  LET old == session.acc > 0 IN
  /\ mux \in {"closed", "open"} /\ segs < MaxSeg
  /\ segs' = segs + 1
  /\ ForcedSession(session)
  /\ LinkUpdateSegment(IF old THEN <<Report([session EXCEPT !.reason = 3], FALSE)>> ELSE <<>>)
  /\ bakSession' = IF old THEN ZeroSession ELSE session
  /\ isSegStartReport' = (SegStartKnown /\ ~old)
  /\ ForgetFirstSession
  /\ pSessionMeta' = IF pSessionMeta = "oneshot" THEN "none" ELSE pSessionMeta
  /\ UNCHANGED <<nInternalForceSegFlag, isForceSeg, firstSys, nVideoDuration, isClr,
                 planType, configured, mux, files, calls, lost, quit>>

SetMetaFresh ==  \* faulty variant: a session just begun is forced again
  LET inFile == ~nInternalForceSegFlag /\ ~isForceSeg /\ firstSys
      force == inFile
  IN
  /\ calls < MaxCalls
  /\ \/ /\ force
        /\ ForcedSession(session)
        /\ bakSession' = [session EXCEPT !.seq = IF @ > 1 THEN @ - 1 ELSE @]
     \/ /\ ~force
        /\ UNCHANGED <<session, bakSession, reportType, nSegSeqNum, last>>
  /\ isForceSeg' = (isForceSeg \/ (~nInternalForceSegFlag /\ ~inFile))
  /\ nInternalForceSegFlag' = TRUE
  /\ isSegStartReport' = SegStartKnown
  /\ ForgetFirstSession
  /\ isClr' = FALSE
  /\ pSessionMeta' = "kept"
  /\ calls' = calls + 1
  /\ LinkUpdateSegment(<<>>)
  /\ UNCHANGED <<firstSys, nVideoDuration, planType, configured, mux, files,
                 segs, lost, quit>>

(* LINK_TSU_SET_META: unless a segment was just forced, the TS file being  *)
(* cached begins a new session, or else the next file will.                *)
SetMeta ==
  LET inFile == ~nInternalForceSegFlag /\ ~isForceSeg /\ firstSys
      force == inFile /\ session.seq > 0
  IN
  /\ calls < MaxCalls
  /\ \/ /\ force
        /\ ForcedSession(session)
        /\ bakSession' = [session EXCEPT !.seq = IF @ > 1 THEN @ - 1 ELSE @]
     \/ /\ ~force
        /\ UNCHANGED <<session, bakSession, reportType, nSegSeqNum, last>>
  /\ isForceSeg' = (isForceSeg \/ (~nInternalForceSegFlag /\ ~inFile))
  /\ nInternalForceSegFlag' = TRUE
  /\ isSegStartReport' = SegStartKnown
  /\ ForgetFirstSession
  /\ isClr' = FALSE
  /\ pSessionMeta' = "kept"
  /\ calls' = calls + 1
  /\ LinkUpdateSegment(<<>>)
  /\ UNCHANGED <<firstSys, nVideoDuration, planType, configured, mux, files,
                 segs, lost, quit>>

(* LINK_TSU_CLR_META: the meta goes with the TS file being cached, and the *)
(* next file begins a new session.                                         *)
ClrMeta ==
  /\ calls < MaxCalls
  /\ isForceSeg' = (isForceSeg \/ (~nInternalForceSegFlag /\ firstSys))
  /\ nInternalForceSegFlag' = TRUE
  /\ isSegStartReport' = SegStartKnown
  /\ ForgetFirstSession
  /\ isClr' = TRUE
  /\ pSessionMeta' = IF pSessionMeta = "none" THEN "none" ELSE "oneshot"
  /\ calls' = calls + 1
  /\ LinkUpdateSegment(<<>>)
  /\ UNCHANGED <<session, bakSession, reportType, firstSys, nVideoDuration, planType,
                 nSegSeqNum, configured, mux, files, segs, lost, last, quit>>

SetPlanType(p) ==
  /\ calls < MaxCalls /\ p # planType
  /\ planType' = p
  /\ calls' = calls + 1
  /\ LinkUpdateSegment(<<>>)
  /\ UNCHANGED <<session, bakSession, reportType, flags, nVideoDuration, meta,
                 nSegSeqNum, configured, mux, files, segs, lost, last, quit>>

(* LINK_TSU_QUIT, after which no command comes.                            *)
Quit ==
  /\ mux = "closed"
  /\ quit' = TRUE
  /\ IF session.acc > 0
     THEN /\ session' = [session EXCEPT !.reason = 4]
          /\ LinkUpdateSegment(<<Report(session', FALSE)>>)
     ELSE LinkUpdateSegment(<<>>) /\ UNCHANGED session
  /\ UNCHANGED <<bakSession, reportType, flags, nVideoDuration, meta, planType,
                 nSegSeqNum, configured, mux, counts, last>>

(* A full pCommandQueue_ refuses a command of the muxer: the START of a    *)
(* file, its END or DROP, or its UPLOAD after the END.                     *)
Lost ==
  /\ lost < MaxLost /\ lost' = lost + 1
  /\ \/ mux = "closed" /\ files < MaxTs /\ mux' = "open" /\ files' = files + 1
     \/ mux \in {"open", "ended"} /\ mux' = "closed" /\ UNCHANGED files
  /\ LinkUpdateSegment(<<>>)
  /\ UNCHANGED <<state, configured, calls, segs, last, quit>>

-----------------------------------------------------------------------------
Next ==
  /\ ~quit
  /\ \/ Configure
     \/ TsStart \/ \E d \in Durations : TsEnd(d) \/ TsDrop(d)
     \/ \E ok \in BOOLEAN : TsUpload(ok)
     \/ SegTime \/ SetMeta \/ ClrMeta \/ \E p \in Plans : SetPlanType(p)
     \/ Quit
     \/ Lost

Spec == Init /\ [][Next]_vars

-----------------------------------------------------------------------------
(* Types: a session never counts more TS files than there were, and its    *)
(* end reason is one that reportSegInfo has a name for.                    *)
TypeOK ==
  /\ \A s \in {session, bakSession} :
       /\ s.id \in 0 .. last /\ s.seq \in 0 .. files /\ s.reason \in Reasons
       /\ s.acc \in Int /\ s.avd \in Int /\ s.gap \in Int /\ s.dur \in Nat
  /\ reportType \subseteq {1, 2, 4}
  /\ nSegSeqNum \in 0 .. files /\ nVideoDuration \in Nat
  /\ planType \in Plans /\ pSessionMeta \in {"none", "kept", "oneshot"}
  /\ mux \in {"closed", "open", "ended"}
  /\ started \subseteq 1 .. last /\ ended \subseteq 0 .. last

(* bufferUpload's assert(bakSession.nSessionEndResonCode != 0): the reason *)
(* is kept in the new session until the end of the old one is reported,    *)
(* whatever was forced, lost or dropped between the two.                   *)
EndReasonKnown == 4 \in reportType => session.reason # 0

(* The end is the last report of a session, and there is one: the two      *)
(* places that report an end (bufferUpload and LINK_TSU_SEG_TIME, through  *)
(* bakSession) never do it for the same session, and no start or segment   *)
(* report follows.                                                         *)
NothingAfterEnd ==
  [][\A i \in DOMAIN sent' : sent'[i].session.id \notin ended]_vars

(* isNewSessionStarted is reported once for a session, however often       *)
(* reportType gathers start bits before a file is uploaded.                *)
StartedOnce ==
  [][\A i \in DOMAIN sent' :
       IsStart(sent'[i]) => sent'[i].session.id \notin started]_vars

(* restoreDuration never takes off more than the session was given, also   *)
(* when the file moved to a new session while it was cached.               *)
DurationsNonNegative ==
  session.acc >= 0 /\ session.avd >= 0 /\ session.gap >= 0

(* A session whose start was reported is the current one, or its end was   *)
(* reported, or the next file reports it.  The first session is reported   *)
(* before it has a file, and a frame marked as the start of a segment or a *)
(* refused command can leave a session open: these are left out.           *)
NoSessionLeftOpen ==
  lost = 0 /\ segs = 0 =>
    \A i \in (started \ ended) \ {1} :
      \/ i = session.id
      \/ i = bakSession.id /\ 4 \in reportType /\ isSegStartReport

(* What the worker's accounts owe the server over any sequence of          *)
(* commands: without forced segments and lost commands every session that  *)
(* began ends, and with them too no duration it reports is below zero.     *)
AccountsHold ==
  /\ NoSessionLeftOpen
  /\ DurationsNonNegative
=============================================================================
