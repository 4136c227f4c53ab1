---------------------------- MODULE SessionProofs ----------------------------
(***************************************************************************)
(* Proofs about Session, for every number of TS files, sessions, calls,    *)
(* forced segments and lost commands, and all durations.                   *)
(***************************************************************************)
EXTENDS Session, SequenceTheorems, TLAPS

LinkSession ==
  [id: Nat, seq: Nat, reason: Reasons, acc: Int, avd: Int, gap: Int, dur: Nat]

Typed ==
  /\ session \in LinkSession /\ bakSession \in LinkSession
  /\ files \in Nat /\ last \in Nat \ {0}
  /\ session.seq <= files /\ bakSession.seq <= files /\ bakSession.id <= last
  /\ nSegSeqNum \in 0 .. files /\ nVideoDuration \in Nat
  /\ planType \in Plans /\ pSessionMeta \in {"none", "kept", "oneshot"}
  /\ mux \in {"closed", "open", "ended"} /\ (mux # "closed" => files > 0)

(* The bits of reportType: a new session always sets the start's and the   *)
(* end's together.                                                         *)
ReportTypes == {{}, {2}, {1, 4}, {1, 2, 4}}

(* The current session is the newest one.  Its start was not reported when *)
(* reportType asks for it; the session whose end reportType asks for is an *)
(* earlier one, kept in bakSession, and was not ended; when reportType     *)
(* only asks for a segment, bakSession is the current session, and so what *)
(* has to be ended if a new one begins next.  A reason is only there while *)
(* an end is to be reported: a segment report never looks like an end.     *)
PendingInv ==
  /\ session.id = last
  /\ started \subseteq 1 .. last /\ ended \subseteq 0 .. last
  /\ ~quit => last \notin ended
  /\ reportType \in ReportTypes
  /\ 1 \in reportType => last \notin started
  /\ reportType = {2} => bakSession.id = last
  /\ 4 \in reportType /\ isSegStartReport =>
       bakSession.id < last /\ bakSession.id \notin ended
  /\ ~quit /\ 4 \notin reportType => session.reason = 0

(* The inductive invariant.                                                *)
IInv == Typed /\ PendingInv /\ EndReasonKnown

(* What the two action properties say of one step.                         *)
ReportsFresh ==
  \A i \in DOMAIN sent' :
    /\ sent'[i].session.id \notin ended
    /\ IsStart(sent'[i]) => sent'[i].session.id \notin started

-----------------------------------------------------------------------------
(* The history after no, one or two reports.                               *)
LEMMA NoReport ==
  ASSUME LinkUpdateSegment(<<>>)
  PROVE  started' = started /\ ended' = ended /\ ReportsFresh
  BY DEF LinkUpdateSegment, ReportsFresh

LEMMA OneReport ==
  ASSUME NEW r, LinkUpdateSegment(<<r>>)
  PROVE  /\ started' = started \union (IF IsStart(r) THEN {r.session.id} ELSE {})
         /\ ended' = ended \union (IF IsEnd(r) THEN {r.session.id} ELSE {})
         /\ ReportsFresh <=> /\ r.session.id \notin ended
                             /\ IsStart(r) => r.session.id \notin started
  <1>1. DOMAIN <<r>> = {1} /\ <<r>>[1] = r
    OBVIOUS
  <1>2. QED
    BY <1>1 DEF LinkUpdateSegment, ReportsFresh

LEMMA TwoReports ==
  ASSUME NEW a, NEW b, LinkUpdateSegment(<<a, b>>)
  PROVE  /\ started' = started \union (IF IsStart(a) THEN {a.session.id} ELSE {})
                             \union (IF IsStart(b) THEN {b.session.id} ELSE {})
         /\ ended' = ended \union (IF IsEnd(a) THEN {a.session.id} ELSE {})
                         \union (IF IsEnd(b) THEN {b.session.id} ELSE {})
         /\ ReportsFresh <=> /\ a.session.id \notin ended /\ b.session.id \notin ended
                             /\ IsStart(a) => a.session.id \notin started
                             /\ IsStart(b) => b.session.id \notin started
  <1>1. DOMAIN <<a, b>> = {1, 2} /\ <<a, b>>[1] = a /\ <<a, b>>[2] = b
    OBVIOUS
  <1>2. QED
    BY <1>1 DEF LinkUpdateSegment, ReportsFresh

(* Lists of reports, put together.                                         *)
LEMMA ConcatReports ==
  ASSUME NEW a, NEW b
  PROVE  /\ <<a>> \o <<b>> = <<a, b>>
         /\ <<a>> \o <<>> = <<a>> /\ <<>> \o <<b>> = <<b>>
  <1> DEFINE S == {a, b}
  <1>1. <<a>> \in Seq(S) /\ <<b>> \in Seq(S) /\ <<a, b>> \in Seq(S)
    OBVIOUS
  <1>2. /\ <<a>> \o <<b>> \in Seq(S) /\ Len(<<a>> \o <<b>>) = 2
        /\ (<<a>> \o <<b>>)[1] = a /\ (<<a>> \o <<b>>)[2] = b
    BY <1>1
  <1>3. Len(<<a, b>>) = 2 /\ <<a, b>>[1] = a /\ <<a, b>>[2] = b
    OBVIOUS
  <1>4. \A i \in 1 .. 2 : (<<a>> \o <<b>>)[i] = <<a, b>>[i]
    BY <1>2, <1>3
  <1>5. <<a>> \o <<>> = <<a>> /\ <<>> \o <<b>> = <<b>>
    OBVIOUS
  <1> HIDE DEF S
  <1>6. QED
    BY <1>1, <1>2, <1>3, <1>4, <1>5, SeqEqual

(* A file's duration is added and taken off again.                         *)
LEMMA AddTsTyped ==
  ASSUME NEW s \in LinkSession, NEW d \in Nat
  PROVE  /\ AddTs(s, d) \in LinkSession
         /\ AddTs(s, d).id = s.id /\ AddTs(s, d).seq = s.seq
         /\ AddTs(s, d).reason = s.reason
  <1>1. s.avd + d \in Int /\ s.gap + d \in Int /\ s.acc + d \in Int
    BY DEF LinkSession
  <1>2. AddTs(s, d) \in LinkSession
    BY ONLY <1>1, s \in LinkSession, d \in Nat, ZenonT(30) DEF AddTs, LinkSession
  <1>3. QED
    BY <1>2 DEF AddTs, LinkSession

LEMMA RestoreDurationTyped ==
  ASSUME NEW s \in LinkSession, NEW d \in Nat
  PROVE  /\ RestoreDuration(s, d) \in LinkSession
         /\ RestoreDuration(s, d).id = s.id /\ RestoreDuration(s, d).seq = s.seq
         /\ RestoreDuration(s, d).reason = s.reason
  <1>1. s.avd - d \in Int /\ s.gap - d \in Int /\ s.acc - s.dur \in Int /\ 0 \in Nat
    BY DEF LinkSession
  <1>2. RestoreDuration(s, d) \in LinkSession
    BY ONLY <1>1, s \in LinkSession, ZenonT(30) DEF RestoreDuration, LinkSession
  <1>3. QED
    BY <1>2 DEF RestoreDuration, LinkSession

LEMMA NewSessionTyped ==
  ASSUME NEW s \in LinkSession, NEW reason \in Reasons, last \in Nat
  PROVE  /\ NewSession(s, reason) \in LinkSession
         /\ NewSession(s, reason).id = last + 1
         /\ NewSession(s, reason).seq = 0
         /\ NewSession(s, reason).reason = reason
  BY DEF NewSession, LinkSession

LEMMA ReportedTyped ==
  ASSUME NEW s \in LinkSession, NEW r, r = [s EXCEPT !.gap = 0, !.reason = 0]
  PROVE  r \in LinkSession /\ r.id = s.id /\ r.seq = s.seq /\ r.reason = 0
  <1>1. 0 \in Int /\ 0 \in Reasons
    BY DEF Reasons
  <1>2. DOMAIN s = {"id", "seq", "reason", "acc", "avd", "gap", "dur"}
    BY DEF LinkSession
  <1>3. /\ s.id \in Nat /\ s.seq \in Nat /\ s.acc \in Int /\ s.avd \in Int /\ s.dur \in Nat
    BY DEF LinkSession
  <1>4. r = [id |-> s.id, seq |-> s.seq, reason |-> 0, acc |-> s.acc, avd |-> s.avd,
             gap |-> 0, dur |-> s.dur]
    BY <1>2 DEF LinkSession
  <1>5. QED
    BY ONLY <1>1, <1>3, <1>4 DEF LinkSession

LEMMA InitIInv == Init => IInv
  <1> SUFFICES ASSUME Init PROVE IInv
    OBVIOUS
  <1>1. Typed
    BY DEF Init, Typed, LinkSession, ZeroSession, Plans, Reasons
  <1>2. PendingInv /\ EndReasonKnown
    BY DEF Init, PendingInv, EndReasonKnown, ReportTypes, ZeroSession
  <1>3. QED
    BY <1>1, <1>2 DEF IInv

(* A new session begins: the one before it was ended just now, or is in    *)
(* bakSession, or another one still is.                                    *)
LEMMA NewSessionStep ==
  ASSUME IInv, ~quit, NEW s \in LinkSession, NEW reason \in {1, 2, 3},
         session' = NewSession(s, reason),
         last' = last + 1, nSegSeqNum' = 0, reportType' \in {{1, 4}, {1, 2, 4}},
         started' = started, ended' \subseteq ended \union {last},
         bakSession' \in LinkSession, bakSession'.seq <= files', bakSession'.id <= last,
         isSegStartReport' => bakSession'.id \notin ended',
         files' \in Nat, mux' \in {"closed", "open", "ended"},
         mux' # "closed" => files' > 0,
         UNCHANGED <<planType, nVideoDuration>>,
         pSessionMeta' \in {"none", "kept", "oneshot"}
  PROVE  IInv'
  <1> USE DEF IInv, Typed, PendingInv
  <1>1. session' \in LinkSession /\ session'.id = last' /\ session'.seq = 0
        /\ session'.reason = reason
    BY NewSessionTyped DEF Reasons
  <1>2. bakSession'.id \in Nat
    BY DEF LinkSession
  <1>3. Typed'
    BY <1>1, <1>2
  <1>4. PendingInv'
    BY <1>1, <1>2 DEF ReportTypes
  <1>5. QED
    BY <1>1, <1>3, <1>4 DEF EndReasonKnown

-----------------------------------------------------------------------------
(* The commands that change neither the session nor what is pending.       *)
LEMMA QuietStep ==
  ASSUME IInv, ~quit,
         \/ Configure \/ ClrMeta \/ (\E p \in Plans : SetPlanType(p)) \/ Lost
  PROVE  IInv' /\ ReportsFresh
  <1> USE DEF IInv
  <1>1. LinkUpdateSegment(<<>>)
    BY DEF Configure, ClrMeta, SetPlanType, Lost
  <1>2. started' = started /\ ended' = ended /\ ReportsFresh
    BY <1>1, NoReport
  <1>3. UNCHANGED <<session, bakSession, reportType, last, nSegSeqNum, nVideoDuration, quit>>
    BY DEF Configure, ClrMeta, SetPlanType, Lost, state, flags, meta
  <1>4. isSegStartReport' => isSegStartReport
    BY DEF Configure, ClrMeta, SetPlanType, Lost, state, flags, SegStartKnown
  <1>5. planType' \in Plans /\ pSessionMeta' \in {"none", "kept", "oneshot"}
    BY DEF Typed, Configure, ClrMeta, SetPlanType, Lost, state, meta
  <1>6. /\ files' \in Nat /\ files <= files'
        /\ mux' \in {"closed", "open", "ended"} /\ (mux' # "closed" => files' > 0)
    <2>1. files \in Nat /\ mux \in {"closed", "open", "ended"} /\ (mux # "closed" => files > 0)
      BY DEF Typed
    <2>2. CASE UNCHANGED <<mux, files>>
      BY <2>1, <2>2
    <2>3. CASE Lost
      BY <2>1, <2>3 DEF Lost
    <2>4. QED
      BY <2>2, <2>3 DEF Configure, ClrMeta, SetPlanType, counts
  <1>7. session.seq \in Nat /\ bakSession.seq \in Nat
    BY DEF Typed, LinkSession
  <1>8. Typed'
    BY <1>3, <1>5, <1>6, <1>7 DEF Typed
  <1>9. PendingInv' /\ EndReasonKnown'
    BY <1>2, <1>3, <1>4 DEF PendingInv, EndReasonKnown
  <1>10. QED
    BY <1>2, <1>8, <1>9

(* updateSegmentId at a START: a new session by its duration or timeout,   *)
(* or the current one goes on.                                             *)
LEMMA CheckedStep ==
  ASSUME IInv, ~quit, NEW u \in LinkSession,
         u.id = last, u.reason = session.reason, u.seq <= files',
         CheckedSession(u, reportType),
         bakSession' \in LinkSession, bakSession'.seq <= files', bakSession'.id <= last,
         reportType = {} => bakSession'.id = last,
         reportType # {} => bakSession' = bakSession,
         started' = started, ended' = ended, isSegStartReport' = isSegStartReport,
         files' \in Nat, mux' = "open", files' > 0,
         UNCHANGED <<planType, nVideoDuration, quit>>,
         pSessionMeta' \in {"none", "kept", "oneshot"}
  PROVE  IInv'
  <1>1. /\ last \in Nat \ {0} /\ last \notin ended
        /\ reportType \in ReportTypes
      BY DEF IInv, Typed, PendingInv
  <1>2. u.seq \in Nat /\ bakSession'.id \in Nat /\ bakSession'.seq \in Nat
      BY DEF LinkSession
  <1>3. ASSUME NEW reason \in {1, 2}, session' = NewSession(u, reason), last' = last + 1,
               reportType' = reportType \union {1, 4}, nSegSeqNum' = 0
        PROVE  IInv'
    <2>1. reportType' \in {{1, 4}, {1, 2, 4}}
      BY <1>1, <1>3 DEF ReportTypes
    <2>2. isSegStartReport' => bakSession'.id \notin ended'
      <3>1. CASE reportType = {}
        BY <1>1, <3>1
      <3>2. CASE reportType = {2}
        <4>1. bakSession'.id = last
          BY <3>2 DEF IInv, PendingInv
        <4>2. QED
          BY <1>1, <4>1
      <3>3. CASE 4 \in reportType
        <4>1. bakSession' = bakSession
          BY <3>3
        <4>2. isSegStartReport => bakSession.id \notin ended
          BY <3>3 DEF IInv, PendingInv
        <4>3. QED
          BY <4>1, <4>2
      <3>4. QED
        BY <1>1, <3>1, <3>2, <3>3 DEF ReportTypes
    <2>3. QED
      BY <1>3, <2>1, <2>2, NewSessionStep
  <1>4. ASSUME session' = u, last' = last, nSegSeqNum' = u.seq,
               reportType' \in {reportType, reportType \union {2}}
        PROVE  IInv'
    <2>1. Typed'
      BY <1>1, <1>2, <1>4 DEF IInv, Typed
    <2>2. reportType' \in ReportTypes /\ (1 \in reportType' <=> 1 \in reportType)
          /\ (4 \in reportType' <=> 4 \in reportType)
      BY <1>1, <1>4 DEF ReportTypes
    <2>3. reportType' = {2} => bakSession'.id = last
      <3>1. CASE reportType = {}
        BY <3>1
      <3>2. CASE reportType = {2}
        BY <3>2 DEF IInv, PendingInv
      <3>3. CASE 4 \in reportType
        BY <2>2, <3>3
      <3>4. QED
        BY <1>1, <3>1, <3>2, <3>3 DEF ReportTypes
    <2>4. 4 \in reportType' /\ isSegStartReport' =>
            bakSession'.id < last' /\ bakSession'.id \notin ended'
      <3>1. CASE 4 \in reportType
        <4>1. bakSession' = bakSession
          BY <3>1
        <4>2. QED
          BY <1>4, <3>1, <4>1 DEF IInv, PendingInv
      <3>2. QED
        BY <2>2, <3>1
    <2>5. PendingInv'
      BY <1>1, <1>4, <2>2, <2>3, <2>4 DEF IInv, PendingInv
    <2>6. EndReasonKnown'
      BY <1>4, <2>2 DEF IInv, EndReasonKnown
    <2>7. QED
      BY <2>1, <2>5, <2>6 DEF IInv
  <1>5. QED
    BY <1>3, <1>4 DEF CheckedSession

LEMMA TsStartStep ==
  ASSUME IInv, ~quit, TsStart
  PROVE  IInv' /\ ReportsFresh
  <1> DEFINE s == [session EXCEPT !.gap = 0]
             t == [s EXCEPT !.seq = @ + 1]
  <1>1. started' = started /\ ended' = ended /\ ReportsFresh
    BY NoReport DEF TsStart
  <1>2. session \in LinkSession /\ session.id = last
    BY DEF IInv, Typed, PendingInv
  <1>3. /\ s \in LinkSession /\ s.id = last /\ s.seq = session.seq
        /\ s.reason = session.reason
    BY <1>2 DEF LinkSession
  <1>5. /\ isForceSeg => bakSession' = s /\ ForcedSession(s)
        /\ ~isForceSeg /\ reportType = {} => bakSession' = s /\ CheckedSession(t, {})
        /\ ~isForceSeg /\ reportType # {} =>
             bakSession' = bakSession /\ CheckedSession(s, reportType)
    BY DEF TsStart
  <1>6. /\ files' = files + 1 /\ files \in Nat /\ mux' = "open"
        /\ UNCHANGED <<isSegStartReport, planType, nVideoDuration, quit>>
        /\ pSessionMeta' \in {"none", "kept", "oneshot"}
    BY DEF IInv, Typed, TsStart, meta
  <1>7. /\ session.seq \in Nat /\ session.seq <= files /\ last \in Nat
        /\ bakSession \in LinkSession /\ bakSession.seq \in Nat /\ bakSession.seq <= files
        /\ bakSession.id \in Nat /\ bakSession.id <= last /\ last \notin ended
    BY DEF IInv, Typed, PendingInv, LinkSession
  <1> HIDE DEF s
  <1>8. /\ t \in LinkSession /\ t.id = last /\ t.seq = session.seq + 1
        /\ t.reason = session.reason
    BY <1>3, <1>7 DEF LinkSession
  <1> HIDE DEF t
  <1>9. CASE isForceSeg
    BY <1>1, <1>3, <1>5, <1>6, <1>7, <1>9, NewSessionStep DEF ForcedSession
  <1>10. CASE ~isForceSeg /\ reportType = {}
    <2>1. CheckedSession(t, reportType) /\ bakSession' = s
      BY <1>5, <1>10
    <2>2. t.seq <= files' /\ bakSession'.seq <= files' /\ bakSession'.id <= last
          /\ files' \in Nat /\ files' > 0
      BY <1>3, <1>6, <1>7, <1>8, <2>1
    <2>3. IInv'
      BY <1>1, <1>3, <1>6, <1>8, <1>10, <2>1, <2>2, CheckedStep
    <2>4. QED
      BY <1>1, <2>3
  <1>11. CASE ~isForceSeg /\ reportType # {}
    <2>1. CheckedSession(s, reportType) /\ bakSession' = bakSession
      BY <1>5, <1>11
    <2>2. s.seq <= files' /\ bakSession'.seq <= files' /\ bakSession'.id <= last
          /\ files' \in Nat /\ files' > 0
      BY <1>3, <1>6, <1>7, <2>1
    <2>3. IInv'
      BY <1>1, <1>3, <1>6, <1>7, <1>11, <2>1, <2>2, CheckedStep
    <2>4. QED
      BY <1>1, <2>3
  <1>12. QED
    BY <1>9, <1>10, <1>11

LEMMA TsEndStep ==
  ASSUME IInv, ~quit, NEW d \in Nat, TsEnd(d)
  PROVE  IInv' /\ ReportsFresh
  <1>1. started' = started /\ ended' = ended /\ ReportsFresh
    BY NoReport DEF TsEnd
  <1>2. session \in LinkSession
    BY DEF IInv, Typed
  <1>3. /\ session' \in LinkSession /\ session'.id = session.id
        /\ session'.seq = session.seq /\ session'.reason = session.reason
    BY <1>2, AddTsTyped DEF TsEnd
  <1>4. /\ mux = "open" /\ mux' = "ended" /\ nVideoDuration' = d
        /\ UNCHANGED <<bakSession, reportType, isSegStartReport, pSessionMeta, planType,
                      nSegSeqNum, files, last, quit>>
    BY DEF TsEnd, meta, counts
  <1>5. Typed'
    BY <1>3, <1>4 DEF IInv, Typed
  <1>6. PendingInv' /\ EndReasonKnown'
    BY <1>1, <1>3, <1>4 DEF IInv, PendingInv, EndReasonKnown
  <1>7. QED
    BY <1>1, <1>5, <1>6 DEF IInv

(* bufferUpload: nothing is pending afterwards, and what it reports is the *)
(* end of an earlier session and the start or a segment of the current one.*)
LEMMA BufferUploadStep ==
  ASSUME IInv, ~quit,
         NEW s \in LinkSession, s.id = last, s.seq <= files, s.reason = session.reason,
         NEW d \in Nat, NEW shouldUpload \in BOOLEAN, NEW ok \in BOOLEAN,
         BufferUpload(s, d, shouldUpload, ok),
         files > 0, mux' = "closed", files' = files
  PROVE  IInv' /\ ReportsFresh
  <1> DEFINE uploaded == shouldUpload /\ ok
             ends == isSegStartReport /\ 4 \in reportType
             starts == shouldUpload /\ 1 \in reportType
             s1 == IF uploaded THEN s ELSE RestoreDuration(s, d)
             s2 == IF starts THEN [s1 EXCEPT !.seq = 1] ELSE s1
             bak == [bakSession EXCEPT !.reason = s.reason]
             segs2 == uploaded /\ 2 \in reportType
  <1>1. bakSession \in LinkSession /\ last \in Nat \ {0} /\ last \notin ended
        /\ reportType \in ReportTypes /\ session.id = last /\ files \in Nat
    BY DEF IInv, Typed, PendingInv
  <1>2. s1 \in LinkSession /\ s1.id = last /\ s1.seq = s.seq /\ s1.reason = s.reason
    BY RestoreDurationTyped
  <1>3. /\ s2 \in LinkSession /\ s2.id = last /\ s2.reason = s.reason
        /\ s2.seq \in {1, s.seq}
    <2> HIDE DEF s1
    <2>1. QED
      BY <1>2 DEF LinkSession
  <1>4. bak.id = bakSession.id
    BY <1>1 DEF LinkSession
  <1>5. LinkUpdateSegment(
          (IF ends THEN <<Report(bak, FALSE)>> ELSE <<>>)
          \o (IF starts THEN <<Report(s2, TRUE)>>
              ELSE IF segs2 THEN <<Report(s2, FALSE)>> ELSE <<>>))
    BY DEF BufferUpload
  <1>6. /\ bakSession' = IF ends THEN ZeroSession ELSE bakSession
        /\ session' = [s2 EXCEPT !.gap = 0, !.reason = 0]
        /\ nVideoDuration' = IF uploaded THEN d ELSE 0
        /\ pSessionMeta' = IF pSessionMeta = "oneshot" THEN "none" ELSE pSessionMeta
        /\ reportType' = {}
        /\ UNCHANGED <<planType, nSegSeqNum, last, quit>>
    BY DEF BufferUpload
  <1> HIDE DEF s2, bak
  <1>7. /\ session' \in LinkSession /\ session'.id = last /\ session'.reason = 0
        /\ session'.seq = s2.seq
    BY <1>3, <1>6, ReportedTyped
  <1>8. bakSession' \in LinkSession /\ bakSession'.id <= last /\ bakSession'.seq <= files
    <2>1. ZeroSession \in LinkSession /\ ZeroSession.id = 0 /\ ZeroSession.seq = 0
      BY DEF ZeroSession, LinkSession, Reasons
    <2>2. CASE ends
      BY <1>1, <1>6, <2>1, <2>2
    <2>3. CASE ~ends
      BY <1>6, <2>3 DEF IInv, Typed
    <2>4. QED
      BY <2>2, <2>3
  <1>9. Typed'
    BY <1>1, <1>3, <1>6, <1>7, <1>8 DEF IInv, Typed
  <1> DEFINE e == Report(bak, FALSE)
             st == Report(s2, TRUE)
             sg == Report(s2, FALSE)
  <1>10. /\ IsStart(e) = FALSE /\ e.session.id = bakSession.id
         /\ IsStart(st) = TRUE /\ IsEnd(st) = FALSE /\ st.session.id = last
         /\ IsStart(sg) = FALSE /\ IsEnd(sg) = (s.reason # 0) /\ sg.session.id = last
    BY <1>3, <1>4 DEF IsStart, IsEnd, Report
  <1> HIDE DEF e, st, sg
  <1>11. ends => bakSession.id < last /\ bakSession.id \notin ended /\ bakSession.id \in 0 .. last
    BY <1>1 DEF IInv, PendingInv, LinkSession
  <1>12. starts => last \notin started
    BY DEF IInv, PendingInv
  <1>12a. ends /\ segs2 => starts
    BY <1>1 DEF ReportTypes
  <1>13. ~starts /\ segs2 => s.reason = 0
    BY <1>1 DEF IInv, PendingInv, ReportTypes
  <1> HIDE DEF ends, starts, segs2
  <1>14. /\ started' \subseteq started \union {last}
         /\ ended' \subseteq ended \union (IF ends THEN {bakSession.id} ELSE {})
         /\ ReportsFresh
    <2>0. LinkUpdateSegment((IF ends THEN <<e>> ELSE <<>>)
            \o (IF starts THEN <<st>> ELSE IF segs2 THEN <<sg>> ELSE <<>>))
      BY <1>5 DEF e, st, sg
    <2>1. CASE ends /\ starts
      <3>1. LinkUpdateSegment(<<e>> \o <<st>>)
        BY <2>0, <2>1
      <3>2. <<e>> \o <<st>> = <<e, st>>
        BY ConcatReports
      <3>3. LinkUpdateSegment(<<e, st>>)
        BY <3>1, <3>2
      <3>4. /\ started' = started \union {last}
            /\ ended' \subseteq ended \union {bakSession.id}
        BY <1>10, <3>3, TwoReports
      <3>5. ReportsFresh
        <4>1. /\ e.session.id \notin ended /\ st.session.id \notin ended
              /\ IsStart(e) => e.session.id \notin started
              /\ IsStart(st) => st.session.id \notin started
          BY <1>1, <1>10, <1>11, <1>12, <2>1
        <4>2. QED
          BY <3>3, <4>1, TwoReports
      <3>6. QED
        BY <2>1, <3>4, <3>5
    <2>2. CASE ends /\ ~starts /\ segs2
      BY <1>12a, <2>2
    <2>3. CASE ends /\ ~starts /\ ~segs2
      <3>1. LinkUpdateSegment(<<e>> \o <<>>)
        BY <2>0, <2>3
      <3>2. <<e>> \o <<>> = <<e>>
        BY ConcatReports
      <3>3. LinkUpdateSegment(<<e>>)
        BY <3>1, <3>2
      <3>4. QED
        BY <1>1, <1>10, <1>11, <2>3, <3>3, OneReport
    <2>4. CASE ~ends /\ starts
      <3>1. LinkUpdateSegment(<<>> \o <<st>>)
        BY <2>0, <2>4
      <3>2. <<>> \o <<st>> = <<st>>
        BY ConcatReports
      <3>3. LinkUpdateSegment(<<st>>)
        BY <3>1, <3>2
      <3>4. QED
        BY <1>1, <1>10, <1>11, <2>4, <3>3, OneReport, <1>12
    <2>5. CASE ~ends /\ ~starts /\ segs2
      <3>1. LinkUpdateSegment(<<>> \o <<sg>>)
        BY <2>0, <2>5
      <3>2. <<>> \o <<sg>> = <<sg>>
        BY ConcatReports
      <3>3. LinkUpdateSegment(<<sg>>)
        BY <3>1, <3>2
      <3>4. QED
        BY <1>1, <1>10, <1>11, <2>5, <3>3, OneReport, <1>13
    <2>6. CASE ~ends /\ ~starts /\ ~segs2
      <3>1. LinkUpdateSegment(<<>> \o <<>>)
        BY <2>0, <2>6
      <3>2. <<>> \o <<>> = <<>>
        OBVIOUS
      <3>3. LinkUpdateSegment(<<>>)
        BY <3>1, <3>2
      <3>4. QED
        BY <3>3, NoReport
    <2>7. QED
      BY <2>1, <2>2, <2>3, <2>4, <2>5, <2>6
  <1>15. last \notin ended' /\ started' \subseteq 1 .. last /\ ended' \subseteq 0 .. last
    BY <1>1, <1>11, <1>14 DEF IInv, PendingInv
  <1>16. PendingInv' /\ EndReasonKnown'
    BY <1>1, <1>6, <1>7, <1>15 DEF PendingInv, EndReasonKnown, ReportTypes
  <1>17. QED
    BY <1>9, <1>14, <1>16 DEF IInv

LEMMA TsUploadStep ==
  ASSUME IInv, ~quit, NEW ok \in BOOLEAN, TsUpload(ok)
  PROVE  IInv' /\ ReportsFresh
  <1>1. /\ session \in LinkSession /\ session.id = last /\ session.seq <= files
        /\ nVideoDuration \in Nat /\ files > 0
    BY DEF TsUpload, IInv, Typed, PendingInv
  <1>2. /\ BufferUpload(session, nVideoDuration, ShouldUpload, ok)
        /\ mux' = "closed" /\ files' = files
    BY DEF TsUpload, counts
  <1>3. ShouldUpload \in BOOLEAN
    BY DEF ShouldUpload
  <1>4. QED
    BY <1>1, <1>2, <1>3, BufferUploadStep

LEMMA TsDropStep ==
  ASSUME IInv, ~quit, NEW d \in Nat, TsDrop(d)
  PROVE  IInv' /\ ReportsFresh
  <1> DEFINE s == AddTs(session, d)
  <1>1. session \in LinkSession /\ session.id = last /\ session.seq <= files /\ files > 0
    BY DEF TsDrop, IInv, Typed, PendingInv
  <1>2. s \in LinkSession /\ s.id = last /\ s.seq <= files /\ s.reason = session.reason
    BY <1>1, AddTsTyped
  <1>3. BufferUpload(s, d, FALSE, FALSE) /\ mux' = "closed" /\ files' = files
    BY DEF TsDrop, counts
  <1> HIDE DEF s
  <1>4. QED
    BY <1>1, <1>2, <1>3, BufferUploadStep

LEMMA SegTimeStep ==
  ASSUME IInv, ~quit, SegTime
  PROVE  IInv' /\ ReportsFresh
  <1> DEFINE old == session.acc > 0
             end == [session EXCEPT !.reason = 3]
             r == Report(end, FALSE)
  <1>1. /\ session \in LinkSession /\ session.id = last /\ session.seq <= files
        /\ session.seq \in Nat /\ last \in Nat \ {0} /\ last \notin ended /\ files \in Nat
        /\ mux \in {"closed", "open"} /\ (mux # "closed" => files > 0)
        /\ pSessionMeta \in {"none", "kept", "oneshot"}
    BY DEF SegTime, IInv, Typed, PendingInv, LinkSession
  <1>2. r.session.id = last /\ IsStart(r) = FALSE
    BY <1>1 DEF Report, IsStart, LinkSession
  <1>3. LinkUpdateSegment(IF old THEN <<r>> ELSE <<>>)
    BY DEF SegTime
  <1> HIDE DEF r
  <1>4. /\ started' = started
        /\ ended' \subseteq ended \union (IF old THEN {last} ELSE {})
        /\ ReportsFresh
    <2>1. CASE old
      <3>1. LinkUpdateSegment(<<r>>)
        BY <1>3, <2>1
      <3>2. QED
        BY <1>1, <1>2, <2>1, <3>1, OneReport
    <2>2. CASE ~old
      <3>1. LinkUpdateSegment(<<>>)
        BY <1>3, <2>2
      <3>2. QED
        BY <3>1, NoReport
    <2>3. QED
      BY <2>1, <2>2
  <1>5. /\ bakSession' \in LinkSession /\ bakSession'.seq <= files
        /\ bakSession'.id <= last
    <2>1. ZeroSession \in LinkSession /\ ZeroSession.id = 0 /\ ZeroSession.seq = 0
      BY DEF ZeroSession, LinkSession, Reasons
    <2>2. bakSession' \in {ZeroSession, session}
      BY DEF SegTime
    <2>3. QED
      BY <1>1, <2>1, <2>2
  <1>6. isSegStartReport' => bakSession'.id \notin ended'
    <2>1. CASE old
      BY <2>1 DEF SegTime
    <2>2. CASE ~old
      BY <1>1, <1>4, <2>2 DEF SegTime
    <2>3. QED
      BY <2>1, <2>2
  <1>7. /\ session' = NewSession(session, 3) /\ last' = last + 1 /\ nSegSeqNum' = 0
        /\ reportType' = {1, 4} /\ UNCHANGED <<planType, nVideoDuration, mux, files>>
        /\ pSessionMeta' \in {"none", "kept", "oneshot"}
    BY <1>1 DEF SegTime, ForcedSession
  <1>8. ended' \subseteq ended \union {last}
    BY <1>4
  <1>9. IInv'
    BY <1>1, <1>4, <1>5, <1>6, <1>7, <1>8, NewSessionStep
  <1>10. QED
    BY <1>4, <1>9

LEMMA SetMetaStep ==
  ASSUME IInv, ~quit, SetMeta
  PROVE  IInv' /\ ReportsFresh
  <1> DEFINE bak == [session EXCEPT !.seq = IF @ > 1 THEN @ - 1 ELSE @]
  <1>1. started' = started /\ ended' = ended /\ ReportsFresh
    BY NoReport DEF SetMeta
  <1>2. /\ session \in LinkSession /\ session.id = last /\ session.seq <= files
        /\ session.seq \in Nat /\ last \in Nat \ {0} /\ last \notin ended /\ files \in Nat
        /\ mux \in {"closed", "open", "ended"} /\ (mux # "closed" => files > 0)
    BY DEF IInv, Typed, PendingInv, LinkSession
  <1>3. bak \in LinkSession /\ bak.id = last /\ bak.seq <= files
    BY <1>2 DEF LinkSession
  <1>4. /\ UNCHANGED <<planType, nVideoDuration, mux, files, quit>>
        /\ pSessionMeta' = "kept"
        /\ isSegStartReport' => isSegStartReport
    BY DEF SetMeta, SegStartKnown
  <1>5. CASE ForcedSession(session) /\ bakSession' = bak
    <2> HIDE DEF bak
    <2>1. IInv'
      BY <1>1, <1>2, <1>3, <1>4, <1>5, NewSessionStep DEF ForcedSession
    <2>2. QED
      BY <1>1, <2>1
  <1>6. CASE UNCHANGED <<session, bakSession, reportType, nSegSeqNum, last>>
    <2>1. Typed'
      BY <1>4, <1>6 DEF IInv, Typed
    <2>2. PendingInv' /\ EndReasonKnown'
      BY <1>1, <1>4, <1>6 DEF IInv, PendingInv, EndReasonKnown
    <2>3. QED
      BY <1>1, <2>1, <2>2 DEF IInv
  <1>7. QED
    BY <1>5, <1>6 DEF SetMeta

LEMMA QuitStep ==
  ASSUME IInv, ~quit, Quit
  PROVE  IInv' /\ ReportsFresh
  <1>1. session \in LinkSession /\ session.id = last /\ last \notin ended /\ last \in Nat \ {0}
    BY DEF IInv, Typed, PendingInv
  <1>2. /\ session' \in LinkSession /\ session'.id = last /\ session'.seq = session.seq
        /\ (session'.reason = session.reason \/ session'.reason = 4)
    BY <1>1 DEF Quit, LinkSession, Reasons
  <1>3. /\ quit' = TRUE
        /\ UNCHANGED <<bakSession, reportType, isSegStartReport, pSessionMeta, planType,
                      nSegSeqNum, nVideoDuration, mux, files, last>>
    BY DEF Quit, flags, meta, counts
  <1>4. started' = started /\ ended' \subseteq ended \union {last} /\ ReportsFresh
    <2> DEFINE r == Report(session', FALSE)
    <2>1. r.session.id = last /\ IsStart(r) = FALSE
      BY <1>2 DEF Report, IsStart
    <2>2. LinkUpdateSegment(<<r>>) \/ LinkUpdateSegment(<<>>)
      BY DEF Quit
    <2> HIDE DEF r
    <2>3. QED
      BY <1>1, <2>1, <2>2, OneReport, NoReport
  <1>5. Typed'
    BY <1>2, <1>3 DEF IInv, Typed
  <1>6. EndReasonKnown'
    BY <1>2, <1>3 DEF IInv, EndReasonKnown
  <1>7. 4 \in reportType /\ isSegStartReport => bakSession.id \notin ended'
    BY <1>4 DEF IInv, Typed, PendingInv, LinkSession
  <1>8. PendingInv'
    BY <1>1, <1>2, <1>3, <1>4, <1>7 DEF IInv, PendingInv
  <1>9. QED
    BY <1>4, <1>5, <1>6, <1>8 DEF IInv

-----------------------------------------------------------------------------
(* Every step, also one in which nothing happens: a report it makes is not *)
(* about an ended session, nor the second start of one.                    *)
LEMMA NextStep ==
  ASSUME IInv, [Next]_vars
  PROVE  IInv' /\ (ReportsFresh \/ UNCHANGED vars)
  <1>1. CASE UNCHANGED vars
    <2>1. UNCHANGED <<session, bakSession, reportType, isSegStartReport, nVideoDuration,
                      pSessionMeta, planType, nSegSeqNum, mux, files, last, started,
                      ended, quit>>
      BY <1>1 DEF vars, state, flags, meta, counts, hist
    <2>2. Typed'
      BY <2>1 DEF IInv, Typed
    <2>3. PendingInv' /\ EndReasonKnown'
      BY <2>1 DEF IInv, PendingInv, EndReasonKnown
    <2>4. QED
      BY <1>1, <2>2, <2>3 DEF IInv
  <1>2. CASE Next
    <2>1. ~quit
      BY <1>2 DEF Next
    <2>2. CASE Configure \/ ClrMeta \/ (\E p \in Plans : SetPlanType(p)) \/ Lost
      BY <2>1, <2>2, QuietStep
    <2>3. CASE TsStart
      BY <2>1, <2>3, TsStartStep
    <2>4. ASSUME NEW d \in Durations, TsEnd(d) \/ TsDrop(d)
          PROVE  IInv' /\ ReportsFresh
      <3>1. d \in Nat
        BY SessionAssumption
      <3>2. QED
        BY <2>1, <2>4, <3>1, TsEndStep, TsDropStep
    <2>5. ASSUME NEW ok \in BOOLEAN, TsUpload(ok)
          PROVE  IInv' /\ ReportsFresh
      BY <2>1, <2>5, TsUploadStep
    <2>6. CASE SegTime
      BY <2>1, <2>6, SegTimeStep
    <2>7. CASE SetMeta
      BY <2>1, <2>7, SetMetaStep
    <2>8. CASE Quit
      BY <2>1, <2>8, QuitStep
    <2>9. QED
      BY <1>2, <2>2, <2>3, <2>4, <2>5, <2>6, <2>7, <2>8 DEF Next
  <1>3. QED
    BY <1>1, <1>2

(* What the worker has pending (reportType, bakSession and the reason kept *)
(* in the new session) always fits what was reported before.               *)
THEOREM SessionInvariance == Spec => []IInv
  <1>1. IInv /\ [Next]_vars => IInv'
    BY NextStep
  <1>2. QED
    BY InitIInv, <1>1, PTL DEF Spec

(* Sessions, their file counters and end reasons stay within their types,  *)
(* through every mixture of forced, timed out and lost segments.           *)
THEOREM TypeCorrect == Spec => []TypeOK
  <1>1. IInv => TypeOK
    <2> SUFFICES ASSUME IInv PROVE TypeOK
      OBVIOUS
    <2>1. \A s \in {session, bakSession} :
            /\ s \in LinkSession /\ s.id <= last /\ s.seq <= files
      BY DEF IInv, Typed, PendingInv
    <2>2. last \in Nat /\ files \in Nat
      BY DEF IInv, Typed
    <2>3. \A s \in {session, bakSession} :
            /\ s.id \in 0 .. last /\ s.seq \in 0 .. files /\ s.reason \in Reasons
            /\ s.acc \in Int /\ s.avd \in Int /\ s.gap \in Int /\ s.dur \in Nat
      BY <2>1, <2>2 DEF LinkSession
    <2>4. QED
      BY <2>3 DEF IInv, Typed, PendingInv, ReportTypes, TypeOK
  <1>2. QED
    BY SessionInvariance, <1>1, PTL

(* bufferUpload's assertion on the reason of the end it reports never      *)
(* fails.                                                                  *)
THEOREM EndReasonAlwaysKnown == Spec => []EndReasonKnown
  <1>1. IInv => EndReasonKnown
    BY DEF IInv
  <1>2. QED
    BY SessionInvariance, <1>1, PTL

(* No LinkUpdateSegment of bufferUpload, LINK_TSU_SEG_TIME or              *)
(* LINK_TSU_QUIT is about a session whose end was reported before.         *)
THEOREM NothingFollowsEnd == Spec => NothingAfterEnd
  <1>1. IInv /\ [Next]_vars =>
          [\A i \in DOMAIN sent' : sent'[i].session.id \notin ended]_vars
    BY NextStep DEF ReportsFresh
  <1>2. QED
    BY SessionInvariance, <1>1, PTL DEF Spec, NothingAfterEnd

(* bufferUpload reports isNewSessionStarted at most once for a session.    *)
THEOREM StartReportedOnce == Spec => StartedOnce
  <1>1. IInv /\ [Next]_vars =>
          [\A i \in DOMAIN sent' :
             IsStart(sent'[i]) => sent'[i].session.id \notin started]_vars
    BY NextStep DEF ReportsFresh
  <1>2. QED
    BY SessionInvariance, <1>1, PTL DEF Spec, StartedOnce

-----------------------------------------------------------------------------
(* The durations.  A file that was ended and waits for its UPLOAD is still *)
(* part of the session's durations, also when the session began with it:   *)
(* what restoreDuration takes off is there.                                *)
DurationsKept ==
  /\ session.acc >= 0 /\ session.avd >= 0 /\ session.gap >= 0
  /\ mux = "ended" => /\ session.avd >= nVideoDuration /\ session.gap >= nVideoDuration
                      /\ session.acc >= session.dur

(* The sessions begun and not ended, but for the first.                    *)
Open == (started \ ended) \ {1}

(* Without forced segments and lost commands a session begins only in a    *)
(* file and when no other end is pending: only one can be open besides the *)
(* current one, and its end is what reportType asks for.                   *)
OpenKept ==
  /\ mux = "closed" => reportType = {} /\ ~firstSys
  /\ 4 \in reportType => session.seq = 0
  /\ Open # {} => isSegStartReport /\ ~isFirstSessionPicReported
  /\ \A i \in Open : i = session.id \/ (i = bakSession.id /\ 4 \in reportType)

AccountsInv ==
  /\ lost \in Nat /\ segs \in Nat
  /\ DurationsKept
  /\ lost = 0 /\ segs = 0 => OpenKept

LEMMA AccountsInit == Init => AccountsInv
  <1> SUFFICES ASSUME Init PROVE AccountsInv
    OBVIOUS
  <1>1. DurationsKept
    BY DEF Init, DurationsKept, ZeroSession
  <1>2. Open = {}
    BY DEF Init, Open
  <1>3. OpenKept
    BY <1>2 DEF Init, OpenKept
  <1>4. QED BY <1>1, <1>3 DEF Init, AccountsInv

(* The fields that are numbers.                                            *)
LEMMA Numbers ==
  ASSUME IInv
  PROVE  /\ session \in LinkSession /\ session.acc \in Int /\ session.avd \in Int
         /\ session.gap \in Int /\ session.dur \in Nat /\ nVideoDuration \in Nat
         /\ session.id = last /\ session.seq \in Nat /\ last \in Nat \ {0}
  BY DEF IInv, Typed, PendingInv, LinkSession

LEMMA NewDurations ==
  ASSUME NEW s \in LinkSession, NEW reason \in Reasons, s.gap >= 0, last \in Nat
  PROVE  LET n == NewSession(s, reason) IN
         /\ n.acc = s.dur /\ n.avd = s.gap /\ n.gap = s.gap /\ n.dur = s.dur
         /\ n.acc >= 0 /\ n.avd >= 0 /\ n.gap >= 0 /\ n.acc >= n.dur
  BY DEF NewSession, LinkSession

(* What restoreDuration takes off was there.                               *)
LEMMA RestoreKeeps ==
  ASSUME NEW s \in LinkSession, NEW d \in Nat,
         s.avd >= d, s.gap >= d, s.acc >= s.dur
  PROVE  LET r == RestoreDuration(s, d) IN r.acc >= 0 /\ r.avd >= 0 /\ r.gap >= 0
  <1>1. s.avd \in Int /\ s.gap \in Int /\ s.acc \in Int /\ s.dur \in Nat
    BY DEF LinkSession
  <1>2. /\ RestoreDuration(s, d).avd = s.avd - d
        /\ RestoreDuration(s, d).gap = s.gap - d
        /\ RestoreDuration(s, d).acc = s.acc - s.dur
    BY DEF RestoreDuration, LinkSession
  <1>3. QED BY <1>1, <1>2

LEMMA BufferDurations ==
  ASSUME NEW s \in LinkSession, NEW d \in Nat, NEW shouldUpload \in BOOLEAN, NEW ok \in BOOLEAN,
         BufferUpload(s, d, shouldUpload, ok), mux' = "closed",
         s.avd >= d, s.gap >= d, s.acc >= s.dur
  PROVE  DurationsKept'
  <1> DEFINE uploaded == shouldUpload /\ ok
             starts == shouldUpload /\ 1 \in reportType
             s1 == IF uploaded THEN s ELSE RestoreDuration(s, d)
             s2 == IF starts THEN [s1 EXCEPT !.seq = 1] ELSE s1
  <1>1. s.avd \in Int /\ s.gap \in Int /\ s.acc \in Int /\ s.dur \in Nat
    BY DEF LinkSession
  <1>2. s1 \in LinkSession /\ s1.acc >= 0 /\ s1.avd >= 0
    <2>1. s.acc >= 0 /\ s.avd >= 0
      BY <1>1
    <2>2. LET r == RestoreDuration(s, d) IN r \in LinkSession /\ r.acc >= 0 /\ r.avd >= 0
      BY RestoreKeeps, RestoreDurationTyped
    <2>3. QED BY <2>1, <2>2
  <1>3. session' = [s2 EXCEPT !.gap = 0, !.reason = 0]
    BY DEF BufferUpload
  <1> HIDE DEF s1
  <1>4. s2 \in LinkSession /\ s2.acc = s1.acc /\ s2.avd = s1.avd
    BY <1>2 DEF LinkSession
  <1> HIDE DEF s2
  <1>5. session'.acc = s2.acc /\ session'.avd = s2.avd /\ session'.gap = 0
    BY <1>3, <1>4 DEF LinkSession
  <1>6. QED BY <1>2, <1>4, <1>5 DEF DurationsKept

LEMMA DurationsStart ==
  ASSUME IInv, DurationsKept, TsStart
  PROVE  DurationsKept'
  <1> DEFINE s == [session EXCEPT !.gap = 0]
             t == [s EXCEPT !.seq = @ + 1]
  <1>1. /\ s \in LinkSession /\ s.gap = 0 /\ s.acc = session.acc /\ s.avd = session.avd
    BY Numbers DEF LinkSession
  <1>2. \/ ForcedSession(s)
        \/ CheckedSession(t, {})
        \/ CheckedSession(s, reportType)
    BY DEF TsStart
  <1>3. mux' = "open"
    BY DEF TsStart
  <1>4. s.seq = session.seq
    BY Numbers DEF LinkSession
  <1> HIDE DEF s
  <1>5. t \in LinkSession /\ t.gap = 0 /\ t.acc = session.acc /\ t.avd = session.avd
    BY <1>1, <1>4, Numbers DEF LinkSession
  <1> HIDE DEF t
  <1>6. ASSUME NEW u \in {s, t}, NEW reason \in {1, 2, 3}, session' = NewSession(u, reason)
        PROVE  DurationsKept'
    <2>1. reason \in Reasons /\ u \in LinkSession /\ u.gap >= 0 /\ last \in Nat
      BY <1>1, <1>5, <1>6, Numbers DEF Reasons
    <2>2. session'.acc >= 0 /\ session'.avd >= 0 /\ session'.gap >= 0
      BY <1>6, <2>1, NewDurations
    <2>3. QED BY <1>3, <2>2 DEF DurationsKept
  <1>7. ASSUME session' \in {s, t} PROVE DurationsKept'
    BY <1>1, <1>3, <1>5, <1>7 DEF DurationsKept
  <1>8. QED BY <1>2, <1>6, <1>7 DEF ForcedSession, CheckedSession

LEMMA DurationsStep ==
  ASSUME IInv, DurationsKept, [Next]_vars
  PROVE  DurationsKept'
  <1>1. ASSUME UNCHANGED <<session, nVideoDuration, mux>> PROVE DurationsKept'
    BY <1>1 DEF DurationsKept
  <1>2. CASE UNCHANGED vars
    BY <1>1, <1>2 DEF vars, state
  <1>3. CASE Configure \/ ClrMeta \/ (\E p \in Plans : SetPlanType(p))
    BY <1>1, <1>3 DEF Configure, ClrMeta, SetPlanType, state
  <1>4. CASE Lost
    <2>1. session' = session /\ (mux' = "ended" => mux = "ended")
      BY <1>4 DEF Lost, state
    <2>2. mux' # "ended"
      BY <1>4 DEF Lost
    <2>3. QED BY <2>1, <2>2 DEF DurationsKept
  <1>5. CASE TsStart
    BY <1>5, DurationsStart
  <1>6. ASSUME NEW d \in Durations, TsEnd(d) PROVE DurationsKept'
    <2>1. d \in Nat /\ session' = AddTs(session, d) /\ nVideoDuration' = d
      BY <1>6, SessionAssumption DEF TsEnd
    <2>2. /\ session'.avd = session.avd + d /\ session'.gap = session.gap + d
          /\ session'.acc = session.acc + d /\ session'.dur = d
      BY <2>1, Numbers DEF AddTs, LinkSession
    <2>3. QED BY <2>1, <2>2, Numbers DEF DurationsKept
  <1>7. ASSUME NEW d \in Durations, TsDrop(d) PROVE DurationsKept'
    <2> DEFINE s == AddTs(session, d)
    <2>1. d \in Nat /\ BufferUpload(s, d, FALSE, FALSE) /\ mux' = "closed"
      BY <1>7, SessionAssumption DEF TsDrop
    <2>2. /\ s.avd = session.avd + d /\ s.gap = session.gap + d
          /\ s.acc = session.acc + d /\ s.dur = d
      BY <2>1, Numbers DEF AddTs, LinkSession
    <2>3. s \in LinkSession
      BY <2>1, Numbers, AddTsTyped
    <2> HIDE DEF s
    <2>4. s.avd >= d /\ s.gap >= d /\ s.acc >= s.dur
      BY <2>1, <2>2, Numbers DEF DurationsKept
    <2>5. QED BY <2>1, <2>3, <2>4, BufferDurations
  <1>8. ASSUME NEW ok \in BOOLEAN, TsUpload(ok) PROVE DurationsKept'
    <2>1. /\ BufferUpload(session, nVideoDuration, ShouldUpload, ok)
          /\ mux' = "closed" /\ mux = "ended"
      BY <1>8 DEF TsUpload
    <2>2. ShouldUpload \in BOOLEAN
      BY DEF ShouldUpload
    <2>3. /\ session.avd >= nVideoDuration /\ session.gap >= nVideoDuration
          /\ session.acc >= session.dur
      BY <2>1 DEF DurationsKept
    <2>4. QED BY <2>1, <2>2, <2>3, Numbers, BufferDurations
  <1>9. ASSUME session' = NewSession(session, 3), UNCHANGED <<nVideoDuration, mux>>
        PROVE  DurationsKept'
    <2>1. 3 \in Reasons /\ session.gap >= 0 /\ last \in Nat
      BY Numbers DEF Reasons, DurationsKept
    <2>2. /\ session'.acc >= 0 /\ session'.avd >= 0 /\ session'.gap >= 0
          /\ session'.acc >= session'.dur /\ session'.avd = session.gap /\ session'.gap = session.gap
      BY <1>9, <2>1, Numbers, NewDurations
    <2>3. QED BY <1>9, <2>2 DEF DurationsKept
  <1>10. CASE SegTime
    BY <1>9, <1>10 DEF SegTime, ForcedSession
  <1>11. CASE SetMeta
    BY <1>1, <1>9, <1>11 DEF SetMeta, ForcedSession
  <1>12. CASE Quit
    <2>1. session' \in {session, [session EXCEPT !.reason = 4]} /\ UNCHANGED <<nVideoDuration, mux>>
      BY <1>12 DEF Quit
    <2>2. /\ session'.acc = session.acc /\ session'.avd = session.avd
          /\ session'.gap = session.gap /\ session'.dur = session.dur
      BY <2>1, Numbers DEF LinkSession
    <2>3. QED BY <2>1, <2>2 DEF DurationsKept
  <1>13. QED
    BY <1>2, <1>3, <1>4, <1>5, <1>6, <1>7, <1>8, <1>10, <1>11, <1>12 DEF Next

-----------------------------------------------------------------------------
(* The history after what bufferUpload reports.                            *)
LEMMA PairReports ==
  ASSUME NEW a, NEW b, NEW hasA \in BOOLEAN, NEW hasB \in BOOLEAN,
         LinkUpdateSegment((IF hasA THEN <<a>> ELSE <<>>) \o (IF hasB THEN <<b>> ELSE <<>>))
  PROVE  /\ started' = started \union (IF hasA /\ IsStart(a) THEN {a.session.id} ELSE {})
                             \union (IF hasB /\ IsStart(b) THEN {b.session.id} ELSE {})
         /\ ended' = ended \union (IF hasA /\ IsEnd(a) THEN {a.session.id} ELSE {})
                         \union (IF hasB /\ IsEnd(b) THEN {b.session.id} ELSE {})
  <1>1. CASE hasA /\ hasB
    <2>1. LinkUpdateSegment(<<a, b>>)
      BY <1>1, ConcatReports
    <2>2. QED BY <1>1, <2>1, TwoReports
  <1>2. CASE hasA /\ ~hasB
    <2>1. LinkUpdateSegment(<<a>>)
      BY <1>2, ConcatReports
    <2>2. QED BY <1>2, <2>1, OneReport
  <1>3. CASE ~hasA /\ hasB
    <2>1. LinkUpdateSegment(<<b>>)
      BY <1>3, ConcatReports
    <2>2. QED BY <1>3, <2>1, OneReport
  <1>4. CASE ~hasA /\ ~hasB
    <2>1. <<>> \o <<>> = <<>>
      OBVIOUS
    <2>2. LinkUpdateSegment(<<>>)
      BY <1>4, <2>1
    <2>3. QED BY <1>4, <2>2, NoReport
  <1>5. QED BY <1>1, <1>2, <1>3, <1>4

(* bufferUpload ends what is pending, and knows a start it reports.        *)
LEMMA BufferOpen ==
  ASSUME IInv, OpenKept, ~quit, NEW s \in LinkSession, s.id = last, s.reason = session.reason,
         NEW d \in Nat, NEW shouldUpload \in BOOLEAN, NEW ok \in BOOLEAN,
         BufferUpload(s, d, shouldUpload, ok), mux' = "closed"
  PROVE  OpenKept'
  <1> DEFINE uploaded == shouldUpload /\ ok
             ends == isSegStartReport /\ 4 \in reportType
             starts == shouldUpload /\ 1 \in reportType
             s1 == IF uploaded THEN s ELSE RestoreDuration(s, d)
             s2 == IF starts THEN [s1 EXCEPT !.seq = 1] ELSE s1
             bak == [bakSession EXCEPT !.reason = s.reason]
             hasB == starts \/ (uploaded /\ 2 \in reportType)
             a == Report(bak, FALSE)
             b == IF starts THEN Report(s2, TRUE) ELSE Report(s2, FALSE)
  <1>1. s1 \in LinkSession /\ s1.id = last
    BY RestoreDurationTyped
  <1>2. /\ LinkUpdateSegment((IF ends THEN <<a>> ELSE <<>>) \o (IF hasB THEN <<b>> ELSE <<>>))
        /\ session' = [s2 EXCEPT !.gap = 0, !.reason = 0]
        /\ reportType' = {} /\ firstSys' = FALSE /\ isFirstSessionPicReported' = FALSE
        /\ isSegStartReport' = (starts \/ (isSegStartReport /\ ~ends))
    BY DEF BufferUpload
  <1>3. bakSession \in LinkSession /\ session.id = last /\ reportType \in ReportTypes
    BY DEF IInv, Typed, PendingInv
  <1>4. bak.id = bakSession.id /\ bak.reason = session.reason
    BY <1>3 DEF LinkSession
  <1> HIDE DEF s1, bak
  <1>5. s2 \in LinkSession /\ s2.id = last
    BY <1>1 DEF LinkSession
  <1> HIDE DEF s2
  <1>6. session'.id = last
    BY <1>2, <1>5 DEF LinkSession
  <1>7. /\ a.session.id = bakSession.id /\ IsStart(a) = FALSE
        /\ IsEnd(a) = (session.reason # 0)
        /\ b.session.id = last /\ IsStart(b) = starts
    BY <1>4, <1>5 DEF Report, IsStart, IsEnd
  <1> HIDE DEF a, b, uploaded
  <1>8. starts \in BOOLEAN /\ ends \in BOOLEAN /\ hasB \in BOOLEAN
    BY DEF IInv, Typed
  <1>9. ends => session.reason # 0
    BY DEF IInv, EndReasonKnown
  <1>10. /\ started' \subseteq started \union (IF starts THEN {last} ELSE {})
         /\ ended \union (IF ends THEN {bakSession.id} ELSE {}) \subseteq ended'
    <2> HIDE DEF starts, ends, hasB
    <2>1. /\ started' = started \union (IF ends /\ IsStart(a) THEN {a.session.id} ELSE {})
                             \union (IF hasB /\ IsStart(b) THEN {b.session.id} ELSE {})
          /\ ended' = ended \union (IF ends /\ IsEnd(a) THEN {a.session.id} ELSE {})
                         \union (IF hasB /\ IsEnd(b) THEN {b.session.id} ELSE {})
      BY <1>2, <1>8, PairReports
    <2>2. QED BY <1>7, <1>8, <1>9, <2>1
  <1>11. 1 \in reportType => last \notin started
    BY DEF IInv, PendingInv
  <1>12. 4 \in reportType => 1 \in reportType
    BY <1>3 DEF ReportTypes
  <1>13. ASSUME NEW i \in Open'
         PROVE  i = last /\ isSegStartReport'
    <2>1. CASE i \in Open
      <3>1. isSegStartReport /\ (i = last \/ (i = bakSession.id /\ 4 \in reportType))
        BY <1>3, <2>1 DEF OpenKept
      <3>2. i \notin ended' /\ i \in started
        BY <1>13, <2>1 DEF Open
      <3>3. i = last
        BY <1>10, <3>1, <3>2
      <3>4. 4 \notin reportType
        BY <1>11, <1>12, <3>2, <3>3
      <3>5. QED BY <1>2, <3>1, <3>3, <3>4
    <2>2. CASE i \notin Open
      <3>1. i \in started' /\ i \notin ended' /\ i # 1
        BY <1>13 DEF Open
      <3>2. i \notin started
        BY <1>10, <2>2, <3>1 DEF Open
      <3>3. QED BY <1>2, <1>10, <3>1, <3>2
    <2>3. QED BY <2>1, <2>2
  <1>14. QED BY <1>2, <1>6, <1>13 DEF OpenKept

LEMMA StartOpen ==
  ASSUME IInv, OpenKept, TsStart
  PROVE  OpenKept'
  <1> DEFINE s == [session EXCEPT !.gap = 0]
             t == [s EXCEPT !.seq = @ + 1]
  <1>1. started' = started /\ ended' = ended
    BY NoReport DEF TsStart
  <1>2. Open' = Open
    BY <1>1 DEF Open
  <1>3. reportType = {} /\ mux' = "open" /\ UNCHANGED <<isSegStartReport, isFirstSessionPicReported>>
    BY DEF TsStart, OpenKept
  <1>4. \A i \in Open : i = last
    BY <1>3, Numbers DEF OpenKept
  <1>5. s \in LinkSession /\ s.id = last /\ s.seq \in Nat
    BY Numbers DEF LinkSession
  <1>6. bakSession' = s /\ (ForcedSession(s) \/ CheckedSession(t, {}))
    BY <1>3 DEF TsStart
  <1> HIDE DEF s
  <1>7. t \in LinkSession /\ t.id = last
    BY <1>5 DEF LinkSession
  <1> HIDE DEF t
  <1>8. ASSUME NEW u \in {s, t}, NEW reason \in {1, 2, 3}, session' = NewSession(u, reason)
        PROVE  session'.seq = 0
    BY <1>8 DEF NewSession
  <1>9. CASE 4 \in reportType' /\ session'.seq = 0
    BY <1>2, <1>3, <1>4, <1>5, <1>6, <1>9 DEF OpenKept
  <1>10. CASE session' = t /\ reportType' \in {{}, {2}}
    BY <1>2, <1>3, <1>4, <1>7, <1>10 DEF OpenKept
  <1>11. QED BY <1>6, <1>8, <1>9, <1>10 DEF ForcedSession, CheckedSession

LEMMA SetMetaOpen ==
  ASSUME IInv, OpenKept, SetMeta
  PROVE  OpenKept'
  <1> DEFINE bak == [session EXCEPT !.seq = IF @ > 1 THEN @ - 1 ELSE @]
  <1>1. started' = started /\ ended' = ended
    BY NoReport DEF SetMeta
  <1>2. Open' = Open
    BY <1>1 DEF Open
  <1>3. /\ Open # {} => isSegStartReport' /\ ~isFirstSessionPicReported'
        /\ mux' = mux /\ firstSys' = firstSys
    BY DEF SetMeta, SegStartKnown, ForgetFirstSession, OpenKept
  <1>4. bak.id = last
    BY Numbers DEF LinkSession
  <1>5. CASE /\ firstSys /\ session.seq > 0
             /\ ForcedSession(session) /\ bakSession' = bak
    <2>1. 4 \notin reportType
      BY <1>5 DEF OpenKept
    <2>2. \A i \in Open : i = last
      BY <2>1, Numbers DEF OpenKept
    <2>3. reportType' = {1, 4} /\ session'.seq = 0
      BY <1>5 DEF ForcedSession, NewSession
    <2>4. mux' # "closed"
      BY <1>3, <1>5 DEF OpenKept
    <2>5. QED BY <1>2, <1>3, <1>4, <1>5, <2>2, <2>3, <2>4 DEF OpenKept
  <1>6. CASE UNCHANGED <<session, bakSession, reportType, nSegSeqNum, last>>
    BY <1>2, <1>3, <1>6 DEF OpenKept
  <1>7. QED BY <1>5, <1>6 DEF SetMeta

LEMMA OpenStep ==
  ASSUME IInv, lost \in Nat, segs \in Nat, lost = 0 /\ segs = 0 => OpenKept, [Next]_vars
  PROVE  /\ lost' \in Nat /\ segs' \in Nat
         /\ lost' = 0 /\ segs' = 0 => OpenKept'
  <1>1. CASE SegTime \/ Lost
    BY <1>1 DEF SegTime, Lost
  <1>2. CASE ~(SegTime \/ Lost)
    <2>1. lost' = lost /\ segs' = segs
      BY <1>2 DEF Next, Configure, TsStart, TsEnd, TsUpload, TsDrop, SetMeta, ClrMeta, SetPlanType,
                  Quit, counts, vars
    <2>2. SUFFICES ASSUME OpenKept PROVE OpenKept'
      BY <2>1
    <2>3. ASSUME UNCHANGED <<session, bakSession, reportType, isSegStartReport,
                             isFirstSessionPicReported, firstSys, mux>>,
                 started' = started, ended \subseteq ended'
          PROVE  OpenKept'
      <3>1. Open' \subseteq Open
        BY <2>3 DEF Open
      <3>2. QED BY <2>2, <2>3, <3>1 DEF OpenKept
    <2>4. CASE UNCHANGED vars
      BY <2>3, <2>4 DEF vars, state, flags, hist
    <2>5. CASE Configure \/ \E p \in Plans : SetPlanType(p)
      <3>1. started' = started /\ ended' = ended
        BY <2>5, NoReport DEF Configure, SetPlanType
      <3>2. QED BY <2>3, <2>5, <3>1 DEF Configure, SetPlanType, state, flags
    <2>6. CASE ClrMeta
      <3>1. started' = started /\ ended' = ended
        BY <2>6, NoReport DEF ClrMeta
      <3>2. Open' = Open
        BY <3>1 DEF Open
      <3>3. QED BY <2>2, <2>6, <3>2 DEF ClrMeta, OpenKept, SegStartKnown, ForgetFirstSession
    <2>7. ASSUME NEW d \in Durations, TsEnd(d) PROVE OpenKept'
      <3>1. started' = started /\ ended' = ended
        BY <2>7, NoReport DEF TsEnd
      <3>2. Open' = Open
        BY <3>1 DEF Open
      <3>3. d \in Nat /\ session' = AddTs(session, d)
        BY <2>7, SessionAssumption DEF TsEnd
      <3>4. session'.id = session.id /\ session'.seq = session.seq
        BY <3>3, Numbers, AddTsTyped
      <3>5. QED BY <2>2, <2>7, <3>2, <3>4 DEF TsEnd, OpenKept
    <2>8. ASSUME NEW d \in Durations, TsDrop(d), ~quit PROVE OpenKept'
      <3> DEFINE s == AddTs(session, d)
      <3>1. d \in Nat /\ BufferUpload(s, d, FALSE, FALSE) /\ mux' = "closed"
        BY <2>8, SessionAssumption DEF TsDrop
      <3>2. s \in LinkSession /\ s.id = last /\ s.reason = session.reason
        BY <3>1, Numbers, AddTsTyped
      <3> HIDE DEF s
      <3>3. QED BY <2>2, <2>8, <3>1, <3>2, BufferOpen
    <2>9. ASSUME NEW ok \in BOOLEAN, TsUpload(ok), ~quit PROVE OpenKept'
      <3>1. BufferUpload(session, nVideoDuration, ShouldUpload, ok) /\ mux' = "closed"
        BY <2>9 DEF TsUpload
      <3>2. ShouldUpload \in BOOLEAN
        BY DEF ShouldUpload
      <3>3. QED BY <2>2, <2>9, <3>1, <3>2, Numbers, BufferOpen
    <2>10. CASE Quit
      <3> DEFINE r == Report(session', FALSE)
      <3>1. LinkUpdateSegment(<<r>>) \/ LinkUpdateSegment(<<>>)
        BY <2>10 DEF Quit
      <3>2. IsStart(r) = FALSE
        BY DEF Report, IsStart
      <3> HIDE DEF r
      <3>3. started' = started /\ ended \subseteq ended'
        BY <3>1, <3>2, OneReport, NoReport
      <3>4. Open' \subseteq Open
        BY <3>3 DEF Open
      <3>5. session'.id = session.id /\ session'.seq = session.seq
        BY <2>10, Numbers DEF Quit, LinkSession
      <3>6. UNCHANGED <<bakSession, reportType, isSegStartReport, isFirstSessionPicReported,
                        firstSys, mux>>
        BY <2>10 DEF Quit, flags
      <3>7. QED BY <2>2, <3>4, <3>5, <3>6 DEF OpenKept
    <2>11. QED
      BY <1>2, <2>2, <2>4, <2>5, <2>6, <2>7, <2>8, <2>9, <2>10, StartOpen, SetMetaOpen DEF Next
  <1>3. QED BY <1>1, <1>2

(* Every session that began ends, or its end is asked for, and no duration *)
(* goes below zero: restoreDuration and handNewSession take from a session *)
(* no more than was added to it, in whatever order they come.              *)
THEOREM AccountsKept == Spec => []AccountsHold
  <1>1. IInv /\ AccountsInv /\ [Next]_vars => AccountsInv'
    BY DurationsStep, OpenStep DEF AccountsInv
  <1>2. AccountsInv => AccountsHold
    BY DEF AccountsInv, AccountsHold, NoSessionLeftOpen, DurationsNonNegative, DurationsKept,
           OpenKept, Open
  <1>3. QED BY <1>1, <1>2, AccountsInit, SessionInvariance, PTL DEF Spec
=============================================================================
