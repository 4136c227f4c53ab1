-------------------------- MODULE SegmentUsersProofs --------------------------
(***************************************************************************)
(* The handles of SegmentMgr, for any number of handles and uploaders, any *)
(* capacity of the queue and any number of reports: whose they are, what   *)
(* is added up for them, and what is posted when.                          *)
(***************************************************************************)
EXTENDS SegmentUsers, SequenceTheorems, TLAPS

Ids == Uploaders \X (Nat \ {0})
Sessions(I) == [id : I, reason : {0, 1, 4}, acc : Nat, avd : Nat, gap : Nat]
Updates == [op : {"UPDATE"}, h : Handle, session : Sessions(Ids), isNew : BOOLEAN]
Releases == [op : {"RELEASE"}, h : Handle]
Cmds == Updates \cup Releases \cup {Quit, Timeout}

HandleStates ==
  [used : BOOLEAN, ttl : BOOLEAN, next : BOOLEAN, tmp : Sessions(Ids \cup {<<>>})]
UserStates ==
  [life : {"none", "new", "live", "failed", "stopped", "released"},
   seg : Handle \cup {-1}, n : Nat, open : BOOLEAN, avd : Nat]

Typed ==
  /\ handles \in [Handle -> HandleStates]
  /\ pSegQueue_ \in Seq(Cmds) /\ Len(pSegQueue_) <= Cap
  /\ nQuit_ \in BOOLEAN /\ nLen_ \in 0 .. Cap /\ idx \in 0 .. NHandles
  /\ segInfo \in Cmds
  /\ mgrPc \in {"test", "pop", "handle", "ttl", "done"}
  /\ uninitPc \in {"idle", "push", "join", "done"}
  /\ user \in [Uploaders -> UserStates]
  /\ owner \in [Handle -> Uploaders \cup {"none"}]
  /\ given \in [Handle -> Nat] /\ sum \in [Handle -> Nat]
  /\ disturbed \in [Handle -> BOOLEAN]
  /\ ended \subseteq Ids
  /\ reports \in Nat

Places ==
  /\ \A h \in Handle : owner[h] # "none" <=> handles[h].used
  /\ mgrPc = "ttl" => segInfo.op \in {"QUIT", "TIMEOUT"}
  /\ uninitPc = "done" => mgrPc = "done" /\ pSegQueue_ = <<>>

(* What the uploaders have said and the manager has not handled.           *)
Pending == IF mgrPc = "handle" THEN <<segInfo>> \o pSegQueue_ ELSE pSegQueue_

IsUpdate(c) == c.op = "UPDATE"
By(c) == c.session.id[1]
Nth(c) == c.session.id[2]
Ends(c) == ~c.isNew /\ c.session.reason # 0
Segment(c) == ~c.isNew /\ c.session.reason = 0

-----------------------------------------------------------------------------
(* A handle has an owner who knows it, from its creation until its RELEASE *)
(* is handled; there is one RELEASE, and nothing of the owner behind it.   *)
Owned ==
  /\ \A h \in Handle : owner[h] # "none" =>
       /\ user[owner[h]].seg = h
       /\ user[owner[h]].life \in {"live", "stopped", "released"}
  /\ \A u \in Uploaders :
       /\ user[u].life \in {"live", "stopped"} => user[u].seg \in Handle /\ owner[user[u].seg] = u
       /\ user[u].life \in {"none", "new", "failed"} => user[u].seg = -1

ReleaseLast(p) ==
  \A i \in 1 .. Len(p) : p[i].op = "RELEASE" =>
    /\ owner[p[i].h] # "none" /\ user[owner[p[i].h]].life = "released"
    /\ \A j \in 1 .. Len(p) :
         /\ p[j].op = "RELEASE" /\ p[j].h = p[i].h => i = j
         /\ IsUpdate(p[j]) /\ p[j].h = p[i].h /\ By(p[j]) = owner[p[i].h] => j < i

Kept(p) ==
  \A i \in 1 .. Len(p) :
    IsUpdate(p[i]) /\ user[By(p[i])].seg = p[i].h => owner[p[i].h] = By(p[i])

-----------------------------------------------------------------------------
(* The reports of an uploader are in the order of its sessions, and those  *)
(* of a session end with its end.  Fits: a report c as its uploader, in    *)
(* state u, made it, and with sessions e ended; Before: a report of the    *)
(* same uploader in front of another one.                                  *)
Fits(c, u, e) ==
  /\ Nth(c) <= u.n
  /\ Nth(c) >= 2 => c.h = u.seg
  /\ Nth(c) = 1 => c.h = 0 \/ (c.h = u.seg /\ Ends(c))
  /\ c.session.id \notin e
  /\ u.open /\ Ends(c) => Nth(c) # u.n
  /\ u.life = "new" => c.isNew
  /\ c.isNew /\ Nth(c) = 1 => c.session.gap = 0
  /\ ~c.isNew /\ (c.session.avd <= 0 \/ c.session.reason # 0) => c.session.gap = 0

Before(c, d) ==
  /\ Nth(c) <= Nth(d)
  /\ d.isNew => Nth(c) < Nth(d)
  /\ Ends(c) => Nth(c) # Nth(d)

Reports(p) ==
  /\ \A i \in 1 .. Len(p) : IsUpdate(p[i]) => Fits(p[i], user[By(p[i])], ended)
  /\ \A i, j \in 1 .. Len(p) :
       i < j /\ IsUpdate(p[i]) /\ IsUpdate(p[j]) /\ By(p[i]) = By(p[j]) => Before(p[i], p[j])

Users ==
  /\ \A u \in Uploaders :
       /\ user[u].life = "none" => user[u].n = 0 /\ user[u].avd = 0
       /\ user[u].n = 0 => ~user[u].open
       /\ user[u].life = "new" => user[u].n <= 1 /\ user[u].avd = 0
       /\ user[u].open => user[u].n >= 1 /\ <<u, user[u].n>> \notin ended
  /\ \A x \in ended : x[2] <= user[x[1]].n

-----------------------------------------------------------------------------
(* On a handle that its owner alone uses, nothing of a session is waiting  *)
(* in tmpSession when the next one replaces it.  Of the commands p, Mine   *)
(* are those of owner o for its handle h; g waits in tmpSession.  Clear:   *)
(* in front of place j, what waits was reported or there was nothing.      *)
Mine(c, h, o) == IsUpdate(c) /\ c.h = h /\ By(c) = o
Zeroes(c) == IF c.isNew THEN c.session.gap = 0 ELSE c.session.reason # 0
Replaces(c) == c.isNew \/ c.session.avd <= 0

Clear(p, h, o, g, j) ==
  /\ \A i \in 1 .. j - 1 : Mine(p[i], h, o) /\ ~Zeroes(p[i]) =>
       \E k \in i + 1 .. j - 1 : Mine(p[k], h, o) /\ Zeroes(p[k])
  /\ g # 0 => \E k \in 1 .. j - 1 : Mine(p[k], h, o) /\ Zeroes(p[k])

ClearWhenReplaced(p, h, o, g) ==
  \A j \in 1 .. Len(p) : Mine(p[j], h, o) /\ Replaces(p[j]) => Clear(p, h, o, g, j)

(* Uploader u may start a session next, or has reported nothing of this    *)
(* one to handle h.                                                        *)
Settled(h, u) == u.life = "live" /\ (~u.open \/ u.avd = 0 \/ (u.n = 1 /\ h # 0))

SumsKept(h, p) ==
  LET o == owner[h]
      g == handles[h].tmp.gap
  IN
  /\ sum[h] + g = given[h]
  /\ ClearWhenReplaced(p, h, o, g)
  /\ uninitPc = "idle" /\ Settled(h, user[o]) => Clear(p, h, o, g, Len(p) + 1)

(* tmpSession, with identity id, is of the session x once the commands in  *)
(* front of place j are handled.                                           *)
Holds(p, h, o, id, x, j) ==
  \/ id = x
  \/ id = <<>> /\ x[2] = 1
  \/ \E i \in 1 .. j - 1 : Mine(p[i], h, o) /\ p[i].isNew /\ p[i].session.id = x

HoldsSegments(p, h, o, id) ==
  \A j \in 1 .. Len(p) : Mine(p[j], h, o) /\ Segment(p[j]) => Holds(p, h, o, id, p[j].session.id, j)

OlderThanStarts(p, h, o, id) ==
  \A j \in 1 .. Len(p) : Mine(p[j], h, o) /\ p[j].isNew /\ id # <<>> => id[2] < Nth(p[j])

InSession(h, u) == u.life = "live" /\ u.open /\ (u.n = 1 => h = 0)

TmpKept(h, p) ==
  LET o == owner[h]
      id == handles[h].tmp.id
  IN
  /\ id # <<>> => id[1] = o /\ id[2] <= user[o].n /\ (id[2] = 1 => h = 0)
  /\ id \in ended => handles[h].tmp.gap = 0
  /\ OlderThanStarts(p, h, o, id)
  /\ HoldsSegments(p, h, o, id)
  /\ uninitPc = "idle" /\ InSession(h, user[o]) => Holds(p, h, o, id, <<o, user[o].n>>, Len(p) + 1)

Undisturbed(h) == handles[h].used /\ ~disturbed[h]

SumsBounded == \A h \in Handle : handles[h].used => sum[h] + handles[h].tmp.gap <= given[h]
SumsInv == \A h \in Handle : Undisturbed(h) => SumsKept(h, Pending)
TmpInv == \A h \in Handle : Undisturbed(h) => TmpKept(h, Pending)

-----------------------------------------------------------------------------
(* QUIT is the last command, and its TTL pass the last one.                *)
Flushed(g) == g.used => g.tmp.gap <= 0 \/ g.tmp.acc <= 0

QuitLast ==
  /\ \A i \in 1 .. Len(pSegQueue_) : pSegQueue_[i].op = "QUIT" =>
       uninitPc = "join" /\ i = Len(pSegQueue_)
  /\ uninitPc # "idle" => nQuit_
  /\ segInfo.op = "QUIT" =>
       /\ uninitPc \in {"join", "done"} /\ pSegQueue_ = <<>>
       /\ mgrPc # "pop"
       /\ mgrPc # "handle" => nLen_ = 0
       /\ mgrPc = "ttl" => \A h \in Handle : h < idx => Flushed(handles[h])
       /\ mgrPc \in {"test", "done"} => \A h \in Handle : Flushed(handles[h])

UsersInv ==
  /\ Typed /\ Places /\ Owned /\ ReleaseLast(Pending) /\ Kept(Pending)
  /\ Users /\ Reports(Pending)
  /\ SumsBounded /\ SumsInv /\ TmpInv /\ QuitLast

-----------------------------------------------------------------------------
(* The outcomes of a post.                                                 *)
LEMMA ReportedType ==
  ASSUME NEW g \in HandleStates, NEW s \in Sessions(Ids \cup {<<>>}), NEW ttlSet \in BOOLEAN
  PROVE  /\ Reported(g, s, ttlSet) \in HandleStates
         /\ Reported(g, s, ttlSet).used = g.used
         /\ Reported(g, s, ttlSet).tmp.id = g.tmp.id
         /\ Reported(g, s, ttlSet).tmp.acc = g.tmp.acc
         /\ Reported(g, s, ttlSet).tmp.gap = g.tmp.gap
  BY DEF Reported, HandleStates, Sessions

LEMMA SumUpOut ==
  ASSUME NEW g \in HandleStates, NEW s \in Sessions(Ids), NEW out \in SumUp(g, s)
  PROVE  /\ out.g \in HandleStates
         /\ out.g.used = g.used /\ out.g.tmp.id = g.tmp.id
         /\ \/ /\ out.post = <<>> /\ out.g.tmp.gap = g.tmp.gap + s.gap
               /\ s.reason = 0
            \/ out.post = <<>> /\ out.g.tmp.gap = 0 /\ s.avd <= 0
            \/ /\ out.post = Post(segInfo.h, [s EXCEPT !.gap = s.gap + g.tmp.gap])
               /\ out.g.tmp.gap = 0 /\ s.avd > 0
  <1> DEFINE t == [g.tmp EXCEPT !.avd = s.avd]
             total == s.gap + g.tmp.gap
             report == [s EXCEPT !.gap = total]
             cleared == [g EXCEPT !.tmp = [t EXCEPT !.gap = 0]]
             kept == [g EXCEPT !.tmp = [t EXCEPT !.gap = total]]
  <1>0. g.tmp \in Sessions(Ids \cup {<<>>}) /\ s \in Sessions(Ids \cup {<<>>})
    BY DEF HandleStates, Sessions
  <1>1. total \in Nat /\ total = g.tmp.gap + s.gap /\ s.avd \in Nat
    BY <1>0 DEF Sessions
  <1>2. t \in Sessions(Ids \cup {<<>>}) /\ t.id = g.tmp.id
    BY <1>0, <1>1 DEF Sessions
  <1>3. report \in Sessions(Ids \cup {<<>>})
    BY <1>0, <1>1 DEF Sessions
  <1>4. /\ [t EXCEPT !.gap = 0] \in Sessions(Ids \cup {<<>>}) /\ [t EXCEPT !.gap = 0].id = g.tmp.id
        /\ [t EXCEPT !.gap = 0].gap = 0
        /\ [t EXCEPT !.gap = total] \in Sessions(Ids \cup {<<>>})
        /\ [t EXCEPT !.gap = total].id = g.tmp.id /\ [t EXCEPT !.gap = total].gap = total
    BY <1>1, <1>2 DEF Sessions
  <1> HIDE DEF t
  <1>5. /\ cleared \in HandleStates /\ cleared.used = g.used
        /\ cleared.tmp.id = g.tmp.id /\ cleared.tmp.gap = 0
        /\ kept \in HandleStates /\ kept.used = g.used
        /\ kept.tmp.id = g.tmp.id /\ kept.tmp.gap = total
    BY <1>4 DEF HandleStates
  <1>6. \/ s.reason = 0 /\ out = [g |-> kept, post |-> <<>>]
        \/ s.avd <= 0 /\ out = [g |-> cleared, post |-> <<>>]
        \/ s.avd > 0 /\ \E ttlSet \in BOOLEAN :
             out = [g |-> Reported(cleared, report, ttlSet), post |-> Post(segInfo.h, report)]
    BY <1>1 DEF SumUp, t
  <1> HIDE DEF cleared, kept, total, report
  <1>7. CASE s.reason = 0 /\ out = [g |-> kept, post |-> <<>>]
    BY <1>1, <1>5, <1>7
  <1>8. CASE s.avd <= 0 /\ out = [g |-> cleared, post |-> <<>>]
    BY <1>5, <1>8
  <1>9. CASE s.avd > 0 /\ \E ttlSet \in BOOLEAN :
               out = [g |-> Reported(cleared, report, ttlSet), post |-> Post(segInfo.h, report)]
    <2>1. PICK ttlSet \in BOOLEAN :
            out = [g |-> Reported(cleared, report, ttlSet), post |-> Post(segInfo.h, report)]
      BY <1>9
    <2>2. out.g = Reported(cleared, report, ttlSet) /\ out.post = Post(segInfo.h, report)
      BY <2>1
    <2>3. /\ Reported(cleared, report, ttlSet) \in HandleStates
          /\ Reported(cleared, report, ttlSet).used = cleared.used
          /\ Reported(cleared, report, ttlSet).tmp.id = cleared.tmp.id
          /\ Reported(cleared, report, ttlSet).tmp.gap = cleared.tmp.gap
      BY <1>3, <1>5, ReportedType
    <2>4. QED BY <2>2, <2>3, <1>5, <1>9 DEF report, total
  <1>10. QED BY <1>6, <1>7, <1>8, <1>9

LEMMA FlushOut ==
  ASSUME NEW g \in HandleStates, NEW h, NEW out \in Flush(h, g)
  PROVE  /\ out.g \in HandleStates
         /\ out.g.used = g.used /\ out.g.tmp.id = g.tmp.id /\ out.g.tmp.acc = g.tmp.acc
         /\ \/ out.post = <<>> /\ out.g = g /\ (g.tmp.acc <= 0 \/ g.tmp.gap <= 0)
            \/ out.post = Post(h, g.tmp) /\ out.g.tmp.gap = 0 /\ g.tmp.gap > 0
  <1>0. g.tmp \in Sessions(Ids \cup {<<>>}) /\ g.tmp.gap \in Nat
    BY DEF HandleStates, Sessions
  <1>1. CASE g.tmp.acc <= 0 \/ g.tmp.gap <= 0
    <2>1. out = [g |-> g, post |-> <<>>]
      BY <1>1 DEF Flush
    <2>2. QED BY <1>1, <2>1
  <1>2. CASE ~(g.tmp.acc <= 0 \/ g.tmp.gap <= 0)
    <2>1. PICK ttlSet \in BOOLEAN :
            LET r == Reported(g, g.tmp, ttlSet) IN
            out = [g |-> [r EXCEPT !.next = r.ttl, !.tmp.gap = 0], post |-> Post(h, g.tmp)]
      BY <1>2 DEF Flush
    <2> DEFINE r == Reported(g, g.tmp, ttlSet)
    <2>2. /\ r \in HandleStates /\ r.used = g.used
          /\ r.tmp.id = g.tmp.id /\ r.tmp.acc = g.tmp.acc
      BY <1>0, ReportedType
    <2>3. out = [g |-> [r EXCEPT !.next = r.ttl, !.tmp.gap = 0], post |-> Post(h, g.tmp)]
      BY <2>1
    <2> HIDE DEF r
    <2>4. /\ out.g \in HandleStates /\ out.g.used = r.used
          /\ out.g.tmp.id = r.tmp.id /\ out.g.tmp.acc = r.tmp.acc /\ out.g.tmp.gap = 0
      BY <2>2, <2>3 DEF HandleStates, Sessions
    <2>5. QED BY <1>0, <1>2, <2>2, <2>3, <2>4
  <1>3. QED BY <1>1, <1>2

-----------------------------------------------------------------------------
(* Types.                                                                  *)
LEMMA ConstTypes == NHandles \in Nat \ {0} /\ Cap \in Nat \ {0}
  BY SegmentAssumption

LEMMA NoneIsNoUser == "none" \notin Uploaders
  BY UsersAssumption

LEMMA CommandTypes ==
  ASSUME NEW c \in Cmds
  PROVE  /\ c.op \in {"UPDATE", "RELEASE", "QUIT", "TIMEOUT"}
         /\ c.op = "UPDATE" => c \in Updates
         /\ c.op = "RELEASE" => c \in Releases
  BY DEF Cmds, Updates, Releases, Quit, Timeout

LEMMA UpdateTypes ==
  ASSUME NEW c \in Updates
  PROVE  /\ c.op = "UPDATE" /\ c.h \in Handle /\ c.isNew \in BOOLEAN
         /\ c.session \in Sessions(Ids) /\ c.session.id \in Ids
         /\ By(c) \in Uploaders /\ Nth(c) \in Nat /\ Nth(c) >= 1
         /\ c.session.id = <<By(c), Nth(c)>>
         /\ c.session.gap \in Nat /\ c.session.avd \in Nat
         /\ c.session.reason \in {0, 1, 4}
  BY DEF Updates, Sessions, Ids, By, Nth

LEMMA SessionType ==
  ASSUME NEW u \in Uploaders, NEW n \in Nat, n >= 1, NEW r \in {0, 1, 4},
         NEW a \in Nat, NEW d \in Nat, NEW gap \in Nat, NEW h \in Handle, NEW isNew \in BOOLEAN
  PROVE  /\ Update(h, Session(<<u, n>>, r, a, d, gap), isNew) \in Updates
         /\ Update(h, Session(<<u, n>>, r, a, d, gap), isNew) \in Cmds
  <1>1. Session(<<u, n>>, r, a, d, gap) \in Sessions(Ids)
    BY DEF Session, Sessions, Ids
  <1>2. QED BY <1>1 DEF Update, Updates, Cmds

LEMMA PendingType ==
  Typed => /\ Pending \in Seq(Cmds) /\ Len(Pending) \in Nat
           /\ \A i \in 1 .. Len(Pending) : Pending[i] \in Cmds
  <1> SUFFICES ASSUME Typed PROVE Pending \in Seq(Cmds)
    BY LenProperties, ElementOfSeq
  <1>1. pSegQueue_ \in Seq(Cmds) /\ <<segInfo>> \in Seq(Cmds)
    BY DEF Typed
  <1>2. <<segInfo>> \o pSegQueue_ \in Seq(Cmds)
    BY <1>1, ConcatProperties
  <1>3. QED BY <1>1, <1>2 DEF Pending

LEMMA TypedInit == Init => Typed
  <1> SUFFICES ASSUME Init PROVE Typed
    OBVIOUS
  <1>1. NoSession \in Sessions(Ids \cup {<<>>})
    BY UsersAssumption DEF Session, Sessions
  <1>2. handles \in [Handle -> HandleStates]
    BY <1>1 DEF Init, MgrInit, HandleStates
  <1>3. user \in [Uploaders -> UserStates]
    BY DEF Init, UserStates
  <1>4. pSegQueue_ \in Seq(Cmds) /\ Len(pSegQueue_) = 0 /\ segInfo \in Cmds
    BY DEF Init, MgrInit, Cmds
  <1>5. /\ owner \in [Handle -> Uploaders \cup {"none"}]
        /\ given \in [Handle -> Nat] /\ sum \in [Handle -> Nat]
        /\ disturbed \in [Handle -> BOOLEAN] /\ ended \subseteq Ids /\ reports \in Nat
    BY DEF Init
  <1>6. /\ Len(pSegQueue_) <= Cap /\ nQuit_ \in BOOLEAN /\ nLen_ \in 0 .. Cap
        /\ idx \in 0 .. NHandles /\ mgrPc = "test" /\ uninitPc = "idle"
    <2>1. /\ pSegQueue_ = <<>> /\ nQuit_ = FALSE /\ nLen_ = 0 /\ mgrPc = "test" /\ idx = 0
          /\ uninitPc = "idle"
      BY DEF Init, MgrInit
    <2>2. Len(pSegQueue_) <= Cap /\ nLen_ \in 0 .. Cap /\ idx \in 0 .. NHandles
      BY <1>4, <2>1, ConstTypes
    <2>3. QED BY <2>1, <2>2
  <1>7. QED
    BY <1>2, <1>3, <1>4, <1>5, <1>6 DEF Typed

LEMMA PushType ==
  Typed => \A c \in Cmds : Push(c) =>
    pSegQueue_' \in Seq(Cmds) /\ Len(pSegQueue_') <= Cap
  <1> SUFFICES ASSUME Typed, NEW c \in Cmds, Push(c)
               PROVE  pSegQueue_' \in Seq(Cmds) /\ Len(pSegQueue_') <= Cap
    OBVIOUS
  <1>1. /\ pSegQueue_ \in Seq(Cmds) /\ pSegQueue_' = Append(pSegQueue_, c)
        /\ Len(pSegQueue_) < Cap /\ Cap \in Nat
    BY SegmentAssumption DEF Typed, Push
  <1>2. QED BY <1>1, AppendProperties, LenProperties

(* What a user's step leaves alone, and what it does to the queue.         *)
LEMMA SendFrame ==
  ASSUME NEW u \in Uploaders, NEW h \in Handle, NEW s \in Sessions(Ids), NEW isNew \in BOOLEAN,
         Typed, Send(u, h, s, isNew)
  PROVE  /\ uninitPc = "idle"
         /\ UNCHANGED <<handles, nQuit_, thread, uninitPc, owner, given, sum, ended>>
         /\ reports' \in Nat /\ posted' = <<>>
         /\ \/ Push(Update(h, s, isNew)) /\ UNCHANGED disturbed
            \/ /\ UNCHANGED pSegQueue_
               /\ disturbed' = [i \in Handle |-> disturbed[i] \/ owner[i] = u]
         /\ disturbed' \in [Handle -> BOOLEAN]
         /\ pSegQueue_' \in Seq(Cmds) /\ Len(pSegQueue_') <= Cap
  <1>1. Update(h, s, isNew) \in Cmds
    BY DEF Update, Updates, Cmds
  <1>2. CASE UpdateSegment(h, s, isNew) /\ UNCHANGED disturbed
    BY <1>1, <1>2, PushType DEF Send, UpdateSegment, Push, Typed
  <1>3. CASE /\ UpdateRefused
             /\ disturbed' = [i \in Handle |-> disturbed[i] \/ owner[i] = u]
    BY <1>3 DEF Send, UpdateRefused, Typed
  <1>4. QED BY <1>2, <1>3 DEF Send

LEMMA UserTypes ==
  Typed => \A u \in Uploaders :
    /\ user[u] \in UserStates
    /\ user[u].n \in Nat /\ user[u].avd \in Nat /\ user[u].open \in BOOLEAN
    /\ user[u].seg \in Handle \cup {-1}
    /\ user[u].life = "live" /\ user[u].seg # -1 => user[u].seg \in Handle
  BY DEF Typed, UserStates

LEMMA ZeroHandle == 0 \in Handle
  BY ConstTypes DEF Handle

(* The reports of a user, each the UPDATE that it sends.                   *)
LEMMA StartFrame ==
  Typed /\ Owned => \A u \in Uploaders : ReportStart(u) =>
    \E d \in {0, 1} : \E h \in Handle :
      LET n == user[u].n + 1
          s == Session(<<u, n>>, IF n = 1 THEN 0 ELSE 1, d, d, d)
      IN
      /\ n = 1 => d = 0 /\ h = 0 /\ user[u].life \in {"new", "live"}
      /\ n # 1 => h = user[u].seg /\ user[u].life = "live"
      /\ ~user[u].open
      /\ s \in Sessions(Ids)
      /\ Send(u, h, s, TRUE)
      /\ user' = [user EXCEPT ![u].n = n, ![u].open = TRUE, ![u].avd = d]
  <1> SUFFICES ASSUME Typed, Owned, NEW u \in Uploaders, ReportStart(u)
               PROVE \E d \in {0, 1} : \E h \in Handle :
                  LET n == user[u].n + 1
                      s == Session(<<u, n>>, IF n = 1 THEN 0 ELSE 1, d, d, d)
                  IN
                  /\ n = 1 => d = 0 /\ h = 0 /\ user[u].life \in {"new", "live"}
                  /\ n # 1 => h = user[u].seg /\ user[u].life = "live"
                  /\ ~user[u].open
                  /\ s \in Sessions(Ids)
                  /\ Send(u, h, s, TRUE)
                  /\ user' = [user EXCEPT ![u].n = n, ![u].open = TRUE, ![u].avd = d]
    OBVIOUS
  <1> DEFINE n == user[u].n + 1
  <1>1. PICK d \in IF n = 1 THEN {0} ELSE {0, 1} :
          /\ Send(u, SegHandle(u, n), Session(<<u, n>>, IF n = 1 THEN 0 ELSE 1, d, d, d), TRUE)
          /\ user' = [user EXCEPT ![u].n = n, ![u].open = TRUE, ![u].avd = d]
    BY DEF ReportStart
  <1>2. n \in Nat /\ n >= 1 /\ d \in {0, 1} /\ (n = 1 => d = 0)
    BY UserTypes
  <1>3. Session(<<u, n>>, IF n = 1 THEN 0 ELSE 1, d, d, d) \in Sessions(Ids)
    BY <1>2 DEF Session, Sessions, Ids
  <1>4. /\ ~user[u].open
        /\ n = 1 => user[u].life \in {"new", "live"}
        /\ n # 1 => user[u].life = "live"
    BY DEF ReportStart
  <1>5. /\ n = 1 => SegHandle(u, n) = 0
        /\ n # 1 => SegHandle(u, n) = user[u].seg
    BY DEF SegHandle
  <1>6. SegHandle(u, n) \in Handle
    BY <1>4, <1>5, ZeroHandle DEF Owned
  <1>7. QED BY <1>1, <1>2, <1>3, <1>4, <1>5, <1>6

LEMMA SegmentFrame ==
  Typed /\ Owned => \A u \in Uploaders : ReportSegment(u) =>
    LET n == user[u].n
        avd == user[u].avd + 1
        h == SegHandle(u, n)
        s == Session(<<u, n>>, 0, 1, avd, 1)
    IN
    /\ user[u].open /\ user[u].life = "live"
    /\ h \in Handle
    /\ n >= 1 => s \in Sessions(Ids)
    /\ Send(u, h, s, FALSE)
    /\ user' = [user EXCEPT ![u].avd = avd]
  <1> SUFFICES ASSUME Typed, Owned, NEW u \in Uploaders, ReportSegment(u)
               PROVE /\ SegHandle(u, user[u].n) \in Handle
                     /\ user[u].n >= 1 =>
                          Session(<<u, user[u].n>>, 0, 1, user[u].avd + 1, 1) \in Sessions(Ids)
    BY DEF ReportSegment
  <1>1. user[u].n \in Nat /\ user[u].avd \in Nat /\ user[u].avd + 1 \in Nat
    BY UserTypes
  <1>2. QED BY <1>1, ZeroHandle DEF SegHandle, Owned, ReportSegment, Session, Sessions, Ids

LEMMA EndFrame ==
  Typed /\ Owned => \A u \in Uploaders : ReportEnd(u) =>
    LET n == user[u].n
        s == Session(<<u, n>>, 1, 1, user[u].avd, 0)
    IN
    /\ user[u].open /\ user[u].life = "live"
    /\ n >= 1 => s \in Sessions(Ids)
    /\ \E h \in Handle :
         /\ Send(u, h, s, FALSE)
         /\ h = SegHandle(u, n) \/ h = user[u].seg
    /\ user' = [user EXCEPT ![u].open = FALSE]
  <1> SUFFICES ASSUME Typed, Owned, NEW u \in Uploaders, ReportEnd(u)
               PROVE /\ \A h \in {SegHandle(u, user[u].n), user[u].seg} : h \in Handle
                     /\ user[u].n >= 1 =>
                          Session(<<u, user[u].n>>, 1, 1, user[u].avd, 0) \in Sessions(Ids)
    BY DEF ReportEnd
  <1>1. user[u].n \in Nat /\ user[u].avd \in Nat
    BY UserTypes
  <1>2. QED BY <1>1, ZeroHandle DEF SegHandle, Owned, ReportEnd, Session, Sessions, Ids

LEMMA StopFrame ==
  Typed /\ Owned => \A u \in Uploaders : StopWorker(u) =>
    LET n == user[u].n
        s == Session(<<u, n>>, 4, 1, user[u].avd, 0)
    IN
    /\ user[u].life = "live"
    /\ user' = [user EXCEPT ![u].life = "stopped", ![u].open = FALSE]
    /\ \/ /\ user[u].open /\ user[u].avd > 0
          /\ n >= 1 => s \in Sessions(Ids)
          /\ SegHandle(u, n) \in Handle
          /\ Send(u, SegHandle(u, n), s, FALSE)
       \/ /\ uninitPc = "idle" /\ posted' = <<>>
          /\ UNCHANGED <<handles, pSegQueue_, nQuit_, thread, uninitPc,
                         owner, given, sum, disturbed, ended, reports>>
  <1> SUFFICES ASSUME Typed, Owned, NEW u \in Uploaders, StopWorker(u)
               PROVE /\ SegHandle(u, user[u].n) \in Handle
                     /\ user[u].n >= 1 =>
                          Session(<<u, user[u].n>>, 4, 1, user[u].avd, 0) \in Sessions(Ids)
    BY DEF StopWorker
  <1>1. user[u].n \in Nat /\ user[u].avd \in Nat
    BY UserTypes
  <1>2. QED BY <1>1, ZeroHandle DEF SegHandle, Owned, StopWorker, Session, Sessions, Ids

-----------------------------------------------------------------------------
(* What the manager's steps do.                                            *)
Quiet ==
  /\ UNCHANGED <<handles, owner, given, sum, disturbed, ended, user, reports, nQuit_, uninitPc>>
  /\ posted' = <<>>

SameElsewhere(h) ==
  \A i \in Handle \ {h} :
    /\ handles'[i] = handles[i] /\ owner'[i] = owner[i]
    /\ given'[i] = given[i] /\ sum'[i] = sum[i] /\ disturbed'[i] = disturbed[i]

LEMMA QuietFrame ==
  Typed /\ Places /\ Account
  /\ (MgrTest \/ MgrPop \/ MgrPopTimeout \/ StartTtlReport \/ EndTtlReport) => Quiet
  <1> SUFFICES ASSUME Typed, Places, Account,
                      MgrTest \/ MgrPop \/ MgrPopTimeout \/ StartTtlReport \/ EndTtlReport
               PROVE  Quiet
    OBVIOUS
  <1>1. UNCHANGED <<handles, nQuit_, uninitPc>> /\ posted' = <<>>
    BY DEF MgrTest, MgrPop, MgrPopTimeout, StartTtlReport, EndTtlReport
  <1>2. ~(mgrPc = "handle" /\ segInfo.op = "UPDATE")
    BY DEF MgrTest, MgrPop, MgrPopTimeout, StartTtlReport, EndTtlReport
  <1>3. \A h \in Handle : PostedGap(h) = 0
    BY <1>1 DEF PostedGap
  <1>4. ended' = ended /\ user' = user /\ reports' = reports
    BY <1>2 DEF Account
  <1>5. given' = [h \in Handle |-> given[h] + 0] /\ sum' = [h \in Handle |-> sum[h] + 0]
    BY <1>2, <1>3, Zenon DEF Account
  <1>6. given' = given /\ sum' = sum
    BY <1>5 DEF Typed
  <1>7. disturbed' = [h \in Handle |-> disturbed[h] \/ FALSE]
    BY <1>2, Zenon DEF Account
  <1>8. disturbed' = disturbed
    BY <1>7, Zenon DEF Typed
  <1>9. owner' = [h \in Handle |-> IF handles[h].used THEN owner[h] ELSE "none"]
    BY <1>1 DEF Account
  <1>10. \A h \in Handle : owner'[h] = owner[h]
    BY <1>9 DEF Places
  <1>11. owner' = owner
    BY <1>9, <1>10 DEF Typed
  <1>12. QED BY <1>1, <1>4, <1>6, <1>8, <1>11 DEF Quiet

LEMMA UpdateFrame ==
  Typed /\ Places /\ Account /\ HandleUpdate =>
    LET c == segInfo
        h == c.h
        s == c.session
        g == handles[h].tmp.gap
        g1 == handles'[h].tmp.gap
        id == handles[h].tmp.id
        id1 == handles'[h].tmp.id
    IN
    /\ c \in Updates /\ h \in Handle
    /\ SameElsewhere(h)
    /\ handles' \in [Handle -> HandleStates]
    /\ handles'[h].used = handles[h].used /\ owner' = owner
    /\ ended' = IF Ends(c) THEN ended \cup {s.id} ELSE ended
    /\ ~handles[h].used =>
         /\ handles'[h] = handles[h] /\ posted' = <<>>
         /\ given'[h] = given[h] /\ sum'[h] = sum[h] /\ disturbed'[h] = disturbed[h]
    /\ handles[h].used =>
         /\ given'[h] = given[h] + s.gap
         /\ disturbed'[h] = (disturbed[h] \/ By(c) # owner[h])
    /\ handles[h].used /\ c.isNew =>
         /\ posted' = <<>> /\ handles'[h].tmp = s /\ sum'[h] = sum[h]
    /\ handles[h].used /\ ~c.isNew =>
         /\ id1 = id
         /\ \/ s.reason = 0 /\ posted' = <<>> /\ g1 = g + s.gap /\ sum'[h] = sum[h]
            \/ s.avd <= 0 /\ posted' = <<>> /\ g1 = 0 /\ sum'[h] = sum[h]
            \/ /\ s.avd > 0 /\ g1 = 0 /\ sum'[h] = sum[h] + (s.gap + g)
               /\ posted' = Post(h, [s EXCEPT !.gap = s.gap + g])
  <1> SUFFICES ASSUME Typed, Places, Account, HandleUpdate
               PROVE  LET c == segInfo
                          h == c.h
                          s == c.session
                          g == handles[h].tmp.gap
                          g1 == handles'[h].tmp.gap
                          id == handles[h].tmp.id
                          id1 == handles'[h].tmp.id
                      IN
                      /\ c \in Updates /\ h \in Handle
                      /\ SameElsewhere(h)
                      /\ handles' \in [Handle -> HandleStates]
                      /\ handles'[h].used = handles[h].used /\ owner' = owner
                      /\ ended' = IF Ends(c) THEN ended \cup {s.id} ELSE ended
                      /\ ~handles[h].used =>
                           /\ handles'[h] = handles[h] /\ posted' = <<>>
                           /\ given'[h] = given[h] /\ sum'[h] = sum[h]
                           /\ disturbed'[h] = disturbed[h]
                      /\ handles[h].used =>
                           /\ given'[h] = given[h] + s.gap
                           /\ disturbed'[h] = (disturbed[h] \/ By(c) # owner[h])
                      /\ handles[h].used /\ c.isNew =>
                           /\ posted' = <<>> /\ handles'[h].tmp = s /\ sum'[h] = sum[h]
                      /\ handles[h].used /\ ~c.isNew =>
                           /\ id1 = id
                           /\ \/ s.reason = 0 /\ posted' = <<>> /\ g1 = g + s.gap /\ sum'[h] = sum[h]
                              \/ s.avd <= 0 /\ posted' = <<>> /\ g1 = 0 /\ sum'[h] = sum[h]
                              \/ /\ s.avd > 0 /\ g1 = 0 /\ sum'[h] = sum[h] + (s.gap + g)
                                 /\ posted' = Post(h, [s EXCEPT !.gap = s.gap + g])
    OBVIOUS
  <1> DEFINE c == segInfo
             h == c.h
             s == c.session
             g == handles[h].tmp.gap
  <1>1. c \in Updates /\ mgrPc = "handle" /\ c.op = "UPDATE"
    BY CommandTypes DEF Typed, HandleUpdate
  <1>2. /\ h \in Handle /\ s \in Sessions(Ids) /\ s.gap \in Nat /\ c.isNew \in BOOLEAN
        /\ s \in Sessions(Ids \cup {<<>>})
    BY <1>1, UpdateTypes DEF Sessions
  <1>3. handles[h] \in HandleStates /\ g \in Nat /\ handles \in [Handle -> HandleStates]
    BY <1>2 DEF Typed, HandleStates, Sessions
  <1> DEFINE Outcome ==
        /\ handles' \in [Handle -> HandleStates]
        /\ \A i \in Handle \ {h} : handles'[i] = handles[i]
        /\ handles'[h].used = handles[h].used
        /\ ~handles[h].used => handles'[h] = handles[h] /\ posted' = <<>>
        /\ handles[h].used /\ c.isNew => posted' = <<>> /\ handles'[h].tmp = s
        /\ handles[h].used /\ ~c.isNew =>
             /\ handles'[h].tmp.id = handles[h].tmp.id
             /\ \/ s.reason = 0 /\ posted' = <<>> /\ handles'[h].tmp.gap = g + s.gap
                \/ s.avd <= 0 /\ posted' = <<>> /\ handles'[h].tmp.gap = 0
                \/ /\ s.avd > 0 /\ handles'[h].tmp.gap = 0
                   /\ posted' = Post(h, [s EXCEPT !.gap = s.gap + g])
  <1>4. Outcome
    <2>1. CASE ~handles[h].used /\ posted' = <<>> /\ UNCHANGED handles
      BY <2>1, <1>3
    <2>2. CASE /\ handles[h].used /\ c.isNew
               /\ handles' = [handles EXCEPT ![h].tmp = s] /\ posted' = <<>>
      BY <2>2, <1>2, <1>3 DEF HandleStates
    <2>3. CASE /\ handles[h].used /\ ~c.isNew
               /\ \E out \in SumUp(handles[h], s) :
                    handles' = [handles EXCEPT ![h] = out.g] /\ posted' = out.post
      <3>1. PICK out \in SumUp(handles[h], s) :
              handles' = [handles EXCEPT ![h] = out.g] /\ posted' = out.post
        BY <2>3
      <3>2. /\ out.g \in HandleStates
            /\ out.g.used = handles[h].used /\ out.g.tmp.id = handles[h].tmp.id
            /\ \/ /\ out.post = <<>> /\ out.g.tmp.gap = handles[h].tmp.gap + s.gap
                  /\ s.reason = 0
               \/ out.post = <<>> /\ out.g.tmp.gap = 0 /\ s.avd <= 0
               \/ /\ out.post = Post(h, [s EXCEPT !.gap = s.gap + handles[h].tmp.gap])
                  /\ out.g.tmp.gap = 0 /\ s.avd > 0
        BY <1>2, <1>3, SumUpOut
      <3>3. /\ handles' \in [Handle -> HandleStates] /\ handles'[h] = out.g
            /\ \A i \in Handle \ {h} : handles'[i] = handles[i]
        BY <3>1, <3>2, <1>2, <1>3
      <3>4. QED BY <2>3, <3>1, <3>2, <3>3
    <2>4. QED BY <2>1, <2>2, <2>3, <1>2, Zenon DEF HandleUpdate
  <1>5. \A i \in Handle : handles'[i].used = handles[i].used
    BY <1>4
  <1>6. owner' = owner
    <2>1. owner' = [i \in Handle |-> IF handles'[i].used THEN owner[i] ELSE "none"]
      BY DEF Account
    <2>2. owner' = [i \in Handle |-> owner[i]]
      BY <2>1, <1>5 DEF Places
    <2>3. QED BY <2>2 DEF Typed
  <1>7. ended' = IF Ends(c) THEN ended \cup {s.id} ELSE ended
    BY <1>1 DEF Account, Ends
  <1>8. /\ \A i \in Handle \ {h} : given'[i] = given[i]
        /\ given'[h] = IF handles[h].used THEN given[h] + s.gap ELSE given[h]
    <2>1. \A i \in Handle : given'[i] = given[i] +
            IF segInfo.h = i /\ handles[i].used THEN segInfo.session.gap ELSE 0
      BY <1>1, Zenon DEF Account
    <2>2. \A i \in Handle : given[i] \in Nat
      BY DEF Typed
    <2>3. QED BY <2>1, <2>2, <1>2
  <1>9. /\ \A i \in Handle \ {h} : disturbed'[i] = disturbed[i]
        /\ handles[h].used => disturbed'[h] = (disturbed[h] \/ By(c) # owner[h])
        /\ ~handles[h].used => disturbed'[h] = disturbed[h]
    <2>1. \A i \in Handle : disturbed'[i] =
            (disturbed[i] \/ ((segInfo.h = i /\ handles[i].used) /\ segInfo.session.id[1] # owner[i]))
      BY <1>1, Zenon DEF Account
    <2>2. \A i \in Handle : disturbed[i] \in BOOLEAN
      BY DEF Typed
    <2>3. ASSUME NEW i \in Handle \ {h} PROVE disturbed'[i] = disturbed[i]
      <3>1. (disturbed[i] \/ ((segInfo.h = i /\ handles[i].used) /\ segInfo.session.id[1] # owner[i]))
              <=> disturbed[i]
        OBVIOUS
      <3>2. QED BY <2>1, <2>2, <3>1
    <2>4. ASSUME ~handles[h].used PROVE disturbed'[h] = disturbed[h]
      <3>1. (disturbed[h] \/ ((segInfo.h = h /\ handles[h].used) /\ segInfo.session.id[1] # owner[h]))
              <=> disturbed[h]
        BY <2>4
      <3>2. QED BY <1>2, <2>1, <2>2, <3>1
    <2>5. ASSUME handles[h].used
          PROVE  disturbed'[h] = (disturbed[h] \/ By(c) # owner[h])
      <3>1. (disturbed[h] \/ ((segInfo.h = h /\ handles[h].used) /\ segInfo.session.id[1] # owner[h]))
              <=> (disturbed[h] \/ By(c) # owner[h])
        BY <2>5 DEF By
      <3>2. QED BY <1>2, <2>1, <2>2, <3>1
    <2>6. QED BY <2>3, <2>4, <2>5
  <1>10. \A i \in Handle : sum'[i] = sum[i] + PostedGap(i) /\ sum[i] \in Nat
    BY DEF Account, Typed
  <1>11. posted' = <<>> => \A i \in Handle : sum'[i] = sum[i]
    BY <1>10 DEF PostedGap
  <1>12. posted' = Post(h, [s EXCEPT !.gap = s.gap + g]) =>
           /\ \A i \in Handle \ {h} : sum'[i] = sum[i]
           /\ sum'[h] = sum[h] + (s.gap + g)
    <2> DEFINE r == [s EXCEPT !.gap = s.gap + g]
    <2>1. r.gap = s.gap + g
      BY <1>2, <1>3 DEF Sessions
    <2> HIDE DEF r
    <2>2. ASSUME posted' = Post(h, r)
          PROVE  /\ \A i \in Handle \ {h} : PostedGap(i) = 0
                 /\ PostedGap(h) = r.gap
      <3>1. posted' # <<>> /\ posted'[1].h = h /\ posted'[1].session = r
        BY <2>2 DEF Post
      <3>2. QED BY <3>1 DEF PostedGap
    <2>3. QED BY <2>1, <2>2, <1>2, <1>3, <1>10 DEF r
  <1>13. \A i \in Handle \ {h} : sum'[i] = sum[i]
    BY <1>4, <1>11, <1>12, <1>2
  <1>14. SameElsewhere(h)
    BY <1>4, <1>6, <1>8, <1>9, <1>13 DEF SameElsewhere
  <1>15. QED
    BY <1>1, <1>2, <1>4, <1>6, <1>7, <1>8, <1>9, <1>11, <1>12, <1>14

(* A flush of handle h in state g: HandleRelease and TtlReport.            *)
Flushes(h, g) ==
  /\ handles'[h].tmp.id = g.tmp.id
  /\ \/ /\ posted' = <<>> /\ handles'[h].tmp = g.tmp /\ sum'[h] = sum[h]
        /\ g.tmp.acc <= 0 \/ g.tmp.gap <= 0
     \/ /\ handles'[h].tmp.gap = 0 /\ g.tmp.gap > 0
        /\ posted' = Post(h, g.tmp) /\ sum'[h] = sum[h] + g.tmp.gap

LEMMA FlushSums ==
  ASSUME Typed, Account, NEW h \in Handle, NEW g \in HandleStates,
         posted' \in {<<>>, Post(h, g.tmp)}
  PROVE  /\ \A i \in Handle \ {h} : sum'[i] = sum[i]
         /\ posted' = <<>> => sum'[h] = sum[h]
         /\ posted' = Post(h, g.tmp) => sum'[h] = sum[h] + g.tmp.gap
  <1>1. \A i \in Handle : sum'[i] = sum[i] + PostedGap(i) /\ sum[i] \in Nat
    BY DEF Account, Typed
  <1>2. ASSUME posted' = <<>> PROVE \A i \in Handle : PostedGap(i) = 0
    BY <1>2 DEF PostedGap
  <1>3. ASSUME posted' = Post(h, g.tmp)
        PROVE  PostedGap(h) = g.tmp.gap /\ \A i \in Handle \ {h} : PostedGap(i) = 0
    <2>1. posted' # <<>> /\ posted'[1].h = h /\ posted'[1].session = g.tmp
      BY <1>3 DEF Post
    <2>2. QED BY <2>1 DEF PostedGap
  <1>4. QED BY <1>1, <1>2, <1>3

(* Only an UPDATE changes given, disturbed and ended.                      *)
LEMMA NoUpdateFrame ==
  Typed /\ Account /\ ~(mgrPc = "handle" /\ segInfo.op = "UPDATE") =>
    UNCHANGED <<given, disturbed, ended, user, reports>>
  <1> SUFFICES ASSUME Typed, Account, ~(mgrPc = "handle" /\ segInfo.op = "UPDATE")
               PROVE  UNCHANGED <<given, disturbed, ended, user, reports>>
    OBVIOUS
  <1>1. UNCHANGED <<ended, user, reports>>
    BY DEF Account
  <1>2. given' = [h \in Handle |-> given[h] + 0]
    BY Zenon DEF Account
  <1>3. given' = given
    BY <1>2 DEF Typed
  <1>4. disturbed' = [h \in Handle |-> disturbed[h] \/ FALSE]
    BY Zenon DEF Account
  <1>5. disturbed' = disturbed
    BY <1>4, Zenon DEF Typed
  <1>6. QED BY <1>1, <1>3, <1>5

LEMMA ReleaseFrame ==
  Typed /\ Places /\ Account /\ HandleRelease =>
    LET h == segInfo.h IN
    /\ segInfo \in Releases /\ h \in Handle
    /\ SameElsewhere(h)
    /\ handles' \in [Handle -> HandleStates]
    /\ ~handles'[h].used /\ owner'[h] = "none"
    /\ UNCHANGED <<given, disturbed, ended, user, reports>>
    /\ Flushes(h, handles[h])
  <1> SUFFICES ASSUME Typed, Places, Account, HandleRelease
               PROVE  LET h == segInfo.h IN
                      /\ segInfo \in Releases /\ h \in Handle
                      /\ SameElsewhere(h)
                      /\ handles' \in [Handle -> HandleStates]
                      /\ ~handles'[h].used /\ owner'[h] = "none"
                      /\ UNCHANGED <<given, disturbed, ended, user, reports>>
                      /\ Flushes(h, handles[h])
    OBVIOUS
  <1> DEFINE h == segInfo.h
             g == handles[h]
  <1>1. segInfo \in Releases /\ mgrPc = "handle" /\ segInfo.op = "RELEASE"
    BY CommandTypes DEF Typed, HandleRelease
  <1>2. h \in Handle /\ g \in HandleStates /\ handles \in [Handle -> HandleStates]
    BY <1>1 DEF Releases, Typed
  <1>3. PICK out \in Flush(h, g) :
          /\ handles' = [handles EXCEPT ![h] = [out.g EXCEPT !.used = FALSE, !.ttl = FALSE,
                                                             !.next = FALSE]]
          /\ posted' = out.post
    BY DEF HandleRelease
  <1>4. /\ out.g \in HandleStates /\ out.g.tmp.id = g.tmp.id
        /\ \/ out.post = <<>> /\ out.g = g /\ (g.tmp.acc <= 0 \/ g.tmp.gap <= 0)
           \/ out.post = Post(h, g.tmp) /\ out.g.tmp.gap = 0 /\ g.tmp.gap > 0
    BY <1>2, FlushOut
  <1> DEFINE z == [out.g EXCEPT !.used = FALSE, !.ttl = FALSE, !.next = FALSE]
  <1>5. z \in HandleStates /\ z.tmp = out.g.tmp /\ ~z.used
    BY <1>4 DEF HandleStates
  <1> HIDE DEF z
  <1>6. /\ handles' \in [Handle -> HandleStates] /\ handles'[h] = z
        /\ \A i \in Handle \ {h} : handles'[i] = handles[i]
    <2>1. handles' = [handles EXCEPT ![h] = z]
      BY <1>3 DEF z
    <2>2. QED BY <2>1, <1>2, <1>5
  <1>7. UNCHANGED <<given, disturbed, ended, user, reports>>
    BY <1>1, NoUpdateFrame
  <1>8. owner'[h] = "none" /\ \A i \in Handle \ {h} : owner'[i] = owner[i]
    <2>1. \A i \in Handle : owner'[i] = IF handles'[i].used THEN owner[i] ELSE "none"
      BY DEF Account
    <2>2. QED BY <2>1, <1>2, <1>5, <1>6 DEF Places
  <1>9. /\ \A i \in Handle \ {h} : sum'[i] = sum[i]
        /\ posted' = <<>> => sum'[h] = sum[h]
        /\ posted' = Post(h, g.tmp) => sum'[h] = sum[h] + g.tmp.gap
    BY <1>2, <1>3, <1>4, FlushSums
  <1>10. Flushes(h, g)
    BY <1>3, <1>4, <1>5, <1>6, <1>9 DEF Flushes
  <1>11. SameElsewhere(h)
    BY <1>6, <1>7, <1>8, <1>9 DEF SameElsewhere
  <1>12. QED BY <1>1, <1>2, <1>5, <1>6, <1>7, <1>8, <1>10, <1>11

(* The TTL report of one handle.                                           *)
LEMMA TtlFrame ==
  Typed /\ Places /\ Account /\ TtlReport =>
    /\ idx \in Handle /\ mgrPc = "ttl"
    /\ SameElsewhere(idx)
    /\ handles' \in [Handle -> HandleStates]
    /\ handles'[idx].used = handles[idx].used /\ owner' = owner
    /\ UNCHANGED <<given, disturbed, ended, user, reports>>
    /\ \/ /\ handles'[idx] = handles[idx] /\ sum'[idx] = sum[idx] /\ posted' = <<>>
          /\ ~handles[idx].used \/ segInfo.op # "QUIT"
       \/ /\ handles[idx].used
          /\ \E g \in HandleStates :
               /\ g.tmp.id = handles[idx].tmp.id /\ g.tmp.gap = handles[idx].tmp.gap
               /\ g.tmp.acc = handles[idx].tmp.acc
               /\ Flushes(idx, g)
  <1> SUFFICES ASSUME Typed, Places, Account, TtlReport
               PROVE  /\ idx \in Handle /\ mgrPc = "ttl"
                      /\ SameElsewhere(idx)
                      /\ handles' \in [Handle -> HandleStates]
                      /\ handles'[idx].used = handles[idx].used /\ owner' = owner
                      /\ UNCHANGED <<given, disturbed, ended, user, reports>>
                      /\ \/ /\ handles'[idx] = handles[idx] /\ sum'[idx] = sum[idx] /\ posted' = <<>>
                            /\ ~handles[idx].used \/ segInfo.op # "QUIT"
                         \/ /\ handles[idx].used
                            /\ \E g \in HandleStates :
                                 /\ g.tmp.id = handles[idx].tmp.id
                                 /\ g.tmp.gap = handles[idx].tmp.gap
                                 /\ g.tmp.acc = handles[idx].tmp.acc
                                 /\ Flushes(idx, g)
    OBVIOUS
  <1>1. idx \in Handle /\ mgrPc = "ttl"
    BY ConstTypes DEF TtlReport, Typed, Handle
  <1>2. handles[idx] \in HandleStates /\ handles \in [Handle -> HandleStates]
    BY <1>1 DEF Typed
  <1>3. UNCHANGED <<given, disturbed, ended, user, reports>>
    BY <1>1, NoUpdateFrame
  <1> DEFINE force == segInfo.op = "QUIT"
             g == IF force /\ handles[idx].tmp.reason = 0
                  THEN [handles[idx] EXCEPT !.tmp.reason = 4] ELSE handles[idx]
  <1>4. /\ g \in HandleStates /\ g.used = handles[idx].used
        /\ g.tmp.id = handles[idx].tmp.id /\ g.tmp.gap = handles[idx].tmp.gap
        /\ g.tmp.acc = handles[idx].tmp.acc
    BY <1>2 DEF HandleStates, Sessions
  <1> HIDE DEF g
  <1>5. CASE /\ ~handles[idx].used \/ (~force /\ handles[idx].next)
             /\ posted' = <<>> /\ UNCHANGED handles
    <2>1. /\ \A i \in Handle \ {idx} : sum'[i] = sum[i]
          /\ posted' = <<>> => sum'[idx] = sum[idx]
      BY <1>1, <1>2, <1>5, FlushSums
    <2>2. owner' = [i \in Handle |-> owner[i]]
      BY <1>5 DEF Account, Places
    <2>3. owner' = owner
      BY <2>2 DEF Typed
    <2>4. SameElsewhere(idx)
      BY <2>1, <2>3, <1>3, <1>5 DEF SameElsewhere
    <2>5. QED BY <2>1, <2>3, <2>4, <1>1, <1>2, <1>3, <1>5
  <1>6. CASE /\ handles[idx].used
             /\ \E out \in Flush(idx, g) :
                  handles' = [handles EXCEPT ![idx] = out.g] /\ posted' = out.post
    <2>1. PICK out \in Flush(idx, g) :
            handles' = [handles EXCEPT ![idx] = out.g] /\ posted' = out.post
      BY <1>6
    <2>2. /\ out.g \in HandleStates /\ out.g.used = g.used /\ out.g.tmp.id = g.tmp.id
          /\ \/ out.post = <<>> /\ out.g = g /\ (g.tmp.acc <= 0 \/ g.tmp.gap <= 0)
             \/ out.post = Post(idx, g.tmp) /\ out.g.tmp.gap = 0 /\ g.tmp.gap > 0
      BY <1>4, FlushOut
    <2>3. /\ handles' \in [Handle -> HandleStates] /\ handles'[idx] = out.g
          /\ \A i \in Handle \ {idx} : handles'[i] = handles[i]
      BY <2>1, <2>2, <1>1, <1>2
    <2>4. owner' = [i \in Handle |-> owner[i]]
      <3>1. \A i \in Handle : handles'[i].used = handles[i].used
        BY <2>2, <2>3, <1>1, <1>4
      <3>2. QED BY <3>1 DEF Account, Places
    <2>5. owner' = owner
      BY <2>4 DEF Typed
    <2>6. /\ \A i \in Handle \ {idx} : sum'[i] = sum[i]
          /\ posted' = <<>> => sum'[idx] = sum[idx]
          /\ posted' = Post(idx, g.tmp) => sum'[idx] = sum[idx] + g.tmp.gap
      BY <1>1, <1>4, <2>1, <2>2, FlushSums
    <2>7. Flushes(idx, g)
      BY <2>1, <2>2, <2>3, <2>6 DEF Flushes
    <2>8. SameElsewhere(idx)
      BY <2>3, <2>5, <2>6, <1>3 DEF SameElsewhere
    <2>9. QED BY <2>2, <2>3, <2>5, <2>7, <2>8, <1>1, <1>3, <1>4, <1>6
  <1>7. QED BY <1>5, <1>6, Zenon DEF TtlReport, g

-----------------------------------------------------------------------------
(* How the steps move what is pending.                                     *)
LEMMA PendingSame ==
  UNCHANGED <<pSegQueue_, segInfo, mgrPc>> => Pending' = Pending
  BY DEF Pending

LEMMA PendingAppend ==
  ASSUME Typed, NEW c \in Cmds, pSegQueue_' = Append(pSegQueue_, c), UNCHANGED <<segInfo, mgrPc>>
  PROVE  /\ Len(Pending') = Len(Pending) + 1
         /\ \A i \in 1 .. Len(Pending) : Pending'[i] = Pending[i]
         /\ Pending'[Len(Pending) + 1] = c
  <1> DEFINE q == pSegQueue_
             r == Append(q, c)
             f == <<segInfo>>
  <1>1. q \in Seq(Cmds) /\ <<segInfo>> \in Seq(Cmds) /\ Append(q, c) \in Seq(Cmds)
        /\ Len(q) \in Nat /\ Len(<<segInfo>>) = 1
    BY AppendProperties, LenProperties DEF Typed
  <1>2. CASE mgrPc = "handle"
    <2>1. Pending = f \o q /\ Pending' = f \o r
      BY <1>2 DEF Pending
    <2>2. /\ Len(Pending) = 1 + Len(q)
          /\ \A i \in 1 .. 1 + Len(q) :
               Pending[i] = IF i <= 1 THEN f[i] ELSE q[i - 1]
      BY <1>1, <2>1, ConcatProperties
    <2>3. /\ Len(Pending') = 1 + Len(r)
          /\ \A i \in 1 .. 1 + Len(r) : Pending'[i] = IF i <= 1 THEN f[i] ELSE r[i - 1]
      BY <1>1, <2>1, ConcatProperties
    <2>4. /\ Len(r) = Len(q) + 1
          /\ \A i \in 1 .. Len(q) : r[i] = q[i]
          /\ r[Len(q) + 1] = c
      BY <1>1, AppendProperties
    <2>5. Len(q) \in Nat
      BY <1>1
    <2> HIDE DEF q, r, f
    <2>6. ASSUME NEW i \in 1 .. Len(Pending) PROVE Pending'[i] = Pending[i]
      <3>1. /\ i \in Nat /\ i \in 1 .. 1 + Len(q) /\ i \in 1 .. 1 + Len(r)
            /\ i > 1 => i - 1 \in 1 .. Len(q)
        BY <2>2, <2>4, <2>5
      <3>2. CASE i <= 1
        BY <2>2, <2>3, <3>1, <3>2
      <3>3. CASE i > 1
        <4>1. ~(i <= 1)
          BY <3>1, <3>3
        <4>2. Pending'[i] = r[i - 1] /\ Pending[i] = q[i - 1]
          BY <2>2, <2>3, <3>1, <4>1
        <4>3. QED BY <2>4, <3>1, <3>3, <4>2
      <3>4. QED BY <3>1, <3>2, <3>3
    <2>7. Len(Pending') = Len(Pending) + 1
      BY <2>2, <2>3, <2>4, <2>5
    <2>8. Pending'[Len(Pending) + 1] = r[Len(q) + 1]
      BY <2>2, <2>3, <2>4, <2>5
    <2>9. QED BY <2>4, <2>6, <2>7, <2>8
  <1>3. CASE mgrPc # "handle"
    <2>1. Pending = q /\ Pending' = Append(q, c)
      BY <1>3 DEF Pending
    <2>2. QED BY <1>1, <2>1, AppendProperties
  <1>4. QED BY <1>2, <1>3

(* The command at the head was handled.                                    *)
Taken ==
  /\ Len(Pending) >= 1 /\ Pending[1] = segInfo
  /\ Len(Pending') = Len(Pending) - 1
  /\ \A i \in 1 .. Len(Pending') : Pending'[i] = Pending[i + 1]

LEMMA PendingTaken ==
  Typed /\ mgrPc = "handle" /\ mgrPc' # "handle" /\ UNCHANGED pSegQueue_ => Taken
  <1> SUFFICES ASSUME Typed, mgrPc = "handle", mgrPc' # "handle", UNCHANGED pSegQueue_
               PROVE  Taken
    OBVIOUS
  <1>1. Pending = <<segInfo>> \o pSegQueue_ /\ Pending' = pSegQueue_
    BY DEF Pending
  <1>2. pSegQueue_ \in Seq(Cmds) /\ <<segInfo>> \in Seq(Cmds)
        /\ Len(pSegQueue_) \in Nat /\ Len(<<segInfo>>) = 1 /\ <<segInfo>>[1] = segInfo
    BY LenProperties DEF Typed
  <1>3. /\ Len(Pending) = 1 + Len(pSegQueue_)
        /\ \A i \in 1 .. 1 + Len(pSegQueue_) :
             Pending[i] = IF i <= 1 THEN <<segInfo>>[i] ELSE pSegQueue_[i - 1]
    BY <1>1, <1>2, ConcatProperties
  <1>4. QED BY <1>1, <1>2, <1>3 DEF Taken

LEMMA PendingPop ==
  Typed /\ MgrPop => Pending' = Pending
  <1> SUFFICES ASSUME Typed, MgrPop PROVE Pending' = Pending
    OBVIOUS
  <1>1. pSegQueue_ \in Seq(Cmds) /\ pSegQueue_ # <<>>
    BY DEF Typed, MgrPop
  <1>2. Pending = pSegQueue_ /\ Pending' = <<Head(pSegQueue_)>> \o Tail(pSegQueue_)
    BY DEF MgrPop, Pending
  <1>3. QED BY <1>1, <1>2

(* The orders of the uploaders stay as they are, k places further ahead.   *)
Order(c) == c.op \in {"UPDATE", "RELEASE"}
NoneNew(k) ==
  \A i \in 1 .. Len(Pending') : Order(Pending'[i]) =>
    i + k \in 1 .. Len(Pending) /\ Pending'[i] = Pending[i + k]
NoneLost(k) ==
  \A i \in 1 .. Len(Pending) : Order(Pending[i]) =>
    i - k \in 1 .. Len(Pending') /\ Pending'[i - k] = Pending[i]
Carried(k) == NoneNew(k) /\ NoneLost(k)

LEMMA CarriedSame ==
  Typed /\ Pending' = Pending => Carried(0)
  <1> SUFFICES ASSUME Typed, Pending' = Pending PROVE Carried(0)
    OBVIOUS
  <1>1. Len(Pending) \in Nat
    BY PendingType
  <1>2. QED BY <1>1 DEF Carried, NoneNew, NoneLost

LEMMA CarriedTaken ==
  Typed /\ Taken /\ ~Order(segInfo) => Carried(1)
  <1> SUFFICES ASSUME Typed, Taken, ~Order(segInfo) PROVE Carried(1)
    OBVIOUS
  <1>1. Len(Pending) \in Nat
    BY PendingType
  <1>2. QED BY <1>1 DEF Carried, NoneNew, NoneLost, Taken

LEMMA QuietCarried ==
  Typed /\ (MgrTest \/ MgrPop \/ MgrPopTimeout \/ StartTtlReport \/ EndTtlReport) =>
    \E k \in {0, 1} : Carried(k)
  <1> SUFFICES ASSUME Typed,
                      MgrTest \/ MgrPop \/ MgrPopTimeout \/ StartTtlReport \/ EndTtlReport
               PROVE  Carried(0) \/ Carried(1)
    OBVIOUS
  <1>1. CASE MgrTest \/ EndTtlReport
    <2>1. Pending' = Pending
      BY <1>1 DEF MgrTest, EndTtlReport, Pending
    <2>2. QED BY <2>1, CarriedSame
  <1>2. CASE MgrPop
    BY <1>2, PendingPop, CarriedSame
  <1>3. CASE MgrPopTimeout
    <2>1. Pending = <<>> /\ Pending' = <<Timeout>> \o <<>>
      BY <1>3 DEF MgrPopTimeout, Pending
    <2>2. Pending' = <<Timeout>>
      BY <2>1
    <2>3. Len(Pending) = 0 /\ Len(Pending') = 1 /\ Pending'[1].op = "TIMEOUT"
      BY <2>1, <2>2 DEF Timeout
    <2>4. QED BY <2>3 DEF Carried, NoneNew, NoneLost, Order
  <1>4. CASE StartTtlReport
    <2>1. Taken /\ ~Order(segInfo)
      BY <1>4, PendingTaken DEF StartTtlReport, Order
    <2>2. QED BY <2>1, CarriedTaken
  <1>5. QED BY <1>1, <1>2, <1>3, <1>4

(* LinkUninitSegmentMgr adds QUIT, which is no order of an uploader, or    *)
(* frees the queue.                                                        *)
LEMMA UninitCarried ==
  Typed /\ Uninit =>
    /\ UNCHANGED <<handles, userVars, thread>> /\ posted' = <<>>
    /\ uninitPc' # "idle"
    /\ Carried(0) \/ Len(Pending') = 0
  <1> SUFFICES ASSUME Typed, Uninit PROVE Carried(0) \/ Len(Pending') = 0
    BY DEF Uninit, UninitQuit, UninitPush, UninitJoin
  <1>1. CASE UninitQuit
    BY <1>1, PendingSame, CarriedSame DEF UninitQuit, thread
  <1>2. CASE UninitPush
    <2>1. /\ Quit \in Cmds /\ pSegQueue_' = Append(pSegQueue_, Quit)
          /\ UNCHANGED <<segInfo, mgrPc>>
      BY <1>2 DEF UninitPush, thread, Cmds
    <2>2. /\ Len(Pending') = Len(Pending) + 1
          /\ \A i \in 1 .. Len(Pending) : Pending'[i] = Pending[i]
          /\ Pending'[Len(Pending) + 1] = Quit
      BY <2>1, PendingAppend
    <2>3. Len(Pending) \in Nat /\ ~Order(Quit)
      BY PendingType DEF Order, Quit
    <2>4. QED BY <2>2, <2>3 DEF Carried, NoneNew, NoneLost
  <1>3. CASE UninitJoin
    BY <1>3 DEF UninitJoin, thread, Pending
  <1>4. QED BY <1>1, <1>2, <1>3 DEF Uninit

LEMMA SendPending ==
  ASSUME NEW u \in Uploaders, NEW h \in Handle, NEW s \in Sessions(Ids), NEW isNew \in BOOLEAN,
         Typed, Send(u, h, s, isNew)
  PROVE  LET c == Update(h, s, isNew) IN
         \/ /\ Pending' = Pending
            /\ disturbed' = [i \in Handle |-> disturbed[i] \/ owner[i] = u]
         \/ /\ disturbed' = disturbed
            /\ Len(Pending') = Len(Pending) + 1
            /\ \A i \in 1 .. Len(Pending) : Pending'[i] = Pending[i]
            /\ Pending'[Len(Pending) + 1] = c
  <1>1. UNCHANGED <<segInfo, mgrPc>>
    BY SendFrame DEF thread
  <1>2. Update(h, s, isNew) \in Cmds
    BY DEF Update, Updates, Cmds
  <1>3. CASE Push(Update(h, s, isNew)) /\ UNCHANGED disturbed
    BY <1>1, <1>2, <1>3, PendingAppend DEF Push
  <1>4. CASE /\ UNCHANGED pSegQueue_
             /\ disturbed' = [i \in Handle |-> disturbed[i] \/ owner[i] = u]
    BY <1>1, <1>4, PendingSame
  <1>5. QED BY <1>3, <1>4, SendFrame

-----------------------------------------------------------------------------
(* Types are kept.                                                         *)
Base == Typed /\ Places /\ Owned /\ Users

UserStep(u) ==
  \/ NewTsMuxUploader(u) \/ GetHandle(u)
  \/ ReportStart(u) \/ ReportSegment(u) \/ ReportEnd(u)
  \/ StopWorker(u) \/ ReleaseHandle(u)

(* One of the reports: what all four have in common.                       *)
Speaks(u, h, s, isNew) ==
  /\ s \in Sessions(Ids) /\ s.id[1] = u
  /\ user[u].life \in {"new", "live"}
  /\ user' \in [Uploaders -> UserStates]
  /\ \A v \in Uploaders \ {u} : user'[v] = user[v]
  /\ user'[u].seg = user[u].seg
  /\ user'[u].life = user[u].life \/ (user[u].life = "live" /\ user'[u].life = "stopped")
  /\ Send(u, h, s, isNew)

Says(u, h, s, isNew) ==
  LET n == user[u].n
      m == user'[u].n
  IN
  /\ Speaks(u, h, s, isNew)
  /\ s.id = <<u, m>> /\ m \in Nat /\ m >= 1
  /\ m = 1 => h = 0 \/ (h = user[u].seg /\ ~isNew /\ s.reason # 0)
  /\ m # 1 => h = user[u].seg
  /\ ~isNew =>
       /\ user[u].life = "live" /\ user[u].open /\ m = n
       /\ s.reason # 0 => ~user'[u].open /\ s.gap = 0 /\ s.avd = user[u].avd
       /\ s.reason = 0 => user'[u].open /\ s.avd > 0 /\ user'[u].avd = s.avd
  /\ isNew =>
       /\ ~user[u].open /\ user'[u].open /\ m = n + 1
       /\ user[u].life = user'[u].life
       /\ m = 1 => s.gap = 0 /\ user'[u].avd = 0
       /\ m # 1 => user[u].life = "live"
       /\ s.gap = user'[u].avd

SaysSomething(u) ==
  \E h \in Handle : \E s \in Sessions(Ids) : \E isNew \in BOOLEAN : Says(u, h, s, isNew)

LEMMA SessionFields ==
  \A id, r, a, d, g :
    LET s == Session(id, r, a, d, g) IN
    s.id = id /\ s.reason = r /\ s.acc = a /\ s.avd = d /\ s.gap = g
  BY DEF Session

LEMMA StartSays ==
  Base => \A u \in Uploaders : ReportStart(u) => SaysSomething(u)
  <1> SUFFICES ASSUME Base, NEW u \in Uploaders, ReportStart(u)
               PROVE  SaysSomething(u)
    OBVIOUS
  <1> DEFINE n == user[u].n + 1
  <1>0. Typed /\ Owned
    BY DEF Base
  <1>1. PICK d \in {0, 1}, h \in Handle :
          LET s == Session(<<u, n>>, IF n = 1 THEN 0 ELSE 1, d, d, d) IN
          /\ n = 1 => d = 0 /\ h = 0 /\ user[u].life \in {"new", "live"}
          /\ n # 1 => h = user[u].seg /\ user[u].life = "live"
          /\ ~user[u].open
          /\ s \in Sessions(Ids)
          /\ Send(u, h, s, TRUE)
          /\ user' = [user EXCEPT ![u].n = n, ![u].open = TRUE, ![u].avd = d]
    BY <1>0, StartFrame
  <1> DEFINE s == Session(<<u, n>>, IF n = 1 THEN 0 ELSE 1, d, d, d)
  <1>2. s.id = <<u, n>> /\ s.gap = d
    BY SessionFields
  <1>3. s \in Sessions(Ids) /\ Send(u, h, s, TRUE)
    BY <1>1
  <1> HIDE DEF s
  <1>4. user \in [Uploaders -> UserStates] /\ user[u].n \in Nat /\ n \in Nat /\ n >= 1 /\ d \in Nat
    BY <1>0, UserTypes DEF Typed
  <1>5. /\ user' \in [Uploaders -> UserStates]
        /\ \A v \in Uploaders \ {u} : user'[v] = user[v]
        /\ user'[u].seg = user[u].seg /\ user'[u].life = user[u].life
        /\ user'[u].n = n /\ user'[u].open /\ user'[u].avd = d
    BY <1>1, <1>4 DEF UserStates
  <1>6. user[u].life \in {"new", "live"}
    BY <1>1
  <1>7. Says(u, h, s, TRUE)
    <2>0. s.id[1] = u
      BY <1>2
    <2>1. Speaks(u, h, s, TRUE)
      BY <2>0, <1>3, <1>5, <1>6 DEF Speaks
    <2>2. QED BY <2>1, <1>1, <1>2, <1>4, <1>5 DEF Says
  <1>8. QED BY <1>3, <1>7 DEF SaysSomething

LEMMA SegmentSays ==
  Base => \A u \in Uploaders : ReportSegment(u) => SaysSomething(u)
  <1> SUFFICES ASSUME Base, NEW u \in Uploaders, ReportSegment(u)
               PROVE  SaysSomething(u)
    OBVIOUS
  <1> DEFINE n == user[u].n
             d == user[u].avd + 1
             h == SegHandle(u, n)
             s == Session(<<u, n>>, 0, 1, d, 1)
  <1>0. Typed /\ Owned /\ Users
    BY DEF Base
  <1>1. /\ user[u].open /\ user[u].life = "live"
        /\ h \in Handle
        /\ n >= 1 => s \in Sessions(Ids)
        /\ Send(u, h, s, FALSE)
        /\ user' = [user EXCEPT ![u].avd = d]
    BY <1>0, SegmentFrame
  <1>2. s.id = <<u, n>> /\ s.reason = 0 /\ s.avd = d
    BY SessionFields
  <1>3. n \in Nat /\ n >= 1 /\ d \in Nat /\ d > 0 /\ user \in [Uploaders -> UserStates]
    BY <1>0, <1>1, UserTypes DEF Users, Typed
  <1>4. /\ n = 1 => h = 0
        /\ n # 1 => h = user[u].seg
    BY DEF SegHandle
  <1> HIDE DEF s, h
  <1>5. /\ user' \in [Uploaders -> UserStates]
        /\ \A v \in Uploaders \ {u} : user'[v] = user[v]
        /\ user'[u].seg = user[u].seg /\ user'[u].life = user[u].life
        /\ user'[u].n = n /\ user'[u].open /\ user'[u].avd = d
    BY <1>1, <1>3 DEF UserStates
  <1>6. Says(u, h, s, FALSE)
    <2>0. s \in Sessions(Ids) /\ s.id[1] = u
      BY <1>1, <1>2, <1>3, <1>4
    <2>1. Speaks(u, h, s, FALSE)
      BY <2>0, <1>1, <1>5 DEF Speaks
    <2>2. QED BY <2>1, <1>1, <1>2, <1>3, <1>4, <1>5 DEF Says
  <1>7. QED BY <1>1, <1>3, <1>6 DEF SaysSomething

LEMMA EndSays ==
  Base => \A u \in Uploaders : ReportEnd(u) => SaysSomething(u)
  <1> SUFFICES ASSUME Base, NEW u \in Uploaders, ReportEnd(u)
               PROVE  SaysSomething(u)
    OBVIOUS
  <1> DEFINE n == user[u].n
             s == Session(<<u, n>>, 1, 1, user[u].avd, 0)
  <1>0. Typed /\ Owned /\ Users
    BY DEF Base
  <1>1. /\ user[u].open /\ user[u].life = "live"
        /\ n >= 1 => s \in Sessions(Ids)
        /\ user' = [user EXCEPT ![u].open = FALSE]
    BY <1>0, EndFrame
  <1>2. PICK h \in Handle : Send(u, h, s, FALSE) /\ (h = SegHandle(u, n) \/ h = user[u].seg)
    BY <1>0, EndFrame
  <1>3. s.id = <<u, n>> /\ s.reason = 1 /\ s.gap = 0 /\ s.avd = user[u].avd
    BY SessionFields
  <1>4. n \in Nat /\ n >= 1 /\ user \in [Uploaders -> UserStates]
    BY <1>0, <1>1, UserTypes DEF Users, Typed
  <1>5. /\ n = 1 => h = 0 \/ h = user[u].seg
        /\ n # 1 => h = user[u].seg
    BY <1>2 DEF SegHandle
  <1> HIDE DEF s
  <1>6. /\ user' \in [Uploaders -> UserStates]
        /\ \A v \in Uploaders \ {u} : user'[v] = user[v]
        /\ user'[u].seg = user[u].seg /\ user'[u].life = user[u].life
        /\ user'[u].n = n /\ ~user'[u].open
    BY <1>1, <1>4 DEF UserStates
  <1>7. Says(u, h, s, FALSE)
    <2>0. s \in Sessions(Ids) /\ s.id[1] = u
      BY <1>1, <1>2, <1>3, <1>4
    <2>1. Speaks(u, h, s, FALSE)
      BY <2>0, <1>1, <1>2, <1>6 DEF Speaks
    <2>2. user'[u].n = n /\ user[u].n = n /\ s.reason # 0 /\ user[u].open /\ ~user'[u].open
      BY <1>1, <1>3, <1>6
    <2>3. QED BY <2>1, <2>2, <1>1, <1>3, <1>4, <1>5, Zenon DEF Says
  <1>8. QED BY <1>1, <1>4, <1>7 DEF SaysSomething

(* The worker is stopped without a report.                                 *)
StopsSilently(u) ==
  /\ user[u].life = "live" /\ uninitPc = "idle" /\ posted' = <<>>
  /\ user' = [user EXCEPT ![u].life = "stopped", ![u].open = FALSE]
  /\ UNCHANGED <<handles, pSegQueue_, nQuit_, thread, uninitPc,
                 owner, given, sum, disturbed, ended, reports>>

LEMMA StopSays ==
  Base => \A u \in Uploaders : StopWorker(u) => SaysSomething(u) \/ StopsSilently(u)
  <1> SUFFICES ASSUME Base, NEW u \in Uploaders, StopWorker(u), ~StopsSilently(u)
               PROVE  SaysSomething(u)
    OBVIOUS
  <1> DEFINE n == user[u].n
             h == SegHandle(u, n)
             s == Session(<<u, n>>, 4, 1, user[u].avd, 0)
  <1>0. Typed /\ Owned /\ Users
    BY DEF Base
  <1>1. /\ user[u].open /\ user[u].life = "live"
        /\ h \in Handle
        /\ n >= 1 => s \in Sessions(Ids)
        /\ Send(u, h, s, FALSE)
        /\ user' = [user EXCEPT ![u].life = "stopped", ![u].open = FALSE]
    BY <1>0, StopFrame DEF StopsSilently
  <1>2. s.id = <<u, n>> /\ s.reason = 4 /\ s.gap = 0 /\ s.avd = user[u].avd
    BY SessionFields
  <1>3. n \in Nat /\ n >= 1 /\ user \in [Uploaders -> UserStates]
    BY <1>0, <1>1, UserTypes DEF Users, Typed
  <1>4. /\ n = 1 => h = 0
        /\ n # 1 => h = user[u].seg
    BY DEF SegHandle
  <1> HIDE DEF s, h
  <1>5. /\ user' \in [Uploaders -> UserStates]
        /\ \A v \in Uploaders \ {u} : user'[v] = user[v]
        /\ user'[u].seg = user[u].seg /\ user'[u].life = "stopped"
        /\ user'[u].n = n /\ ~user'[u].open
    BY <1>1, <1>3 DEF UserStates
  <1>6. Says(u, h, s, FALSE)
    <2>0. s \in Sessions(Ids) /\ s.id[1] = u
      BY <1>1, <1>2, <1>3, <1>4
    <2>1. Speaks(u, h, s, FALSE)
      BY <2>0, <1>1, <1>5 DEF Speaks
    <2>2. user'[u].n = n /\ user[u].n = n /\ s.reason # 0 /\ user[u].open /\ ~user'[u].open
      BY <1>1, <1>2, <1>5
    <2>3. QED BY <2>1, <2>2, <1>1, <1>2, <1>3, <1>4, Zenon DEF Says
  <1>7. QED BY <1>1, <1>3, <1>6 DEF SaysSomething

(* The steps that only concern the uploader's own life.                    *)
Idles(u) ==
  /\ UNCHANGED <<handles, pSegQueue_, nQuit_, thread, uninitPc,
                 owner, given, sum, disturbed, ended, reports>>
  /\ posted' = <<>>
  /\ user' \in [Uploaders -> UserStates]
  /\ \A v \in Uploaders \ {u} : user'[v] = user[v]
  /\ user'[u].seg = user[u].seg /\ user'[u].n = user[u].n /\ user'[u].avd = user[u].avd
  /\ user'[u].open => user[u].open
  /\ \/ user[u].life = "none" /\ user'[u].life = "new"
     \/ user[u].life = "new" /\ user'[u].life = "failed"
     \/ user[u].life = "live" /\ user'[u].life = "stopped"

Takes(u, h) ==
  /\ user[u].life = "new"
  /\ NewSegmentHandle(h)
  /\ user' = [user EXCEPT ![u].life = "live", ![u].seg = h]
  /\ owner' = [owner EXCEPT ![h] = u]
  /\ given' = [given EXCEPT ![h] = 0]
  /\ sum' = [sum EXCEPT ![h] = 0]
  /\ disturbed' = [disturbed EXCEPT ![h] = FALSE]
  /\ UNCHANGED <<ended, reports>>

QuietManager ==
  Account /\ (MgrTest \/ MgrPop \/ MgrPopTimeout \/ StartTtlReport \/ EndTtlReport)

LEMMA StopIdles ==
  Typed => \A u \in Uploaders : StopsSilently(u) => Idles(u)
  <1> SUFFICES ASSUME Typed, NEW u \in Uploaders, StopsSilently(u) PROVE Idles(u)
    OBVIOUS
  <1>1. user \in [Uploaders -> UserStates]
    BY DEF Typed
  <1>2. /\ user[u].life = "live"
        /\ user' = [user EXCEPT ![u].life = "stopped", ![u].open = FALSE]
    BY DEF StopsSilently
  <1>3. /\ user' \in [Uploaders -> UserStates]
        /\ \A v \in Uploaders \ {u} : user'[v] = user[v]
        /\ user'[u].seg = user[u].seg /\ user'[u].n = user[u].n /\ user'[u].avd = user[u].avd
        /\ ~user'[u].open /\ user'[u].life = "stopped"
    BY <1>1, <1>2 DEF UserStates
  <1>4. QED BY <1>2, <1>3 DEF Idles, StopsSilently

LEMMA NewIdles ==
  Typed => \A u \in Uploaders : NewTsMuxUploader(u) => Idles(u)
  <1> SUFFICES ASSUME Typed, NEW u \in Uploaders, NewTsMuxUploader(u) PROVE Idles(u)
    OBVIOUS
  <1>1. user \in [Uploaders -> UserStates]
    BY DEF Typed
  <1>2. user[u].life = "none" /\ user' = [user EXCEPT ![u].life = "new"]
    BY DEF NewTsMuxUploader
  <1>3. /\ user' \in [Uploaders -> UserStates]
        /\ \A v \in Uploaders \ {u} : user'[v] = user[v]
        /\ user'[u].seg = user[u].seg /\ user'[u].n = user[u].n /\ user'[u].avd = user[u].avd
        /\ user'[u].open = user[u].open /\ user'[u].life = "new"
    BY <1>1, <1>2 DEF UserStates
  <1>4. QED BY <1>2, <1>3 DEF Idles, NewTsMuxUploader

LEMMA GetHandleCases ==
  Typed => \A u \in Uploaders : GetHandle(u) => Idles(u) \/ \E h \in Handle : Takes(u, h)
  <1> SUFFICES ASSUME Typed, NEW u \in Uploaders, GetHandle(u), ~ \E h \in Handle : Takes(u, h)
               PROVE  Idles(u)
    OBVIOUS
  <1>1. user \in [Uploaders -> UserStates]
    BY DEF Typed
  <1>2. /\ user[u].life = "new" /\ user' = [user EXCEPT ![u].life = "failed"]
        /\ posted' = <<>>
        /\ UNCHANGED <<handles, pSegQueue_, nQuit_, thread, uninitPc,
                       owner, given, sum, disturbed, ended, reports>>
    BY DEF GetHandle, Takes
  <1>3. /\ user' \in [Uploaders -> UserStates]
        /\ \A v \in Uploaders \ {u} : user'[v] = user[v]
        /\ user'[u].seg = user[u].seg /\ user'[u].n = user[u].n /\ user'[u].avd = user[u].avd
        /\ user'[u].open = user[u].open /\ user'[u].life = "failed"
    BY <1>1, <1>2 DEF UserStates
  <1>4. QED BY <1>2, <1>3 DEF Idles

(* Every step is one of these.                                             *)
LEMMA Cases ==
  Base /\ [Next]_vars =>
    \/ \E u \in Uploaders :
         \/ Idles(u) \/ SaysSomething(u) \/ ReleaseHandle(u)
         \/ \E h \in Handle : Takes(u, h)
    \/ QuietManager
    \/ Account /\ HandleUpdate
    \/ Account /\ HandleRelease
    \/ Account /\ TtlReport
    \/ Uninit
    \/ UNCHANGED vars
  <1> SUFFICES ASSUME Base, [Next]_vars
               PROVE \/ \E u \in Uploaders :
                           \/ Idles(u) \/ SaysSomething(u) \/ ReleaseHandle(u)
                           \/ \E h \in Handle : Takes(u, h)
                     \/ QuietManager
                     \/ Account /\ HandleUpdate
                     \/ Account /\ HandleRelease
                     \/ Account /\ TtlReport
                     \/ Uninit
                     \/ UNCHANGED vars
    OBVIOUS
  <1>0. Typed
    BY DEF Base
  <1>1. ASSUME NEW u \in Uploaders, UserStep(u)
        PROVE  \/ Idles(u) \/ SaysSomething(u) \/ ReleaseHandle(u)
               \/ \E h \in Handle : Takes(u, h)
    BY <1>0, <1>1, StopIdles, NewIdles, GetHandleCases, StartSays, SegmentSays, EndSays, StopSays
       DEF UserStep
  <1>2. CASE \E u \in Uploaders : UserStep(u)
    BY <1>1, <1>2
  <1>3. CASE Manager
    BY <1>3, Zenon DEF Manager, MgrRun, QuietManager
  <1>4. QED
    BY <1>2, <1>3, Zenon DEF Next, UserStep

(* Taking a handle.                                                        *)
LEMMA TakesFrame ==
  ASSUME Typed, NEW u \in Uploaders, NEW h \in Handle, Takes(u, h)
  PROVE  /\ user[u].life = "new" /\ ~handles[h].used /\ posted' = <<>> /\ uninitPc = "idle"
         /\ UNCHANGED <<pSegQueue_, nQuit_, thread, uninitPc, ended, reports>>
         /\ handles' \in [Handle -> HandleStates]
         /\ owner' \in [Handle -> Uploaders \cup {"none"}]
         /\ given' \in [Handle -> Nat] /\ sum' \in [Handle -> Nat]
         /\ disturbed' \in [Handle -> BOOLEAN]
         /\ SameElsewhere(h)
         /\ handles'[h].used /\ handles'[h].tmp.id = <<>> /\ handles'[h].tmp.gap = 0
         /\ owner'[h] = u /\ given'[h] = 0 /\ sum'[h] = 0 /\ ~disturbed'[h]
         /\ user' \in [Uploaders -> UserStates]
         /\ \A v \in Uploaders \ {u} : user'[v] = user[v]
         /\ user'[u].seg = h /\ user'[u].life = "live"
         /\ user'[u].n = user[u].n /\ user'[u].avd = user[u].avd /\ user'[u].open = user[u].open
  <1>1. /\ user[u].life = "new" /\ ~handles[h].used /\ posted' = <<>> /\ uninitPc = "idle"
        /\ UNCHANGED <<pSegQueue_, nQuit_, thread, uninitPc, ended, reports>>
    BY DEF Takes, NewSegmentHandle
  <1>2. NoSession \in Sessions(Ids \cup {<<>>}) /\ NoSession.id = <<>> /\ NoSession.gap = 0
    BY UsersAssumption DEF Session, Sessions
  <1>3. handles' = [handles EXCEPT ![h].used = TRUE, ![h].next = FALSE, ![h].tmp = NoSession]
    BY DEF Takes, NewSegmentHandle
  <1>4. handles \in [Handle -> HandleStates] /\ user \in [Uploaders -> UserStates]
    BY DEF Typed
  <1>5. /\ handles' \in [Handle -> HandleStates]
        /\ \A i \in Handle \ {h} : handles'[i] = handles[i]
        /\ handles'[h].used /\ handles'[h].tmp = NoSession
    BY <1>2, <1>3, <1>4 DEF HandleStates
  <1>6. /\ user' \in [Uploaders -> UserStates]
        /\ \A v \in Uploaders \ {u} : user'[v] = user[v]
        /\ user'[u].seg = h /\ user'[u].life = "live"
        /\ user'[u].n = user[u].n /\ user'[u].avd = user[u].avd /\ user'[u].open = user[u].open
    BY <1>4 DEF Takes, UserStates
  <1>7. /\ given' \in [Handle -> Nat] /\ sum' \in [Handle -> Nat]
        /\ given'[h] = 0 /\ sum'[h] = 0
        /\ \A i \in Handle \ {h} : given'[i] = given[i] /\ sum'[i] = sum[i]
    BY DEF Takes, Typed
  <1>8. /\ owner' \in [Handle -> Uploaders \cup {"none"}] /\ owner'[h] = u
        /\ \A i \in Handle \ {h} : owner'[i] = owner[i]
    BY DEF Takes, Typed
  <1>9. /\ disturbed' \in [Handle -> BOOLEAN] /\ ~disturbed'[h]
        /\ \A i \in Handle \ {h} : disturbed'[i] = disturbed[i]
    BY DEF Takes, Typed
  <1>10. SameElsewhere(h)
    BY <1>5, <1>7, <1>8, <1>9 DEF SameElsewhere
  <1>11. QED BY <1>1, <1>2, <1>5, <1>6, <1>7, <1>8, <1>9, <1>10

(* ReleaseHandle pushes the last command of the uploader.                  *)
LEMMA LeaveFrame ==
  ASSUME Typed, Owned, NEW u \in Uploaders, ReleaseHandle(u)
  PROVE  LET c == Release(user[u].seg) IN
         /\ user[u].life = "stopped" /\ uninitPc = "idle" /\ posted' = <<>>
         /\ c \in Cmds /\ c.op = "RELEASE" /\ c.h = user[u].seg /\ user[u].seg \in Handle
         /\ pSegQueue_' \in Seq(Cmds) /\ Len(pSegQueue_') <= Cap
         /\ UNCHANGED <<handles, nQuit_, thread, uninitPc,
                        owner, given, sum, disturbed, ended, reports>>
         /\ Len(Pending') = Len(Pending) + 1
         /\ \A i \in 1 .. Len(Pending) : Pending'[i] = Pending[i]
         /\ Pending'[Len(Pending) + 1] = c
         /\ user' \in [Uploaders -> UserStates]
         /\ \A v \in Uploaders \ {u} : user'[v] = user[v]
         /\ user'[u].seg = user[u].seg /\ user'[u].life = "released"
         /\ user'[u].n = user[u].n /\ user'[u].avd = user[u].avd /\ user'[u].open = user[u].open
  <1> DEFINE c == Release(user[u].seg)
  <1>1. user[u].life = "stopped" /\ uninitPc = "idle" /\ Push(c)
        /\ UNCHANGED <<owner, given, sum, disturbed, ended, reports>>
    BY DEF ReleaseHandle, ReleaseSegmentHandle
  <1>2. user[u].seg \in Handle
    BY <1>1 DEF Owned
  <1>3. c \in Cmds /\ c.op = "RELEASE" /\ c.h = user[u].seg
    BY <1>2 DEF Release, Releases, Cmds
  <1> HIDE DEF c
  <1>4. pSegQueue_' \in Seq(Cmds) /\ Len(pSegQueue_') <= Cap
    BY <1>1, <1>3, PushType
  <1>5. /\ pSegQueue_' = Append(pSegQueue_, c) /\ posted' = <<>>
        /\ UNCHANGED <<handles, nQuit_, thread, uninitPc, segInfo, mgrPc>>
    BY <1>1 DEF Push, thread
  <1>6. /\ Len(Pending') = Len(Pending) + 1
        /\ \A i \in 1 .. Len(Pending) : Pending'[i] = Pending[i]
        /\ Pending'[Len(Pending) + 1] = c
    BY <1>3, <1>5, PendingAppend
  <1>7. /\ user' \in [Uploaders -> UserStates]
        /\ \A v \in Uploaders \ {u} : user'[v] = user[v]
        /\ user'[u].seg = user[u].seg /\ user'[u].life = "released"
        /\ user'[u].n = user[u].n /\ user'[u].avd = user[u].avd /\ user'[u].open = user[u].open
    <2>1. user' = [user EXCEPT ![u].life = "released"] /\ user \in [Uploaders -> UserStates]
      BY DEF ReleaseHandle, Typed
    <2>2. QED BY <2>1 DEF UserStates
  <1>8. QED BY <1>1, <1>2, <1>3, <1>4, <1>5, <1>6, <1>7 DEF c

LEMMA QuietTypes ==
  Typed /\ QuietManager =>
    /\ pSegQueue_' \in Seq(Cmds) /\ Len(pSegQueue_') <= Cap
    /\ nLen_' \in 0 .. Cap /\ idx' \in 0 .. NHandles /\ segInfo' \in Cmds
    /\ mgrPc' \in {"test", "pop", "handle", "ttl", "done"}
    /\ mgrPc' = "ttl" => segInfo'.op \in {"QUIT", "TIMEOUT"} \/ mgrPc = "ttl"
    /\ mgrPc' = "ttl" /\ mgrPc = "ttl" => segInfo' = segInfo
    /\ mgrPc # "done"
  <1> SUFFICES ASSUME Typed, QuietManager
               PROVE  /\ pSegQueue_' \in Seq(Cmds) /\ Len(pSegQueue_') <= Cap
                      /\ nLen_' \in 0 .. Cap /\ idx' \in 0 .. NHandles /\ segInfo' \in Cmds
                      /\ mgrPc' \in {"test", "pop", "handle", "ttl", "done"}
                      /\ mgrPc' = "ttl" => segInfo'.op \in {"QUIT", "TIMEOUT"} \/ mgrPc = "ttl"
                      /\ mgrPc' = "ttl" /\ mgrPc = "ttl" => segInfo' = segInfo
                      /\ mgrPc # "done"
    OBVIOUS
  <1>1. /\ pSegQueue_ \in Seq(Cmds) /\ Len(pSegQueue_) <= Cap /\ Len(pSegQueue_) \in Nat
        /\ nLen_ \in 0 .. Cap /\ idx \in 0 .. NHandles /\ segInfo \in Cmds
    BY LenProperties DEF Typed
  <1>2. Timeout \in Cmds /\ 0 \in 0 .. NHandles
    BY ConstTypes DEF Cmds
  <1>3. CASE MgrTest
    BY <1>1, <1>3 DEF MgrTest
  <1>4. CASE MgrPop
    <2>1. /\ pSegQueue_ # <<>> /\ segInfo' = Head(pSegQueue_) /\ pSegQueue_' = Tail(pSegQueue_)
          /\ mgrPc' = "handle" /\ mgrPc = "pop" /\ UNCHANGED <<nLen_, idx>>
      BY <1>4 DEF MgrPop
    <2>2. /\ Head(pSegQueue_) \in Cmds /\ Tail(pSegQueue_) \in Seq(Cmds)
          /\ Len(Tail(pSegQueue_)) = Len(pSegQueue_) - 1
      BY <1>1, <2>1, HeadTailProperties
    <2>3. Cap \in Nat
      BY ConstTypes
    <2>4. Len(pSegQueue_') <= Cap
      BY <1>1, <2>1, <2>2, <2>3
    <2>5. QED BY <1>1, <2>1, <2>2, <2>4
  <1>5. CASE MgrPopTimeout
    BY <1>1, <1>2, <1>5 DEF MgrPopTimeout
  <1>6. CASE StartTtlReport
    <2>1. nLen_' = Len(pSegQueue_) /\ UNCHANGED <<pSegQueue_, segInfo>>
          /\ segInfo.op \in {"QUIT", "TIMEOUT"} /\ mgrPc' = "ttl" /\ idx' = 0 /\ mgrPc = "handle"
      BY <1>6 DEF StartTtlReport, GetStatInfo
    <2>2. nLen_' \in 0 .. Cap
      BY <1>1, <2>1, ConstTypes
    <2>3. QED BY <1>1, <1>2, <2>1, <2>2
  <1>7. CASE EndTtlReport
    BY <1>1, <1>2, <1>7 DEF EndTtlReport
  <1>8. QED BY <1>3, <1>4, <1>5, <1>6, <1>7 DEF QuietManager

(* Handling an UPDATE or a RELEASE leaves the queue alone.                 *)
LEMMA HandleTypes ==
  Typed /\ (HandleUpdate \/ HandleRelease) =>
    /\ UNCHANGED <<pSegQueue_, nQuit_, idx, uninitPc>>
    /\ mgrPc = "handle" /\ mgrPc' = "test" /\ segInfo' = Timeout
    /\ nLen_' \in 0 .. Cap
    /\ Taken
  <1> SUFFICES ASSUME Typed, HandleUpdate \/ HandleRelease
               PROVE  /\ UNCHANGED <<pSegQueue_, nQuit_, idx, uninitPc>>
                      /\ mgrPc = "handle" /\ mgrPc' = "test" /\ segInfo' = Timeout
                      /\ nLen_' \in 0 .. Cap
                      /\ Taken
    OBVIOUS
  <1>1. /\ UNCHANGED <<pSegQueue_, nQuit_, idx, uninitPc>>
        /\ mgrPc = "handle" /\ mgrPc' = "test" /\ segInfo' = Timeout
        /\ nLen_' = Len(pSegQueue_)
    BY DEF HandleUpdate, HandleRelease, GetStatInfo
  <1>2. Len(pSegQueue_) \in Nat /\ Len(pSegQueue_) <= Cap
    BY LenProperties DEF Typed
  <1>3. nLen_' \in 0 .. Cap
    BY <1>1, <1>2, ConstTypes
  <1>4. QED BY <1>1, <1>3, PendingTaken

LEMMA SumTypes ==
  Typed /\ Account /\ posted' = <<>> => sum' \in [Handle -> Nat]
  <1> SUFFICES ASSUME Typed, Account, posted' = <<>> PROVE sum' \in [Handle -> Nat]
    OBVIOUS
  <1>1. \A h \in Handle : PostedGap(h) = 0
    BY DEF PostedGap
  <1>2. sum' = [h \in Handle |-> sum[h] + 0]
    BY <1>1 DEF Account
  <1>3. QED BY <1>2 DEF Typed

(* Functions on the handles that change at one of them only.               *)
LEMMA ElsewhereTypes ==
  ASSUME Typed, Account, NEW h \in Handle, SameElsewhere(h),
         given'[h] \in Nat, sum'[h] \in Nat, disturbed'[h] \in BOOLEAN,
         owner'[h] \in Uploaders \cup {"none"}
  PROVE  /\ given' \in [Handle -> Nat] /\ sum' \in [Handle -> Nat]
         /\ disturbed' \in [Handle -> BOOLEAN] /\ owner' \in [Handle -> Uploaders \cup {"none"}]
  <1>1. /\ DOMAIN given' = Handle /\ given' = [i \in DOMAIN given' |-> given'[i]]
        /\ DOMAIN sum' = Handle /\ sum' = [i \in DOMAIN sum' |-> sum'[i]]
        /\ DOMAIN disturbed' = Handle /\ disturbed' = [i \in DOMAIN disturbed' |-> disturbed'[i]]
        /\ DOMAIN owner' = Handle /\ owner' = [i \in DOMAIN owner' |-> owner'[i]]
    BY DEF Account
  <1>2. \A i \in Handle : given'[i] \in Nat /\ sum'[i] \in Nat
    BY DEF SameElsewhere, Typed
  <1>3. \A i \in Handle : disturbed'[i] \in BOOLEAN
    BY DEF SameElsewhere, Typed
  <1>4. \A i \in Handle : owner'[i] \in Uploaders \cup {"none"}
    BY DEF SameElsewhere, Typed
  <1>5. QED BY <1>1, <1>2, <1>3, <1>4

LEMMA TypedStep == Base /\ [Next]_vars => Typed'
  <1> SUFFICES ASSUME Base, [Next]_vars PROVE Typed'
    OBVIOUS
  <1>0. Typed /\ Places /\ Owned
    BY DEF Base
  <1>1. ASSUME NEW u \in Uploaders, Idles(u) PROVE Typed'
    BY <1>0, <1>1 DEF Idles, Typed, thread
  <1>2. ASSUME NEW u \in Uploaders, SaysSomething(u) PROVE Typed'
    <2>1. PICK h \in Handle, s \in Sessions(Ids), isNew \in BOOLEAN : Speaks(u, h, s, isNew)
      BY <1>2 DEF SaysSomething, Says
    <2>2. Send(u, h, s, isNew) /\ user' \in [Uploaders -> UserStates]
      BY <2>1 DEF Speaks
    <2>3. /\ UNCHANGED <<handles, nQuit_, thread, uninitPc, owner, given, sum, ended>>
          /\ reports' \in Nat /\ disturbed' \in [Handle -> BOOLEAN]
          /\ pSegQueue_' \in Seq(Cmds) /\ Len(pSegQueue_') <= Cap
      BY <1>0, <2>2, SendFrame
    <2>4. QED BY <1>0, <2>2, <2>3 DEF Typed, thread
  <1>3. ASSUME NEW u \in Uploaders, ReleaseHandle(u) PROVE Typed'
    <2>1. /\ UNCHANGED <<handles, nQuit_, thread, uninitPc, owner, given, sum, disturbed, ended, reports>>
          /\ pSegQueue_' \in Seq(Cmds) /\ Len(pSegQueue_') <= Cap
          /\ user' \in [Uploaders -> UserStates]
      BY <1>0, <1>3, LeaveFrame
    <2>2. QED BY <1>0, <2>1 DEF Typed, thread
  <1>4. ASSUME NEW u \in Uploaders, NEW h \in Handle, Takes(u, h) PROVE Typed'
    <2>1. /\ UNCHANGED <<pSegQueue_, nQuit_, thread, uninitPc, ended, reports>>
          /\ handles' \in [Handle -> HandleStates]
          /\ owner' \in [Handle -> Uploaders \cup {"none"}]
          /\ given' \in [Handle -> Nat] /\ sum' \in [Handle -> Nat]
          /\ disturbed' \in [Handle -> BOOLEAN]
          /\ user' \in [Uploaders -> UserStates]
      BY <1>0, <1>4, TakesFrame
    <2>2. QED BY <1>0, <2>1 DEF Typed, thread
  <1>5. CASE QuietManager
    <2>1. Quiet
      BY <1>0, <1>5, QuietFrame DEF QuietManager
    <2>2. QED BY <1>0, <1>5, <2>1, QuietTypes DEF Quiet, Typed
  <1>6. CASE Account /\ HandleUpdate
    <2> DEFINE h == segInfo.h
               s == segInfo.session
               g == handles[h].tmp.gap
    <2>1. segInfo \in Updates /\ h \in Handle /\ SameElsewhere(h) /\ owner' = owner
          /\ handles' \in [Handle -> HandleStates]
          /\ ended' = IF Ends(segInfo) THEN ended \cup {s.id} ELSE ended
      BY <1>0, <1>6, UpdateFrame
    <2>2. /\ s.gap \in Nat /\ s.id \in Ids /\ segInfo.isNew \in BOOLEAN
          /\ g \in Nat /\ given[h] \in Nat /\ sum[h] \in Nat
          /\ disturbed[h] \in BOOLEAN /\ owner[h] \in Uploaders \cup {"none"}
      BY <1>0, <2>1, UpdateTypes DEF Typed, HandleStates, Sessions
    <2>3. given'[h] \in {given[h], given[h] + s.gap} /\ sum'[h] \in {sum[h], sum[h] + (s.gap + g)}
      BY <1>0, <1>6, UpdateFrame
    <2>4. disturbed'[h] \in BOOLEAN
      <3>1. \/ disturbed'[h] = disturbed[h]
            \/ disturbed'[h] = (disturbed[h] \/ By(segInfo) # owner[h])
        BY <1>0, <1>6, UpdateFrame
      <3>2. QED BY <2>2, <3>1, Zenon
    <2> HIDE DEF h, s, g
    <2>5. given'[h] \in Nat /\ sum'[h] \in Nat
      BY <2>2, <2>3
    <2>6. /\ given' \in [Handle -> Nat] /\ sum' \in [Handle -> Nat]
          /\ disturbed' \in [Handle -> BOOLEAN] /\ owner' \in [Handle -> Uploaders \cup {"none"}]
      BY <1>0, <1>6, <2>1, <2>2, <2>4, <2>5, ElsewhereTypes
    <2>7. ended' \subseteq Ids
      BY <1>0, <2>1, <2>2 DEF Typed
    <2>8. Timeout \in Cmds /\ user' = user /\ reports' = reports
      BY <1>6 DEF Cmds, Account
    <2>9. QED BY <1>0, <1>6, <2>1, <2>6, <2>7, <2>8, HandleTypes DEF Typed
  <1>7. CASE Account /\ HandleRelease
    <2> DEFINE h == segInfo.h
    <2>1. /\ h \in Handle /\ SameElsewhere(h) /\ handles' \in [Handle -> HandleStates]
          /\ owner'[h] = "none" /\ UNCHANGED <<given, disturbed, ended, user, reports>>
          /\ Flushes(h, handles[h])
      BY <1>0, <1>7, ReleaseFrame
    <2>2. given[h] \in Nat /\ sum[h] \in Nat /\ disturbed[h] \in BOOLEAN /\ handles[h].tmp.gap \in Nat
      BY <1>0, <2>1 DEF Typed, HandleStates, Sessions
    <2>3. sum'[h] \in Nat
      BY <2>1, <2>2 DEF Flushes
    <2>4. sum' \in [Handle -> Nat] /\ owner' \in [Handle -> Uploaders \cup {"none"}]
      BY <1>0, <1>7, <2>1, <2>2, <2>3, ElsewhereTypes
    <2>5. Timeout \in Cmds
      BY DEF Cmds
    <2>6. QED BY <1>0, <1>7, <2>1, <2>4, <2>5, HandleTypes DEF Typed
  <1>8. CASE Account /\ TtlReport
    <2>1. /\ idx \in Handle /\ SameElsewhere(idx) /\ handles' \in [Handle -> HandleStates]
          /\ owner' = owner /\ UNCHANGED <<given, disturbed, ended, user, reports>>
          /\ \/ sum'[idx] = sum[idx]
             \/ \E g \in HandleStates : Flushes(idx, g)
      BY <1>0, <1>8, TtlFrame
    <2>2. /\ given[idx] \in Nat /\ sum[idx] \in Nat /\ disturbed[idx] \in BOOLEAN
          /\ owner[idx] \in Uploaders \cup {"none"}
      BY <1>0, <2>1 DEF Typed
    <2>3. ASSUME NEW g \in HandleStates, Flushes(idx, g) PROVE sum'[idx] \in Nat
      <3>1. g.tmp.gap \in Nat
        BY DEF HandleStates, Sessions
      <3>2. sum'[idx] = sum[idx] \/ sum'[idx] = sum[idx] + g.tmp.gap
        BY <2>3 DEF Flushes
      <3>3. QED BY <2>2, <3>1, <3>2
    <2>4. sum'[idx] \in Nat
      BY <2>1, <2>2, <2>3
    <2>5. sum' \in [Handle -> Nat]
      BY <1>0, <1>8, <2>1, <2>2, <2>4, ElsewhereTypes
    <2>6. /\ UNCHANGED <<pSegQueue_, nQuit_, nLen_, segInfo, mgrPc, uninitPc>>
          /\ idx' \in 0 .. NHandles
      BY <1>0, <1>8, ConstTypes DEF TtlReport, Typed
    <2>7. QED BY <1>0, <2>1, <2>5, <2>6 DEF Typed
  <1>9. CASE Uninit
    <2>1. UNCHANGED <<handles, userVars, thread>> /\ uninitPc' \in {"idle", "push", "join", "done"}
          /\ nQuit_' \in BOOLEAN
      BY <1>0, <1>9 DEF Uninit, UninitQuit, UninitPush, UninitJoin, Typed
    <2>2. pSegQueue_' \in Seq(Cmds) /\ Len(pSegQueue_') <= Cap
      <3>1. CASE UninitQuit
        BY <1>0, <3>1 DEF UninitQuit, Typed
      <3>2. CASE UninitPush
        <4>1. Quit \in Cmds /\ pSegQueue_ \in Seq(Cmds) /\ Len(pSegQueue_) \in Nat
          BY <1>0, LenProperties DEF Cmds, Typed
        <4>2. Len(pSegQueue_) < Cap /\ pSegQueue_' = Append(pSegQueue_, Quit)
          BY <3>2 DEF UninitPush
        <4>3. pSegQueue_' \in Seq(Cmds) /\ Len(pSegQueue_') = Len(pSegQueue_) + 1
          BY <4>1, <4>2, AppendProperties
        <4>4. QED BY <4>1, <4>2, <4>3, ConstTypes
      <3>3. CASE UninitJoin
        <4>1. pSegQueue_' = <<>>
          BY <3>3 DEF UninitJoin
        <4>2. pSegQueue_' \in Seq(Cmds) /\ Len(pSegQueue_') = 0
          BY <4>1, EmptySeq
        <4>3. QED BY <4>2, ConstTypes
      <3>4. QED BY <1>9, <3>1, <3>2, <3>3 DEF Uninit
    <2>3. QED BY <1>0, <2>1, <2>2 DEF Typed, thread, userVars
  <1>10. CASE UNCHANGED vars
    BY <1>0, <1>10 DEF Typed, vars, mgrVars, userVars, thread
  <1>11. QED
    BY <1>1, <1>2, <1>3, <1>4, <1>5, <1>6, <1>7, <1>8, <1>9, <1>10, Cases

-----------------------------------------------------------------------------
(* Whose the handles are.                                                  *)
LEMMA PlacesStep == Base /\ [Next]_vars => Places'
  <1> SUFFICES ASSUME Base, [Next]_vars PROVE Places'
    OBVIOUS
  <1>0. Typed /\ Places /\ Owned
    BY DEF Base
  <1>1. ASSUME NEW u \in Uploaders, Idles(u) PROVE Places'
    BY <1>0, <1>1 DEF Idles, Places, thread
  <1>2. ASSUME NEW u \in Uploaders, SaysSomething(u) PROVE Places'
    <2>1. PICK h \in Handle, s \in Sessions(Ids), isNew \in BOOLEAN : Speaks(u, h, s, isNew)
      BY <1>2 DEF SaysSomething, Says
    <2>2. /\ uninitPc = "idle"
          /\ UNCHANGED <<handles, thread, uninitPc, owner>>
      BY <1>0, <2>1, SendFrame DEF Speaks
    <2>3. QED BY <1>0, <2>2 DEF Places, thread
  <1>3. ASSUME NEW u \in Uploaders, ReleaseHandle(u) PROVE Places'
    <2>1. uninitPc = "idle" /\ UNCHANGED <<handles, thread, uninitPc, owner>>
      BY <1>0, <1>3, LeaveFrame
    <2>2. QED BY <1>0, <2>1 DEF Places, thread
  <1>4. ASSUME NEW u \in Uploaders, NEW h \in Handle, Takes(u, h) PROVE Places'
    <2>1. /\ uninitPc = "idle" /\ UNCHANGED <<thread, uninitPc>>
          /\ handles'[h].used /\ owner'[h] = u /\ SameElsewhere(h)
      BY <1>0, <1>4, TakesFrame
    <2>2. QED BY <1>0, <2>1, NoneIsNoUser DEF Places, thread, SameElsewhere
  <1>5. CASE QuietManager
    <2>1. UNCHANGED <<handles, owner, uninitPc>>
      BY <1>0, <1>5, QuietFrame DEF QuietManager, Quiet
    <2>2. mgrPc # "done" /\ (mgrPc' = "ttl" => segInfo'.op \in {"QUIT", "TIMEOUT"})
      BY <1>0, <1>5, QuietTypes DEF Places
    <2>3. QED BY <1>0, <2>1, <2>2 DEF Places
  <1>6. CASE Account /\ HandleUpdate
    <2>1. /\ segInfo.h \in Handle /\ SameElsewhere(segInfo.h) /\ owner' = owner
          /\ handles'[segInfo.h].used = handles[segInfo.h].used
      BY <1>0, <1>6, UpdateFrame
    <2>2. mgrPc = "handle" /\ mgrPc' = "test" /\ uninitPc' = uninitPc
      BY <1>0, <1>6, HandleTypes
    <2>3. QED BY <1>0, <2>1, <2>2 DEF Places, SameElsewhere
  <1>7. CASE Account /\ HandleRelease
    <2>1. /\ segInfo.h \in Handle /\ SameElsewhere(segInfo.h)
          /\ ~handles'[segInfo.h].used /\ owner'[segInfo.h] = "none"
      BY <1>0, <1>7, ReleaseFrame
    <2>2. mgrPc = "handle" /\ mgrPc' = "test" /\ uninitPc' = uninitPc
      BY <1>0, <1>7, HandleTypes
    <2>3. QED BY <1>0, <2>1, <2>2 DEF Places, SameElsewhere
  <1>8. CASE Account /\ TtlReport
    <2>1. /\ idx \in Handle /\ SameElsewhere(idx) /\ owner' = owner
          /\ handles'[idx].used = handles[idx].used /\ mgrPc = "ttl"
      BY <1>0, <1>8, TtlFrame
    <2>2. UNCHANGED <<pSegQueue_, segInfo, mgrPc, uninitPc>>
      BY <1>8 DEF TtlReport
    <2>3. QED BY <1>0, <2>1, <2>2 DEF Places, SameElsewhere
  <1>9. CASE Uninit
    <2>1. UNCHANGED <<handles, owner, mgrPc, segInfo>>
      BY <1>0, <1>9, UninitCarried DEF userVars, thread
    <2>2. uninitPc' = "done" => mgrPc = "done" /\ pSegQueue_' = <<>>
      BY <1>9 DEF Uninit, UninitQuit, UninitPush, UninitJoin
    <2>3. QED BY <1>0, <2>1, <2>2 DEF Places
  <1>10. CASE UNCHANGED vars
    BY <1>0, <1>10 DEF Places, vars, mgrVars, userVars, thread
  <1>11. QED
    BY <1>1, <1>2, <1>3, <1>4, <1>5, <1>6, <1>7, <1>8, <1>9, <1>10, Cases

(* A step that keeps the owners, and what each uploader knows of its own   *)
(* handle.                                                                 *)
Moves(old, new) ==
  \/ new = old
  \/ old = "live" /\ new = "stopped"
  \/ old = "stopped" /\ new = "released"
  \/ old \in {"none", "new"} /\ new \in {"new", "failed"}

SameOwners ==
  /\ owner' = owner
  /\ \A u \in Uploaders : user'[u].seg = user[u].seg /\ Moves(user[u].life, user'[u].life)

LEMMA OneMoves ==
  ASSUME NEW u \in Uploaders, owner' = owner, \A v \in Uploaders \ {u} : user'[v] = user[v],
         user'[u].seg = user[u].seg, Moves(user[u].life, user'[u].life)
  PROVE  SameOwners
  <1>1. ASSUME NEW v \in Uploaders
        PROVE  user'[v].seg = user[v].seg /\ Moves(user[v].life, user'[v].life)
    <2>1. CASE v = u
      BY <2>1
    <2>2. CASE v # u
      BY <2>2 DEF Moves
    <2>3. QED BY <2>1, <2>2
  <1>2. QED BY <1>1 DEF SameOwners

LEMMA IdlesOwners ==
  Typed => \A u \in Uploaders : Idles(u) => SameOwners
  <1> SUFFICES ASSUME Typed, NEW u \in Uploaders, Idles(u) PROVE SameOwners
    OBVIOUS
  <1>1. /\ owner' = owner /\ \A v \in Uploaders \ {u} : user'[v] = user[v]
        /\ user'[u].seg = user[u].seg /\ Moves(user[u].life, user'[u].life)
    BY DEF Idles, Moves
  <1>2. QED BY <1>1, OneMoves

LEMMA SaysOwners ==
  Typed => \A u \in Uploaders : SaysSomething(u) => SameOwners
  <1> SUFFICES ASSUME Typed, NEW u \in Uploaders, SaysSomething(u) PROVE SameOwners
    OBVIOUS
  <1>1. PICK h \in Handle, s \in Sessions(Ids), isNew \in BOOLEAN : Speaks(u, h, s, isNew)
    BY DEF SaysSomething, Says
  <1>2. owner' = owner
    BY <1>1, SendFrame DEF Speaks
  <1>3. Moves(user[u].life, user'[u].life)
    BY <1>1 DEF Speaks, Moves
  <1>4. QED BY <1>1, <1>2, <1>3, OneMoves DEF Speaks

LEMMA LeaveOwners ==
  Typed /\ Owned => \A u \in Uploaders : ReleaseHandle(u) => SameOwners
  <1> SUFFICES ASSUME Typed, Owned, NEW u \in Uploaders, ReleaseHandle(u) PROVE SameOwners
    OBVIOUS
  <1>1. /\ user[u].life = "stopped" /\ owner' = owner
        /\ \A v \in Uploaders \ {u} : user'[v] = user[v]
        /\ user'[u].seg = user[u].seg /\ user'[u].life = "released"
    BY LeaveFrame
  <1>2. QED BY <1>1, OneMoves DEF Moves

(* The manager's steps but the handling of RELEASE, and the shutdown.      *)
LEMMA OtherOwners ==
  Base /\ (QuietManager \/ (Account /\ HandleUpdate) \/ (Account /\ TtlReport) \/ Uninit
           \/ UNCHANGED vars) => SameOwners
  <1> SUFFICES ASSUME Base,
                      \/ QuietManager \/ (Account /\ HandleUpdate) \/ (Account /\ TtlReport)
                      \/ Uninit \/ UNCHANGED vars
               PROVE  user' = user /\ owner' = owner
    BY DEF SameOwners, Moves
  <1>0. Typed /\ Places
    BY DEF Base
  <1>1. CASE QuietManager
    BY <1>0, <1>1, QuietFrame DEF QuietManager, Quiet
  <1>2. CASE Account /\ HandleUpdate
    BY <1>0, <1>2, UpdateFrame DEF Account
  <1>3. CASE Account /\ TtlReport
    BY <1>0, <1>3, TtlFrame
  <1>4. CASE Uninit
    BY <1>4 DEF Uninit, userVars
  <1>5. CASE UNCHANGED vars
    BY <1>5 DEF vars, userVars
  <1>6. QED BY <1>1, <1>2, <1>3, <1>4, <1>5

LEMMA OwnerCases ==
  Base /\ [Next]_vars =>
    \/ SameOwners
    \/ \E u \in Uploaders, h \in Handle : Takes(u, h)
    \/ Account /\ HandleRelease
  BY Cases, IdlesOwners, SaysOwners, LeaveOwners, OtherOwners DEF Base

(* The owner that gives a handle up has said RELEASE.                      *)
LEMMA OwnedStep ==
  Base /\ ReleaseLast(Pending) /\ [Next]_vars => Owned'
  <1> SUFFICES ASSUME Base, ReleaseLast(Pending), [Next]_vars PROVE Owned'
    OBVIOUS
  <1>0. Typed /\ Places /\ Owned
    BY DEF Base
  <1>1. \A h \in Handle : owner[h] \in Uploaders \cup {"none"}
    BY <1>0 DEF Typed
  <1>2. CASE SameOwners
    <2>1. ASSUME NEW h \in Handle, owner[h] # "none"
          PROVE  user'[owner[h]].seg = h /\ user'[owner[h]].life \in {"live", "stopped", "released"}
      BY <1>0, <1>1, <1>2, <2>1 DEF Owned, SameOwners, Moves
    <2>2. ASSUME NEW u \in Uploaders, user'[u].life \in {"live", "stopped"}
          PROVE  user[u].seg \in Handle /\ owner[user[u].seg] = u
      BY <1>0, <1>2, <2>2 DEF Owned, SameOwners, Moves
    <2>3. ASSUME NEW u \in Uploaders, user'[u].life \in {"none", "new", "failed"}
          PROVE  user[u].seg = -1
      BY <1>0, <1>2, <2>3 DEF Owned, SameOwners, Moves
    <2>4. QED BY <1>2, <2>1, <2>2, <2>3 DEF Owned, SameOwners
  <1>3. ASSUME NEW u \in Uploaders, NEW h \in Handle, Takes(u, h) PROVE Owned'
    <2>1. /\ SameElsewhere(h) /\ owner'[h] = u /\ ~handles[h].used
          /\ \A v \in Uploaders \ {u} : user'[v] = user[v]
          /\ user[u].life = "new" /\ user'[u].seg = h /\ user'[u].life = "live"
      BY <1>0, <1>3, TakesFrame
    <2>2. owner[h] = "none" /\ \A i \in Handle : owner[i] # u
      BY <1>0, <2>1, NoneIsNoUser DEF Places, Owned
    <2>3. \A i \in Handle \ {h} : owner'[i] = owner[i]
      BY <2>1 DEF SameElsewhere
    <2>4. ASSUME NEW i \in Handle, owner'[i] # "none"
          PROVE  user'[owner'[i]].seg = i /\ user'[owner'[i]].life \in {"live", "stopped", "released"}
      <3>1. CASE i = h
        BY <2>1, <3>1
      <3>2. CASE i # h
        <4>1. owner'[i] = owner[i] /\ owner[i] # u /\ owner[i] \in Uploaders
          BY <1>1, <2>2, <2>3, <2>4, <3>2
        <4>2. user'[owner[i]] = user[owner[i]]
          BY <2>1, <4>1
        <4>3. QED BY <1>0, <2>4, <4>1, <4>2 DEF Owned
      <3>3. QED BY <3>1, <3>2
    <2>5. ASSUME NEW v \in Uploaders, user'[v].life \in {"live", "stopped"}
          PROVE  user'[v].seg \in Handle /\ owner'[user'[v].seg] = v
      <3>1. CASE v = u
        BY <2>1, <3>1
      <3>2. CASE v # u
        <4>1. user'[v] = user[v]
          BY <2>1, <3>2
        <4>2. user[v].seg \in Handle /\ owner[user[v].seg] = v
          BY <1>0, <2>5, <4>1 DEF Owned
        <4>3. user[v].seg # h
          BY <2>2, <4>2, NoneIsNoUser
        <4>4. QED BY <2>3, <4>1, <4>2, <4>3
      <3>3. QED BY <3>1, <3>2
    <2>6. ASSUME NEW v \in Uploaders, user'[v].life \in {"none", "new", "failed"}
          PROVE  user'[v].seg = -1
      BY <1>0, <2>1, <2>6 DEF Owned
    <2>7. QED BY <2>4, <2>5, <2>6 DEF Owned
  <1>4. CASE Account /\ HandleRelease
    <2> DEFINE h == segInfo.h
    <2>1. /\ h \in Handle /\ SameElsewhere(h) /\ owner'[h] = "none" /\ user' = user
      BY <1>0, <1>4, ReleaseFrame
    <2>2. Taken /\ segInfo.op = "RELEASE"
      BY <1>0, <1>4, HandleTypes DEF HandleRelease
    <2>3. Len(Pending) \in Nat
      BY <1>0, PendingType
    <2>4. user[owner[h]].life = "released"
      <3>1. 1 \in 1 .. Len(Pending) /\ Pending[1] = segInfo
        BY <2>2, <2>3 DEF Taken
      <3>2. QED BY <2>2, <3>1 DEF ReleaseLast
    <2>5. \A i \in Handle \ {h} : owner'[i] = owner[i]
      BY <2>1 DEF SameElsewhere
    <2>6. ASSUME NEW v \in Uploaders, user[v].life \in {"live", "stopped"}
          PROVE  user[v].seg \in Handle /\ owner'[user[v].seg] = v
      <3>1. user[v].seg \in Handle /\ owner[user[v].seg] = v
        BY <1>0, <2>6 DEF Owned
      <3>2. user[v].seg # h
        BY <2>4, <2>6, <3>1
      <3>3. QED BY <2>5, <3>1, <3>2
    <2>7. QED BY <1>0, <2>1, <2>5, <2>6 DEF Owned
  <1>5. QED BY <1>2, <1>3, <1>4, OwnerCases

LEMMA TakenNoneNew ==
  Typed /\ Taken => NoneNew(1)
  <1> SUFFICES ASSUME Typed, Taken PROVE NoneNew(1)
    OBVIOUS
  <1>1. Len(Pending) \in Nat
    BY PendingType
  <1>2. QED BY <1>1 DEF NoneNew, Taken

(* The orders of a step that does not speak: some that were there.         *)
LEMMA SilentSteps ==
  Base => /\ \A u \in Uploaders : Idles(u) => Carried(0)
          /\ \A u \in Uploaders, h \in Handle : Takes(u, h) => Carried(0)
          /\ QuietManager => \E k \in {0, 1} : Carried(k)
          /\ Account /\ TtlReport => Carried(0)
          /\ UNCHANGED vars => Carried(0)
          /\ Uninit => Carried(0) \/ Len(Pending') = 0
  <1> SUFFICES ASSUME Base
               PROVE  /\ \A u \in Uploaders : Idles(u) => Carried(0)
                      /\ \A u \in Uploaders, h \in Handle : Takes(u, h) => Carried(0)
                      /\ QuietManager => \E k \in {0, 1} : Carried(k)
                      /\ Account /\ TtlReport => Carried(0)
                      /\ UNCHANGED vars => Carried(0)
                      /\ Uninit => Carried(0) \/ Len(Pending') = 0
    OBVIOUS
  <1>0. Typed /\ Places
    BY DEF Base
  <1>1. ASSUME NEW u \in Uploaders, Idles(u) PROVE Carried(0)
    BY <1>0, <1>1, PendingSame, CarriedSame DEF Idles, thread
  <1>2. ASSUME NEW u \in Uploaders, NEW h \in Handle, Takes(u, h) PROVE Carried(0)
    BY <1>0, <1>2, PendingSame, CarriedSame, TakesFrame DEF thread
  <1>3. ASSUME QuietManager PROVE \E k \in {0, 1} : Carried(k)
    BY <1>0, <1>3, QuietCarried DEF QuietManager
  <1>4. ASSUME Account, TtlReport PROVE Carried(0)
    BY <1>0, <1>4, PendingSame, CarriedSame DEF TtlReport
  <1>5. ASSUME UNCHANGED vars PROVE Carried(0)
    BY <1>0, <1>5, PendingSame, CarriedSame DEF vars, mgrVars, thread
  <1>6. ASSUME Uninit PROVE Carried(0) \/ Len(Pending') = 0
    BY <1>0, <1>6, UninitCarried
  <1>7. QED BY <1>1, <1>2, <1>3, <1>4, <1>5, <1>6

Spoken(c) ==
  /\ Len(Pending') = Len(Pending) + 1
  /\ \A i \in 1 .. Len(Pending) : Pending'[i] = Pending[i]
  /\ Pending'[Len(Pending) + 1] = c

(* Steps as the pending orders see them.                                   *)
LEMMA OrderCases ==
  Base /\ [Next]_vars =>
    \/ SameOwners /\ (NoneNew(0) \/ NoneNew(1))
    \/ SameOwners /\ \E u \in Uploaders : \E h \in Handle, s \in Sessions(Ids), isNew \in BOOLEAN :
         Says(u, h, s, isNew) /\ Spoken(Update(h, s, isNew))
    \/ \E u \in Uploaders : ReleaseHandle(u) /\ Spoken(Release(user[u].seg))
    \/ \E u \in Uploaders, h \in Handle : Takes(u, h) /\ NoneNew(0)
    \/ Account /\ HandleRelease /\ NoneNew(1)
  <1> SUFFICES ASSUME Base, [Next]_vars
               PROVE \/ SameOwners /\ (NoneNew(0) \/ NoneNew(1))
                     \/ /\ SameOwners
                        /\ \E u \in Uploaders :
                             \E h \in Handle, s \in Sessions(Ids), isNew \in BOOLEAN :
                               Says(u, h, s, isNew) /\ Spoken(Update(h, s, isNew))
                     \/ \E u \in Uploaders : ReleaseHandle(u) /\ Spoken(Release(user[u].seg))
                     \/ \E u \in Uploaders, h \in Handle : Takes(u, h) /\ NoneNew(0)
                     \/ Account /\ HandleRelease /\ NoneNew(1)
    OBVIOUS
  <1>0. Typed /\ Places /\ Owned
    BY DEF Base
  <1>1. ASSUME NEW u \in Uploaders, Idles(u) PROVE SameOwners /\ NoneNew(0)
    BY <1>0, <1>1, IdlesOwners, SilentSteps DEF Carried
  <1>2. ASSUME NEW u \in Uploaders, SaysSomething(u)
        PROVE  \/ SameOwners /\ NoneNew(0)
               \/ SameOwners /\ \E h \in Handle, s \in Sessions(Ids), isNew \in BOOLEAN :
                    Says(u, h, s, isNew) /\ Spoken(Update(h, s, isNew))
    <2>1. PICK h \in Handle, s \in Sessions(Ids), isNew \in BOOLEAN : Says(u, h, s, isNew)
      BY <1>2 DEF SaysSomething
    <2>2. Send(u, h, s, isNew)
      BY <2>1 DEF Says, Speaks
    <2>3. Pending' = Pending \/ Spoken(Update(h, s, isNew))
      BY <1>0, <2>2, SendPending DEF Spoken
    <2>4. SameOwners
      BY <1>0, <1>2, SaysOwners
    <2>5. QED BY <1>0, <2>1, <2>3, <2>4, CarriedSame DEF Carried
  <1>3. ASSUME NEW u \in Uploaders, ReleaseHandle(u) PROVE Spoken(Release(user[u].seg))
    BY <1>0, <1>3, LeaveFrame DEF Spoken
  <1>4. ASSUME NEW u \in Uploaders, NEW h \in Handle, Takes(u, h) PROVE NoneNew(0)
    BY <1>4, SilentSteps DEF Carried
  <1>5. ASSUME QuietManager \/ (Account /\ TtlReport) \/ UNCHANGED vars
        PROVE  SameOwners /\ (NoneNew(0) \/ NoneNew(1))
    BY <1>5, OtherOwners, SilentSteps DEF Carried
  <1>6. ASSUME Account, HandleUpdate PROVE SameOwners /\ NoneNew(1)
    BY <1>0, <1>6, OtherOwners, HandleTypes, TakenNoneNew
  <1>7. ASSUME Account, HandleRelease PROVE NoneNew(1)
    BY <1>0, <1>7, HandleTypes, TakenNoneNew
  <1>8. ASSUME Uninit PROVE SameOwners /\ NoneNew(0)
    <2>1. Len(Pending') = 0 => NoneNew(0)
      BY DEF NoneNew
    <2>2. QED BY <1>8, <2>1, OtherOwners, SilentSteps DEF Carried
  <1>9. QED BY <1>1, <1>2, <1>3, <1>4, <1>5, <1>6, <1>7, <1>8, Cases

LEMMA ReleaseLastStep ==
  Base /\ ReleaseLast(Pending) /\ [Next]_vars => ReleaseLast(Pending)'
  <1> SUFFICES ASSUME Base, ReleaseLast(Pending), [Next]_vars PROVE ReleaseLast(Pending)'
    OBVIOUS
  <1>0. Typed /\ Places /\ Owned /\ Len(Pending) \in Nat
    BY PendingType DEF Base
  <1>a. ASSUME NEW i \in 1 .. Len(Pending), Pending[i].op = "RELEASE"
        PROVE  /\ Pending[i].h \in Handle /\ owner[Pending[i].h] \in Uploaders
               /\ user[owner[Pending[i].h]].life = "released"
    <2>1. Pending[i].h \in Handle
      BY <1>0, <1>a, PendingType, CommandTypes DEF Releases
    <2>2. QED BY <1>0, <1>a, <2>1 DEF ReleaseLast, Typed
  <1>1. ASSUME SameOwners, NEW k \in {0, 1}, NoneNew(k)
        PROVE  ReleaseLast(Pending)'
    <2>1. ASSUME NEW i \in 1 .. Len(Pending'), Pending'[i].op = "RELEASE"
          PROVE  /\ owner[Pending'[i].h] # "none"
                 /\ user'[owner[Pending'[i].h]].life = "released"
                 /\ \A j \in 1 .. Len(Pending') :
                      /\ Pending'[j].op = "RELEASE" /\ Pending'[j].h = Pending'[i].h => i = j
                      /\ IsUpdate(Pending'[j]) /\ Pending'[j].h = Pending'[i].h
                           /\ By(Pending'[j]) = owner[Pending'[i].h] => j < i
      <3>1. i + k \in 1 .. Len(Pending) /\ Pending'[i] = Pending[i + k]
        BY <1>1, <2>1 DEF NoneNew, Order
      <3>2. user'[owner[Pending'[i].h]].life = "released" /\ owner[Pending'[i].h] # "none"
        BY <1>1, <1>a, <2>1, <3>1, NoneIsNoUser DEF SameOwners, Moves
      <3>3. ASSUME NEW j \in 1 .. Len(Pending'), Order(Pending'[j])
            PROVE  j + k \in 1 .. Len(Pending) /\ Pending'[j] = Pending[j + k]
        BY <1>1, <3>3 DEF NoneNew
      <3>4. QED BY SMTT(40), <2>1, <3>1, <3>2, <3>3 DEF ReleaseLast, Order, IsUpdate
    <2>2. QED BY <1>1, <2>1 DEF ReleaseLast, SameOwners
  <1>2. ASSUME NEW u \in Uploaders, NEW h \in Handle, NEW s \in Sessions(Ids), NEW isNew \in BOOLEAN,
               SameOwners, Says(u, h, s, isNew), Spoken(Update(h, s, isNew))
        PROVE  ReleaseLast(Pending)'
    <2> DEFINE c == Update(h, s, isNew)
    <2>1. c.op = "UPDATE" /\ c.h = h /\ By(c) = u /\ user[u].life \in {"new", "live"}
      BY <1>2 DEF Update, By, Says, Speaks
    <2> HIDE DEF c
    <2>2. ASSUME NEW i \in 1 .. Len(Pending'), Pending'[i].op = "RELEASE"
          PROVE  /\ owner[Pending'[i].h] # "none"
                 /\ user'[owner[Pending'[i].h]].life = "released"
                 /\ \A j \in 1 .. Len(Pending') :
                      /\ Pending'[j].op = "RELEASE" /\ Pending'[j].h = Pending'[i].h => i = j
                      /\ IsUpdate(Pending'[j]) /\ Pending'[j].h = Pending'[i].h
                           /\ By(Pending'[j]) = owner[Pending'[i].h] => j < i
      <3>1. i \in 1 .. Len(Pending) /\ Pending'[i] = Pending[i]
        BY <1>0, <1>2, <2>1, <2>2 DEF Spoken, c
      <3>2. /\ user'[owner[Pending'[i].h]].life = "released" /\ owner[Pending'[i].h] # "none"
            /\ owner[Pending'[i].h] # u
        BY <1>2, <1>a, <2>1, <2>2, <3>1, NoneIsNoUser DEF SameOwners, Moves
      <3>3. ASSUME NEW j \in 1 .. Len(Pending')
            PROVE  (j \in 1 .. Len(Pending) /\ Pending'[j] = Pending[j]) \/ Pending'[j] = c
        BY <1>0, <1>2 DEF Spoken, c
      <3>4. QED BY <2>1, <2>2, <3>1, <3>2, <3>3 DEF ReleaseLast
    <2>3. QED BY <1>2, <2>2 DEF ReleaseLast, SameOwners
  <1>3. ASSUME NEW u \in Uploaders, ReleaseHandle(u), Spoken(Release(user[u].seg))
        PROVE  ReleaseLast(Pending)'
    <2> DEFINE c == Release(user[u].seg)
    <2>1. /\ c.op = "RELEASE" /\ c.h = user[u].seg /\ user[u].life = "stopped" /\ owner' = owner
          /\ user'[u].life = "released" /\ \A v \in Uploaders \ {u} : user'[v] = user[v]
          /\ owner[user[u].seg] = u
      BY <1>0, <1>3, LeaveFrame DEF Owned
    <2> HIDE DEF c
    <2>2. ASSUME NEW j \in 1 .. Len(Pending')
          PROVE  \/ j \in 1 .. Len(Pending) /\ Pending'[j] = Pending[j]
                 \/ j = Len(Pending) + 1 /\ Pending'[j] = c
      BY <1>0, <1>3 DEF Spoken, c
    <2>3. ASSUME NEW i \in 1 .. Len(Pending), Pending[i].op = "RELEASE"
          PROVE  /\ Pending[i].h # user[u].seg
                 /\ user'[owner[Pending[i].h]].life = "released"
      BY <1>a, <2>1, <2>3
    <2>4. ASSUME NEW i \in 1 .. Len(Pending'), Pending'[i].op = "RELEASE"
          PROVE  /\ owner[Pending'[i].h] # "none"
                 /\ user'[owner[Pending'[i].h]].life = "released"
                 /\ \A j \in 1 .. Len(Pending') :
                      /\ Pending'[j].op = "RELEASE" /\ Pending'[j].h = Pending'[i].h => i = j
                      /\ IsUpdate(Pending'[j]) /\ Pending'[j].h = Pending'[i].h
                           /\ By(Pending'[j]) = owner[Pending'[i].h] => j < i
      <3>1. CASE i \in 1 .. Len(Pending) /\ Pending'[i] = Pending[i]
        BY <1>0, <2>1, <2>2, <2>3, <2>4, <3>1 DEF ReleaseLast, IsUpdate
      <3>2. CASE i = Len(Pending) + 1 /\ Pending'[i] = c
        BY <1>0, <2>1, <2>2, <2>3, <2>4, <3>2, NoneIsNoUser DEF IsUpdate
      <3>3. QED BY <2>2, <3>1, <3>2
    <2>5. QED BY <2>1, <2>4 DEF ReleaseLast
  <1>4. ASSUME NEW u \in Uploaders, NEW h \in Handle, Takes(u, h), NoneNew(0)
        PROVE  ReleaseLast(Pending)'
    <2>1. /\ SameElsewhere(h) /\ owner'[h] = u /\ ~handles[h].used
          /\ \A v \in Uploaders \ {u} : user'[v] = user[v]
          /\ user[u].life = "new"
      BY <1>0, <1>4, TakesFrame
    <2>2. owner[h] = "none" /\ \A i \in Handle \ {h} : owner'[i] = owner[i]
      BY <1>0, <2>1 DEF Places, SameElsewhere
    <2>3. ASSUME NEW i \in 1 .. Len(Pending'), Pending'[i].op = "RELEASE"
          PROVE  /\ owner'[Pending'[i].h] # "none"
                 /\ user'[owner'[Pending'[i].h]].life = "released"
                 /\ \A j \in 1 .. Len(Pending') :
                      /\ Pending'[j].op = "RELEASE" /\ Pending'[j].h = Pending'[i].h => i = j
                      /\ IsUpdate(Pending'[j]) /\ Pending'[j].h = Pending'[i].h
                           /\ By(Pending'[j]) = owner'[Pending'[i].h] => j < i
      <3>1. i \in 1 .. Len(Pending) /\ Pending'[i] = Pending[i]
        BY <1>0, <1>4, <2>3 DEF NoneNew, Order
      <3>2. /\ owner[Pending[i].h] \in Uploaders /\ Pending[i].h \in Handle
            /\ user[owner[Pending[i].h]].life = "released"
        BY <1>a, <2>3, <3>1
      <3>3. Pending[i].h # h /\ owner[Pending[i].h] # u
        BY <2>1, <2>2, <3>2, NoneIsNoUser
      <3>4. owner'[Pending[i].h] = owner[Pending[i].h]
            /\ user'[owner[Pending[i].h]] = user[owner[Pending[i].h]]
        BY <2>1, <2>2, <3>2, <3>3
      <3>5. ASSUME NEW j \in 1 .. Len(Pending'), Order(Pending'[j])
            PROVE  j \in 1 .. Len(Pending) /\ Pending'[j] = Pending[j]
        BY <1>0, <1>4, <3>5 DEF NoneNew
      <3>6. QED BY <2>3, <3>1, <3>2, <3>4, <3>5, NoneIsNoUser DEF ReleaseLast, Order, IsUpdate
    <2>4. QED BY <2>3 DEF ReleaseLast
  <1>5. ASSUME Account, HandleRelease, NoneNew(1)
        PROVE  ReleaseLast(Pending)'
    <2> DEFINE h == segInfo.h
    <2>1. SameElsewhere(h) /\ user' = user
      BY <1>0, <1>5, ReleaseFrame
    <2>2. 1 \in 1 .. Len(Pending) /\ Pending[1] = segInfo /\ segInfo.op = "RELEASE"
      <3>1. Taken
        BY <1>0, <1>5, HandleTypes
      <3>2. segInfo.op = "RELEASE"
        BY <1>5 DEF HandleRelease
      <3>3. QED BY <1>0, <3>1, <3>2 DEF Taken
    <2>3. \A i \in Handle \ {h} : owner'[i] = owner[i]
      BY <2>1 DEF SameElsewhere
    <2>4. ASSUME NEW i \in 1 .. Len(Pending'), Pending'[i].op = "RELEASE"
          PROVE  /\ owner'[Pending'[i].h] # "none"
                 /\ user'[owner'[Pending'[i].h]].life = "released"
                 /\ \A j \in 1 .. Len(Pending') :
                      /\ Pending'[j].op = "RELEASE" /\ Pending'[j].h = Pending'[i].h => i = j
                      /\ IsUpdate(Pending'[j]) /\ Pending'[j].h = Pending'[i].h
                           /\ By(Pending'[j]) = owner'[Pending'[i].h] => j < i
      <3>1. i + 1 \in 1 .. Len(Pending) /\ Pending'[i] = Pending[i + 1]
        BY <1>0, <1>5, <2>4 DEF NoneNew, Order
      <3>2. /\ owner[Pending[i + 1].h] \in Uploaders /\ Pending[i + 1].h \in Handle
            /\ user[owner[Pending[i + 1].h]].life = "released"
        BY <1>a, <2>4, <3>1
      <3>3. Pending[i + 1].h # h
        BY <2>2, <2>4, <3>1 DEF ReleaseLast
      <3>4. owner'[Pending[i + 1].h] = owner[Pending[i + 1].h]
        BY <2>3, <3>2, <3>3
      <3>5. ASSUME NEW j \in 1 .. Len(Pending'), Order(Pending'[j])
            PROVE  j + 1 \in 1 .. Len(Pending) /\ Pending'[j] = Pending[j + 1]
        BY <1>0, <1>5, <3>5 DEF NoneNew
      <3>6. QED BY <2>1, <2>4, <3>1, <3>2, <3>4, <3>5, NoneIsNoUser DEF ReleaseLast, Order, IsUpdate
    <2>5. QED BY <2>4 DEF ReleaseLast
  <1>6. QED BY <1>1, <1>2, <1>3, <1>4, <1>5, OrderCases

LEMMA KeptStep ==
  Base /\ ReleaseLast(Pending) /\ Kept(Pending) /\ [Next]_vars => Kept(Pending)'
  <1> SUFFICES ASSUME Base, ReleaseLast(Pending), Kept(Pending), [Next]_vars
               PROVE  Kept(Pending)'
    OBVIOUS
  <1>0. Typed /\ Places /\ Owned /\ Len(Pending) \in Nat
    BY PendingType DEF Base
  <1>a. ASSUME NEW i \in 1 .. Len(Pending), IsUpdate(Pending[i])
        PROVE  Pending[i].h \in Handle /\ By(Pending[i]) \in Uploaders
    BY <1>0, <1>a, PendingType, CommandTypes, UpdateTypes DEF IsUpdate
  <1>1. ASSUME SameOwners, NEW k \in {0, 1}, NoneNew(k)
        PROVE  Kept(Pending)'
    <2>1. ASSUME NEW i \in 1 .. Len(Pending'), IsUpdate(Pending'[i]),
                 user'[By(Pending'[i])].seg = Pending'[i].h
          PROVE  owner[Pending'[i].h] = By(Pending'[i])
      <3>1. i + k \in 1 .. Len(Pending) /\ Pending'[i] = Pending[i + k]
        BY <1>1, <2>1 DEF NoneNew, Order, IsUpdate
      <3>2. QED BY <1>1, <1>a, <2>1, <3>1 DEF Kept, SameOwners
    <2>2. QED BY <1>1, <2>1 DEF Kept, SameOwners, By, IsUpdate
  <1>2. ASSUME NEW u \in Uploaders, NEW h \in Handle, NEW s \in Sessions(Ids), NEW isNew \in BOOLEAN,
               SameOwners, Says(u, h, s, isNew), Spoken(Update(h, s, isNew))
        PROVE  Kept(Pending)'
    <2> DEFINE c == Update(h, s, isNew)
    <2>1. c.h = h /\ By(c) = u /\ user[u].life \in {"new", "live"} /\ user'[u].seg = user[u].seg
      BY <1>2 DEF Update, By, Says, Speaks
    <2>2. user[u].seg = h => owner[h] = u
      BY <1>0, <2>1 DEF Owned, Handle
    <2> HIDE DEF c
    <2>3. ASSUME NEW i \in 1 .. Len(Pending'), IsUpdate(Pending'[i]),
                 user'[By(Pending'[i])].seg = Pending'[i].h
          PROVE  owner[Pending'[i].h] = By(Pending'[i])
      <3>1. (i \in 1 .. Len(Pending) /\ Pending'[i] = Pending[i]) \/ Pending'[i] = c
        BY <1>0, <1>2, <2>3 DEF Spoken, c
      <3>2. QED BY <1>2, <1>a, <2>1, <2>2, <2>3, <3>1 DEF Kept, SameOwners
    <2>4. QED BY <1>2, <2>3 DEF Kept, SameOwners, By, IsUpdate
  <1>3. ASSUME NEW u \in Uploaders, ReleaseHandle(u), Spoken(Release(user[u].seg))
        PROVE  Kept(Pending)'
    <2> DEFINE c == Release(user[u].seg)
    <2>1. /\ ~IsUpdate(c) /\ owner' = owner
          /\ user'[u].seg = user[u].seg /\ \A v \in Uploaders \ {u} : user'[v] = user[v]
      BY <1>0, <1>3, LeaveFrame DEF IsUpdate
    <2> HIDE DEF c
    <2>2. ASSUME NEW i \in 1 .. Len(Pending'), IsUpdate(Pending'[i]),
                 user'[By(Pending'[i])].seg = Pending'[i].h
          PROVE  owner[Pending'[i].h] = By(Pending'[i])
      <3>1. i \in 1 .. Len(Pending) /\ Pending'[i] = Pending[i]
        BY <1>0, <1>3, <2>1, <2>2 DEF Spoken, c
      <3>2. user'[By(Pending[i])].seg = user[By(Pending[i])].seg
        BY <1>a, <2>1, <2>2, <3>1
      <3>3. QED BY <2>2, <3>1, <3>2 DEF Kept
    <2>3. QED BY <2>1, <2>2 DEF Kept, By, IsUpdate
  <1>4. ASSUME NEW u \in Uploaders, NEW h \in Handle, Takes(u, h), NoneNew(0)
        PROVE  Kept(Pending)'
    <2>1. /\ SameElsewhere(h) /\ owner'[h] = u /\ ~handles[h].used /\ user'[u].seg = h
          /\ \A v \in Uploaders \ {u} : user'[v] = user[v]
      BY <1>0, <1>4, TakesFrame
    <2>2. owner[h] = "none" /\ \A i \in Handle \ {h} : owner'[i] = owner[i]
      BY <1>0, <2>1 DEF Places, SameElsewhere
    <2>3. ASSUME NEW i \in 1 .. Len(Pending'), IsUpdate(Pending'[i]),
                 user'[By(Pending'[i])].seg = Pending'[i].h
          PROVE  owner'[Pending'[i].h] = By(Pending'[i])
      <3>1. i \in 1 .. Len(Pending) /\ Pending'[i] = Pending[i]
        BY <1>0, <1>4, <2>3 DEF NoneNew, Order, IsUpdate
      <3>2. Pending[i].h \in Handle /\ By(Pending[i]) \in Uploaders
        BY <1>a, <2>3, <3>1
      <3>3. CASE By(Pending[i]) = u
        BY <2>1, <2>3, <3>1, <3>3
      <3>4. CASE By(Pending[i]) # u
        <4>1. owner[Pending[i].h] = By(Pending[i])
          BY <2>1, <2>3, <3>1, <3>2, <3>4 DEF Kept
        <4>2. Pending[i].h # h
          BY <2>2, <3>2, <4>1, NoneIsNoUser
        <4>3. QED BY <2>2, <3>1, <3>2, <4>1, <4>2
      <3>5. QED BY <3>3, <3>4
    <2>4. QED BY <2>3 DEF Kept, By, IsUpdate
  <1>5. ASSUME Account, HandleRelease, NoneNew(1)
        PROVE  Kept(Pending)'
    <2> DEFINE h == segInfo.h
    <2>1. SameElsewhere(h) /\ user' = user
      BY <1>0, <1>5, ReleaseFrame
    <2>2. 1 \in 1 .. Len(Pending) /\ Pending[1] = segInfo /\ segInfo.op = "RELEASE"
      <3>1. Taken
        BY <1>0, <1>5, HandleTypes
      <3>2. segInfo.op = "RELEASE"
        BY <1>5 DEF HandleRelease
      <3>3. QED BY <1>0, <3>1, <3>2 DEF Taken
    <2>3. \A i \in Handle \ {h} : owner'[i] = owner[i]
      BY <2>1 DEF SameElsewhere
    <2>4. ASSUME NEW i \in 1 .. Len(Pending'), IsUpdate(Pending'[i]),
                 user'[By(Pending'[i])].seg = Pending'[i].h
          PROVE  owner'[Pending'[i].h] = By(Pending'[i])
      <3>1. i + 1 \in 1 .. Len(Pending) /\ Pending'[i] = Pending[i + 1]
        BY <1>0, <1>5, <2>4 DEF NoneNew, Order, IsUpdate
      <3>2. Pending[i + 1].h \in Handle /\ owner[Pending[i + 1].h] = By(Pending[i + 1])
        BY <1>a, <2>1, <2>4, <3>1 DEF Kept
      <3>3. Pending[i + 1].h # h
        <4>1. ~(i + 1 < 1)
          BY <3>1
        <4>2. QED BY <2>2, <2>4, <3>1, <3>2, <4>1 DEF ReleaseLast
      <3>4. QED BY <2>3, <3>1, <3>2, <3>3
    <2>5. QED BY <2>4 DEF Kept, By, IsUpdate
  <1>6. QED BY <1>1, <1>2, <1>3, <1>4, <1>5, OrderCases

(* HandleKept is about the commands that are still in the queue.           *)
LEMMA KeptHandles == Typed /\ Kept(Pending) => HandleKept
  <1> SUFFICES ASSUME Typed, Kept(Pending) PROVE HandleKept
    OBVIOUS
  <1>1. pSegQueue_ \in Seq(Cmds) /\ Len(pSegQueue_) \in Nat
        /\ DOMAIN pSegQueue_ = 1 .. Len(pSegQueue_)
    BY LenProperties DEF Typed
  <1>2. ASSUME NEW i \in 1 .. Len(pSegQueue_)
        PROVE  \E j \in 1 .. Len(Pending) : Pending[j] = pSegQueue_[i]
    <2>1. CASE mgrPc = "handle"
      <3> DEFINE f == <<segInfo>>
      <3>1. Pending = f \o pSegQueue_ /\ f \in Seq(Cmds) /\ Len(f) = 1
        BY <2>1 DEF Pending, Typed
      <3>1a. Len(f) = 1 /\ f \in Seq(Cmds)
        BY <3>1
      <3>2. /\ Len(Pending) = 1 + Len(pSegQueue_)
            /\ \A j \in 1 .. 1 + Len(pSegQueue_) :
                 Pending[j] = IF j <= 1 THEN f[j] ELSE pSegQueue_[j - 1]
        BY <1>1, <3>1, <3>1a, ConcatProperties
      <3> HIDE DEF f
      <3>3. i + 1 \in 1 .. 1 + Len(pSegQueue_) /\ ~(i + 1 <= 1) /\ (i + 1) - 1 = i
        BY <1>1
      <3>4. QED BY <3>2, <3>3
    <2>2. CASE mgrPc # "handle"
      BY <2>2 DEF Pending
    <2>3. QED BY <2>1, <2>2
  <1>3. ASSUME NEW i \in 1 .. Len(pSegQueue_), pSegQueue_[i].op = "UPDATE",
               user[pSegQueue_[i].session.id[1]].seg = pSegQueue_[i].h
        PROVE  owner[pSegQueue_[i].h] = pSegQueue_[i].session.id[1]
    <2>1. PICK j \in 1 .. Len(Pending) : Pending[j] = pSegQueue_[i]
      BY <1>2
    <2>2. QED BY <1>3, <2>1 DEF Kept, IsUpdate, By
  <1>4. QED BY <1>1, <1>3 DEF HandleKept

-----------------------------------------------------------------------------
(* The uploaders and what they have reported.                              *)
LEMMA UpdatesPending ==
  Typed => \A i \in 1 .. Len(Pending) : IsUpdate(Pending[i]) =>
    /\ Pending[i] \in Updates /\ Pending[i].h \in Handle
    /\ By(Pending[i]) \in Uploaders /\ Nth(Pending[i]) \in Nat /\ Nth(Pending[i]) >= 1
    /\ Pending[i].session.id = <<By(Pending[i]), Nth(Pending[i])>>
  <1> SUFFICES ASSUME Typed, NEW i \in 1 .. Len(Pending), IsUpdate(Pending[i])
               PROVE  /\ Pending[i] \in Updates /\ Pending[i].h \in Handle
                      /\ By(Pending[i]) \in Uploaders /\ Nth(Pending[i]) \in Nat
                      /\ Nth(Pending[i]) >= 1
                      /\ Pending[i].session.id = <<By(Pending[i]), Nth(Pending[i])>>
    OBVIOUS
  <1>1. Pending[i] \in Updates
    BY PendingType, CommandTypes DEF IsUpdate
  <1>2. Pending[i].h \in Handle /\ Pending[i].session.id \in Ids
    BY <1>1, UpdateTypes
  <1>3. QED BY <1>1, <1>2 DEF By, Nth, Ids

(* Steps as the uploaders see them.                                        *)
SameUsers == user' = user /\ ended' = ended

LEMMA UserCases ==
  Base /\ [Next]_vars =>
    \/ SameUsers /\ \E k \in {0, 1} : NoneNew(k)
    \/ \E u \in Uploaders : Idles(u) /\ ended' = ended /\ NoneNew(0)
    \/ \E u \in Uploaders : \E h \in Handle, s \in Sessions(Ids), isNew \in BOOLEAN :
         /\ Says(u, h, s, isNew) /\ ended' = ended
         /\ NoneNew(0) \/ Spoken(Update(h, s, isNew))
    \/ \E u \in Uploaders :
         ReleaseHandle(u) /\ ended' = ended /\ Spoken(Release(user[u].seg))
    \/ \E u \in Uploaders, h \in Handle : Takes(u, h) /\ ended' = ended /\ NoneNew(0)
    \/ Account /\ HandleUpdate /\ NoneNew(1)
  <1> SUFFICES ASSUME Base, [Next]_vars
               PROVE
      \/ SameUsers /\ \E k \in {0, 1} : NoneNew(k)
      \/ \E u \in Uploaders : Idles(u) /\ ended' = ended /\ NoneNew(0)
      \/ \E u \in Uploaders : \E h \in Handle, s \in Sessions(Ids), isNew \in BOOLEAN :
           /\ Says(u, h, s, isNew) /\ ended' = ended
           /\ NoneNew(0) \/ Spoken(Update(h, s, isNew))
      \/ \E u \in Uploaders :
           ReleaseHandle(u) /\ ended' = ended /\ Spoken(Release(user[u].seg))
      \/ \E u \in Uploaders, h \in Handle : Takes(u, h) /\ ended' = ended /\ NoneNew(0)
      \/ Account /\ HandleUpdate /\ NoneNew(1)
    OBVIOUS
  <1>0. Typed /\ Places /\ Owned
    BY DEF Base
  <1>1. ASSUME NEW u \in Uploaders, Idles(u) PROVE ended' = ended /\ NoneNew(0)
    BY <1>1, SilentSteps DEF Idles, Carried
  <1>2. ASSUME NEW u \in Uploaders, SaysSomething(u)
        PROVE  \E h \in Handle, s \in Sessions(Ids), isNew \in BOOLEAN :
                 /\ Says(u, h, s, isNew) /\ ended' = ended
                 /\ NoneNew(0) \/ Spoken(Update(h, s, isNew))
    <2>1. PICK h \in Handle, s \in Sessions(Ids), isNew \in BOOLEAN : Says(u, h, s, isNew)
      BY <1>2 DEF SaysSomething
    <2>2. Send(u, h, s, isNew)
      BY <2>1 DEF Says, Speaks
    <2>3. Pending' = Pending \/ Spoken(Update(h, s, isNew))
      BY <1>0, <2>2, SendPending DEF Spoken
    <2>4. ended' = ended
      BY <1>0, <2>2, SendFrame
    <2>5. QED BY <1>0, <2>1, <2>3, <2>4, CarriedSame DEF Carried
  <1>3. ASSUME NEW u \in Uploaders, ReleaseHandle(u)
        PROVE  ended' = ended /\ Spoken(Release(user[u].seg))
    BY <1>0, <1>3, LeaveFrame DEF Spoken
  <1>4. ASSUME NEW u \in Uploaders, NEW h \in Handle, Takes(u, h)
        PROVE  ended' = ended /\ NoneNew(0)
    BY <1>0, <1>4, TakesFrame, SilentSteps DEF Carried
  <1>5. ASSUME QuietManager PROVE SameUsers /\ \E k \in {0, 1} : NoneNew(k)
    <2>1. Quiet
      BY <1>0, <1>5, QuietFrame DEF QuietManager
    <2>2. QED BY <1>5, <2>1, SilentSteps DEF Quiet, SameUsers, Carried
  <1>6. ASSUME Account, TtlReport PROVE SameUsers /\ NoneNew(0)
    BY <1>0, <1>6, TtlFrame, SilentSteps DEF SameUsers, Carried
  <1>7. ASSUME UNCHANGED vars PROVE SameUsers /\ NoneNew(0)
    BY <1>7, SilentSteps DEF SameUsers, Carried, vars, userVars
  <1>8. ASSUME Uninit PROVE SameUsers /\ NoneNew(0)
    BY <1>8, SilentSteps DEF SameUsers, Carried, NoneNew, Uninit, userVars
  <1>9. ASSUME Account, HandleRelease PROVE SameUsers /\ NoneNew(1)
    BY <1>0, <1>9, ReleaseFrame, HandleTypes, TakenNoneNew DEF SameUsers
  <1>10. ASSUME Account, HandleUpdate PROVE NoneNew(1)
    BY <1>0, <1>10, HandleTypes, TakenNoneNew
  <1>11. QED
    BY <1>1, <1>2, <1>3, <1>4, <1>5, <1>6, <1>7, <1>8, <1>9, <1>10, Cases

(* The change of one user.                                                 *)
UserFits(u, r) ==
  /\ r.life = "none" => r.n = 0 /\ r.avd = 0
  /\ r.n = 0 => ~r.open
  /\ r.life = "new" => r.n <= 1 /\ r.avd = 0
  /\ r.open => r.n >= 1 /\ <<u, r.n>> \notin ended

LEMMA OneUser ==
  ASSUME Typed, Users, NEW u \in Uploaders, \A v \in Uploaders \ {u} : user'[v] = user[v],
         ended' = ended, user'[u].n \in Nat, user[u].n <= user'[u].n, UserFits(u, user'[u])
  PROVE  Users'
  <1>1. ASSUME NEW v \in Uploaders PROVE UserFits(v, user'[v])
    BY <1>1 DEF Users, UserFits
  <1>2. ASSUME NEW x \in ended PROVE x[2] <= user'[x[1]].n
    <2>1. x[1] \in Uploaders /\ x[2] \in Nat /\ x[2] <= user[x[1]].n
      BY <1>2 DEF Typed, Ids, Users
    <2>2. CASE x[1] = u
      BY <2>1, <2>2, UserTypes
    <2>3. CASE x[1] # u
      BY <2>1, <2>3
    <2>4. QED BY <2>2, <2>3
  <1>3. QED BY <1>1, <1>2 DEF Users, UserFits

LEMMA UsersStep ==
  Base /\ Reports(Pending) /\ [Next]_vars => Users'
  <1> SUFFICES ASSUME Base, Reports(Pending), [Next]_vars PROVE Users'
    OBVIOUS
  <1>0. Typed /\ Places /\ Owned /\ Users
    BY DEF Base
  <1>a. \A u \in Uploaders : UserFits(u, user[u]) /\ user[u].n \in Nat
    BY <1>0, UserTypes DEF Users, UserFits
  <1>1. CASE SameUsers
    BY <1>0, <1>1 DEF SameUsers, Users
  <1>2. ASSUME NEW u \in Uploaders, Idles(u), ended' = ended PROVE Users'
    <2>1. /\ \A v \in Uploaders \ {u} : user'[v] = user[v]
          /\ user'[u].n = user[u].n /\ user'[u].avd = user[u].avd
          /\ user'[u].open => user[u].open
          /\ \/ user[u].life = "none" /\ user'[u].life = "new"
             \/ user'[u].life = "failed" \/ user'[u].life = "stopped"
      BY <1>2 DEF Idles
    <2>2. UserFits(u, user'[u])
      BY <1>a, <2>1 DEF UserFits
    <2>3. QED BY <1>0, <1>a, <1>2, <2>1, <2>2, OneUser
  <1>3. ASSUME NEW u \in Uploaders, NEW h \in Handle, NEW s \in Sessions(Ids), NEW isNew \in BOOLEAN,
               Says(u, h, s, isNew), ended' = ended
        PROVE  Users'
    <2>1. /\ \A v \in Uploaders \ {u} : user'[v] = user[v]
          /\ user'[u].n \in Nat /\ user'[u].n >= 1
          /\ user'[u].life \in {"new", "live", "stopped"}
      BY <1>3 DEF Says, Speaks
    <2>2. CASE isNew
      <3>1. /\ user'[u].n = user[u].n + 1
            /\ user'[u].n = 1 => user'[u].avd = 0
            /\ user'[u].n # 1 => user'[u].life = "live"
        BY <1>3, <2>2 DEF Says
      <3>2. <<u, user'[u].n>> \notin ended
        <4>1. ASSUME <<u, user'[u].n>> \in ended PROVE user'[u].n <= user[u].n
          BY <1>0, <4>1 DEF Users
        <4>2. QED BY <1>a, <3>1, <4>1
      <3>3. user[u].n <= user'[u].n /\ user'[u].n # 0
        BY <1>a, <2>1, <3>1
      <3>4. user'[u].life = "new" => user'[u].n <= 1 /\ user'[u].avd = 0
        BY <3>1, SMT
      <3>5. UserFits(u, user'[u])
        BY <2>1, <3>2, <3>3, <3>4 DEF UserFits
      <3>6. QED BY <1>0, <1>3, <2>1, <3>3, <3>5, OneUser
    <2>3. CASE ~isNew
      <3>1. /\ user'[u].n = user[u].n /\ user[u].open /\ user[u].life = "live"
            /\ user'[u].life # "new"
        BY <1>3, <2>3 DEF Says, Speaks
      <3>2. UserFits(u, user'[u]) /\ user[u].n <= user'[u].n
        BY <1>a, <2>1, <3>1 DEF UserFits
      <3>3. QED BY <1>0, <1>3, <2>1, <3>2, OneUser
    <2>4. QED BY <2>2, <2>3
  <1>4. ASSUME NEW u \in Uploaders, ReleaseHandle(u), ended' = ended PROVE Users'
    <2>1. /\ \A v \in Uploaders \ {u} : user'[v] = user[v]
          /\ user'[u].life = "released" /\ user'[u].n = user[u].n /\ user'[u].avd = user[u].avd
          /\ user'[u].open = user[u].open
      BY <1>0, <1>4, LeaveFrame
    <2>2. UserFits(u, user'[u]) /\ user[u].n <= user'[u].n
      BY <1>a, <2>1 DEF UserFits
    <2>3. QED BY <1>0, <1>a, <1>4, <2>1, <2>2, OneUser
  <1>5. ASSUME NEW u \in Uploaders, NEW h \in Handle, Takes(u, h), ended' = ended PROVE Users'
    <2>1. /\ \A v \in Uploaders \ {u} : user'[v] = user[v]
          /\ user'[u].life = "live" /\ user'[u].n = user[u].n /\ user'[u].avd = user[u].avd
          /\ user'[u].open = user[u].open
      BY <1>0, <1>5, TakesFrame
    <2>2. UserFits(u, user'[u]) /\ user[u].n <= user'[u].n
      BY <1>a, <2>1 DEF UserFits
    <2>3. QED BY <1>0, <1>a, <1>5, <2>1, <2>2, OneUser
  <1>6. ASSUME Account, HandleUpdate PROVE Users'
    <2>1. /\ user' = user /\ segInfo \in Updates
          /\ ended' = IF Ends(segInfo) THEN ended \cup {segInfo.session.id} ELSE ended
      BY <1>0, <1>6, UpdateFrame DEF Account
    <2>2. 1 \in 1 .. Len(Pending) /\ Pending[1] = segInfo /\ IsUpdate(segInfo)
      BY <1>0, <1>6, HandleTypes, PendingType DEF Taken, HandleUpdate, IsUpdate
    <2> DEFINE u == By(segInfo)
    <2>3. /\ u \in Uploaders /\ segInfo.session.id = <<u, Nth(segInfo)>>
          /\ Nth(segInfo) <= user[u].n
          /\ user[u].open /\ Ends(segInfo) => Nth(segInfo) # user[u].n
      <3>1. Fits(segInfo, user[u], ended)
        BY <2>2 DEF Reports
      <3>2. QED BY <1>0, <2>2, <3>1, UpdatesPending DEF Fits
    <2>4. ASSUME NEW v \in Uploaders, user[v].open PROVE <<v, user[v].n>> \notin ended'
      BY <1>a, <2>1, <2>3, <2>4 DEF UserFits
    <2>5. ASSUME NEW x \in ended' PROVE x[2] <= user[x[1]].n
      BY <1>0, <2>1, <2>3, <2>5 DEF Users
    <2>6. QED BY <1>0, <2>1, <2>4, <2>5 DEF Users
  <1>7. QED BY <1>1, <1>2, <1>3, <1>4, <1>5, <1>6, UserCases

(* Nothing new is pending.                                                 *)
LEMMA ReportsCarried ==
  ASSUME Typed, Reports(Pending), NEW k \in {0, 1}, NoneNew(k),
         \A i \in 1 .. Len(Pending') : IsUpdate(Pending'[i]) =>
           Fits(Pending'[i], user'[By(Pending'[i])], ended')
  PROVE  Reports(Pending)'
  <1>1. ASSUME NEW i \in 1 .. Len(Pending'), IsUpdate(Pending'[i])
        PROVE  i + k \in 1 .. Len(Pending) /\ Pending'[i] = Pending[i + k]
    BY <1>1 DEF NoneNew, Order, IsUpdate
  <1>3. ASSUME NEW i \in 1 .. Len(Pending'), NEW j \in 1 .. Len(Pending'),
               i < j, IsUpdate(Pending'[i]), IsUpdate(Pending'[j]),
               By(Pending'[i]) = By(Pending'[j])
        PROVE  Before(Pending'[i], Pending'[j])
    <2>1. /\ i + k \in 1 .. Len(Pending) /\ Pending'[i] = Pending[i + k]
          /\ j + k \in 1 .. Len(Pending) /\ Pending'[j] = Pending[j + k]
          /\ i + k < j + k
      BY <1>1, <1>3
    <2>2. QED BY <1>3, <2>1 DEF Reports
  <1>4. QED BY <1>3 DEF Reports

(* One more command is pending.                                            *)
LEMMA ReportsSpoken ==
  ASSUME Typed, Reports(Pending), NEW c \in Cmds, Spoken(c),
         \A i \in 1 .. Len(Pending) : IsUpdate(Pending[i]) =>
           Fits(Pending[i], user'[By(Pending[i])], ended'),
         IsUpdate(c) => Fits(c, user'[By(c)], ended'),
         \A i \in 1 .. Len(Pending) :
           IsUpdate(Pending[i]) /\ IsUpdate(c) /\ By(Pending[i]) = By(c) => Before(Pending[i], c)
  PROVE  Reports(Pending)'
  <1>0. Len(Pending) \in Nat /\ Len(Pending') = Len(Pending) + 1
    BY PendingType DEF Spoken
  <1>1. ASSUME NEW i \in 1 .. Len(Pending')
        PROVE  \/ i \in 1 .. Len(Pending) /\ Pending'[i] = Pending[i]
               \/ i = Len(Pending) + 1 /\ Pending'[i] = c
    BY <1>0 DEF Spoken
  <1>2. ASSUME NEW i \in 1 .. Len(Pending'), IsUpdate(Pending'[i])
        PROVE  Fits(Pending'[i], user'[By(Pending'[i])], ended')
    BY <1>1, <1>2
  <1>3. ASSUME NEW i \in 1 .. Len(Pending'), NEW j \in 1 .. Len(Pending'),
               i < j, IsUpdate(Pending'[i]), IsUpdate(Pending'[j]),
               By(Pending'[i]) = By(Pending'[j])
        PROVE  Before(Pending'[i], Pending'[j])
    <2>1. i \in 1 .. Len(Pending) /\ Pending'[i] = Pending[i]
      BY <1>0, <1>1, <1>3
    <2>2. CASE j \in 1 .. Len(Pending) /\ Pending'[j] = Pending[j]
      BY <1>3, <2>1, <2>2 DEF Reports
    <2>3. CASE Pending'[j] = c
      BY <1>3, <2>1, <2>3
    <2>4. QED BY <1>1, <2>2, <2>3
  <1>4. QED BY <1>2, <1>3 DEF Reports

(* What an uploader reports fits it, and is behind its other reports.      *)
LEMMA SaysFits ==
  ASSUME Base, Reports(Pending), NEW u \in Uploaders, NEW h \in Handle,
         NEW s \in Sessions(Ids), NEW isNew \in BOOLEAN, Says(u, h, s, isNew)
  PROVE  LET c == Update(h, s, isNew) IN
         /\ c \in Cmds /\ IsUpdate(c) /\ By(c) = u
         /\ Fits(c, user'[u], ended)
         /\ \A i \in 1 .. Len(Pending) : IsUpdate(Pending[i]) =>
              /\ Fits(Pending[i], user'[By(Pending[i])], ended)
              /\ By(Pending[i]) = u => Before(Pending[i], c)
  <1> DEFINE c == Update(h, s, isNew)
             m == user'[u].n
  <1>0. Typed /\ Owned /\ Users /\ user[u].n \in Nat
    BY UserTypes DEF Base
  <1>1. /\ c \in Cmds /\ IsUpdate(c) /\ c.h = h /\ c.session = s /\ c.isNew = isNew
        /\ c \in Updates
    BY DEF Update, Updates, Cmds, IsUpdate
  <1>2. Speaks(u, h, s, isNew) /\ s.id = <<u, m>> /\ m \in Nat /\ m >= 1
    BY DEF Says
  <1>3. By(c) = u /\ Nth(c) = m /\ c.session.id = <<u, m>>
    BY <1>1, <1>2 DEF By, Nth
  <1>4. /\ user'[u].seg = user[u].seg
        /\ user[u].life \in {"new", "live"}
        /\ user'[u].life = "new" => user[u].life = "new"
        /\ \A v \in Uploaders \ {u} : user'[v] = user[v]
    BY <1>2 DEF Speaks
  <1>5. Ends(c) <=> ~isNew /\ s.reason # 0
    BY <1>1 DEF Ends
  <1> HIDE DEF c
  <1>6. /\ m = 1 => h = 0 \/ (h = user[u].seg /\ ~isNew /\ s.reason # 0)
        /\ m # 1 => h = user[u].seg
    BY DEF Says
  <1>7. CASE isNew
    <2>1. m = user[u].n + 1 /\ (m = 1 => s.gap = 0) /\ ~user[u].open
      BY <1>7 DEF Says
    <2>2. <<u, m>> \notin ended
      <3>1. ASSUME <<u, m>> \in ended PROVE m <= user[u].n
        BY <1>0, <3>1 DEF Users
      <3>2. QED BY <1>0, <2>1, <3>1
    <2>3. Fits(c, user'[u], ended)
      BY <1>1, <1>2, <1>3, <1>4, <1>5, <1>6, <1>7, <2>1, <2>2 DEF Fits
    <2>4. ASSUME NEW i \in 1 .. Len(Pending), IsUpdate(Pending[i])
          PROVE  /\ Fits(Pending[i], user'[By(Pending[i])], ended)
                 /\ By(Pending[i]) = u => Before(Pending[i], c)
      <3>1. /\ By(Pending[i]) \in Uploaders /\ Nth(Pending[i]) \in Nat
            /\ Fits(Pending[i], user[By(Pending[i])], ended)
        BY <1>0, <2>4, UpdatesPending DEF Reports
      <3>2. CASE By(Pending[i]) # u
        BY <1>4, <3>1, <3>2
      <3>3. CASE By(Pending[i]) = u
        <4>1. Nth(Pending[i]) <= user[u].n /\ Nth(Pending[i]) < m
          BY <1>0, <2>1, <3>1, <3>3 DEF Fits
        <4>2. Nth(Pending[i]) <= m /\ Nth(Pending[i]) # m
          BY <1>2, <3>1, <4>1
        <4>3. Before(Pending[i], c)
          BY <1>3, <4>1, <4>2 DEF Before
        <4>4. Fits(Pending[i], user'[u], ended)
          BY <1>4, <3>1, <3>3, <4>2 DEF Fits
        <4>5. QED BY <3>3, <4>3, <4>4
      <3>4. QED BY <3>2, <3>3
    <2>5. QED BY <1>1, <1>3, <2>3, <2>4 DEF c
  <1>8. CASE ~isNew
    <2>1. /\ m = user[u].n /\ user[u].open /\ user[u].life = "live"
          /\ s.reason # 0 => ~user'[u].open /\ s.gap = 0
          /\ s.reason = 0 => s.avd > 0
      BY <1>8 DEF Says
    <2>2. <<u, m>> \notin ended
      BY <1>0, <2>1 DEF Users
    <2>a. s.avd \in Nat /\ s.reason \in {0, 1, 4}
      BY DEF Sessions
    <2>b. s.avd <= 0 \/ s.reason # 0 => s.gap = 0
      BY <2>1, <2>a
    <2>3. Fits(c, user'[u], ended)
      BY <1>1, <1>2, <1>3, <1>4, <1>5, <1>6, <1>8, <2>1, <2>2, <2>b DEF Fits
    <2>4. ASSUME NEW i \in 1 .. Len(Pending), IsUpdate(Pending[i])
          PROVE  /\ Fits(Pending[i], user'[By(Pending[i])], ended)
                 /\ By(Pending[i]) = u => Before(Pending[i], c)
      <3>1. /\ By(Pending[i]) \in Uploaders /\ Nth(Pending[i]) \in Nat
            /\ Fits(Pending[i], user[By(Pending[i])], ended)
        BY <1>0, <2>4, UpdatesPending DEF Reports
      <3>2. CASE By(Pending[i]) # u
        BY <1>4, <3>1, <3>2
      <3>3. CASE By(Pending[i]) = u
        <4>1. Nth(Pending[i]) <= m /\ (Ends(Pending[i]) => Nth(Pending[i]) # m)
          BY <2>1, <3>1, <3>3 DEF Fits
        <4>2. Before(Pending[i], c)
          BY <1>1, <1>3, <1>8, <4>1 DEF Before
        <4>3. Fits(Pending[i], user'[u], ended)
          BY <1>4, <2>1, <3>1, <3>3, <4>1 DEF Fits
        <4>4. QED BY <3>3, <4>2, <4>3
      <3>4. QED BY <3>2, <3>3
    <2>5. QED BY <1>1, <1>3, <2>3, <2>4 DEF c
  <1>9. QED BY <1>7, <1>8

LEMMA ReportsStep ==
  Base /\ Reports(Pending) /\ [Next]_vars => Reports(Pending)'
  <1> SUFFICES ASSUME Base, Reports(Pending), [Next]_vars PROVE Reports(Pending)'
    OBVIOUS
  <1>0. Typed /\ Places /\ Owned /\ Users
    BY DEF Base
  <1>a. ASSUME NEW i \in 1 .. Len(Pending), IsUpdate(Pending[i])
        PROVE  /\ By(Pending[i]) \in Uploaders /\ Nth(Pending[i]) \in Nat /\ Nth(Pending[i]) >= 1
               /\ Fits(Pending[i], user[By(Pending[i])], ended)
    BY <1>0, <1>a, UpdatesPending DEF Reports
  <1>b. ASSUME NEW k \in {0, 1}, NoneNew(k),
               \A i \in 1 .. Len(Pending) : IsUpdate(Pending[i]) =>
                 Fits(Pending[i], user'[By(Pending[i])], ended')
        PROVE  Reports(Pending)'
    <2>1. ASSUME NEW i \in 1 .. Len(Pending'), IsUpdate(Pending'[i])
          PROVE  i + k \in 1 .. Len(Pending) /\ Pending'[i] = Pending[i + k]
      BY <1>b, <2>1 DEF NoneNew, Order, IsUpdate
    <2>2. QED BY <1>0, <1>b, <2>1, ReportsCarried
  <1>1. CASE SameUsers /\ \E k \in {0, 1} : NoneNew(k)
    BY <1>1, <1>a, <1>b DEF SameUsers
  <1>2. ASSUME NEW u \in Uploaders, Idles(u), ended' = ended, NoneNew(0) PROVE Reports(Pending)'
    <2>1. /\ \A v \in Uploaders \ {u} : user'[v] = user[v]
          /\ user'[u].n = user[u].n /\ user'[u].seg = user[u].seg
          /\ user'[u].open => user[u].open
          /\ user'[u].life = "new" => user[u].life = "none"
      BY <1>2 DEF Idles
    <2>2. ASSUME NEW i \in 1 .. Len(Pending), IsUpdate(Pending[i])
          PROVE  Fits(Pending[i], user'[By(Pending[i])], ended')
      <3>1. CASE By(Pending[i]) # u
        BY <1>2, <1>a, <2>1, <2>2, <3>1
      <3>2. CASE By(Pending[i]) = u
        <4>1. user[u].life = "none" => Nth(Pending[i]) <= 0
          BY <1>0, <1>a, <2>2, <3>2 DEF Fits, Users
        <4>2. user'[u].life # "new"
          BY <1>a, <2>1, <2>2, <4>1
        <4>3. QED BY <1>2, <1>a, <2>1, <2>2, <3>2, <4>2 DEF Fits
      <3>3. QED BY <3>1, <3>2
    <2>3. QED BY <1>2, <1>b, <2>2
  <1>3. ASSUME NEW u \in Uploaders, NEW h \in Handle, NEW s \in Sessions(Ids), NEW isNew \in BOOLEAN,
               Says(u, h, s, isNew), ended' = ended,
               NoneNew(0) \/ Spoken(Update(h, s, isNew))
        PROVE  Reports(Pending)'
    <2> DEFINE c == Update(h, s, isNew)
    <2>1. /\ c \in Cmds /\ IsUpdate(c) /\ By(c) = u
          /\ Fits(c, user'[u], ended)
          /\ \A i \in 1 .. Len(Pending) : IsUpdate(Pending[i]) =>
               /\ Fits(Pending[i], user'[By(Pending[i])], ended)
               /\ By(Pending[i]) = u => Before(Pending[i], c)
      BY <1>3, SaysFits
    <2> HIDE DEF c
    <2>2. CASE NoneNew(0)
      BY <1>3, <1>b, <2>1, <2>2
    <2>3. CASE Spoken(c)
      BY <1>0, <1>3, <2>1, <2>3, ReportsSpoken
    <2>4. QED BY <1>3, <2>2, <2>3 DEF c
  <1>4. ASSUME NEW u \in Uploaders, ReleaseHandle(u), ended' = ended,
               Spoken(Release(user[u].seg))
        PROVE  Reports(Pending)'
    <2> DEFINE c == Release(user[u].seg)
    <2>1. /\ c \in Cmds /\ ~IsUpdate(c)
          /\ user[u].life = "stopped" /\ user'[u].life = "released"
          /\ \A v \in Uploaders \ {u} : user'[v] = user[v]
          /\ user'[u].n = user[u].n /\ user'[u].seg = user[u].seg
          /\ user'[u].open = user[u].open
      BY <1>0, <1>4, LeaveFrame DEF IsUpdate
    <2> HIDE DEF c
    <2>2. ASSUME NEW i \in 1 .. Len(Pending), IsUpdate(Pending[i])
          PROVE  Fits(Pending[i], user'[By(Pending[i])], ended')
      <3>1. CASE By(Pending[i]) # u
        BY <1>4, <1>a, <2>1, <2>2, <3>1
      <3>2. CASE By(Pending[i]) = u
        BY <1>4, <1>a, <2>1, <2>2, <3>2 DEF Fits
      <3>3. QED BY <3>1, <3>2
    <2>3. Spoken(c)
      BY <1>4 DEF c
    <2>4. QED BY <1>0, <2>1, <2>2, <2>3, ReportsSpoken
  <1>5. ASSUME NEW u \in Uploaders, NEW h \in Handle, Takes(u, h), ended' = ended, NoneNew(0)
        PROVE  Reports(Pending)'
    <2>1. /\ \A v \in Uploaders \ {u} : user'[v] = user[v]
          /\ user[u].life = "new" /\ user'[u].life = "live"
          /\ user'[u].n = user[u].n /\ user'[u].open = user[u].open
          /\ user[u].n <= 1
      BY <1>0, <1>5, TakesFrame DEF Users
    <2>2. ASSUME NEW i \in 1 .. Len(Pending), IsUpdate(Pending[i])
          PROVE  Fits(Pending[i], user'[By(Pending[i])], ended')
      <3>1. CASE By(Pending[i]) # u
        BY <1>5, <1>a, <2>1, <2>2, <3>1
      <3>2. CASE By(Pending[i]) = u
        <4>1. Pending[i].isNew /\ Nth(Pending[i]) <= user[u].n
          BY <1>a, <2>1, <2>2, <3>2 DEF Fits
        <4>2. Nth(Pending[i]) = 1 /\ ~Ends(Pending[i]) /\ ~(Nth(Pending[i]) >= 2)
          BY <1>0, <1>a, <2>1, <2>2, <4>1, UserTypes DEF Ends
        <4>3. Pending[i].h = 0
          BY <1>a, <2>2, <4>2 DEF Fits
        <4>4. QED BY <1>5, <1>a, <2>1, <2>2, <3>2, <4>1, <4>2, <4>3 DEF Fits
      <3>3. QED BY <3>1, <3>2
    <2>3. QED BY <1>5, <1>b, <2>2
  <1>6. ASSUME Account, HandleUpdate, NoneNew(1) PROVE Reports(Pending)'
    <2>1. /\ user' = user
          /\ ended' = IF Ends(segInfo) THEN ended \cup {segInfo.session.id} ELSE ended
      BY <1>0, <1>6, UpdateFrame DEF Account
    <2>2. 1 \in 1 .. Len(Pending) /\ Pending[1] = segInfo /\ IsUpdate(Pending[1])
      BY <1>0, <1>6, HandleTypes, PendingType DEF Taken, HandleUpdate, IsUpdate
    <2>3. ASSUME NEW i \in 1 .. Len(Pending'), IsUpdate(Pending'[i])
          PROVE  /\ i + 1 \in 1 .. Len(Pending) /\ Pending'[i] = Pending[i + 1] /\ 1 < i + 1
      BY <1>6, <2>3 DEF NoneNew, Order, IsUpdate
    <2>4. ASSUME NEW i \in 1 .. Len(Pending), IsUpdate(Pending[i]), 1 < i
          PROVE  Fits(Pending[i], user'[By(Pending[i])], ended')
      <3>1. Pending[i].session.id \notin ended'
        <4>1. ASSUME Ends(Pending[1]), Pending[i].session.id = Pending[1].session.id
              PROVE  FALSE
          <5>1. By(Pending[i]) = By(Pending[1]) /\ Nth(Pending[i]) = Nth(Pending[1])
            BY <4>1 DEF By, Nth
          <5>2. Before(Pending[1], Pending[i])
            BY <2>2, <2>4, <5>1 DEF Reports
          <5>3. QED BY <4>1, <5>1, <5>2 DEF Before
        <4>2. Pending[i].session.id \notin ended
          BY <1>a, <2>4 DEF Fits
        <4>3. QED BY <2>1, <2>2, <4>1, <4>2
      <3>2. QED BY <1>a, <2>1, <2>4, <3>1 DEF Fits
    <2>5. QED BY <1>0, <1>6, <2>3, <2>4, ReportsCarried
  <1>7. QED BY <1>1, <1>2, <1>3, <1>4, <1>5, <1>6, UserCases

-----------------------------------------------------------------------------
(* What the pending commands of an owner o for its handle h say: those of  *)
(* p in front of place j are those of q in front of place m, k places on.  *)
Alike(p, j, q, m, h, o, k) ==
  /\ \A i \in 1 .. m - 1 : Mine(q[i], h, o) => i + k \in 1 .. j - 1 /\ q[i] = p[i + k]
  /\ \A i \in 1 .. j - 1 : Mine(p[i], h, o) => i - k \in 1 .. m - 1 /\ q[i - k] = p[i]

LEMMA ClearAlike ==
  ASSUME NEW p, NEW q, NEW h, NEW o, NEW g, NEW g1, NEW j \in Nat, NEW m \in Nat, NEW k \in Nat,
         Alike(p, j, q, m, h, o, k), Clear(p, h, o, g, j), g1 # 0 => g # 0
  PROVE  Clear(q, h, o, g1, m)
  <1>1. ASSUME NEW i \in 1 .. m - 1, Mine(q[i], h, o), ~Zeroes(q[i])
        PROVE  \E n \in i + 1 .. m - 1 : Mine(q[n], h, o) /\ Zeroes(q[n])
    <2>1. i + k \in 1 .. j - 1 /\ q[i] = p[i + k]
      BY <1>1 DEF Alike
    <2>2. PICK n \in i + k + 1 .. j - 1 : Mine(p[n], h, o) /\ Zeroes(p[n])
      BY <1>1, <2>1 DEF Clear
    <2>3. n \in 1 .. j - 1
      BY <2>1, <2>2
    <2>4. n - k \in 1 .. m - 1 /\ q[n - k] = p[n]
      BY <2>2, <2>3 DEF Alike
    <2>5. n - k \in i + 1 .. m - 1
      BY <2>1, <2>2, <2>4
    <2>6. QED BY <2>2, <2>4, <2>5
  <1>2. ASSUME g1 # 0 PROVE \E n \in 1 .. m - 1 : Mine(q[n], h, o) /\ Zeroes(q[n])
    <2>1. PICK n \in 1 .. j - 1 : Mine(p[n], h, o) /\ Zeroes(p[n])
      BY <1>2 DEF Clear
    <2>2. n - k \in 1 .. m - 1 /\ q[n - k] = p[n]
      BY <2>1 DEF Alike
    <2>3. QED BY <2>1, <2>2
  <1>3. QED BY <1>1, <1>2 DEF Clear

LEMMA HoldsAlike ==
  ASSUME NEW p, NEW q, NEW h, NEW o, NEW id, NEW x, NEW j \in Nat, NEW m \in Nat, NEW k \in Nat,
         Alike(p, j, q, m, h, o, k), Holds(p, h, o, id, x, j)
  PROVE  Holds(q, h, o, id, x, m)
  <1>1. ASSUME NEW i \in 1 .. j - 1, Mine(p[i], h, o), p[i].isNew, p[i].session.id = x
        PROVE  Holds(q, h, o, id, x, m)
    <2>1. i - k \in 1 .. m - 1 /\ q[i - k] = p[i]
      BY <1>1 DEF Alike
    <2>2. QED BY <1>1, <2>1 DEF Holds
  <1>2. CASE id = x \/ (id = <<>> /\ x[2] = 1)
    BY <1>2 DEF Holds
  <1>3. QED BY <1>1, <1>2 DEF Holds

(* The first command is handled, and is the owner's.                       *)
LEMMA ClearTaken ==
  ASSUME NEW p, NEW q, NEW h, NEW o, NEW g, NEW g1, NEW m \in Nat, m >= 1,
         \A i \in 1 .. m - 1 : q[i] = p[i + 1],
         Clear(p, h, o, g, m + 1), Mine(p[1], h, o), Zeroes(p[1]) => g1 = 0
  PROVE  Clear(q, h, o, g1, m)
  <1>0. (m + 1) - 1 = m
    OBVIOUS
  <1>1. ASSUME NEW i \in 1 .. m - 1, Mine(q[i], h, o), ~Zeroes(q[i])
        PROVE  \E n \in i + 1 .. m - 1 : Mine(q[n], h, o) /\ Zeroes(q[n])
    <2>1. i + 1 \in 1 .. m /\ q[i] = p[i + 1]
      OBVIOUS
    <2>2. PICK n \in (i + 1) + 1 .. m : Mine(p[n], h, o) /\ Zeroes(p[n])
      BY <1>0, <1>1, <2>1 DEF Clear
    <2>3. n - 1 \in i + 1 .. m - 1 /\ n - 1 \in 1 .. m - 1 /\ (n - 1) + 1 = n
      BY <2>1, <2>2
    <2>4. QED BY <2>2, <2>3
  <1>2. ASSUME g1 # 0 PROVE \E n \in 1 .. m - 1 : Mine(q[n], h, o) /\ Zeroes(q[n])
    <2>1. 1 \in 1 .. m /\ ~Zeroes(p[1])
      BY <1>2
    <2>2. PICK n \in 1 + 1 .. m : Mine(p[n], h, o) /\ Zeroes(p[n])
      BY <1>0, <2>1 DEF Clear
    <2>3. n - 1 \in 1 .. m - 1 /\ (n - 1) + 1 = n
      BY <2>2
    <2>4. QED BY <2>2, <2>3
  <1>3. QED BY <1>1, <1>2 DEF Clear

LEMMA HoldsTaken ==
  ASSUME NEW p, NEW q, NEW h, NEW o, NEW id, NEW x, NEW m \in Nat, m >= 1,
         \A i \in 1 .. m - 1 : q[i] = p[i + 1],
         Holds(p, h, o, id, x, m + 1)
  PROVE  \/ id = x \/ (id = <<>> /\ x[2] = 1)
         \/ Mine(p[1], h, o) /\ p[1].isNew /\ p[1].session.id = x
         \/ \A id1 : Holds(q, h, o, id1, x, m)
  <1>0. (m + 1) - 1 = m
    OBVIOUS
  <1>1. ASSUME NEW i \in 1 .. m, i # 1, Mine(p[i], h, o), p[i].isNew, p[i].session.id = x
        PROVE  \A id1 : Holds(q, h, o, id1, x, m)
    <2>1. i - 1 \in 1 .. m - 1 /\ (i - 1) + 1 = i
      BY <1>1
    <2>2. QED BY <1>1, <2>1 DEF Holds
  <1>2. QED BY <1>0, <1>1 DEF Holds

(* The pending commands of o for h stay as they are, k places further.     *)
MineCarried(h, o, k) ==
  /\ \A i \in 1 .. Len(Pending') : Mine(Pending'[i], h, o) =>
       i + k \in 1 .. Len(Pending) /\ Pending'[i] = Pending[i + k]
  /\ \A i \in 1 .. Len(Pending) : Mine(Pending[i], h, o) =>
       i - k \in 1 .. Len(Pending') /\ Pending'[i - k] = Pending[i]

LEMMA CarriedMine ==
  \A h, o : \A k \in {0, 1} : Carried(k) => MineCarried(h, o, k)
  BY DEF Carried, NoneNew, NoneLost, MineCarried, Mine, IsUpdate, Order

LEMMA TakenMine ==
  \A h, o : Typed /\ Taken /\ ~Mine(segInfo, h, o) => MineCarried(h, o, 1)
  <1> SUFFICES ASSUME NEW h, NEW o, Typed, Taken, ~Mine(segInfo, h, o) PROVE MineCarried(h, o, 1)
    OBVIOUS
  <1>1. Len(Pending) \in Nat
    BY PendingType
  <1>2. QED BY <1>1 DEF MineCarried, Taken

LEMMA SpokenMine ==
  \A h, o, c : Typed /\ Spoken(c) /\ ~Mine(c, h, o) => MineCarried(h, o, 0)
  <1> SUFFICES ASSUME NEW h, NEW o, NEW c, Typed, Spoken(c), ~Mine(c, h, o)
               PROVE  MineCarried(h, o, 0)
    OBVIOUS
  <1>1. Len(Pending) \in Nat
    BY PendingType
  <1>2. QED BY <1>1 DEF MineCarried, Spoken

LEMMA PendingLength ==
  Typed /\ Typed' => Len(Pending) \in Nat /\ Len(Pending') \in Nat
  <1> SUFFICES ASSUME Typed, Typed' PROVE Len(Pending) \in Nat /\ Len(Pending') \in Nat
    OBVIOUS
  <1>1. Len(Pending) \in Nat
    BY PendingType
  <1>2. /\ pSegQueue_' \in Seq(Cmds) /\ segInfo' \in Cmds
        /\ <<segInfo'>> \in Seq(Cmds)
    BY DEF Typed
  <1>3. Pending' \in Seq(Cmds)
    BY <1>2 DEF Pending
  <1>4. QED BY <1>1, <1>3

LEMMA MineAlike ==
  ASSUME Typed, Typed', NEW h, NEW o, NEW k \in {0, 1}, MineCarried(h, o, k)
  PROVE  /\ Alike(Pending, Len(Pending) + 1, Pending', Len(Pending') + 1, h, o, k)
         /\ \A j \in 1 .. Len(Pending') : Mine(Pending'[j], h, o) =>
              /\ j + k \in 1 .. Len(Pending) /\ Pending'[j] = Pending[j + k]
              /\ Alike(Pending, j + k, Pending', j, h, o, k)
  <1>0. Len(Pending) \in Nat /\ Len(Pending') \in Nat
    BY PendingLength
  <1>1. Alike(Pending, Len(Pending) + 1, Pending', Len(Pending') + 1, h, o, k)
    BY <1>0 DEF MineCarried, Alike
  <1>2. ASSUME NEW j \in 1 .. Len(Pending'), Mine(Pending'[j], h, o)
        PROVE  /\ j + k \in 1 .. Len(Pending) /\ Pending'[j] = Pending[j + k]
               /\ Alike(Pending, j + k, Pending', j, h, o, k)
    <2>1. j + k \in 1 .. Len(Pending) /\ Pending'[j] = Pending[j + k]
      BY <1>2 DEF MineCarried
    <2>2. ASSUME NEW i \in 1 .. j - 1, Mine(Pending'[i], h, o)
          PROVE  i + k \in 1 .. (j + k) - 1 /\ Pending'[i] = Pending[i + k]
      BY <1>0, <2>2 DEF MineCarried
    <2>3. ASSUME NEW i \in 1 .. (j + k) - 1, Mine(Pending[i], h, o)
          PROVE  i - k \in 1 .. j - 1 /\ Pending'[i - k] = Pending[i]
      <3>1. i \in 1 .. Len(Pending)
        BY <1>0, <2>1
      <3>2. i - k \in 1 .. Len(Pending') /\ Pending'[i - k] = Pending[i]
        BY <2>3, <3>1 DEF MineCarried
      <3>3. QED BY <1>0, <3>2
    <2>4. QED BY <2>1, <2>2, <2>3 DEF Alike
  <1>3. QED BY <1>1, <1>2

(* One more is behind them.                                                *)
LEMMA SpokenAlike ==
  ASSUME Typed, NEW c, Spoken(c), NEW h, NEW o, NEW j \in 1 .. Len(Pending) + 1
  PROVE  Alike(Pending, j, Pending', j, h, o, 0)
  <1>0. Len(Pending) \in Nat
    BY PendingType
  <1>1. QED BY <1>0 DEF Spoken, Alike

-----------------------------------------------------------------------------
(* Steps as a handle sees them that is and stays its owner's alone.        *)
Still(h) ==
  /\ handles'[h] = handles[h] /\ owner'[h] = owner[h]
  /\ given'[h] = given[h] /\ sum'[h] = sum[h]
  /\ Undisturbed(h)

(* Something happens elsewhere: there, a session may end.                  *)
Aside(h) ==
  /\ Still(h)
  /\ user'[owner[h]] = user[owner[h]] /\ uninitPc' = uninitPc
  /\ \E k \in {0, 1} : MineCarried(h, owner[h], k)
  /\ \/ ended' = ended
     \/ /\ ended' = ended \cup {segInfo.session.id}
        /\ segInfo.h # h /\ IsUpdate(segInfo)
        /\ 1 \in 1 .. Len(Pending) /\ Pending[1] = segInfo

(* The owner says nothing any more, or LinkUninitSegmentMgr has begun.     *)
Stops(h) ==
  /\ Still(h) /\ ended' = ended /\ user'[owner[h]].n = user[owner[h]].n
  /\ uninitPc' # "idle" \/ user'[owner[h]].life # "live"
  /\ MineCarried(h, owner[h], 0) \/ Len(Pending') = 0

OwnerSays(h, h1, s, isNew) ==
  /\ Still(h) /\ ended' = ended /\ uninitPc = "idle"
  /\ Says(owner[h], h1, s, isNew) /\ Spoken(Update(h1, s, isNew))

OwnersHandled(h) ==
  /\ Undisturbed(h) /\ Account /\ HandleUpdate /\ Taken
  /\ segInfo.h = h /\ By(segInfo) = owner[h]

LEMMA SaidCases ==
  ASSUME Base, NEW h \in Handle, Undisturbed(h)', NEW u \in Uploaders, SaysSomething(u)
  PROVE  \/ Aside(h)
         \/ \E h1 \in Handle, s \in Sessions(Ids), isNew \in BOOLEAN : OwnerSays(h, h1, s, isNew)
  <1>0. Typed /\ Places /\ Owned
    BY DEF Base
  <1>1. PICK h1 \in Handle, s \in Sessions(Ids), isNew \in BOOLEAN : Says(u, h1, s, isNew)
    BY DEF SaysSomething
  <1> DEFINE c == Update(h1, s, isNew)
  <1>2. Speaks(u, h1, s, isNew) /\ Send(u, h1, s, isNew)
    BY <1>1 DEF Says, Speaks
  <1>3. /\ UNCHANGED <<handles, nQuit_, thread, uninitPc, owner, given, sum, ended>>
        /\ uninitPc = "idle"
    BY <1>0, <1>2, SendFrame
  <1>4. /\ owner[h] # "none" /\ owner[h] \in Uploaders /\ handles[h].used
    BY <1>0, <1>3 DEF Undisturbed, Places, Typed
  <1>5. By(c) = u
    BY <1>2 DEF Speaks, Update, By
  <1>6. CASE Pending' = Pending /\ disturbed' = [i \in Handle |-> disturbed[i] \/ owner[i] = u]
    <2>1. ~disturbed[h] /\ owner[h] # u
      BY <1>6 DEF Undisturbed
    <2>2. user'[owner[h]] = user[owner[h]]
      BY <1>2, <1>4, <2>1 DEF Speaks
    <2>3. MineCarried(h, owner[h], 0)
      BY <1>0, <1>6, CarriedSame, CarriedMine
    <2>4. QED BY <1>3, <1>4, <2>1, <2>2, <2>3 DEF Aside, Still, Undisturbed
  <1>7. CASE disturbed' = disturbed /\ Spoken(c)
    <2>1. Still(h)
      BY <1>3, <1>4, <1>7 DEF Still, Undisturbed
    <2>2. CASE owner[h] = u
      BY <1>1, <1>3, <1>7, <2>1, <2>2 DEF OwnerSays
    <2>3. CASE owner[h] # u
      <3>1. user'[owner[h]] = user[owner[h]]
        BY <1>2, <1>4, <2>3 DEF Speaks
      <3>2. MineCarried(h, owner[h], 0)
        BY <1>0, <1>5, <1>7, <2>3, SpokenMine DEF Mine
      <3>3. QED BY <1>3, <2>1, <3>1, <3>2 DEF Aside
    <2>4. QED BY <2>2, <2>3
  <1>8. QED BY <1>0, <1>2, <1>6, <1>7, SendPending DEF Spoken

LEMMA ElsewhereStill ==
  ASSUME Typed, NEW h \in Handle, Undisturbed(h)', NEW i \in Handle, SameElsewhere(i), i # h
  PROVE  Still(h)
  BY DEF SameElsewhere, Still, Undisturbed

LEMMA HandleCases ==
  ASSUME Base, NEW h \in Handle, Undisturbed(h)', [Next]_vars
  PROVE  \/ Aside(h) \/ Stops(h)
         \/ \E h1 \in Handle, s \in Sessions(Ids), isNew \in BOOLEAN : OwnerSays(h, h1, s, isNew)
         \/ \E u \in Uploaders : Takes(u, h) /\ Carried(0)
         \/ OwnersHandled(h)
         \/ Undisturbed(h) /\ Account /\ TtlReport /\ idx = h /\ Carried(0)
  <1>0. Typed /\ Places /\ Owned
    BY DEF Base
  <1>a. Still(h) => /\ owner[h] \in Uploaders
                    /\ user[owner[h]].life \in {"live", "stopped", "released"}
    BY <1>0 DEF Still, Undisturbed, Places, Typed, Owned
  <1>1. ASSUME NEW u \in Uploaders, Idles(u) PROVE Aside(h) \/ Stops(h)
    <2>1. Still(h) /\ uninitPc' = uninitPc /\ ended' = ended
      BY <1>1 DEF Idles, Still, Undisturbed
    <2>2. MineCarried(h, owner[h], 0)
      BY <1>1, SilentSteps, CarriedMine
    <2>3. CASE owner[h] = u
      BY <1>1, <2>1, <2>2, <2>3 DEF Idles, Stops
    <2>4. CASE owner[h] # u
      <3>1. user'[owner[h]] = user[owner[h]]
        BY <1>a, <1>1, <2>1, <2>4 DEF Idles
      <3>2. QED BY <2>1, <2>2, <3>1 DEF Aside
    <2>5. QED BY <2>3, <2>4
  <1>2. ASSUME NEW u \in Uploaders, ReleaseHandle(u) PROVE Aside(h) \/ Stops(h)
    <2> DEFINE c == Release(user[u].seg)
    <2>1. /\ UNCHANGED <<handles, uninitPc, owner, given, sum, disturbed, ended>>
          /\ \A v \in Uploaders \ {u} : user'[v] = user[v]
          /\ user'[u].life = "released" /\ user'[u].n = user[u].n
          /\ Spoken(c) /\ ~IsUpdate(c)
      BY <1>0, <1>2, LeaveFrame DEF Spoken, IsUpdate
    <2> HIDE DEF c
    <2>2. Still(h)
      BY <2>1 DEF Still, Undisturbed
    <2>3. MineCarried(h, owner[h], 0)
      BY <1>0, <2>1, SpokenMine DEF Mine
    <2>4. CASE owner[h] = u
      BY <2>1, <2>2, <2>3, <2>4 DEF Stops
    <2>5. CASE owner[h] # u
      <3>1. user'[owner[h]] = user[owner[h]]
        BY <1>a, <2>1, <2>2, <2>5
      <3>2. QED BY <2>1, <2>2, <2>3, <3>1 DEF Aside
    <2>6. QED BY <2>4, <2>5
  <1>3. ASSUME NEW u \in Uploaders, NEW i \in Handle, Takes(u, i), i # h PROVE Aside(h)
    <2>1. /\ SameElsewhere(i) /\ user[u].life = "new" /\ UNCHANGED <<uninitPc, ended>>
          /\ \A v \in Uploaders \ {u} : user'[v] = user[v]
      BY <1>0, <1>3, TakesFrame
    <2>2. Still(h)
      BY <1>0, <1>3, <2>1, ElsewhereStill
    <2>3. user'[owner[h]] = user[owner[h]]
      BY <1>a, <2>1, <2>2
    <2>4. MineCarried(h, owner[h], 0)
      BY <1>3, SilentSteps, CarriedMine
    <2>5. QED BY <2>1, <2>2, <2>3, <2>4 DEF Aside
  <1>4. CASE QuietManager
    <2>1. UNCHANGED <<handles, owner, given, sum, disturbed, ended, user, uninitPc>>
      BY <1>0, <1>4, QuietFrame DEF QuietManager, Quiet
    <2>2. \E k \in {0, 1} : MineCarried(h, owner[h], k)
      BY <1>4, SilentSteps, CarriedMine
    <2>3. QED BY <2>1, <2>2 DEF Aside, Still, Undisturbed
  <1>5. CASE Account /\ HandleUpdate
    <2>1. /\ SameElsewhere(segInfo.h) /\ segInfo.h \in Handle
          /\ handles'[segInfo.h].used = handles[segInfo.h].used
          /\ handles[segInfo.h].used =>
               disturbed'[segInfo.h] = (disturbed[segInfo.h] \/ By(segInfo) # owner[segInfo.h])
          /\ ended' = IF Ends(segInfo) THEN ended \cup {segInfo.session.id} ELSE ended
          /\ user' = user
      BY <1>0, <1>5, UpdateFrame DEF Account
    <2>2. Taken /\ uninitPc' = uninitPc /\ IsUpdate(segInfo)
      BY <1>0, <1>5, HandleTypes DEF HandleUpdate, IsUpdate
    <2>3. CASE segInfo.h = h
      <3>1. handles[h].used
        BY <2>1, <2>3 DEF Undisturbed
      <3>2. ~(disturbed[h] \/ By(segInfo) # owner[h])
        BY <2>1, <2>3, <3>1 DEF Undisturbed
      <3>3. QED BY <1>5, <2>2, <2>3, <3>1, <3>2 DEF OwnersHandled, Undisturbed
    <2>4. CASE segInfo.h # h
      <3>1. Still(h)
        BY <1>0, <2>1, <2>4, ElsewhereStill
      <3>2. MineCarried(h, owner[h], 1)
        BY <1>0, <2>2, <2>4, TakenMine DEF Mine
      <3>3. 1 \in 1 .. Len(Pending) /\ Pending[1] = segInfo
        BY <1>0, <2>2, PendingType DEF Taken
      <3>4. QED BY <2>1, <2>2, <2>4, <3>1, <3>2, <3>3 DEF Aside
    <2>5. QED BY <2>3, <2>4
  <1>6. CASE Account /\ HandleRelease
    <2>1. /\ SameElsewhere(segInfo.h) /\ segInfo.h \in Handle
          /\ ~handles'[segInfo.h].used /\ UNCHANGED <<ended, user>>
      BY <1>0, <1>6, ReleaseFrame
    <2>2. Taken /\ uninitPc' = uninitPc /\ ~IsUpdate(segInfo)
      BY <1>0, <1>6, HandleTypes DEF HandleRelease, IsUpdate
    <2>3. segInfo.h # h
      BY <2>1 DEF Undisturbed
    <2>4. Still(h)
      BY <1>0, <2>1, <2>3, ElsewhereStill
    <2>5. MineCarried(h, owner[h], 1)
      BY <1>0, <2>2, TakenMine DEF Mine
    <2>6. QED BY <2>1, <2>2, <2>4, <2>5 DEF Aside
  <1>7. CASE Account /\ TtlReport
    <2>1. /\ SameElsewhere(idx) /\ idx \in Handle /\ UNCHANGED <<disturbed, ended, user>>
          /\ handles'[idx].used = handles[idx].used
      BY <1>0, <1>7, TtlFrame
    <2>2. Carried(0) /\ uninitPc' = uninitPc
      BY <1>7, SilentSteps DEF TtlReport
    <2>3. CASE idx = h
      BY <1>7, <2>1, <2>2, <2>3 DEF Undisturbed
    <2>4. CASE idx # h
      <3>1. Still(h)
        BY <1>0, <2>1, <2>4, ElsewhereStill
      <3>2. MineCarried(h, owner[h], 0)
        BY <2>2, CarriedMine
      <3>3. QED BY <2>1, <2>2, <3>1, <3>2 DEF Aside
    <2>5. QED BY <2>3, <2>4
  <1>8. CASE Uninit
    <2>1. /\ UNCHANGED <<handles, userVars>> /\ uninitPc' # "idle"
          /\ Carried(0) \/ Len(Pending') = 0
      BY <1>0, <1>8, UninitCarried
    <2>2. Still(h) /\ ended' = ended /\ user' = user
      BY <2>1 DEF Still, Undisturbed, userVars
    <2>3. QED BY <2>1, <2>2, CarriedMine DEF Stops
  <1>9. CASE UNCHANGED vars
    <2>1. Still(h) /\ ended' = ended /\ user' = user /\ uninitPc' = uninitPc
      BY <1>9 DEF Still, Undisturbed, vars, mgrVars, userVars
    <2>2. MineCarried(h, owner[h], 0)
      BY <1>9, SilentSteps, CarriedMine
    <2>3. QED BY <2>1, <2>2 DEF Aside
  <1>10. ASSUME NEW u \in Uploaders, Takes(u, h) PROVE Carried(0)
    BY <1>10, SilentSteps
  <1>11. QED
    BY <1>1, <1>2, <1>3, <1>4, <1>5, <1>6, <1>7, <1>8, <1>9, <1>10, SaidCases, Cases

-----------------------------------------------------------------------------
(* What was given for a handle is what was posted and what waits, at most. *)
LEMMA HandleNumbers ==
  Typed => \A h \in Handle :
    /\ sum[h] \in Nat /\ given[h] \in Nat /\ handles[h].tmp.gap \in Nat
    /\ handles[h] \in HandleStates
  BY DEF Typed, HandleStates, Sessions

(* A flush of what waits.                                                  *)
LEMMA FlushedSums ==
  ASSUME Base, NEW h \in Handle, Account, TtlReport, idx = h
  PROVE  /\ given'[h] = given[h] /\ owner'[h] = owner[h] /\ user' = user /\ ended' = ended
         /\ handles'[h].used = handles[h].used
         /\ handles'[h].tmp.id = handles[h].tmp.id
         /\ \/ handles'[h].tmp.gap = handles[h].tmp.gap /\ sum'[h] = sum[h]
            \/ handles'[h].tmp.gap = 0 /\ sum'[h] = sum[h] + handles[h].tmp.gap
  <1>1. Typed /\ Places
    BY DEF Base
  <1>2. /\ UNCHANGED <<given, user, ended>> /\ owner' = owner
        /\ handles'[h].used = handles[h].used
        /\ \/ handles'[h] = handles[h] /\ sum'[h] = sum[h]
           \/ \E g \in HandleStates :
                /\ g.tmp.id = handles[h].tmp.id /\ g.tmp.gap = handles[h].tmp.gap
                /\ Flushes(h, g)
    BY <1>1, TtlFrame
  <1>3. ASSUME NEW g \in HandleStates, g.tmp.id = handles[h].tmp.id,
               g.tmp.gap = handles[h].tmp.gap, Flushes(h, g)
        PROVE  /\ handles'[h].tmp.id = handles[h].tmp.id
               /\ \/ handles'[h].tmp.gap = handles[h].tmp.gap /\ sum'[h] = sum[h]
                  \/ handles'[h].tmp.gap = 0 /\ sum'[h] = sum[h] + handles[h].tmp.gap
    BY <1>3 DEF Flushes
  <1>4. QED BY <1>2, <1>3

LEMMA SumsBoundedStep == Base /\ SumsBounded /\ [Next]_vars => SumsBounded'
  <1> SUFFICES ASSUME Base, SumsBounded, [Next]_vars, NEW h \in Handle, handles'[h].used
               PROVE  sum'[h] + handles'[h].tmp.gap <= given'[h]
    BY DEF SumsBounded
  <1>0. Typed /\ Places /\ Owned
    BY DEF Base
  <1>a. /\ sum[h] \in Nat /\ given[h] \in Nat /\ handles[h].tmp.gap \in Nat
        /\ handles[h].used => sum[h] + handles[h].tmp.gap <= given[h]
    BY <1>0, HandleNumbers DEF SumsBounded
  <1>b. /\ handles'[h] = handles[h] /\ sum'[h] = sum[h] /\ given'[h] = given[h]
        => sum'[h] + handles'[h].tmp.gap <= given'[h]
    BY <1>a
  <1>1. ASSUME NEW u \in Uploaders, Idles(u) \/ ReleaseHandle(u) \/ SaysSomething(u)
        PROVE  UNCHANGED <<handles, sum, given>>
    <2>1. CASE Idles(u)
      BY <2>1 DEF Idles
    <2>2. CASE ReleaseHandle(u)
      BY <1>0, <2>2, LeaveFrame
    <2>3. CASE SaysSomething(u)
      <3>1. PICK h1 \in Handle, s \in Sessions(Ids), isNew \in BOOLEAN : Send(u, h1, s, isNew)
        BY <2>3 DEF SaysSomething, Says, Speaks
      <3>2. QED BY <1>0, <3>1, SendFrame
    <2>4. QED BY <1>1, <2>1, <2>2, <2>3
  <1>2. ASSUME NEW u \in Uploaders, NEW i \in Handle, Takes(u, i)
        PROVE  sum'[h] + handles'[h].tmp.gap <= given'[h]
    <2>1. /\ SameElsewhere(i) /\ given'[i] = 0 /\ sum'[i] = 0 /\ handles'[i].tmp.gap = 0
      BY <1>0, <1>2, TakesFrame
    <2>2. QED BY <1>b, <2>1 DEF SameElsewhere
  <1>3. CASE QuietManager
    BY <1>0, <1>3, <1>b, QuietFrame DEF QuietManager, Quiet
  <1>4. CASE Account /\ HandleUpdate
    <2> DEFINE i == segInfo.h
               s == segInfo.session
               g == handles[i].tmp.gap
               g1 == handles'[i].tmp.gap
    <2>1. SameElsewhere(i)
      BY <1>0, <1>4, UpdateFrame
    <2>2. CASE i = h
      <3>1. /\ segInfo \in Updates /\ handles[i].used /\ given'[i] = given[i] + s.gap
            /\ segInfo.isNew => handles'[i].tmp = s /\ sum'[i] = sum[i]
            /\ ~segInfo.isNew =>
                 \/ g1 = g + s.gap /\ sum'[i] = sum[i]
                 \/ g1 = 0 /\ sum'[i] = sum[i]
                 \/ g1 = 0 /\ sum'[i] = sum[i] + (s.gap + g)
        BY <1>0, <1>4, <2>2, UpdateFrame
      <3>2. s.gap \in Nat
        BY <3>1, UpdateTypes DEF Sessions
      <3>3. segInfo.isNew => g1 = s.gap
        BY <3>1
      <3>4. g \in Nat /\ sum[i] \in Nat /\ given[i] \in Nat /\ sum[i] + g <= given[i]
        BY <1>a, <2>2, <3>1
      <3> HIDE DEF i, s, g, g1
      <3>5. sum'[i] + g1 <= given'[i]
        BY <3>1, <3>2, <3>3, <3>4
      <3>6. QED BY <2>2, <3>5 DEF g1
    <2>3. CASE i # h
      BY <1>b, <2>1, <2>3 DEF SameElsewhere
    <2>4. QED BY <2>2, <2>3
  <1>5. CASE Account /\ HandleRelease
    <2>1. SameElsewhere(segInfo.h) /\ ~handles'[segInfo.h].used
      BY <1>0, <1>5, ReleaseFrame
    <2>2. QED BY <1>b, <2>1 DEF SameElsewhere
  <1>6. CASE Account /\ TtlReport
    <2>1. SameElsewhere(idx) /\ idx \in Handle
      BY <1>0, <1>6, TtlFrame
    <2>2. CASE idx = h
      BY <1>6, <1>a, <2>2, FlushedSums
    <2>3. CASE idx # h
      BY <1>b, <2>1, <2>3 DEF SameElsewhere
    <2>4. QED BY <2>2, <2>3
  <1>7. CASE Uninit
    BY <1>0, <1>7, <1>b, UninitCarried DEF userVars
  <1>8. CASE UNCHANGED vars
    BY <1>8, <1>b DEF vars, mgrVars, userVars
  <1>9. QED BY <1>1, <1>2, <1>3, <1>4, <1>5, <1>6, <1>7, <1>8, <1>b, Cases

(* They are the same if the owner alone uses the handle.                   *)
LEMMA SumsAside ==
  ASSUME Typed, Typed', NEW h \in Handle, Still(h) , SumsKept(h, Pending),
         NEW k \in {0, 1}, MineCarried(h, owner[h], k),
         uninitPc' = "idle" /\ Settled(h, user'[owner[h]]) =>
           uninitPc = "idle" /\ Settled(h, user[owner[h]])
  PROVE  SumsKept(h, Pending)'
  <1> DEFINE o == owner[h]
             g == handles[h].tmp.gap
  <1>0. Len(Pending) \in Nat /\ Len(Pending') \in Nat
    BY PendingLength
  <1>1. /\ sum[h] + g = given[h] /\ ClearWhenReplaced(Pending, h, o, g)
        /\ uninitPc = "idle" /\ Settled(h, user[o]) => Clear(Pending, h, o, g, Len(Pending) + 1)
    BY DEF SumsKept
  <1>2. /\ handles'[h].tmp.gap = g /\ owner'[h] = o /\ sum'[h] = sum[h] /\ given'[h] = given[h]
    BY DEF Still
  <1> HIDE DEF o, g
  <1>3. ASSUME NEW j \in 1 .. Len(Pending'), Mine(Pending'[j], h, o), Replaces(Pending'[j])
        PROVE  Clear(Pending', h, o, g, j)
    <2>1. /\ j + k \in 1 .. Len(Pending) /\ Pending'[j] = Pending[j + k]
          /\ Alike(Pending, j + k, Pending', j, h, o, k)
      BY <1>3, MineAlike DEF o
    <2>2. Clear(Pending, h, o, g, j + k)
      BY <1>1, <1>3, <2>1 DEF ClearWhenReplaced
    <2>3. j \in Nat /\ j + k \in Nat /\ k \in Nat
      OBVIOUS
    <2>4. QED BY <2>1, <2>2, <2>3, ClearAlike
  <1>4. ASSUME uninitPc' = "idle", Settled(h, user'[o])
        PROVE  Clear(Pending', h, o, g, Len(Pending') + 1)
    <2>1. Clear(Pending, h, o, g, Len(Pending) + 1)
      BY <1>1, <1>4 DEF o
    <2>2. Alike(Pending, Len(Pending) + 1, Pending', Len(Pending') + 1, h, o, k)
      BY MineAlike DEF o
    <2>3. Len(Pending) + 1 \in Nat /\ Len(Pending') + 1 \in Nat /\ k \in Nat
      BY <1>0
    <2>4. QED BY <2>1, <2>2, <2>3, ClearAlike
  <1>5. QED BY <1>1, <1>2, <1>3, <1>4 DEF SumsKept, ClearWhenReplaced, Clear, Mine, Zeroes, Replaces,
      IsUpdate, By, Settled

LEMMA SumsStop ==
  ASSUME Typed, Typed', NEW h \in Handle, Stops(h), SumsKept(h, Pending)
  PROVE  SumsKept(h, Pending)'
  <1>1. ~(uninitPc' = "idle" /\ Settled(h, user'[owner[h]]))
    BY DEF Stops, Settled
  <1>2. Still(h)
    BY DEF Stops
  <1>3. CASE MineCarried(h, owner[h], 0)
    BY <1>1, <1>2, <1>3, SumsAside
  <1>4. CASE Len(Pending') = 0
    <2>1. \A j \in 1 .. Len(Pending') : FALSE
      BY <1>4
    <2>2. owner'[h] = owner[h] /\ sum'[h] = sum[h] /\ given'[h] = given[h]
          /\ handles'[h] = handles[h]
      BY <1>2 DEF Still
    <2>3. sum[h] + handles[h].tmp.gap = given[h]
      BY DEF SumsKept
    <2>4. QED BY <1>1, <2>1, <2>2, <2>3 DEF SumsKept, ClearWhenReplaced, Settled
  <1>5. QED BY <1>3, <1>4 DEF Stops

(* The owner is settled when it reports a start, or to another handle.     *)
LEMMA SumsSay ==
  ASSUME Base, Typed', NEW h \in Handle, NEW h1 \in Handle, NEW s \in Sessions(Ids),
         NEW isNew \in BOOLEAN, OwnerSays(h, h1, s, isNew), SumsKept(h, Pending)
  PROVE  SumsKept(h, Pending)'
  <1> DEFINE o == owner[h]
             g == handles[h].tmp.gap
             c == Update(h1, s, isNew)
             m == user'[o].n
  <1>0. /\ Typed /\ Places /\ Owned /\ Typed'
        /\ Len(Pending) \in Nat /\ Len(Pending') \in Nat
    BY PendingLength DEF Base
  <1>1. Still(h) /\ uninitPc = "idle" /\ Says(o, h1, s, isNew) /\ Spoken(c)
    BY DEF OwnerSays
  <1>2. o \in Uploaders /\ user[o].seg = h /\ user[o].life = "live"
    <2>1. o \in Uploaders /\ o # "none" /\ handles[h].used
      BY <1>0, <1>1 DEF Still, Undisturbed, Places, Typed
    <2>2. user[o].seg = h /\ user[o].life \in {"live", "stopped", "released"}
      BY <1>0, <2>1 DEF Owned
    <2>3. user[o].life \in {"new", "live"}
      BY <1>1 DEF Says, Speaks
    <2>4. QED BY <2>1, <2>2, <2>3
  <1>3. /\ c.h = h1 /\ c.session = s /\ c.isNew = isNew /\ IsUpdate(c) /\ By(c) = o
    BY <1>1 DEF Update, IsUpdate, By, Says, Speaks
  <1>4. /\ m \in Nat /\ user[o].n \in Nat /\ m >= 1
        /\ m = 1 => h1 = 0 \/ (h1 = h /\ ~isNew /\ s.reason # 0)
        /\ m # 1 => h1 = h
    BY <1>0, <1>1, <1>2, UserTypes DEF Says
  <1>5. /\ isNew =>
             /\ ~user[o].open /\ user'[o].open /\ m = user[o].n + 1
             /\ m = 1 => s.gap = 0
             /\ s.gap = user'[o].avd
        /\ ~isNew =>
             /\ user[o].open /\ m = user[o].n
             /\ s.reason # 0 => s.avd = user[o].avd
             /\ s.reason = 0 => user'[o].open /\ s.avd > 0 /\ user'[o].avd = s.avd
    BY <1>1 DEF Says
  <1>6. /\ sum[h] + g = given[h] /\ ClearWhenReplaced(Pending, h, o, g)
        /\ Settled(h, user[o]) => Clear(Pending, h, o, g, Len(Pending) + 1)
    BY <1>1 DEF SumsKept
  <1>7. /\ handles'[h].tmp.gap = g /\ owner'[h] = o /\ sum'[h] = sum[h] /\ given'[h] = given[h]
    BY <1>1 DEF Still
  <1>8. CASE h1 # h
    <2>1. h # 0 /\ m = 1
      BY <1>4, <1>8
    <2>2. user[o].n = 1 \/ ~user[o].open
      BY <1>4, <1>5, <2>1
    <2>3. Settled(h, user[o])
      BY <1>2, <2>1, <2>2 DEF Settled
    <2>4. MineCarried(h, o, 0)
      BY <1>0, <1>1, <1>3, <1>8, SpokenMine DEF Mine
    <2>5. QED BY <1>0, <1>1, <2>3, <2>4, SumsAside
  <1>9. CASE h1 = h
    <2>0. Mine(c, h, o)
      BY <1>3, <1>9 DEF Mine
    <2>a. /\ s.avd \in Nat /\ s.reason \in {0, 1, 4} /\ s.gap \in Nat
      BY DEF Sessions
    <2> HIDE DEF o, g, c, m
    <2>1. Replaces(c) => Settled(h, user[o])
      <3>1. CASE isNew
        BY <1>2, <1>5, <3>1 DEF Settled
      <3>2. CASE ~isNew
        <4>1. Replaces(c) => s.avd = 0 /\ s.reason # 0
          BY <1>3, <1>5, <2>a, <3>2 DEF Replaces
        <4>2. QED BY <1>2, <1>5, <3>2, <4>1 DEF Settled
      <3>3. QED BY <3>1, <3>2
    <2>2. ASSUME NEW j \in 1 .. Len(Pending'), Mine(Pending'[j], h, o), Replaces(Pending'[j])
          PROVE  Clear(Pending', h, o, g, j)
      <3>1. j \in 1 .. Len(Pending) + 1 /\ j \in Nat
        BY <1>0, <1>1 DEF Spoken
      <3>2. Alike(Pending, j, Pending', j, h, o, 0)
        BY <1>0, <1>1, <3>1, SpokenAlike
      <3>3. Clear(Pending, h, o, g, j)
        <4>1. CASE j \in 1 .. Len(Pending)
          BY <1>1, <1>6, <2>2, <4>1 DEF Spoken, ClearWhenReplaced
        <4>2. CASE j = Len(Pending) + 1
          BY <1>1, <1>6, <2>1, <2>2, <4>2 DEF Spoken
        <4>3. QED BY <1>0, <3>1, <4>1, <4>2
      <3>4. QED BY <3>1, <3>2, <3>3, ClearAlike
    <2>3. ASSUME Settled(h, user'[o]) PROVE Clear(Pending', h, o, g, Len(Pending') + 1)
      <3>1. Zeroes(c)
        <4>1. CASE isNew
          <5>1. s.gap = 0
            <6>1. user'[o].open /\ (m = 1 => s.gap = 0) /\ s.gap = user'[o].avd
              BY <1>5, <4>1
            <6>2. user'[o].avd = 0 \/ m = 1
              BY <2>3, <6>1 DEF Settled, m
            <6>3. QED BY <6>1, <6>2
          <5>2. QED BY <1>3, <4>1, <5>1 DEF Zeroes
        <4>2. CASE ~isNew
          <5>1. ASSUME s.reason = 0 PROVE FALSE
            <6>1. user'[o].open /\ user'[o].avd > 0 /\ user'[o].avd = s.avd
              BY <1>5, <4>2, <5>1
            <6>2. m = 1 => h = 0
              BY <1>4, <1>9, <5>1
            <6>3. user'[o].n = m
              BY DEF m
            <6>4. user'[o].avd # 0
              BY <2>a, <6>1
            <6>5. QED BY <2>3, <6>1, <6>2, <6>3, <6>4 DEF Settled
          <5>2. QED BY <1>3, <4>2, <5>1 DEF Zeroes
        <4>3. QED BY <4>1, <4>2
      <3>2. /\ Len(Pending') = Len(Pending) + 1 /\ Pending'[Len(Pending')] = c
            /\ Len(Pending') \in 1 .. (Len(Pending') + 1) - 1
        BY <1>0, <1>1 DEF Spoken
      <3>3. ASSUME NEW i \in 1 .. (Len(Pending') + 1) - 1, Mine(Pending'[i], h, o),
                   ~Zeroes(Pending'[i])
            PROVE  \E k \in i + 1 .. (Len(Pending') + 1) - 1 :
                     Mine(Pending'[k], h, o) /\ Zeroes(Pending'[k])
        <4>1. i # Len(Pending')
          BY <3>1, <3>2, <3>3
        <4>2. Len(Pending') \in i + 1 .. (Len(Pending') + 1) - 1
          BY <1>0, <4>1
        <4>3. QED BY <2>0, <3>1, <3>2, <4>2
      <3>4. \E k \in 1 .. (Len(Pending') + 1) - 1 : Mine(Pending'[k], h, o) /\ Zeroes(Pending'[k])
        BY <2>0, <3>1, <3>2
      <3>5. QED BY <3>3, <3>4 DEF Clear
    <2>4. QED BY <1>6, <1>7, <2>2, <2>3 DEF SumsKept, ClearWhenReplaced
  <1>10. QED BY <1>8, <1>9

(* A handle is taken: what its new owner has reported are starts of its    *)
(* first session, which bring nothing.                                     *)
LEMMA FirstStarts ==
  ASSUME Base, Reports(Pending), NEW u \in Uploaders, user[u].life = "new",
         NEW j \in 1 .. Len(Pending), IsUpdate(Pending[j]), By(Pending[j]) = u
  PROVE  Pending[j].isNew /\ Nth(Pending[j]) = 1 /\ Pending[j].session.gap = 0
  <1>1. Fits(Pending[j], user[u], ended) /\ user[u].n <= 1 /\ user[u].n \in Nat
    BY UserTypes DEF Reports, Base, Users
  <1>2. Nth(Pending[j]) \in Nat /\ Nth(Pending[j]) >= 1
    BY UpdatesPending DEF Base
  <1>3. QED BY <1>1, <1>2 DEF Fits

LEMMA SumsTaken ==
  ASSUME Base, Typed', Reports(Pending), NEW h \in Handle, NEW u \in Uploaders,
         Takes(u, h), Carried(0)
  PROVE  SumsKept(h, Pending)'
  <1>0. Typed /\ Len(Pending) \in Nat /\ Len(Pending') \in Nat
    BY PendingLength DEF Base
  <1>1. /\ handles'[h].tmp.gap = 0 /\ given'[h] = 0 /\ sum'[h] = 0 /\ owner'[h] = u
        /\ user[u].life = "new"
    BY <1>0, TakesFrame
  <1>2. ASSUME NEW j \in 1 .. Len(Pending'), Mine(Pending'[j], h, u) PROVE Zeroes(Pending'[j])
    <2>1. MineCarried(h, u, 0)
      BY CarriedMine
    <2>2. j \in 1 .. Len(Pending) /\ Pending'[j] = Pending[j]
      BY <1>2, <2>1 DEF MineCarried
    <2>3. QED BY <1>1, <1>2, <2>2, FirstStarts DEF Mine, Zeroes
  <1>3. ASSUME NEW j \in 1 .. Len(Pending') + 1 PROVE Clear(Pending', h, u, 0, j)
    <2>1. \A i \in 1 .. j - 1 : i \in 1 .. Len(Pending')
      BY <1>0
    <2>2. QED BY <1>2, <2>1 DEF Clear
  <1>4. Len(Pending') + 1 \in 1 .. Len(Pending') + 1
        /\ \A j \in 1 .. Len(Pending') : j \in 1 .. Len(Pending') + 1
    BY <1>0
  <1>5. QED BY <1>1, <1>3, <1>4 DEF SumsKept, ClearWhenReplaced

(* An UPDATE of the owner is handled.                                      *)
LEMMA OwnersUpdate ==
  ASSUME Base, Reports(Pending), NEW h \in Handle, OwnersHandled(h)
  PROVE  LET c == segInfo
             s == c.session
             g == handles[h].tmp.gap
             g1 == handles'[h].tmp.gap
         IN
         /\ c \in Updates /\ c = Pending[1] /\ 1 \in 1 .. Len(Pending) /\ Mine(c, h, owner[h])
         /\ Fits(c, user[owner[h]], ended) /\ owner[h] \in Uploaders
         /\ s.gap \in Nat /\ s.avd \in Nat /\ s.id \in Ids
         /\ s.id = <<owner[h], Nth(c)>> /\ Nth(c) \in Nat /\ Nth(c) >= 1
         /\ owner' = owner /\ user' = user /\ uninitPc' = uninitPc
         /\ given'[h] = given[h] + s.gap
         /\ ended' = IF Ends(c) THEN ended \cup {s.id} ELSE ended
         /\ c.isNew => handles'[h].tmp = s /\ sum'[h] = sum[h]
         /\ ~c.isNew =>
              /\ handles'[h].tmp.id = handles[h].tmp.id
              /\ \/ s.reason = 0 /\ g1 = g + s.gap /\ sum'[h] = sum[h]
                 \/ s.avd <= 0 /\ g1 = 0 /\ sum'[h] = sum[h]
                 \/ s.avd > 0 /\ g1 = 0 /\ sum'[h] = sum[h] + (s.gap + g)
  <1> DEFINE c == segInfo
             s == c.session
             g == handles[h].tmp.gap
             g1 == handles'[h].tmp.gap
  <1>0. Typed /\ Places
    BY DEF Base
  <1>1. /\ Account /\ HandleUpdate /\ Taken /\ c.h = h /\ By(c) = owner[h] /\ handles[h].used
    BY DEF OwnersHandled, Undisturbed
  <1>2. /\ c \in Updates /\ owner' = owner /\ given'[h] = given[h] + s.gap
        /\ ended' = IF Ends(c) THEN ended \cup {s.id} ELSE ended
        /\ c.isNew => handles'[h].tmp = s /\ sum'[h] = sum[h]
        /\ ~c.isNew =>
              /\ handles'[h].tmp.id = handles[h].tmp.id
              /\ \/ s.reason = 0 /\ g1 = g + s.gap /\ sum'[h] = sum[h]
                 \/ s.avd <= 0 /\ g1 = 0 /\ sum'[h] = sum[h]
                 \/ s.avd > 0 /\ g1 = 0 /\ sum'[h] = sum[h] + (s.gap + g)
    BY <1>0, <1>1, UpdateFrame
  <1>3. s.gap \in Nat /\ s.avd \in Nat /\ s.id \in Ids /\ IsUpdate(c)
    BY <1>2, UpdateTypes DEF Sessions, Updates, IsUpdate
  <1>4. 1 \in 1 .. Len(Pending) /\ c = Pending[1]
    BY <1>0, <1>1, PendingType DEF Taken
  <1>5. Fits(c, user[By(c)], ended)
    BY <1>3, <1>4 DEF Reports
  <1>6. /\ By(c) \in Uploaders /\ s.id = <<By(c), Nth(c)>> /\ Nth(c) \in Nat /\ Nth(c) >= 1
    BY <1>0, <1>3, <1>4, UpdatesPending
  <1>7. user' = user /\ uninitPc' = uninitPc
    BY <1>0, <1>1, HandleTypes DEF Account
  <1>8. Mine(c, h, owner[h])
    BY <1>1, <1>3 DEF Mine
  <1> HIDE DEF g, g1, s, c
  <1>9. QED BY <1>1, <1>2, <1>3, <1>4, <1>5, <1>6, <1>7, <1>8 DEF g, g1, s, c

LEMMA SumsHandled ==
  ASSUME Base, Typed', Reports(Pending), NEW h \in Handle, OwnersHandled(h), SumsKept(h, Pending)
  PROVE  SumsKept(h, Pending)'
  <1> DEFINE o == owner[h]
             c == segInfo
             s == c.session
             g == handles[h].tmp.gap
             g1 == handles'[h].tmp.gap
  <1>0. /\ Typed /\ Len(Pending) \in Nat /\ Len(Pending') \in Nat
        /\ sum[h] \in Nat /\ g \in Nat /\ given[h] \in Nat
    BY PendingLength, HandleNumbers DEF Base
  <1>1. /\ c \in Updates /\ c = Pending[1] /\ 1 \in 1 .. Len(Pending) /\ Mine(c, h, o)
        /\ Fits(c, user[o], ended)
        /\ s.gap \in Nat /\ s.avd \in Nat
        /\ owner' = owner /\ user' = user /\ uninitPc' = uninitPc
        /\ given'[h] = given[h] + s.gap
        /\ c.isNew => handles'[h].tmp = s /\ sum'[h] = sum[h]
        /\ ~c.isNew =>
              \/ s.reason = 0 /\ g1 = g + s.gap /\ sum'[h] = sum[h]
              \/ s.avd <= 0 /\ g1 = 0 /\ sum'[h] = sum[h]
              \/ s.avd > 0 /\ g1 = 0 /\ sum'[h] = sum[h] + (s.gap + g)
    BY OwnersUpdate
  <1>2. /\ Len(Pending') = Len(Pending) - 1
        /\ \A i \in 1 .. Len(Pending') : Pending'[i] = Pending[i + 1]
    BY DEF OwnersHandled, Taken
  <1>3. /\ sum[h] + g = given[h] /\ ClearWhenReplaced(Pending, h, o, g)
        /\ uninitPc = "idle" /\ Settled(h, user[o]) => Clear(Pending, h, o, g, Len(Pending) + 1)
    BY DEF SumsKept
  <1>4. c.isNew => g1 = s.gap
    BY <1>1
  <1>5. ~c.isNew /\ s.avd <= 0 => s.gap = 0
    BY <1>1 DEF Fits
  <1>6. Zeroes(c) => g1 = 0
    <2>1. CASE c.isNew
      BY <1>4, <2>1 DEF Zeroes
    <2>2. CASE ~c.isNew
      BY <1>1, <2>2 DEF Zeroes
    <2>3. QED BY <2>1, <2>2
  <1>7. Replaces(c) => g = 0
    <2>1. ASSUME Replaces(c) PROVE Clear(Pending, h, o, g, 1)
      BY <1>1, <1>3, <2>1 DEF ClearWhenReplaced
    <2>2. \A k \in 1 .. 1 - 1 : FALSE
      OBVIOUS
    <2>3. QED BY <2>1, <2>2 DEF Clear
  <1> HIDE DEF o, c, s, g, g1
  <1>8. sum'[h] + g1 = given'[h]
    <2>1. CASE c.isNew
      <3>1. g = 0
        BY <1>7, <2>1 DEF Replaces
      <3>2. QED BY <1>0, <1>1, <1>3, <1>4, <2>1, <3>1
    <2>2. CASE ~c.isNew
      <3>1. s.avd <= 0 => g = 0 /\ s.gap = 0
        BY <1>5, <1>7, <2>2 DEF Replaces, s
      <3>2. QED BY <1>0, <1>1, <1>3, <2>2, <3>1
    <2>3. QED BY <2>1, <2>2
  <1>9. ASSUME NEW m \in 1 .. Len(Pending') + 1, Clear(Pending, h, o, g, m + 1)
        PROVE  Clear(Pending', h, o, g1, m)
    <2>1. m \in Nat /\ m >= 1 /\ \A i \in 1 .. m - 1 : i \in 1 .. Len(Pending')
      BY <1>0
    <2>2. \A i \in 1 .. m - 1 : Pending'[i] = Pending[i + 1]
      BY <1>2, <2>1
    <2>3. QED BY <1>1, <1>6, <1>9, <2>1, <2>2, ClearTaken
  <1>10. ASSUME NEW j \in 1 .. Len(Pending'), Mine(Pending'[j], h, o), Replaces(Pending'[j])
         PROVE  Clear(Pending', h, o, g1, j)
    <2>1. j + 1 \in 1 .. Len(Pending) /\ j \in 1 .. Len(Pending') + 1
      BY <1>0, <1>2
    <2>2. Clear(Pending, h, o, g, j + 1)
      BY <1>2, <1>3, <1>10, <2>1 DEF ClearWhenReplaced
    <2>3. QED BY <1>9, <2>1, <2>2
  <1>11. ASSUME uninitPc = "idle", Settled(h, user[o])
         PROVE  Clear(Pending', h, o, g1, Len(Pending') + 1)
    <2>1. Len(Pending) + 1 = (Len(Pending') + 1) + 1 /\ Len(Pending') + 1 \in 1 .. Len(Pending') + 1
      BY <1>0, <1>2
    <2>2. Clear(Pending, h, o, g, (Len(Pending') + 1) + 1)
      BY <1>3, <1>11, <2>1
    <2>3. QED BY <1>9, <2>1, <2>2
  <1>12. QED BY <1>1, <1>8, <1>10, <1>11 DEF SumsKept, ClearWhenReplaced, o, g1

LEMMA SumsFlushed ==
  ASSUME Base, Typed', NEW h \in Handle, Account, TtlReport, idx = h, Carried(0), SumsKept(h, Pending)
  PROVE  SumsKept(h, Pending)'
  <1> DEFINE o == owner[h]
             g == handles[h].tmp.gap
             g1 == handles'[h].tmp.gap
  <1>0. /\ Typed /\ Len(Pending) \in Nat /\ Len(Pending') \in Nat
        /\ sum[h] \in Nat /\ g \in Nat /\ given[h] \in Nat
    BY PendingLength, HandleNumbers DEF Base
  <1>1. /\ given'[h] = given[h] /\ owner'[h] = o /\ user' = user
        /\ \/ g1 = g /\ sum'[h] = sum[h]
           \/ g1 = 0 /\ sum'[h] = sum[h] + g
    BY FlushedSums
  <1>2. uninitPc' = uninitPc
    BY DEF TtlReport
  <1>3. /\ sum[h] + g = given[h] /\ ClearWhenReplaced(Pending, h, o, g)
        /\ uninitPc = "idle" /\ Settled(h, user[o]) => Clear(Pending, h, o, g, Len(Pending) + 1)
    BY DEF SumsKept
  <1>4. /\ Alike(Pending, Len(Pending) + 1, Pending', Len(Pending') + 1, h, o, 0)
        /\ \A j \in 1 .. Len(Pending') : Mine(Pending'[j], h, o) =>
             /\ j + 0 \in 1 .. Len(Pending) /\ Pending'[j] = Pending[j + 0]
             /\ Alike(Pending, j + 0, Pending', j, h, o, 0)
    <2>1. MineCarried(h, o, 0)
      BY CarriedMine
    <2>2. QED BY <1>0, <2>1, MineAlike
  <1> HIDE DEF o, g, g1
  <1>5. sum'[h] + g1 = given'[h] /\ (g1 # 0 => g # 0)
    BY <1>0, <1>1, <1>3
  <1>6. ASSUME NEW j \in 1 .. Len(Pending'), Mine(Pending'[j], h, o), Replaces(Pending'[j])
        PROVE  Clear(Pending', h, o, g1, j)
    <2>1. Clear(Pending, h, o, g, j + 0) /\ j \in Nat /\ j + 0 \in Nat
      BY <1>3, <1>4, <1>6 DEF ClearWhenReplaced
    <2>2. QED BY <1>4, <1>5, <1>6, <2>1, ClearAlike
  <1>7. ASSUME uninitPc = "idle", Settled(h, user[o])
        PROVE  Clear(Pending', h, o, g1, Len(Pending') + 1)
    <2>1. Len(Pending) + 1 \in Nat /\ Len(Pending') + 1 \in Nat
      BY <1>0
    <2>2. QED BY <1>3, <1>4, <1>5, <1>7, <2>1, ClearAlike
  <1>8. QED BY <1>1, <1>2, <1>5, <1>6, <1>7 DEF SumsKept, ClearWhenReplaced, o, g1

LEMMA SumsStep ==
  Base /\ Typed' /\ Reports(Pending) /\ SumsInv /\ [Next]_vars => SumsInv'
  <1> SUFFICES ASSUME Base, Typed', Reports(Pending), SumsInv, [Next]_vars,
                      NEW h \in Handle, Undisturbed(h)'
               PROVE  SumsKept(h, Pending)'
    BY DEF SumsInv, Undisturbed
  <1>0. Typed
    BY DEF Base
  <1>1. Undisturbed(h) => SumsKept(h, Pending)
    BY DEF SumsInv
  <1>2. CASE Aside(h)
    <2>1. /\ Still(h) /\ SumsKept(h, Pending) /\ user'[owner[h]] = user[owner[h]]
          /\ uninitPc' = uninitPc
      BY <1>1, <1>2 DEF Aside, Still
    <2>2. PICK k \in {0, 1} : MineCarried(h, owner[h], k)
      BY <1>2 DEF Aside
    <2>3. QED BY <1>0, <2>1, <2>2, SumsAside
  <1>3. CASE Stops(h)
    BY <1>0, <1>1, <1>3, SumsStop DEF Stops, Still
  <1>4. ASSUME NEW h1 \in Handle, NEW s \in Sessions(Ids), NEW isNew \in BOOLEAN,
               OwnerSays(h, h1, s, isNew)
        PROVE  SumsKept(h, Pending)'
    <2>1. SumsKept(h, Pending)
      BY <1>1, <1>4 DEF OwnerSays, Still
    <2>2. QED BY <1>4, <2>1, SumsSay
  <1>5. ASSUME NEW u \in Uploaders, Takes(u, h), Carried(0) PROVE SumsKept(h, Pending)'
    BY <1>5, SumsTaken
  <1>6. CASE OwnersHandled(h)
    <2>1. SumsKept(h, Pending)
      BY <1>1, <1>6 DEF OwnersHandled
    <2>2. QED BY <1>6, <2>1, SumsHandled
  <1>7. CASE Undisturbed(h) /\ Account /\ TtlReport /\ idx = h /\ Carried(0)
    BY <1>1, <1>7, SumsFlushed
  <1>8. QED BY <1>2, <1>3, <1>4, <1>5, <1>6, <1>7, HandleCases

-----------------------------------------------------------------------------
(* Whose session waits in tmpSession.                                      *)
LEMMA TmpFacts ==
  ASSUME Typed, Typed', NEW h \in Handle, TmpKept(h, Pending), owner'[h] = owner[h],
         NEW id, id = handles[h].tmp.id, handles'[h].tmp.id = id,
         NEW k \in {0, 1}, MineCarried(h, owner[h], k)
  PROVE  /\ OlderThanStarts(Pending', h, owner[h], id)
         /\ HoldsSegments(Pending', h, owner[h], id)
         /\ \A x : Holds(Pending, h, owner[h], id, x, Len(Pending) + 1) =>
              Holds(Pending', h, owner[h], id, x, Len(Pending') + 1)
  <1> DEFINE o == owner[h]
  <1>0. Len(Pending) \in Nat /\ Len(Pending') \in Nat
    BY PendingLength
  <1>1. OlderThanStarts(Pending, h, o, id) /\ HoldsSegments(Pending, h, o, id)
    BY DEF TmpKept
  <1>2. /\ Alike(Pending, Len(Pending) + 1, Pending', Len(Pending') + 1, h, o, k)
        /\ \A j \in 1 .. Len(Pending') : Mine(Pending'[j], h, o) =>
             /\ j + k \in 1 .. Len(Pending) /\ Pending'[j] = Pending[j + k]
             /\ Alike(Pending, j + k, Pending', j, h, o, k)
    BY MineAlike
  <1> HIDE DEF o
  <1>3. OlderThanStarts(Pending', h, o, id)
    BY <1>1, <1>2 DEF OlderThanStarts
  <1>4. ASSUME NEW j \in 1 .. Len(Pending'), Mine(Pending'[j], h, o), Segment(Pending'[j])
        PROVE  Holds(Pending', h, o, id, Pending'[j].session.id, j)
    <2>1. Holds(Pending, h, o, id, Pending'[j].session.id, j + k)
      BY <1>1, <1>2, <1>4 DEF HoldsSegments
    <2>2. j \in Nat /\ j + k \in Nat /\ k \in Nat
      OBVIOUS
    <2>3. QED BY <1>2, <1>4, <2>1, <2>2, HoldsAlike
  <1>5. ASSUME NEW x, Holds(Pending, h, o, id, x, Len(Pending) + 1)
        PROVE  Holds(Pending', h, o, id, x, Len(Pending') + 1)
    <2>1. Len(Pending) + 1 \in Nat /\ Len(Pending') + 1 \in Nat /\ k \in Nat
      BY <1>0
    <2>2. QED BY <1>2, <1>5, <2>1, HoldsAlike
  <1>6. QED BY <1>3, <1>4, <1>5 DEF HoldsSegments, o

(* A session that ends on another handle is not this one's.                *)
LEMMA EndsElsewhere ==
  ASSUME Base, Reports(Pending), NEW h \in Handle, Undisturbed(h), TmpKept(h, Pending),
         segInfo.h # h, IsUpdate(segInfo), 1 \in 1 .. Len(Pending), Pending[1] = segInfo
  PROVE  handles[h].tmp.id # segInfo.session.id
  <1> DEFINE c == segInfo
             o == owner[h]
             id == handles[h].tmp.id
  <1>0. Typed /\ Places /\ Owned
    BY DEF Base
  <1>1. /\ By(c) \in Uploaders /\ Nth(c) \in Nat /\ Nth(c) >= 1
        /\ c.session.id = <<By(c), Nth(c)>>
    BY <1>0, UpdatesPending
  <1>2. o # "none" /\ user[o].seg = h
    BY <1>0 DEF Undisturbed, Places, Owned
  <1>3. SUFFICES ASSUME id = c.session.id PROVE FALSE
    OBVIOUS
  <1>4. id # <<>> /\ id[1] = By(c) /\ id[2] = Nth(c)
    BY <1>1, <1>3
  <1>5. By(c) = o /\ (Nth(c) = 1 => h = 0)
    BY <1>4 DEF TmpKept
  <1>6. Fits(c, user[o], ended)
    BY <1>5 DEF Reports
  <1>7. Nth(c) = 1
    BY <1>1, <1>2, <1>6 DEF Fits
  <1>8. QED BY <1>2, <1>5, <1>6, <1>7 DEF Fits

LEMMA TmpAside ==
  ASSUME Base, Typed', Reports(Pending), NEW h \in Handle, Aside(h), TmpKept(h, Pending)
  PROVE  TmpKept(h, Pending)'
  <1> DEFINE o == owner[h]
             id == handles[h].tmp.id
  <1>0. Typed
    BY DEF Base
  <1>1. /\ Still(h) /\ Undisturbed(h) /\ handles'[h] = handles[h] /\ owner'[h] = o
        /\ user'[o] = user[o] /\ uninitPc' = uninitPc
    BY DEF Aside, Still
  <1>2. PICK k \in {0, 1} : MineCarried(h, o, k)
    BY DEF Aside
  <1>3. /\ OlderThanStarts(Pending', h, o, id)
        /\ HoldsSegments(Pending', h, o, id)
        /\ \A x : Holds(Pending, h, o, id, x, Len(Pending) + 1) =>
             Holds(Pending', h, o, id, x, Len(Pending') + 1)
    BY <1>0, <1>1, <1>2, TmpFacts
  <1>4. id \in ended' => handles[h].tmp.gap = 0
    <2>1. CASE ended' = ended
      BY <2>1 DEF TmpKept
    <2>2. CASE /\ ended' = ended \cup {segInfo.session.id}
               /\ segInfo.h # h /\ IsUpdate(segInfo)
               /\ 1 \in 1 .. Len(Pending) /\ Pending[1] = segInfo
      <3>1. id # segInfo.session.id
        BY <1>1, <2>2, EndsElsewhere
      <3>2. QED BY <2>2, <3>1 DEF TmpKept
    <2>3. QED BY <2>1, <2>2 DEF Aside
  <1>5. /\ id # <<>> => id[1] = o /\ id[2] <= user[o].n /\ (id[2] = 1 => h = 0)
        /\ uninitPc = "idle" /\ InSession(h, user[o]) =>
             Holds(Pending, h, o, id, <<o, user[o].n>>, Len(Pending) + 1)
    BY DEF TmpKept
  <1> HIDE DEF o, id
  <1>6. QED BY <1>1, <1>3, <1>4, <1>5 DEF TmpKept, o, id

LEMMA TmpStop ==
  ASSUME Base, Typed', NEW h \in Handle, Stops(h), TmpKept(h, Pending)
  PROVE  TmpKept(h, Pending)'
  <1> DEFINE o == owner[h]
             id == handles[h].tmp.id
  <1>0. Typed
    BY DEF Base
  <1>1. /\ handles'[h] = handles[h] /\ owner'[h] = o /\ user'[o].n = user[o].n /\ ended' = ended
        /\ ~(uninitPc' = "idle" /\ InSession(h, user'[o]))
    BY DEF Stops, Still, InSession
  <1>2. OlderThanStarts(Pending', h, o, id) /\ HoldsSegments(Pending', h, o, id)
    <2>1. CASE MineCarried(h, o, 0)
      BY <1>0, <1>1, <2>1, TmpFacts
    <2>2. CASE Len(Pending') = 0
      <3>1. \A j \in 1 .. Len(Pending') : FALSE
        BY <2>2
      <3>2. QED BY <3>1 DEF OlderThanStarts, HoldsSegments
    <2>3. QED BY <2>1, <2>2 DEF Stops
  <1>3. /\ id # <<>> => id[1] = o /\ id[2] <= user[o].n /\ (id[2] = 1 => h = 0)
        /\ id \in ended => handles[h].tmp.gap = 0
    BY DEF TmpKept
  <1> HIDE DEF o, id
  <1>4. QED BY <1>1, <1>2, <1>3 DEF TmpKept, o, id

LEMMA TmpSay ==
  ASSUME Base, Typed', NEW h \in Handle, NEW h1 \in Handle, NEW s \in Sessions(Ids),
         NEW isNew \in BOOLEAN, OwnerSays(h, h1, s, isNew), TmpKept(h, Pending)
  PROVE  TmpKept(h, Pending)'
  <1> DEFINE o == owner[h]
             id == handles[h].tmp.id
             c == Update(h1, s, isNew)
             m == user'[o].n
             n == user[o].n
  <1>0. /\ Typed /\ Places /\ Owned /\ Typed'
        /\ Len(Pending) \in Nat /\ Len(Pending') \in Nat
    BY PendingLength DEF Base
  <1>1. /\ Still(h) /\ uninitPc = "idle" /\ Says(o, h1, s, isNew) /\ Spoken(c) /\ ended' = ended
        /\ handles'[h] = handles[h] /\ owner'[h] = o
    BY DEF OwnerSays, Still
  <1>2. o \in Uploaders /\ user[o].seg = h /\ user[o].life = "live"
    <2>1. o \in Uploaders /\ o # "none" /\ handles[h].used
      BY <1>0, <1>1 DEF Still, Undisturbed, Places, Typed
    <2>2. user[o].seg = h /\ user[o].life \in {"live", "stopped", "released"}
      BY <1>0, <2>1 DEF Owned
    <2>3. user[o].life \in {"new", "live"}
      BY <1>1 DEF Says, Speaks
    <2>4. QED BY <2>1, <2>2, <2>3
  <1>3. /\ c.h = h1 /\ c.session = s /\ c.isNew = isNew /\ IsUpdate(c) /\ By(c) = o
        /\ s.id = <<o, m>> /\ Nth(c) = m
    BY <1>1 DEF Update, IsUpdate, By, Nth, Says, Speaks
  <1>4. /\ m \in Nat /\ n \in Nat /\ m >= 1
        /\ m = 1 => h1 = 0 \/ (h1 = h /\ ~isNew /\ s.reason # 0)
        /\ m # 1 => h1 = h
        /\ isNew => m = n + 1
        /\ ~isNew => m = n /\ user[o].open /\ (s.reason # 0 => ~user'[o].open)
    BY <1>0, <1>1, <1>2, UserTypes DEF Says
  <1>5. /\ id # <<>> => id[1] = o /\ id[2] <= n /\ (id[2] = 1 => h = 0)
        /\ id \in ended => handles[h].tmp.gap = 0
        /\ OlderThanStarts(Pending, h, o, id) /\ HoldsSegments(Pending, h, o, id)
        /\ InSession(h, user[o]) => Holds(Pending, h, o, id, <<o, n>>, Len(Pending) + 1)
    BY <1>1 DEF TmpKept
  <1>a. id # <<>> => id[2] \in Nat
    <2>1. id \in Ids \cup {<<>>}
      BY <1>0 DEF Typed, HandleStates, Sessions
    <2>2. QED BY <2>1 DEF Ids
  <1>6. id # <<>> => id[2] <= m
    BY <1>4, <1>5, <1>a
  <1>7. CASE h1 # h
    <2>1. h # 0 /\ m = 1
      BY <1>4, <1>7
    <2>2. ~InSession(h, user'[o])
      BY <2>1 DEF InSession
    <2>3. MineCarried(h, o, 0)
      BY <1>0, <1>1, <1>3, <1>7, SpokenMine DEF Mine
    <2>4. OlderThanStarts(Pending', h, o, id) /\ HoldsSegments(Pending', h, o, id)
      BY <1>0, <1>1, <2>3, TmpFacts
    <2> HIDE DEF o, id, c
    <2>5. QED BY <1>1, <1>5, <1>6, <2>2, <2>4 DEF TmpKept, o, id
  <1>8. CASE h1 = h
    <2>0. Mine(c, h, o)
      BY <1>3, <1>8 DEF Mine
    <2>1. /\ Len(Pending') = Len(Pending) + 1 /\ Pending'[Len(Pending) + 1] = c
          /\ \A i \in 1 .. Len(Pending) : Pending'[i] = Pending[i]
      BY <1>1 DEF Spoken
    <2> HIDE DEF o, id, c, m, n
    <2>2. ASSUME NEW j \in 1 .. Len(Pending') PROVE j \in 1 .. Len(Pending) \/ j = Len(Pending) + 1
      BY <1>0, <2>1
    <2>3. ASSUME NEW j \in 1 .. Len(Pending) + 1, NEW x, Holds(Pending, h, o, id, x, j)
          PROVE  Holds(Pending', h, o, id, x, j)
      <3>1. Alike(Pending, j, Pending', j, h, o, 0)
        BY <1>0, <1>1, SpokenAlike
      <3>2. QED BY <2>3, <3>1, HoldsAlike
    <2>4. id # <<>> /\ isNew => id[2] < m
      BY <1>4, <1>5, <1>a
    <2>5. OlderThanStarts(Pending', h, o, id)
      <3>1. ASSUME NEW j \in 1 .. Len(Pending'), Mine(Pending'[j], h, o), Pending'[j].isNew, id # <<>>
            PROVE  id[2] < Nth(Pending'[j])
        <4>1. CASE j \in 1 .. Len(Pending)
          BY <1>5, <2>1, <3>1, <4>1 DEF OlderThanStarts
        <4>2. CASE j = Len(Pending) + 1
          BY <1>3, <2>1, <2>4, <3>1, <4>2
        <4>3. QED BY <2>2, <4>1, <4>2
      <3>2. QED BY <3>1 DEF OlderThanStarts
    <2>6. HoldsSegments(Pending', h, o, id)
      <3>1. ASSUME NEW j \in 1 .. Len(Pending'), Mine(Pending'[j], h, o), Segment(Pending'[j])
            PROVE  Holds(Pending', h, o, id, Pending'[j].session.id, j)
        <4>1. CASE j \in 1 .. Len(Pending)
          <5>1. Holds(Pending, h, o, id, Pending'[j].session.id, j) /\ j \in 1 .. Len(Pending) + 1
            BY <1>5, <2>1, <3>1, <4>1 DEF HoldsSegments
          <5>2. QED BY <2>3, <5>1
        <4>2. CASE j = Len(Pending) + 1
          <5>1. ~isNew /\ s.reason = 0
            BY <1>3, <2>1, <3>1, <4>2 DEF Segment
          <5>2. InSession(h, user[o]) /\ m = n
            BY <1>2, <1>4, <1>8, <5>1 DEF InSession, n
          <5>3. Holds(Pending, h, o, id, <<o, m>>, Len(Pending) + 1)
            BY <1>5, <5>2
          <5>4. j \in 1 .. Len(Pending) + 1 /\ Pending'[j].session.id = <<o, m>>
            BY <1>0, <1>3, <2>1, <4>2
          <5>5. QED BY <2>3, <4>2, <5>3, <5>4
        <4>3. QED BY <2>2, <4>1, <4>2
      <3>2. QED BY <3>1 DEF HoldsSegments
    <2>7. ASSUME InSession(h, user'[o])
          PROVE  Holds(Pending', h, o, id, <<o, m>>, Len(Pending') + 1)
      <3>1. CASE isNew
        <4>1. Len(Pending) + 1 \in 1 .. (Len(Pending') + 1) - 1
          BY <1>0, <2>1
        <4>2. Mine(Pending'[Len(Pending) + 1], h, o) /\ Pending'[Len(Pending) + 1].isNew
              /\ Pending'[Len(Pending) + 1].session.id = <<o, m>>
          BY <1>3, <2>0, <2>1, <3>1
        <4>3. QED BY <4>1, <4>2 DEF Holds
      <3>2. CASE ~isNew
        <4>1. user'[o].open /\ (m = 1 => h = 0)
          BY <2>7 DEF InSession, m
        <4>2. InSession(h, user[o]) /\ m = n
          BY <1>2, <1>4, <3>2, <4>1 DEF InSession, n
        <4>3. Holds(Pending, h, o, id, <<o, m>>, Len(Pending) + 1)
          BY <1>5, <4>2
        <4>4. Holds(Pending', h, o, id, <<o, m>>, Len(Pending) + 1)
          BY <1>0, <2>3, <4>3
        <4>5. QED
          <5>1. \A i \in 1 .. (Len(Pending) + 1) - 1 : i \in 1 .. (Len(Pending') + 1) - 1
            BY <1>0, <2>1
          <5>2. QED BY <4>4, <5>1 DEF Holds
      <3>3. QED BY <3>1, <3>2
    <2>8. QED BY <1>1, <1>5, <1>6, <2>5, <2>6, <2>7 DEF TmpKept, o, id, m
  <1>9. QED BY <1>7, <1>8

LEMMA TmpTaken ==
  ASSUME Base, Typed', Reports(Pending), NEW h \in Handle, NEW u \in Uploaders,
         Takes(u, h), Carried(0)
  PROVE  TmpKept(h, Pending)'
  <1>0. Typed /\ Users /\ user[u].n \in Nat
    BY UserTypes DEF Base
  <1>1. /\ handles'[h].tmp.gap = 0 /\ handles'[h].tmp.id = <<>> /\ owner'[h] = u
        /\ user[u].life = "new" /\ user'[u].n = user[u].n /\ user'[u].open = user[u].open
    BY <1>0, TakesFrame
  <1>2. ASSUME NEW j \in 1 .. Len(Pending'), Mine(Pending'[j], h, u) PROVE ~Segment(Pending'[j])
    <2>1. MineCarried(h, u, 0)
      BY CarriedMine
    <2>2. j \in 1 .. Len(Pending) /\ Pending'[j] = Pending[j]
      BY <1>2, <2>1 DEF MineCarried
    <2>3. QED BY <1>1, <1>2, <2>2, FirstStarts DEF Mine, Segment
  <1>3. InSession(h, user'[u]) => user'[u].n = 1
    <2>1. user[u].n <= 1 /\ (user[u].open => user[u].n >= 1)
      BY <1>0, <1>1 DEF Users
    <2>2. QED BY <1>0, <1>1, <2>1 DEF InSession
  <1>4. OlderThanStarts(Pending', h, u, <<>>) /\ HoldsSegments(Pending', h, u, <<>>)
    BY <1>2 DEF OlderThanStarts, HoldsSegments
  <1>5. InSession(h, user'[u]) =>
          Holds(Pending', h, u, <<>>, <<u, user'[u].n>>, Len(Pending') + 1)
    BY <1>3 DEF Holds
  <1>6. QED BY <1>1, <1>4, <1>5 DEF TmpKept

LEMMA TmpHandled ==
  ASSUME Base, Typed', Reports(Pending), NEW h \in Handle, OwnersHandled(h), TmpKept(h, Pending)
  PROVE  TmpKept(h, Pending)'
  <1> DEFINE o == owner[h]
             c == segInfo
             s == c.session
             n == user[o].n
             id == handles[h].tmp.id
             id1 == handles'[h].tmp.id
             g == handles[h].tmp.gap
             g1 == handles'[h].tmp.gap
  <1>0. /\ Typed /\ Len(Pending) \in Nat /\ Len(Pending') \in Nat
    BY PendingLength DEF Base
  <1>1. /\ c = Pending[1] /\ 1 \in 1 .. Len(Pending) /\ Mine(c, h, o)
        /\ Fits(c, user[o], ended) /\ o \in Uploaders /\ s.id \in Ids
        /\ s.id = <<o, Nth(c)>> /\ Nth(c) \in Nat /\ Nth(c) >= 1
        /\ owner' = owner /\ user' = user /\ uninitPc' = uninitPc
        /\ ended' = IF Ends(c) THEN ended \cup {s.id} ELSE ended
        /\ c.isNew => handles'[h].tmp = s
        /\ ~c.isNew => id1 = id /\ (s.reason = 0 \/ g1 = 0)
    BY OwnersUpdate
  <1>2. /\ Len(Pending') = Len(Pending) - 1
        /\ \A i \in 1 .. Len(Pending') : Pending'[i] = Pending[i + 1]
    BY DEF OwnersHandled, Taken
  <1>3. /\ id # <<>> => id[1] = o /\ id[2] <= n /\ (id[2] = 1 => h = 0)
        /\ id \in ended => g = 0
        /\ OlderThanStarts(Pending, h, o, id) /\ HoldsSegments(Pending, h, o, id)
        /\ uninitPc = "idle" /\ InSession(h, user[o]) =>
             Holds(Pending, h, o, id, <<o, n>>, Len(Pending) + 1)
    BY DEF TmpKept
  <1>4. /\ id \in Ids \cup {<<>>} /\ <<>> \notin Ids /\ n \in Nat
        /\ id # <<>> => id[2] \in Nat
    <2>1. id \in Ids \cup {<<>>}
      BY <1>0 DEF Typed, HandleStates, Sessions, OwnersHandled
    <2>2. <<>> \notin Ids /\ \A x \in Ids : x[2] \in Nat
      BY DEF Ids
    <2>3. QED BY <1>0, <1>1, <2>1, <2>2, UserTypes
  <1>5. c.isNew => id1 = s.id /\ g1 = s.gap
    BY <1>1
  <1>6. ASSUME NEW j \in 1 .. Len(Pending'), Mine(Pending'[j], h, o)
        PROVE  /\ j + 1 \in 1 .. Len(Pending) /\ Pending'[j] = Pending[j + 1]
               /\ Before(c, Pending'[j])
               /\ Pending'[j].session.id = <<o, Nth(Pending'[j])>>
               /\ Nth(Pending'[j]) \in Nat
    <2>1. j + 1 \in 1 .. Len(Pending) /\ Pending'[j] = Pending[j + 1] /\ 1 < j + 1
      BY <1>0, <1>2
    <2>2. IsUpdate(Pending[1]) /\ IsUpdate(Pending[j + 1]) /\ By(Pending[1]) = By(Pending[j + 1])
          /\ By(Pending[j + 1]) = o
      BY <1>1, <1>6, <2>1 DEF Mine
    <2>3. Before(c, Pending[j + 1])
      BY <1>1, <2>1, <2>2 DEF Reports
    <2>4. QED BY <1>0, <2>1, <2>2, <2>3, UpdatesPending
  <1>7. ASSUME NEW x, NEW m \in 1 .. Len(Pending') + 1, Holds(Pending, h, o, id, x, m + 1)
        PROVE  \/ id = x \/ (id = <<>> /\ x[2] = 1)
               \/ c.isNew /\ s.id = x
               \/ \A i : Holds(Pending', h, o, i, x, m)
    <2>1. m \in Nat /\ m >= 1 /\ \A i \in 1 .. m - 1 : i \in 1 .. Len(Pending')
      BY <1>0
    <2>2. \A i \in 1 .. m - 1 : Pending'[i] = Pending[i + 1]
      BY <1>2, <2>1
    <2>3. QED BY <1>1, <1>7, <2>1, <2>2, HoldsTaken
  <1>8. c.isNew /\ id # <<>> => id[2] < Nth(c)
    BY <1>1, <1>3 DEF OlderThanStarts
  <1>9. Nth(c) <= n /\ s.id \notin ended
    BY <1>1 DEF Fits
  <1>b. c.isNew /\ Nth(c) = 1 => h = 0
    BY <1>1 DEF Fits, Ends, Mine
  <1> HIDE DEF o, c, s, n, id, id1, g, g1
  <1>10. CASE c.isNew
    <2>1. id1 = s.id /\ id1[1] = o /\ id1[2] = Nth(c) /\ ended' = ended
      BY <1>1, <1>5, <1>10 DEF Ends
    <2>2. /\ id1 # <<>> => id1[1] = o /\ id1[2] <= n /\ (id1[2] = 1 => h = 0)
          /\ id1 \in ended' => g1 = 0
      BY <1>9, <1>b, <1>10, <2>1
    <2>3. OlderThanStarts(Pending', h, o, id1)
      <3>1. ASSUME NEW j \in 1 .. Len(Pending'), Mine(Pending'[j], h, o), Pending'[j].isNew
            PROVE  id1[2] < Nth(Pending'[j])
        BY <1>6, <2>1, <3>1 DEF Before
      <3>2. QED BY <3>1 DEF OlderThanStarts
    (* An older session is not waited for.                                 *)
    <2>4. ASSUME NEW k \in Nat, Nth(c) <= k, NEW m \in 1 .. Len(Pending') + 1,
                 Holds(Pending, h, o, id, <<o, k>>, m + 1)
          PROVE  Holds(Pending', h, o, id1, <<o, k>>, m)
      <3>1. CASE id = <<o, k>>
        <4>1. id # <<>> /\ id[2] = k
          BY <3>1
        <4>2. QED BY <1>1, <1>8, <1>10, <2>4, <4>1
      <3>2. CASE k = 1
        <4>1. Nth(c) = 1
          BY <1>1, <2>4, <3>2
        <4>2. QED BY <1>1, <2>1, <3>2, <4>1 DEF Holds
      <3>3. CASE c.isNew /\ s.id = <<o, k>>
        BY <2>1, <3>3 DEF Holds
      <3>4. CASE \A i : Holds(Pending', h, o, i, <<o, k>>, m)
        BY <3>4
      <3>5. <<o, k>>[2] = k
        OBVIOUS
      <3>6. QED BY <1>7, <2>4, <3>1, <3>2, <3>3, <3>4, <3>5
    <2>5. HoldsSegments(Pending', h, o, id1)
      <3>1. ASSUME NEW j \in 1 .. Len(Pending'), Mine(Pending'[j], h, o), Segment(Pending'[j])
            PROVE  Holds(Pending', h, o, id1, Pending'[j].session.id, j)
        <4>1. /\ j + 1 \in 1 .. Len(Pending) /\ Pending'[j] = Pending[j + 1]
              /\ Nth(c) <= Nth(Pending'[j]) /\ Nth(Pending'[j]) \in Nat
              /\ Pending'[j].session.id = <<o, Nth(Pending'[j])>>
          BY <1>6, <3>1 DEF Before
        <4>2. Holds(Pending, h, o, id, Pending'[j].session.id, j + 1)
          BY <1>3, <3>1, <4>1 DEF HoldsSegments
        <4>3. j \in 1 .. Len(Pending') + 1
          BY <1>0
        <4>4. QED BY <2>4, <4>1, <4>2, <4>3
      <3>2. QED BY <3>1 DEF HoldsSegments
    <2>6. ASSUME uninitPc = "idle", InSession(h, user[o])
          PROVE  Holds(Pending', h, o, id1, <<o, n>>, Len(Pending') + 1)
      <3>1. Len(Pending) + 1 = (Len(Pending') + 1) + 1 /\ Len(Pending') + 1 \in 1 .. Len(Pending') + 1
        BY <1>0, <1>2
      <3>2. Holds(Pending, h, o, id, <<o, n>>, (Len(Pending') + 1) + 1)
        BY <1>3, <2>6, <3>1
      <3>3. QED BY <1>4, <1>9, <2>4, <3>1, <3>2
    <2>7. QED BY <1>1, <2>2, <2>3, <2>5, <2>6 DEF TmpKept, o, n, id1, g1
  <1>11. CASE ~c.isNew
    <2>1. id1 = id
      BY <1>1, <1>11
    <2>2. ASSUME id \in ended' PROVE g1 = 0
      <3>1. CASE s.reason # 0
        BY <1>1, <1>11, <3>1
      <3>2. CASE s.reason = 0
        <4>1. Segment(c) /\ ~Ends(c)
          BY <1>11, <3>2 DEF Segment, Ends, s
        <4>2. id \in ended /\ id # <<>>
          BY <1>0, <1>1, <1>4, <2>2, <4>1 DEF Typed
        <4>3. Holds(Pending, h, o, id, s.id, 1)
          BY <1>1, <1>3, <4>1 DEF HoldsSegments, s
        <4>4. \A i \in 1 .. 1 - 1 : FALSE
          OBVIOUS
        <4>5. id = s.id
          BY <4>2, <4>3, <4>4 DEF Holds
        <4>6. QED BY <1>9, <4>2, <4>5
      <3>3. QED BY <3>1, <3>2
    <2>3. OlderThanStarts(Pending', h, o, id)
      BY <1>3, <1>6 DEF OlderThanStarts
    <2>4. ASSUME NEW x, NEW m \in 1 .. Len(Pending') + 1, Holds(Pending, h, o, id, x, m + 1)
          PROVE  Holds(Pending', h, o, id, x, m)
      <3>1. CASE id = x \/ (id = <<>> /\ x[2] = 1)
        BY <3>1 DEF Holds
      <3>2. CASE \A i : Holds(Pending', h, o, i, x, m)
        BY <3>2
      <3>3. \/ id = x \/ (id = <<>> /\ x[2] = 1)
            \/ \A i : Holds(Pending', h, o, i, x, m)
        BY <1>7, <1>11, <2>4
      <3>4. QED BY <3>1, <3>2, <3>3
    <2>5. HoldsSegments(Pending', h, o, id)
      <3>1. ASSUME NEW j \in 1 .. Len(Pending'), Mine(Pending'[j], h, o), Segment(Pending'[j])
            PROVE  Holds(Pending', h, o, id, Pending'[j].session.id, j)
        <4>1. j + 1 \in 1 .. Len(Pending) /\ Pending'[j] = Pending[j + 1]
          BY <1>6, <3>1
        <4>2. Holds(Pending, h, o, id, Pending'[j].session.id, j + 1)
          BY <1>3, <3>1, <4>1 DEF HoldsSegments
        <4>3. j \in 1 .. Len(Pending') + 1
          BY <1>0
        <4>4. QED BY <2>4, <4>2, <4>3
      <3>2. QED BY <3>1 DEF HoldsSegments
    <2>6. ASSUME uninitPc = "idle", InSession(h, user[o])
          PROVE  Holds(Pending', h, o, id, <<o, n>>, Len(Pending') + 1)
      <3>1. Len(Pending) + 1 = (Len(Pending') + 1) + 1 /\ Len(Pending') + 1 \in 1 .. Len(Pending') + 1
        BY <1>0, <1>2
      <3>2. Holds(Pending, h, o, id, <<o, n>>, (Len(Pending') + 1) + 1)
        BY <1>3, <2>6, <3>1
      <3>3. QED BY <2>4, <3>1, <3>2
    <2>7. QED BY <1>1, <1>3, <2>1, <2>2, <2>3, <2>5, <2>6 DEF TmpKept, o, n, id1, g1
  <1>12. QED BY <1>10, <1>11

LEMMA TmpFlushed ==
  ASSUME Base, Typed', NEW h \in Handle, Account, TtlReport, idx = h, Carried(0), TmpKept(h, Pending)
  PROVE  TmpKept(h, Pending)'
  <1> DEFINE o == owner[h]
             id == handles[h].tmp.id
  <1>0. Typed
    BY DEF Base
  <1>1. /\ owner'[h] = o /\ user' = user /\ ended' = ended
        /\ handles'[h].tmp.id = id
        /\ handles[h].tmp.gap = 0 => handles'[h].tmp.gap = 0
    BY FlushedSums
  <1>2. uninitPc' = uninitPc
    BY DEF TtlReport
  <1>3. /\ OlderThanStarts(Pending', h, o, id)
        /\ HoldsSegments(Pending', h, o, id)
        /\ \A x : Holds(Pending, h, o, id, x, Len(Pending) + 1) =>
             Holds(Pending', h, o, id, x, Len(Pending') + 1)
    <2>1. MineCarried(h, o, 0)
      BY CarriedMine
    <2>2. QED BY <1>0, <1>1, <2>1, TmpFacts
  <1>4. /\ id # <<>> => id[1] = o /\ id[2] <= user[o].n /\ (id[2] = 1 => h = 0)
        /\ id \in ended => handles[h].tmp.gap = 0
        /\ uninitPc = "idle" /\ InSession(h, user[o]) =>
             Holds(Pending, h, o, id, <<o, user[o].n>>, Len(Pending) + 1)
    BY DEF TmpKept
  <1> HIDE DEF o, id
  <1>5. QED BY <1>1, <1>2, <1>3, <1>4 DEF TmpKept, o, id

LEMMA TmpStep ==
  Base /\ Typed' /\ Reports(Pending) /\ TmpInv /\ [Next]_vars => TmpInv'
  <1> SUFFICES ASSUME Base, Typed', Reports(Pending), TmpInv, [Next]_vars,
                      NEW h \in Handle, Undisturbed(h)'
               PROVE  TmpKept(h, Pending)'
    BY DEF TmpInv, Undisturbed
  <1>1. Undisturbed(h) => TmpKept(h, Pending)
    BY DEF TmpInv
  <1>2. CASE Aside(h)
    BY <1>1, <1>2, TmpAside DEF Aside, Still
  <1>3. CASE Stops(h)
    BY <1>1, <1>3, TmpStop DEF Stops, Still
  <1>4. ASSUME NEW h1 \in Handle, NEW s \in Sessions(Ids), NEW isNew \in BOOLEAN,
               OwnerSays(h, h1, s, isNew)
        PROVE  TmpKept(h, Pending)'
    <2>1. TmpKept(h, Pending)
      BY <1>1, <1>4 DEF OwnerSays, Still
    <2>2. QED BY <1>4, <2>1, TmpSay
  <1>5. ASSUME NEW u \in Uploaders, Takes(u, h), Carried(0) PROVE TmpKept(h, Pending)'
    BY <1>5, TmpTaken
  <1>6. CASE OwnersHandled(h)
    <2>1. TmpKept(h, Pending)
      BY <1>1, <1>6 DEF OwnersHandled
    <2>2. QED BY <1>6, <2>1, TmpHandled
  <1>7. CASE Undisturbed(h) /\ Account /\ TtlReport /\ idx = h /\ Carried(0)
    BY <1>1, <1>7, TmpFlushed
  <1>8. QED BY <1>2, <1>3, <1>4, <1>5, <1>6, <1>7, HandleCases

-----------------------------------------------------------------------------
(* QUIT stays the last command.                                            *)
LEMMA QuitNotYet ==
  ASSUME Typed, QuitLast, uninitPc = "idle", UNCHANGED <<segInfo, uninitPc>>,
         NEW c \in Cmds, c.op # "QUIT",
         pSegQueue_' = pSegQueue_ \/ pSegQueue_' = Append(pSegQueue_, c)
  PROVE  QuitLast'
  <1>1. pSegQueue_ \in Seq(Cmds) /\ Len(pSegQueue_) \in Nat
    BY LenProperties DEF Typed
  <1>2. segInfo'.op # "QUIT" /\ uninitPc' = "idle"
    BY DEF QuitLast
  <1>3. \A i \in 1 .. Len(pSegQueue_) : pSegQueue_[i].op # "QUIT"
    BY DEF QuitLast
  <1>4. \A i \in 1 .. Len(pSegQueue_') : pSegQueue_'[i].op # "QUIT"
    <2>1. CASE pSegQueue_' = pSegQueue_
      BY <1>3, <2>1
    <2>2. CASE pSegQueue_' = Append(pSegQueue_, c)
      BY <1>1, <1>3, <2>2, AppendProperties
    <2>3. QED BY <2>1, <2>2
  <1>5. QED BY <1>2, <1>4 DEF QuitLast

(* QUIT is handled while the queue is empty: the length read is 0, and the *)
(* loop ends behind the pass over the handles.                             *)
LEMMA QuitQuiet ==
  ASSUME Typed, Places, QuitLast, QuietManager
  PROVE  QuitLast'
  <1>1. UNCHANGED <<handles, nQuit_, uninitPc>>
    BY QuietFrame DEF QuietManager, Quiet
  <1>2. pSegQueue_ \in Seq(Cmds) /\ Len(pSegQueue_) \in Nat
    BY LenProperties DEF Typed
  <1>3. CASE MgrTest
    <2>1. /\ UNCHANGED <<pSegQueue_, segInfo, nLen_>> /\ mgrPc = "test"
          /\ mgrPc' = IF nQuit_ /\ nLen_ = 0 THEN "done" ELSE "pop"
      BY <1>3 DEF MgrTest
    <2>2. segInfo.op = "QUIT" => nQuit_ /\ nLen_ = 0 /\ mgrPc' = "done"
      BY <2>1 DEF QuitLast
    <2>3. QED BY <1>1, <2>1, <2>2 DEF QuitLast
  <1>4. CASE MgrPop
    <2>1. /\ pSegQueue_ # <<>> /\ segInfo' = Head(pSegQueue_) /\ pSegQueue_' = Tail(pSegQueue_)
          /\ mgrPc' = "handle" /\ Len(pSegQueue_) >= 1
      BY <1>2, <1>4, EmptySeq DEF MgrPop
    <2>2. /\ Len(pSegQueue_') = Len(pSegQueue_) - 1 /\ pSegQueue_' \in Seq(Cmds)
          /\ \A i \in 1 .. Len(pSegQueue_') : pSegQueue_'[i] = pSegQueue_[i + 1]
          /\ segInfo' = pSegQueue_[1]
      BY <1>2, <2>1, HeadTailProperties
    <2>3. ASSUME NEW i \in 1 .. Len(pSegQueue_'), pSegQueue_'[i].op = "QUIT"
          PROVE  uninitPc' = "join" /\ i = Len(pSegQueue_')
      <3>1. i + 1 \in 1 .. Len(pSegQueue_) /\ pSegQueue_[i + 1].op = "QUIT"
        BY <1>2, <2>2, <2>3
      <3>2. uninitPc = "join" /\ i + 1 = Len(pSegQueue_)
        BY <3>1 DEF QuitLast
      <3>3. QED BY <1>1, <1>2, <2>2, <3>2
    <2>4. ASSUME segInfo'.op = "QUIT" PROVE uninitPc' = "join" /\ pSegQueue_' = <<>>
      <3>1. 1 \in 1 .. Len(pSegQueue_) /\ pSegQueue_[1].op = "QUIT"
        BY <1>2, <2>1, <2>2, <2>4
      <3>2. uninitPc = "join" /\ 1 = Len(pSegQueue_)
        BY <3>1 DEF QuitLast
      <3>3. Len(pSegQueue_') = 0
        <4>1. Len(pSegQueue_') = Len(pSegQueue_) - 1
          BY <2>2
        <4>2. QED BY <3>2, <4>1
      <3>4. QED BY <1>1, <2>2, <3>2, <3>3, EmptySeq
    <2>5. uninitPc # "idle" => nQuit_
      BY DEF QuitLast
    <2>6. QED BY <1>1, <2>1, <2>3, <2>4, <2>5 DEF QuitLast
  <1>5. CASE MgrPopTimeout
    <2>1. segInfo' = Timeout /\ pSegQueue_' = pSegQueue_
      BY <1>5 DEF MgrPopTimeout
    <2>2. segInfo'.op # "QUIT"
      BY <2>1 DEF Timeout
    <2>3. QED BY <1>1, <2>1, <2>2 DEF QuitLast
  <1>6. CASE StartTtlReport
    <2>1. /\ UNCHANGED <<pSegQueue_, segInfo>> /\ mgrPc' = "ttl" /\ idx' = 0
          /\ nLen_' = Len(pSegQueue_)
      BY <1>6 DEF StartTtlReport, GetStatInfo
    <2>2. segInfo.op = "QUIT" => nLen_' = 0
      BY <1>2, <2>1, EmptySeq DEF QuitLast
    <2>3. \A h \in Handle : ~(h < idx')
      BY <2>1, ConstTypes DEF Handle
    <2>4. QED BY <1>1, <2>1, <2>2, <2>3 DEF QuitLast
  <1>7. CASE EndTtlReport
    <2>1. /\ UNCHANGED <<pSegQueue_, segInfo, nLen_>> /\ mgrPc' = "test" /\ mgrPc = "ttl"
          /\ idx = NHandles
      BY <1>7 DEF EndTtlReport
    <2>2. \A h \in Handle : h < idx
      BY <2>1, ConstTypes DEF Handle
    <2>3. QED BY <1>1, <2>1, <2>2 DEF QuitLast
  <1>8. QED BY <1>3, <1>4, <1>5, <1>6, <1>7 DEF QuietManager

LEMMA QuitTtl ==
  ASSUME Typed, Places, QuitLast, Account, TtlReport
  PROVE  QuitLast'
  <1>1. /\ UNCHANGED <<pSegQueue_, nQuit_, nLen_, segInfo, mgrPc, uninitPc>>
        /\ mgrPc = "ttl" /\ idx' = idx + 1
    BY DEF TtlReport
  <1>2. idx \in Handle /\ SameElsewhere(idx)
    BY TtlFrame
  <1>3. segInfo.op = "QUIT" => Flushed(handles'[idx])
    <2>1. CASE ~handles[idx].used /\ handles'[idx] = handles[idx]
      BY <2>1 DEF Flushed
    <2>2. ASSUME NEW g \in HandleStates, Flushes(idx, g) PROVE Flushed(handles'[idx])
      BY <2>2 DEF Flushes, Flushed
    <2>3. QED BY <2>1, <2>2, TtlFrame
  <1>4. ASSUME segInfo.op = "QUIT", NEW h \in Handle, h < idx'
        PROVE  Flushed(handles'[h])
    <2>1. CASE h = idx
      BY <1>3, <1>4, <2>1
    <2>2. CASE h # idx
      <3>1. h < idx
        BY <1>1, <1>2, <1>4, <2>2, ConstTypes DEF Handle
      <3>2. Flushed(handles[h]) /\ handles'[h] = handles[h]
        BY <1>1, <1>2, <1>4, <2>2, <3>1 DEF QuitLast, SameElsewhere
      <3>3. QED BY <3>2
    <2>3. QED BY <2>1, <2>2
  <1>5. QED BY <1>1, <1>4 DEF QuitLast

LEMMA QuitUninit ==
  ASSUME Typed, QuitLast, Uninit
  PROVE  QuitLast'
  <1>1. pSegQueue_ \in Seq(Cmds) /\ Len(pSegQueue_) \in Nat
    BY LenProperties DEF Typed
  <1>2. CASE UninitQuit
    <2>1. /\ UNCHANGED <<handles, pSegQueue_, nLen_, segInfo, mgrPc, idx>>
          /\ uninitPc = "idle" /\ uninitPc' = "push" /\ nQuit_'
      BY <1>2 DEF UninitQuit, thread
    <2>2. QED BY <2>1 DEF QuitLast
  <1>3. CASE UninitPush
    <2>1. /\ UNCHANGED <<handles, nQuit_, nLen_, segInfo, mgrPc, idx>>
          /\ uninitPc = "push" /\ uninitPc' = "join" /\ pSegQueue_' = Append(pSegQueue_, Quit)
      BY <1>3 DEF UninitPush, thread
    <2>2. \A i \in 1 .. Len(pSegQueue_) : pSegQueue_[i].op # "QUIT"
      BY <2>1 DEF QuitLast
    <2>3. \A i \in 1 .. Len(pSegQueue_') : pSegQueue_'[i].op = "QUIT" => i = Len(pSegQueue_')
      BY <1>1, <2>1, <2>2, AppendProperties
    <2>4. segInfo.op # "QUIT" /\ nQuit_
      BY <2>1 DEF QuitLast
    <2>5. QED BY <2>1, <2>3, <2>4 DEF QuitLast
  <1>4. CASE UninitJoin
    <2>1. /\ UNCHANGED <<handles, nQuit_, nLen_, segInfo, mgrPc, idx>>
          /\ uninitPc = "join" /\ uninitPc' = "done" /\ pSegQueue_' = <<>>
      BY <1>4 DEF UninitJoin, thread
    <2>2. Len(pSegQueue_') = 0
      BY <2>1
    <2>3. QED BY <2>1, <2>2 DEF QuitLast
  <1>5. QED BY <1>2, <1>3, <1>4 DEF Uninit

LEMMA QuitLastStep ==
  Base /\ QuitLast /\ [Next]_vars => QuitLast'
  <1> SUFFICES ASSUME Base, QuitLast, [Next]_vars PROVE QuitLast'
    OBVIOUS
  <1>0. Typed /\ Places /\ Owned
    BY DEF Base
  <1>1. ASSUME NEW u \in Uploaders, Idles(u) PROVE QuitLast'
    BY <1>1 DEF Idles, QuitLast, thread
  <1>2. ASSUME NEW u \in Uploaders, SaysSomething(u) PROVE QuitLast'
    <2>1. PICK h \in Handle, s \in Sessions(Ids), isNew \in BOOLEAN : Speaks(u, h, s, isNew)
      BY <1>2 DEF SaysSomething, Says
    <2>2. Update(h, s, isNew) \in Cmds /\ Update(h, s, isNew).op # "QUIT"
      BY DEF Update, Updates, Cmds
    <2>3. /\ uninitPc = "idle" /\ UNCHANGED <<segInfo, uninitPc>>
          /\ \/ pSegQueue_' = pSegQueue_
             \/ pSegQueue_' = Append(pSegQueue_, Update(h, s, isNew))
      BY <1>0, <2>1, SendFrame DEF Speaks, thread, Push
    <2>4. QED BY <1>0, <2>2, <2>3, QuitNotYet
  <1>3. ASSUME NEW u \in Uploaders, ReleaseHandle(u) PROVE QuitLast'
    <2>1. /\ uninitPc = "idle" /\ UNCHANGED <<segInfo, uninitPc>>
          /\ Release(user[u].seg) \in Cmds /\ Release(user[u].seg).op # "QUIT"
      BY <1>0, <1>3, LeaveFrame DEF thread
    <2>2. pSegQueue_' = Append(pSegQueue_, Release(user[u].seg))
      BY <1>3 DEF ReleaseHandle, ReleaseSegmentHandle, Push
    <2>3. QED BY <1>0, <2>1, <2>2, QuitNotYet
  <1>4. ASSUME NEW u \in Uploaders, NEW h \in Handle, Takes(u, h) PROVE QuitLast'
    <2>1. uninitPc = "idle" /\ UNCHANGED <<segInfo, uninitPc, pSegQueue_>>
      BY <1>0, <1>4, TakesFrame DEF thread
    <2>2. Timeout \in Cmds /\ Timeout.op # "QUIT"
      BY DEF Cmds, Timeout
    <2>3. QED BY <1>0, <2>1, <2>2, QuitNotYet
  <1>5. CASE QuietManager
    BY <1>0, <1>5, QuitQuiet
  <1>6. CASE HandleUpdate \/ HandleRelease
    <2>1. UNCHANGED <<pSegQueue_, nQuit_, uninitPc>> /\ segInfo' = Timeout
      BY <1>0, <1>6, HandleTypes
    <2>2. segInfo'.op # "QUIT"
      BY <2>1 DEF Timeout
    <2>3. QED BY <2>1, <2>2 DEF QuitLast
  <1>7. CASE Account /\ TtlReport
    BY <1>0, <1>7, QuitTtl
  <1>8. CASE Uninit
    BY <1>0, <1>8, QuitUninit
  <1>9. CASE UNCHANGED vars
    BY <1>9 DEF QuitLast, vars, mgrVars, userVars, thread
  <1>10. QED
    BY <1>1, <1>2, <1>3, <1>4, <1>5, <1>6, <1>7, <1>8, <1>9, Cases

LEMMA QuitFlushes == Places /\ QuitLast => FlushedAtUninit
  BY DEF Places, QuitLast, FlushedAtUninit, Flushed

-----------------------------------------------------------------------------
(* What is posted is of a session whose end is not handled.                *)
LEMMA PostedOpen ==
  ASSUME Base, ReleaseLast(Pending), Reports(Pending), TmpInv, [Next]_vars,
         ~UNCHANGED vars, NEW i \in DOMAIN posted', posted'[i].session.id \in ended
  PROVE  disturbed[posted'[i].h]
  <1>0. Typed /\ Places /\ Owned /\ posted'[i].session.id \in ended
    BY DEF Base
  <1>1. ASSUME posted' = <<>> PROVE FALSE
    <2>1. DOMAIN posted' = {}
      BY <1>1
    <2>2. QED BY <2>1
  (* A flush posts a gap; of an ended session there is none.               *)
  <1>2. ASSUME NEW h \in Handle, NEW g \in HandleStates, Flushes(h, g), handles[h].used,
               g.tmp.id = handles[h].tmp.id, g.tmp.gap = handles[h].tmp.gap
        PROVE  disturbed[posted'[i].h]
    <2>1. posted' = Post(h, g.tmp) /\ g.tmp.gap > 0
      BY <1>1, <1>2 DEF Flushes
    <2>2. posted'[i] = [h |-> h, session |-> g.tmp]
      BY <2>1 DEF Post
    <2>3. g.tmp.id \in ended
      BY <1>0, <2>2
    <2>4. CASE Undisturbed(h)
      <3>1. TmpKept(h, Pending)
        BY <2>4 DEF TmpInv
      <3>2. handles[h].tmp.gap = 0
        BY <1>2, <2>3, <3>1 DEF TmpKept
      <3>3. QED BY <1>2, <2>1, <3>2
    <2>5. CASE ~Undisturbed(h)
      BY <1>2, <2>2, <2>5 DEF Undisturbed
    <2>6. QED BY <2>4, <2>5
  <1>3. ASSUME NEW u \in Uploaders, Idles(u) PROVE FALSE
    BY <1>1, <1>3 DEF Idles
  <1>4. ASSUME NEW u \in Uploaders, SaysSomething(u) PROVE FALSE
    <2>1. PICK h \in Handle, s \in Sessions(Ids), isNew \in BOOLEAN : Speaks(u, h, s, isNew)
      BY <1>4 DEF SaysSomething, Says
    <2>2. posted' = <<>>
      BY <1>0, <2>1, SendFrame DEF Speaks
    <2>3. QED BY <1>1, <2>2
  <1>5. ASSUME NEW u \in Uploaders, ReleaseHandle(u) PROVE FALSE
    BY <1>0, <1>1, <1>5, LeaveFrame
  <1>6. ASSUME NEW u \in Uploaders, NEW h \in Handle, Takes(u, h) PROVE FALSE
    BY <1>0, <1>1, <1>6, TakesFrame
  <1>7. CASE QuietManager
    BY <1>0, <1>1, <1>7, QuietFrame DEF QuietManager, Quiet
  <1>8. CASE Account /\ HandleUpdate
    <2>1. Taken /\ mgrPc = "handle" /\ segInfo \in Updates
      BY <1>0, <1>8, HandleTypes, UpdateFrame
    <2>2. 1 \in 1 .. Len(Pending) /\ Pending[1] = segInfo /\ IsUpdate(segInfo)
      <3>1. Len(Pending) \in Nat
        BY <1>0, PendingType
      <3>2. QED BY <2>1, <3>1, UpdateTypes DEF Taken, IsUpdate
    <2>3. segInfo.session.id \notin ended
      BY <2>2 DEF Reports, Fits
    <2>4. handles[segInfo.h].used /\ ~segInfo.isNew
      BY <1>0, <1>1, <1>8, <2>1, UpdateFrame, UpdateTypes
    <2>5. PICK gap : posted' = Post(segInfo.h, [segInfo.session EXCEPT !.gap = gap])
      BY <1>0, <1>1, <1>8, <2>4, UpdateFrame
    <2>6. posted'[i].session = [segInfo.session EXCEPT !.gap = gap]
      BY <2>5 DEF Post
    <2>7. segInfo.session \in Sessions(Ids)
      BY <2>1, UpdateTypes
    <2>8. posted'[i].session.id = segInfo.session.id
      BY <2>6, <2>7 DEF Sessions
    <2>9. QED BY <1>0, <2>3, <2>8
  <1>9. CASE Account /\ HandleRelease
    <2>1. /\ Taken /\ segInfo \in Releases /\ segInfo.h \in Handle
          /\ Flushes(segInfo.h, handles[segInfo.h]) /\ handles[segInfo.h] \in HandleStates
      BY <1>0, <1>9, HandleTypes, ReleaseFrame DEF Typed
    <2>2. 1 \in 1 .. Len(Pending) /\ Pending[1] = segInfo /\ segInfo.op = "RELEASE"
      <3>1. Len(Pending) \in Nat
        BY <1>0, PendingType
      <3>2. QED BY <2>1, <3>1 DEF Taken, Releases
    <2>3. handles[segInfo.h].used
      BY <1>0, <2>1, <2>2 DEF ReleaseLast, Places
    <2>4. QED BY <1>2, <2>1, <2>3
  <1>10. CASE Account /\ TtlReport
    <2>1. /\ idx \in Handle
          /\ \/ posted' = <<>>
             \/ /\ handles[idx].used
                /\ \E g \in HandleStates :
                     /\ g.tmp.id = handles[idx].tmp.id /\ g.tmp.gap = handles[idx].tmp.gap
                     /\ Flushes(idx, g)
      BY <1>0, <1>10, TtlFrame
    <2>2. QED BY <1>1, <1>2, <2>1
  <1>11. CASE Uninit
    BY <1>0, <1>1, <1>11, UninitCarried
  <1>12. QED
    BY <1>3, <1>4, <1>5, <1>6, <1>7, <1>8, <1>9, <1>10, <1>11, Cases

-----------------------------------------------------------------------------
(* The invariant.                                                          *)
LEMMA InvInit == Init => UsersInv
  <1> SUFFICES ASSUME Init PROVE UsersInv
    OBVIOUS
  <1>1. Typed
    BY TypedInit
  <1>2. /\ Pending = <<>> /\ pSegQueue_ = <<>> /\ mgrPc = "test" /\ uninitPc = "idle"
        /\ segInfo = Timeout
        /\ \A h \in Handle : owner[h] = "none" /\ ~handles[h].used
        /\ ended = {}
        /\ \A u \in Uploaders : /\ user[u].life = "none" /\ user[u].seg = -1 /\ user[u].n = 0
                              /\ ~user[u].open /\ user[u].avd = 0
    BY DEF Init, MgrInit, Pending
  <1>3. Places
    BY <1>2 DEF Places
  <1>4. Owned /\ Users
    BY <1>2 DEF Owned, Users
  <1>5. Len(Pending) = 0 /\ Len(pSegQueue_) = 0
    BY <1>2
  <1>6. ReleaseLast(Pending) /\ Kept(Pending) /\ Reports(Pending)
    BY <1>5 DEF ReleaseLast, Kept, Reports
  <1>7. SumsBounded /\ SumsInv /\ TmpInv
    BY <1>2 DEF SumsBounded, SumsInv, TmpInv, Undisturbed
  <1>8. QuitLast
    BY <1>2, <1>5 DEF QuitLast, Timeout
  <1>9. QED BY <1>1, <1>3, <1>4, <1>6, <1>7, <1>8 DEF UsersInv

LEMMA InvStep == UsersInv /\ [Next]_vars => UsersInv'
  <1> SUFFICES ASSUME UsersInv, [Next]_vars PROVE UsersInv'
    OBVIOUS
  <1>1. /\ Base /\ ReleaseLast(Pending) /\ Kept(Pending) /\ Reports(Pending)
        /\ SumsBounded /\ SumsInv /\ TmpInv /\ QuitLast
    BY DEF UsersInv, Base
  <1>2. Typed'
    BY <1>1, TypedStep
  <1>3. Places' /\ Owned'
    BY <1>1, PlacesStep, OwnedStep
  <1>4. ReleaseLast(Pending)' /\ Kept(Pending)'
    BY <1>1, ReleaseLastStep, KeptStep
  <1>5. Users' /\ Reports(Pending)'
    BY <1>1, UsersStep, ReportsStep
  <1>6. SumsBounded' /\ SumsInv' /\ TmpInv'
    BY <1>1, <1>2, SumsBoundedStep, SumsStep, TmpStep
  <1>7. QuitLast'
    BY <1>1, QuitLastStep
  <1>8. QED BY <1>2, <1>3, <1>4, <1>5, <1>6, <1>7 DEF UsersInv

(* UsersInv is an invariant: who owns a handle and what is still queued    *)
(* for it, in which order the reports of the uploaders wait, and what      *)
(* tmpSession holds between two of them.                                   *)
THEOREM UsersInvariant == Spec => []UsersInv
  <1>1. Init => UsersInv
    BY InvInit
  <1>2. UsersInv /\ [Next]_vars => UsersInv'
    BY InvStep
  <1>3. QED BY <1>1, <1>2, PTL DEF Spec

(* The types of the manager's state; a handle is in use exactly while an   *)
(* uploader has it, and no command is left in a queue nobody reads.        *)
THEOREM UsersTypes == Spec => []TypeOK
  <1>1. UsersInv => TypeOK
    BY DEF UsersInv, Typed, Places, TypeOK, HandleStates, Sessions
  <1>2. QED BY <1>1, UsersInvariant, PTL

(* A handle that LinkReleaseSegmentHandle gives back goes to nobody before *)
(* the last report for it was handled: for any number of handles and       *)
(* uploaders and any capacity of the queue.                                *)
THEOREM HandlesKept == Spec => []HandleKept
  <1>1. UsersInv => HandleKept
    BY KeptHandles DEF UsersInv
  <1>2. QED BY <1>1, UsersInvariant, PTL

(* "vd" of the reports of a handle adds up to what the uploader gave: none *)
(* is posted twice, and none is lost on a handle that its owner alone uses *)
(* and whose reports were not refused.                                     *)
THEOREM GapsKept == Spec => []GapsAddUp
  <1>1. UsersInv => GapsAddUp
    BY DEF UsersInv, SumsBounded, SumsInv, SumsKept, Undisturbed, GapsAddUp
  <1>2. QED BY <1>1, UsersInvariant, PTL

(* LinkUninitSegmentMgr leaves nothing unposted behind a handled QUIT.     *)
THEOREM FlushedKept == Spec => []FlushedAtUninit
  <1>1. UsersInv => FlushedAtUninit
    BY QuitFlushes DEF UsersInv
  <1>2. QED BY <1>1, UsersInvariant, PTL

(* The end of a session is the last of it that handleReportSegInfo posts,  *)
(* on a handle used by its owner alone.                                    *)
THEOREM EndIsLast == Spec => NothingPostedAfterEnd
  <1>1. UsersInv /\ [Next]_vars =>
          [\A i \in DOMAIN posted' :
             LET p == posted'[i] IN p.session.id \in ended => disturbed[p.h]]_vars
    <2> SUFFICES ASSUME UsersInv, [Next]_vars, ~UNCHANGED vars,
                        NEW i \in DOMAIN posted', posted'[i].session.id \in ended
                 PROVE  disturbed[posted'[i].h]
      OBVIOUS
    <2>1. Base /\ ReleaseLast(Pending) /\ Reports(Pending) /\ TmpInv
      BY DEF UsersInv, Base
    <2>2. QED BY <2>1, PostedOpen
  <1>2. QED BY <1>1, UsersInvariant, PTL DEF Spec, NothingPostedAfterEnd
=============================================================================
