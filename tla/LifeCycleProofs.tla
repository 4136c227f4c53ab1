---------------------------- MODULE LifeCycleProofs ----------------------------
(***************************************************************************)
(* The life of the uploaders, for any number of them, any capacities of    *)
(* the queues and any number of sessions: what was freed is reclaimed, and *)
(* no token is asked for without a configuration.                          *)
(***************************************************************************)
EXTENDS LifeCycle, SequenceTheorems, TLAPS

Deferred(fn) == [fn : {fn}, arg : Uploaders]
Functions == {NullFn} \cup Deferred("uploader") \cup Deferred("picture")
Messages == [nType : 1 .. 3, session : Nat]
ThreadStates ==
  [pc : {"none", "start", "pop", "config", "token", "done"},
   param : [nType : 0 .. 3, session : Nat], nLen : Nat, rcDeadline : BOOLEAN,
   shouldUpdateRc : BOOLEAN, shouldUpdateToken : BOOLEAN, sessionIdBak : Nat]
PicStates ==
  [q : Seq({"GET", "STOP"}), nQuit : BOOLEAN, nLen : Nat,
   pc : {"none", "start", "pop", "callback", "done", "freed"}]
ManagerStates ==
  [q : Seq(Functions), nQuit : BOOLEAN, nIsStarted : BOOLEAN, nLen : Nat, run : Functions,
   pc : {"none", "loop", "pop", "run", "join", "release", "stop", "stat", "done"},
   unseen : SUBSET Deferred("uploader")]

Typed ==
  /\ pUpdateQueue \in [Uploaders -> Seq(Messages)]
  /\ tokenThread \in [Uploaders -> ThreadStates]
  /\ remoteConfig \in [Uploaders -> BOOLEAN]
  /\ session \in [Uploaders -> Nat]
  /\ isQuit \in [Uploaders -> BOOLEAN]
  /\ pic \in [Uploaders -> PicStates]
  /\ manager \in ManagerStates
  /\ nProcStatus \in 0 .. 2
  /\ user \in {"out", "in", "quitSet", "join"}
  /\ life \in [Uploaders -> {"none", "live", "freed", "drained", "reclaimed"}]

-----------------------------------------------------------------------------
(* A configuration was asked for: it is there, or fetched, or missed.  The *)
(* message that asks for it is the first one of the first session.         *)
Asked(u) == remoteConfig[u] \/ tokenThread[u].shouldUpdateRc \/ At(u, "config")

ConfigFirst(u) ==
  /\ At(u, "token") => remoteConfig[u]
  /\ tokenThread[u].shouldUpdateToken => Asked(u)
  /\ \/ Asked(u)
     \/ session[u] # 0 /\ pUpdateQueue[u] # <<>> /\ pUpdateQueue[u][1].nType = 2
     \/ session[u] = 0 /\ \A i \in 1 .. Len(pUpdateQueue[u]) : pUpdateQueue[u][i].nType = 3
  /\ session[u] = 0 /\ life[u] \in {"none", "live", "freed"} => pUpdateQueue[u] = <<>>
  /\ life[u] = "none" => At(u, "none")

-----------------------------------------------------------------------------
(* What the program does bounds what the manager's thread does; the thread *)
(* has seen what it has to run, but for what others pushed behind its last *)
(* look, which in LinkCleanup is NULL alone.                               *)
Order ==
  /\ nProcStatus = 0 => user = "out" /\ manager.pc = "none"
  /\ nProcStatus = 1 => user = "in"
  /\ user \in {"quitSet", "join"} => nProcStatus = 2
  /\ nProcStatus = 2 /\ user \in {"in", "out"} => manager.pc = "done"
  /\ user # "in" => \A u \in Uploaders : life[u] # "live"

Seen ==
  /\ manager.pc \in {"none", "done"} => manager.nLen = 0
  /\ manager.pc # "stat" =>
       \A i \in manager.nLen + 1 .. Len(manager.q) : manager.q[i] \in manager.unseen \cup {NullFn}

-----------------------------------------------------------------------------
(* Where the destruction of a freed uploader is.                           *)
Queued(f) == \E i \in 1 .. Len(manager.q) : manager.q[i] = f

Coming(f) ==
  Queued(f) \/ (manager.run = f /\ manager.pc = "run") \/ (manager.pc = "done" /\ f \in manager.unseen)
InHand(f) == Queued(f) \/ (manager.run = f /\ manager.pc \in {"run", "stop", "join"})

Destroying(u) == Coming(Fn("uploader", u)) \/ Fn("uploader", u) \in refused

PicDestroying(u) ==
  InHand(Fn("picture", u)) \/ Fn("picture", u) \in refused \/ pic[u].pc = "freed"

Whereabouts(u) ==
  /\ life[u] = "freed" => Destroying(u)
  /\ life[u] = "drained" => Running("uploader", "join", u) \/ Running("uploader", "release", u)
  /\ life[u] = "reclaimed" => At(u, "done") /\ (HasPicture(u) => PicDestroying(u))
  /\ Running("uploader", "release", u) => At(u, "done")

LifeInv ==
  /\ Typed /\ Order /\ Seen
  /\ \A u \in Uploaders : ConfigFirst(u) /\ Whereabouts(u)

-----------------------------------------------------------------------------
(* The token threads.                                                      *)
TokenTyped ==
  /\ pUpdateQueue \in [Uploaders -> Seq(Messages)]
  /\ tokenThread \in [Uploaders -> ThreadStates]
  /\ remoteConfig \in [Uploaders -> BOOLEAN]
  /\ session \in [Uploaders -> Nat]
  /\ isQuit \in [Uploaders -> BOOLEAN]

Others(u) ==
  \A v \in Uploaders \ {u} :
    /\ pUpdateQueue'[v] = pUpdateQueue[v] /\ tokenThread'[v] = tokenThread[v]
    /\ remoteConfig'[v] = remoteConfig[v] /\ session'[v] = session[v]

LEMMA ThreadFields ==
  ASSUME NEW t \in ThreadStates
  PROVE  /\ t.param \in [nType : 0 .. 3, session : Nat] /\ t.param.session \in Nat
         /\ t.nLen \in Nat /\ t.shouldUpdateRc \in BOOLEAN /\ t.shouldUpdateToken \in BOOLEAN
         /\ t.rcDeadline \in BOOLEAN /\ t.sessionIdBak \in Nat
         /\ t.pc \in {"none", "start", "pop", "config", "token", "done"}
  BY DEF ThreadStates

(* What Handle makes of a message or a timeout.                            *)
LEMMA HandleOut ==
  ASSUME TokenTyped, NEW u \in Uploaders, NEW m \in [nType : 0 .. 3, session : Nat],
         NEW nLen \in Nat, NEW rcDue \in BOOLEAN
  PROVE  LET t == tokenThread[u]
             o == Handle(u, m, nLen, rcDue)
         IN
         /\ o \in ThreadStates
         /\ o.shouldUpdateRc = t.shouldUpdateRc /\ o.shouldUpdateToken = t.shouldUpdateToken
         /\ o.pc \in {"pop", "config", "token", "done"}
         /\ o.pc = "token" => ~t.shouldUpdateRc /\ (m.nType = 1 \/ t.shouldUpdateToken)
         /\ m.nType = 2 => o.pc = "config"
  <1> DEFINE t == tokenThread[u]
             pc == IF m.nType = 3 THEN Loop(u, nLen)
                   ELSE IF m.nType = 2 \/ t.shouldUpdateRc \/ rcDue THEN "config"
                   ELSE IF m.nType = 1 \/ t.shouldUpdateToken THEN "token"
                   ELSE Loop(u, nLen)
             p == IF pc \in {"config", "token"} THEN m ELSE NoMsg
             bak == IF m.session # NoSession THEN m.session ELSE t.sessionIdBak
  <1>1. t \in ThreadStates
    BY DEF TokenTyped
  <1>2. NoMsg \in [nType : 0 .. 3, session : Nat]
    BY DEF NoMsg, Msg, NoSession
  <1>3. Loop(u, nLen) \in {"pop", "done"}
    BY DEF Loop
  <1>4. /\ pc \in {"pop", "config", "token", "done"}
        /\ pc = "token" => ~t.shouldUpdateRc /\ (m.nType = 1 \/ t.shouldUpdateToken)
        /\ m.nType = 2 => pc = "config"
    BY <1>3
  <1>5. p \in [nType : 0 .. 3, session : Nat] /\ bak \in Nat
    <2>1. m.session \in Nat /\ t.sessionIdBak \in Nat
      BY <1>1, ThreadFields
    <2>2. QED BY <1>2, <2>1
  <1>6. Handle(u, m, nLen, rcDue) =
          [t EXCEPT !.pc = pc, !.nLen = nLen, !.param = p, !.sessionIdBak = bak]
    BY DEF Handle
  <1> HIDE DEF pc, p, bak
  <1>7. QED BY <1>1, <1>4, <1>5, <1>6 DEF ThreadStates

LEMMA LoopOut == \A u, n : Loop(u, n) \in {"pop", "done"}
  BY DEF Loop

LEMMA QueueFields ==
  ASSUME TokenTyped, NEW u \in Uploaders
  PROVE  /\ pUpdateQueue[u] \in Seq(Messages) /\ Len(pUpdateQueue[u]) \in Nat
         /\ pUpdateQueue[u] # <<>> =>
              /\ Len(pUpdateQueue[u]) >= 1 /\ Head(pUpdateQueue[u]) = pUpdateQueue[u][1]
              /\ Head(pUpdateQueue[u]) \in Messages
              /\ Tail(pUpdateQueue[u]) \in Seq(Messages)
              /\ Len(Tail(pUpdateQueue[u])) = Len(pUpdateQueue[u]) - 1
              /\ \A i \in 1 .. Len(Tail(pUpdateQueue[u])) :
                   Tail(pUpdateQueue[u])[i] = pUpdateQueue[u][i + 1]
  <1>1. pUpdateQueue[u] \in Seq(Messages) /\ Len(pUpdateQueue[u]) \in Nat
    BY LenProperties DEF TokenTyped
  <1>2. CASE pUpdateQueue[u] # <<>>
    BY <1>1, <1>2, EmptySeq, HeadTailProperties
  <1>3. QED BY <1>1, <1>2

(* The thread's own steps: asked for once, the configuration stays asked   *)
(* for.                                                                    *)
LEMMA StartKeeps ==
  ASSUME TokenTyped, NEW u \in Uploaders, ConfigFirst(u), TokenStart(u), life' = life, life[u] # "none"
  PROVE  TokenTyped' /\ Others(u) /\ ConfigFirst(u)' /\ (At(u, "done") => At(u, "done")')
  <1>1. PICK nLen \in 0 .. 1 : tokenThread' = [tokenThread EXCEPT ![u].pc = Loop(u, nLen)]
    BY DEF TokenStart
  <1>2. /\ UNCHANGED <<pUpdateQueue, remoteConfig, session, isQuit>>
        /\ tokenThread[u].pc = "start"
    BY DEF TokenStart, At
  <1>3. /\ tokenThread' \in [Uploaders -> ThreadStates]
        /\ \A v \in Uploaders \ {u} : tokenThread'[v] = tokenThread[v]
        /\ tokenThread'[u].pc \in {"pop", "done"}
        /\ tokenThread'[u].shouldUpdateRc = tokenThread[u].shouldUpdateRc
        /\ tokenThread'[u].shouldUpdateToken = tokenThread[u].shouldUpdateToken
    BY ZenonT(60), <1>1, LoopOut DEF TokenTyped, ThreadStates
  <1>4. Asked(u) <=> Asked(u)'
    BY <1>2, <1>3 DEF Asked, At
  <1>5. TokenTyped' /\ Others(u)
    BY <1>2, <1>3 DEF TokenTyped, Others
  <1>6. QED BY <1>2, <1>3, <1>4, <1>5 DEF ConfigFirst, At

LEMMA PopKeeps ==
  ASSUME TokenTyped, NEW u \in Uploaders, ConfigFirst(u), TokenPop(u), life' = life, life[u] # "none"
  PROVE  TokenTyped' /\ Others(u) /\ ConfigFirst(u)' /\ (At(u, "done") => At(u, "done")')
  <1> DEFINE q == pUpdateQueue[u]
             t == tokenThread[u]
             o == Handle(u, Head(q), Len(q) - 1, FALSE)
  <1>1. /\ q # <<>> /\ pUpdateQueue' = [pUpdateQueue EXCEPT ![u] = Tail(q)]
        /\ tokenThread' = [tokenThread EXCEPT ![u] = o]
        /\ UNCHANGED <<remoteConfig, session, isQuit>> /\ t.pc = "pop"
    BY DEF TokenPop, At
  <1>2. /\ q \in Seq(Messages) /\ Len(q) \in Nat /\ Len(q) >= 1 /\ Head(q) = q[1]
        /\ Head(q) \in Messages /\ Tail(q) \in Seq(Messages) /\ Len(Tail(q)) = Len(q) - 1
        /\ \A i \in 1 .. Len(Tail(q)) : Tail(q)[i] = q[i + 1]
    BY <1>1, QueueFields
  <1>3. Head(q) \in [nType : 0 .. 3, session : Nat] /\ Len(q) - 1 \in Nat
    BY <1>2 DEF Messages
  <1>4. /\ o \in ThreadStates
        /\ o.shouldUpdateRc = t.shouldUpdateRc /\ o.shouldUpdateToken = t.shouldUpdateToken
        /\ o.pc \in {"pop", "config", "token", "done"}
        /\ o.pc = "token" => ~t.shouldUpdateRc /\ (Head(q).nType = 1 \/ t.shouldUpdateToken)
        /\ Head(q).nType = 2 => o.pc = "config"
    BY <1>3, HandleOut
  <1> HIDE DEF o
  <1>5. /\ tokenThread' \in [Uploaders -> ThreadStates] /\ tokenThread'[u] = o
        /\ \A v \in Uploaders \ {u} : tokenThread'[v] = tokenThread[v]
    BY <1>1, <1>4 DEF TokenTyped
  <1>6. /\ pUpdateQueue' \in [Uploaders -> Seq(Messages)] /\ pUpdateQueue'[u] = Tail(q)
        /\ \A v \in Uploaders \ {u} : pUpdateQueue'[v] = pUpdateQueue[v]
    BY <1>1, <1>2 DEF TokenTyped
  <1>7. TokenTyped' /\ Others(u)
    BY <1>1, <1>5, <1>6 DEF TokenTyped, Others
  <1>8. Asked(u) => Asked(u)'
    BY <1>1, <1>4, <1>5 DEF Asked, At
  <1>9. \/ Asked(u)'
        \/ session'[u] = 0 /\ \A i \in 1 .. Len(pUpdateQueue'[u]) : pUpdateQueue'[u][i].nType = 3
    <2>1. CASE Asked(u)
      BY <1>8, <2>1
    <2>2. CASE session[u] # 0 /\ q[1].nType = 2
      BY <1>2, <1>4, <1>5, <2>2 DEF Asked, At
    <2>3. CASE session[u] = 0 /\ \A i \in 1 .. Len(q) : q[i].nType = 3
      <3>1. \A i \in 1 .. Len(Tail(q)) : i + 1 \in 1 .. Len(q)
        BY <1>2
      <3>2. \A i \in 1 .. Len(Tail(q)) : Tail(q)[i].nType = 3
        BY <1>2, <2>3, <3>1
      <3>3. QED BY <1>1, <1>6, <2>3, <3>2
    <2>4. QED BY <2>1, <2>2, <2>3 DEF ConfigFirst
  <1>10. At(u, "token")' => remoteConfig'[u]
    <2>1. SUFFICES ASSUME o.pc = "token" PROVE remoteConfig[u]
      BY <1>1, <1>5 DEF At
    <2>2. ~t.shouldUpdateRc /\ (Head(q).nType = 1 \/ t.shouldUpdateToken)
      BY <1>4, <2>1
    <2>3. CASE Asked(u)
      BY <1>1, <2>2, <2>3 DEF Asked, At
    <2>4. CASE ~Asked(u)
      <3>1. q[1].nType \in {2, 3}
        BY <1>2, <2>4 DEF ConfigFirst
      <3>2. ~t.shouldUpdateToken
        BY <2>4 DEF ConfigFirst
      <3>3. QED BY <1>2, <2>2, <3>1, <3>2
    <2>5. QED BY <2>3, <2>4
  <1>11. tokenThread'[u].shouldUpdateToken => Asked(u)'
    BY <1>4, <1>5, <1>8 DEF ConfigFirst
  <1>12. ~(session'[u] = 0 /\ life'[u] \in {"none", "live", "freed"}) /\ life'[u] # "none"
    BY <1>1 DEF ConfigFirst
  <1>13. QED BY <1>1, <1>7, <1>9, <1>10, <1>11, <1>12 DEF ConfigFirst, At

(* A step of the thread that takes no message.                             *)
LEMMA ThreadKeeps ==
  ASSUME TokenTyped, NEW u \in Uploaders, ConfigFirst(u), NEW o \in ThreadStates, NEW b \in BOOLEAN,
         tokenThread' = [tokenThread EXCEPT ![u] = o],
         remoteConfig' = [remoteConfig EXCEPT ![u] = b],
         UNCHANGED <<pUpdateQueue, session, isQuit, life>>, life[u] # "none", ~At(u, "done"),
         Asked(u) => b \/ o.shouldUpdateRc \/ o.pc = "config",
         o.pc = "token" => b,
         o.shouldUpdateToken => b \/ o.shouldUpdateRc \/ o.pc = "config"
  PROVE  TokenTyped' /\ Others(u) /\ ConfigFirst(u)' /\ (At(u, "done") => At(u, "done")')
  <1>1. /\ tokenThread' \in [Uploaders -> ThreadStates] /\ tokenThread'[u] = o
        /\ \A v \in Uploaders \ {u} : tokenThread'[v] = tokenThread[v]
        /\ remoteConfig' \in [Uploaders -> BOOLEAN] /\ remoteConfig'[u] = b
        /\ \A v \in Uploaders \ {u} : remoteConfig'[v] = remoteConfig[v]
    BY DEF TokenTyped
  <1>2. TokenTyped' /\ Others(u)
    BY <1>1 DEF TokenTyped, Others
  <1>3. Asked(u)' <=> (b \/ o.shouldUpdateRc \/ o.pc = "config")
    BY <1>1 DEF Asked, At
  <1>4. QED BY <1>1, <1>2, <1>3 DEF ConfigFirst, At

LEMMA ConfigSame ==
  TokenTyped => \A u \in Uploaders :
    /\ remoteConfig[u] \in BOOLEAN
    /\ remoteConfig = [remoteConfig EXCEPT ![u] = remoteConfig[u]]
  BY DEF TokenTyped

LEMMA TimeoutKeeps ==
  ASSUME TokenTyped, NEW u \in Uploaders, ConfigFirst(u), TokenTimeout(u), life' = life, life[u] # "none"
  PROVE  TokenTyped' /\ Others(u) /\ ConfigFirst(u)' /\ (At(u, "done") => At(u, "done")')
  <1> DEFINE t == tokenThread[u]
  <1>1. /\ UNCHANGED <<pUpdateQueue, remoteConfig, session, isQuit>> /\ t.pc = "pop"
        /\ \E rcDue \in BOOLEAN : tokenThread' = [tokenThread EXCEPT ![u] = Handle(u, NoMsg, 0, rcDue)]
    BY DEF TokenTimeout, At
  <1>2. PICK rcDue \in BOOLEAN : tokenThread' = [tokenThread EXCEPT ![u] = Handle(u, NoMsg, 0, rcDue)]
    BY <1>1
  <1> DEFINE o == Handle(u, NoMsg, 0, rcDue)
  <1>3. NoMsg \in [nType : 0 .. 3, session : Nat] /\ NoMsg.nType = 0
    BY DEF NoMsg, Msg, NoSession
  <1>4. /\ o \in ThreadStates
        /\ o.shouldUpdateRc = t.shouldUpdateRc /\ o.shouldUpdateToken = t.shouldUpdateToken
        /\ o.pc = "token" => ~t.shouldUpdateRc /\ t.shouldUpdateToken
    BY <1>3, HandleOut
  <1>5. tokenThread' = [tokenThread EXCEPT ![u] = o]
    BY <1>2
  <1> HIDE DEF o
  <1>6. remoteConfig' = [remoteConfig EXCEPT ![u] = remoteConfig[u]] /\ remoteConfig[u] \in BOOLEAN
    BY <1>1, ConfigSame
  <1>7. Asked(u) <=> remoteConfig[u] \/ o.shouldUpdateRc
    BY <1>1, <1>4 DEF Asked, At
  <1>8. /\ o.pc = "token" => remoteConfig[u]
        /\ o.shouldUpdateToken => Asked(u)
    BY <1>4, <1>7 DEF ConfigFirst
  <1>9. UNCHANGED <<pUpdateQueue, session, isQuit, life>> /\ ~At(u, "done")
    BY <1>1 DEF At
  <1>10. QED BY <1>4, <1>5, <1>6, <1>7, <1>8, <1>9, ThreadKeeps

LEMMA FetchKeeps ==
  ASSUME TokenTyped, NEW u \in Uploaders, ConfigFirst(u), life' = life, life[u] # "none",
         \/ \E isTtlGet \in BOOLEAN : ConfigFailed(u, isTtlGet)
         \/ ConfigFetched(u) \/ TokenUpdated(u) \/ TokenFailed(u)
  PROVE  TokenTyped' /\ Others(u) /\ ConfigFirst(u)' /\ (At(u, "done") => At(u, "done")')
  <1> DEFINE t == tokenThread[u]
             pc == Loop(u, t.nLen)
  <1>1. t \in ThreadStates /\ remoteConfig[u] \in BOOLEAN
        /\ remoteConfig = [remoteConfig EXCEPT ![u] = remoteConfig[u]]
    BY ConfigSame DEF TokenTyped
  <1>2. NoMsg \in [nType : 0 .. 3, session : Nat] /\ pc \in {"pop", "done"}
    BY LoopOut DEF NoMsg, Msg, NoSession
  <1>3. UNCHANGED <<pUpdateQueue, session, isQuit, life>>
    BY DEF ConfigFailed, ConfigFetched, TokenUpdated, TokenFailed
  <1>4. ASSUME NEW isTtlGet \in BOOLEAN, ConfigFailed(u, isTtlGet)
        PROVE  TokenTyped' /\ Others(u) /\ ConfigFirst(u)' /\ (At(u, "done") => At(u, "done")')
    <2> DEFINE o == [t EXCEPT !.pc = pc, !.param = NoMsg, !.rcDeadline = TRUE,
                              !.shouldUpdateRc = TRUE, !.shouldUpdateToken = FALSE]
               b == IF isTtlGet THEN FALSE ELSE remoteConfig[u]
    <2>1. o \in ThreadStates /\ b \in BOOLEAN /\ o.shouldUpdateRc /\ o.pc \in {"pop", "done"}
          /\ ~At(u, "done")
      BY <1>1, <1>2, <1>4 DEF ThreadStates, ConfigFailed, At
    <2>2. tokenThread' = [tokenThread EXCEPT ![u] = o]
      BY <1>4 DEF ConfigFailed
    <2>3. remoteConfig' = [remoteConfig EXCEPT ![u] = b]
      BY <1>1, <1>4 DEF ConfigFailed
    <2> HIDE DEF o, b
    <2>4. QED BY <1>3, <2>1, <2>2, <2>3, ThreadKeeps
  <1>5. CASE ConfigFetched(u)
    <2> DEFINE o == [t EXCEPT !.pc = "token", !.rcDeadline = TRUE,
                              !.shouldUpdateRc = FALSE, !.shouldUpdateToken = FALSE]
    <2>1. o \in ThreadStates /\ ~At(u, "done")
      BY <1>1, <1>5 DEF ThreadStates, ConfigFetched, At
    <2>2. tokenThread' = [tokenThread EXCEPT ![u] = o] /\ remoteConfig' = [remoteConfig EXCEPT ![u] = TRUE]
      BY <1>5 DEF ConfigFetched
    <2> HIDE DEF o
    <2>3. QED BY <1>3, <2>1, <2>2, ThreadKeeps
  <1>6. ASSUME NEW late \in BOOLEAN, At(u, "token"), remoteConfig' = remoteConfig,
               tokenThread' = [tokenThread EXCEPT ![u].pc = pc, ![u].param = NoMsg,
                                 ![u].shouldUpdateToken = late]
        PROVE  TokenTyped' /\ Others(u) /\ ConfigFirst(u)' /\ (At(u, "done") => At(u, "done")')
    <2> DEFINE o == [t EXCEPT !.pc = pc, !.param = NoMsg, !.shouldUpdateToken = late]
    <2>1. o \in ThreadStates /\ o.pc \in {"pop", "done"} /\ ~At(u, "done") /\ remoteConfig[u]
      BY <1>1, <1>2, <1>6 DEF ThreadStates, At, ConfigFirst
    <2>2. tokenThread' = [tokenThread EXCEPT ![u] = o] /\ remoteConfig' = [remoteConfig EXCEPT ![u] = remoteConfig[u]]
      BY <1>1, <1>6
    <2> HIDE DEF o
    <2>3. QED BY <1>1, <1>3, <2>1, <2>2, ThreadKeeps
  <1>7. CASE TokenUpdated(u)
    BY <1>6, <1>7 DEF TokenUpdated
  <1>8. CASE TokenFailed(u)
    BY <1>6, <1>8 DEF TokenFailed
  <1>9. QED BY <1>4, <1>5, <1>7, <1>8

LEMMA TokenStepKeeps ==
  ASSUME TokenTyped, NEW u \in Uploaders, ConfigFirst(u), TokenStep(u), life' = life
  PROVE  TokenTyped' /\ Others(u) /\ ConfigFirst(u)' /\ (At(u, "done") => At(u, "done")')
  <1>1. ~At(u, "none")
    BY DEF TokenStep, TokenStart, TokenPop, TokenTimeout, ConfigFailed, ConfigFetched, TokenUpdated,
           TokenFailed, At
  <1>2. life[u] # "none"
    BY <1>1 DEF ConfigFirst
  <1>3. QED BY <1>2, StartKeeps, PopKeeps, TimeoutKeeps, FetchKeeps DEF TokenStep

(* The other threads: the first message asks for the configuration, and    *)
(* the queue has room for it.                                              *)
LEMMA SessionKeeps ==
  ASSUME TokenTyped, NEW u \in Uploaders, ConfigFirst(u), NewSession(u), life' = life,
         life[u] \in {"live", "freed"}
  PROVE  TokenTyped' /\ Others(u) /\ ConfigFirst(u)' /\ (At(u, "done") => At(u, "done")')
  <1> DEFINE q == pUpdateQueue[u]
             s == session[u] + 1
             m == Msg(IF s = 1 THEN 2 ELSE 1, s)
  <1>1. /\ session' = [session EXCEPT ![u] = s]
        /\ pUpdateQueue' = IF Len(q) < UpdateCap THEN [pUpdateQueue EXCEPT ![u] = Append(q, m)]
                           ELSE pUpdateQueue
        /\ UNCHANGED <<tokenThread, remoteConfig, isQuit>>
    BY DEF NewSession
  <1>2. /\ q \in Seq(Messages) /\ Len(q) \in Nat /\ session[u] \in Nat /\ s \in Nat /\ s # 0
        /\ q # <<>> => Len(q) >= 1
    BY QueueFields DEF TokenTyped
  <1>3. m \in Messages /\ (s = 1 => m.nType = 2)
    BY <1>2 DEF Messages, Msg
  <1> HIDE DEF m, s
  <1>4. /\ Append(q, m) \in Seq(Messages) /\ Append(q, m) # <<>>
        /\ Append(q, m)[1] = IF q = <<>> THEN m ELSE q[1]
    <2>1. /\ Append(q, m) \in Seq(Messages) /\ Len(Append(q, m)) = Len(q) + 1
          /\ \A i \in 1 .. Len(q) : Append(q, m)[i] = q[i] /\ Append(q, m)[Len(q) + 1] = m
      BY <1>2, <1>3, AppendProperties
    <2>2. Append(q, m) # <<>>
      BY <1>2, <2>1, EmptySeq
    <2>3. CASE q = <<>>
      BY <1>2, <2>1, <2>2, <2>3, AppendProperties
    <2>4. CASE q # <<>>
      BY <1>2, <2>1, <2>4
    <2>5. QED BY <2>1, <2>2, <2>3, <2>4
  <1>5. /\ pUpdateQueue' \in [Uploaders -> Seq(Messages)]
        /\ \A v \in Uploaders \ {u} : pUpdateQueue'[v] = pUpdateQueue[v]
        /\ pUpdateQueue'[u] = IF Len(q) < UpdateCap THEN Append(q, m) ELSE q
    BY <1>1, <1>4 DEF TokenTyped
  <1>6. /\ session' \in [Uploaders -> Nat] /\ session'[u] = s
        /\ \A v \in Uploaders \ {u} : session'[v] = session[v]
    BY <1>1, <1>2 DEF TokenTyped
  <1>7. TokenTyped' /\ Others(u)
    BY <1>1, <1>5, <1>6 DEF TokenTyped, Others
  <1>8. Asked(u)' <=> Asked(u)
    BY <1>1 DEF Asked, At
  <1>9. ~Asked(u) => pUpdateQueue'[u] # <<>> /\ pUpdateQueue'[u][1].nType = 2
    <2>1. CASE session[u] = 0
      <3>1. q = <<>> /\ s = 1
        BY <2>1, <1>2 DEF ConfigFirst, s
      <3>2. Len(q) < UpdateCap
        BY <3>1, TokenThreadAssumption
      <3>3. QED BY <1>3, <1>4, <1>5, <3>1, <3>2
    <2>2. CASE session[u] # 0
      BY <1>4, <1>5, <2>2 DEF ConfigFirst
    <2>3. QED BY <2>1, <2>2
  <1>10. QED BY <1>1, <1>2, <1>6, <1>7, <1>8, <1>9 DEF ConfigFirst, At

LEMMA QuitKeeps ==
  ASSUME TokenTyped, NEW u \in Uploaders, ConfigFirst(u), PushQuit(u), life'[u] = "drained"
  PROVE  TokenTyped' /\ Others(u) /\ ConfigFirst(u)' /\ (At(u, "done") => At(u, "done")')
  <1> DEFINE q == pUpdateQueue[u]
             m == Msg(3, NoSession)
  <1>1. /\ pUpdateQueue' = IF Len(q) < UpdateCap THEN [pUpdateQueue EXCEPT ![u] = Append(q, m)]
                           ELSE pUpdateQueue
        /\ UNCHANGED <<tokenThread, remoteConfig, session, isQuit>>
    BY DEF PushQuit
  <1>2. /\ q \in Seq(Messages) /\ Len(q) \in Nat
        /\ q # <<>> => Len(q) >= 1
    BY QueueFields
  <1>3. m \in Messages /\ m.nType = 3
    BY DEF Messages, Msg, NoSession
  <1> HIDE DEF m
  <1>4. /\ Append(q, m) \in Seq(Messages) /\ Len(Append(q, m)) = Len(q) + 1
        /\ \A i \in 1 .. Len(q) : Append(q, m)[i] = q[i]
        /\ Append(q, m)[Len(q) + 1] = m
    BY <1>2, <1>3, AppendProperties
  <1>5. /\ pUpdateQueue' \in [Uploaders -> Seq(Messages)]
        /\ \A v \in Uploaders \ {u} : pUpdateQueue'[v] = pUpdateQueue[v]
        /\ pUpdateQueue'[u] = IF Len(q) < UpdateCap THEN Append(q, m) ELSE q
    BY <1>1, <1>4 DEF TokenTyped
  <1>6. TokenTyped' /\ Others(u)
    BY <1>1, <1>5 DEF TokenTyped, Others
  <1>7. Asked(u)' <=> Asked(u)
    BY <1>1 DEF Asked, At
  <1>8. q # <<>> => pUpdateQueue'[u] # <<>> /\ pUpdateQueue'[u][1] = q[1]
    BY <1>2, <1>4, <1>5, EmptySeq
  <1>9. (\A i \in 1 .. Len(q) : q[i].nType = 3) =>
          \A i \in 1 .. Len(pUpdateQueue'[u]) : pUpdateQueue'[u][i].nType = 3
    <2>1. CASE Len(q) < UpdateCap
      BY <1>2, <1>3, <1>4, <1>5, <2>1
    <2>2. CASE ~(Len(q) < UpdateCap)
      BY <1>5, <2>2
    <2>3. QED BY <2>1, <2>2
  <1>10. QED BY <1>1, <1>6, <1>7, <1>8, <1>9 DEF ConfigFirst, At

(* A thread that is started.                                               *)
LEMMA BeginKeeps ==
  ASSUME TokenTyped, NEW u \in Uploaders, ConfigFirst(u), life[u] = "none", life'[u] # "none",
         tokenThread' = [tokenThread EXCEPT ![u].pc = "start"],
         UNCHANGED <<pUpdateQueue, remoteConfig, session>>,
         isQuit' \in [Uploaders -> BOOLEAN]
  PROVE  TokenTyped' /\ Others(u) /\ ConfigFirst(u)' /\ (At(u, "done") => At(u, "done")')
  <1>1. /\ tokenThread' \in [Uploaders -> ThreadStates]
        /\ \A v \in Uploaders \ {u} : tokenThread'[v] = tokenThread[v]
        /\ tokenThread'[u].pc = "start"
        /\ tokenThread'[u].shouldUpdateRc = tokenThread[u].shouldUpdateRc
        /\ tokenThread'[u].shouldUpdateToken = tokenThread[u].shouldUpdateToken
    BY ZenonT(60) DEF TokenTyped, ThreadStates
  <1>2. At(u, "none")
    BY DEF ConfigFirst
  <1>3. TokenTyped' /\ Others(u)
    BY <1>1 DEF TokenTyped, Others
  <1>4. Asked(u)' <=> Asked(u)
    BY <1>1, <1>2 DEF Asked, At
  <1>5. QED BY <1>1, <1>2, <1>3, <1>4 DEF ConfigFirst, At

LEMMA OthersKeep ==
  ASSUME NEW u \in Uploaders, NEW v \in Uploaders \ {u}, Others(u), ConfigFirst(v), life'[v] = life[v]
  PROVE  ConfigFirst(v)' /\ (At(v, "done") => At(v, "done")')
  BY DEF Others, ConfigFirst, Asked, At

-----------------------------------------------------------------------------
(* What the steps of the system do to the token threads.                   *)
LifeTyped == life \in [Uploaders -> {"none", "live", "freed", "drained", "reclaimed"}]
Early == {"none", "live", "freed"}

LifeGoesOn(v) ==
  /\ life'[v] = "none" => life[v] = "none"
  /\ life'[v] \in Early => life[v] \in Early
  /\ life[v] = "none" => life'[v] = "none"

TokenQuiet ==
  /\ UNCHANGED <<pUpdateQueue, tokenThread, remoteConfig, session>>
  /\ isQuit' \in [Uploaders -> BOOLEAN]
  /\ \A v \in Uploaders : LifeGoesOn(v)

TokenMoves(u) ==
  /\ \A v \in Uploaders \ {u} : life'[v] = life[v]
  /\ \/ TokenStep(u) /\ life' = life
     \/ NewSession(u) /\ life' = life /\ life[u] \in {"live", "freed"}
     \/ PushQuit(u) /\ life'[u] = "drained"
     \/ /\ life[u] = "none" /\ life'[u] \in {"live", "freed"}
        /\ tokenThread' = [tokenThread EXCEPT ![u].pc = "start"]
        /\ UNCHANGED <<pUpdateQueue, remoteConfig, session>>
        /\ isQuit' \in [Uploaders -> BOOLEAN]

LEMMA UserTokenCases ==
  ASSUME TokenTyped, LifeTyped, NEW u \in Uploaders,
         \/ LinkCreateAndStartAVUploader(u) \/ LinkNewUploader(u)
         \/ LinkNewUploaderNoHandle(u) \/ LinkFreeUploader(u)
         \/ Capture(u) \/ Worker(u) \/ TokenThreadOf(u) \/ PicThreadOf(u)
  PROVE  TokenQuiet \/ TokenMoves(u)
  <1>1. isQuit \in [Uploaders -> BOOLEAN]
    BY DEF TokenTyped
  <1>2. CASE LinkCreateAndStartAVUploader(u) \/ LinkNewUploader(u)
    BY <1>1, <1>2
       DEF LinkCreateAndStartAVUploader, LinkNewUploader, TokenThreadStart, TokenMoves, LifeTyped
  <1>3. CASE LinkNewUploaderNoHandle(u)
    BY <1>1, <1>3 DEF LinkNewUploaderNoHandle, TokenMoves, LifeTyped
  <1>4. CASE LinkFreeUploader(u)
    BY <1>1, <1>4 DEF LinkFreeUploader, Quit, SetQuit, TokenQuiet, LifeTyped, LifeGoesOn, Early
  <1>5. CASE Capture(u) \/ PicThreadOf(u)
    BY <1>1, <1>5 DEF Capture, PicThreadOf, tokenVars, TokenQuiet, LifeGoesOn
  <1>6. CASE Worker(u)
    BY <1>6 DEF Worker, TokenMoves
  <1>7. CASE TokenThreadOf(u)
    BY <1>7 DEF TokenThreadOf, TokenMoves
  <1>8. QED BY <1>2, <1>3, <1>4, <1>5, <1>6, <1>7

LEMMA MgrTokenCases ==
  ASSUME TokenTyped, LifeTyped,
         \A u \in Uploaders : life[u] = "none" => ~Running("uploader", "release", u),
         \/ LinkInit \/ LinkCleanup \/ CleanupPush \/ CleanupJoin
         \/ MgrThread \/ FunctionThread \/ UNCHANGED vars
  PROVE  TokenQuiet \/ \E u \in Uploaders : TokenMoves(u)
  <1>1. isQuit \in [Uploaders -> BOOLEAN]
    BY DEF TokenTyped
  <1>2. ASSUME UNCHANGED tokenVars, life' = life PROVE TokenQuiet
    BY <1>1, <1>2 DEF tokenVars, TokenQuiet, LifeGoesOn
  <1>3. ASSUME NEW u \in Uploaders, DestroyTsUploader(u) PROVE TokenMoves(u)
    BY <1>3 DEF DestroyTsUploader, TokenMoves, LifeTyped
  <1>4. ASSUME NEW u \in Uploaders, Release(u) PROVE TokenQuiet
    <2>1. life[u] # "none" /\ life' = [life EXCEPT ![u] = "reclaimed"] /\ UNCHANGED tokenVars
      BY <1>4 DEF Release
    <2>2. \A v \in Uploaders : LifeGoesOn(v)
      BY <2>1 DEF LifeTyped, LifeGoesOn, Early
    <2>3. QED BY <1>1, <2>1, <2>2 DEF tokenVars, TokenQuiet
  <1>5. CASE LinkInit \/ LinkCleanup \/ CleanupPush \/ CleanupJoin \/ MgrThread \/ UNCHANGED vars
    BY <1>2, <1>5 DEF LinkInit, LinkCleanup, CleanupPush, CleanupJoin, Stop, MgrThread, vars
  <1>6. ASSUME NEW u \in Uploaders, JoinTokenThread(u) \/ PicQuit(u) \/ PicStop(u) \/ PicJoin(u)
        PROVE  TokenQuiet
    BY <1>2, <1>6 DEF JoinTokenThread, PicQuit, PicStop, PicJoin
  <1>7. QED
    BY <1>3, <1>4, <1>5, <1>6 DEF FunctionThread, RunFunction

LEMMA TokenInvStep ==
  ASSUME TokenTyped, LifeTyped, \A u \in Uploaders : ConfigFirst(u),
         \A u \in Uploaders : life[u] = "none" => ~Running("uploader", "release", u),
         [Next]_vars
  PROVE  /\ TokenTyped'
         /\ \A u \in Uploaders : ConfigFirst(u)' /\ (At(u, "done") => At(u, "done")')
  <1>1. CASE TokenQuiet
    <2>1. TokenTyped'
      BY <1>1 DEF TokenQuiet, TokenTyped
    <2>2. ASSUME NEW u \in Uploaders
          PROVE  ConfigFirst(u)' /\ (At(u, "done") => At(u, "done")')
      BY <1>1, <2>2 DEF TokenQuiet, LifeGoesOn, ConfigFirst, Asked, At, Early
    <2>3. QED BY <2>1, <2>2
  <1>2. ASSUME NEW u \in Uploaders, TokenMoves(u)
        PROVE  /\ TokenTyped'
               /\ \A v \in Uploaders : ConfigFirst(v)' /\ (At(v, "done") => At(v, "done")')
    <2>1. TokenTyped' /\ Others(u) /\ ConfigFirst(u)' /\ (At(u, "done") => At(u, "done")')
      BY <1>2, TokenStepKeeps, SessionKeeps, QuitKeeps, BeginKeeps DEF TokenMoves
    <2>2. \A v \in Uploaders \ {u} : life'[v] = life[v]
      BY <1>2 DEF TokenMoves
    <2>3. ASSUME NEW v \in Uploaders \ {u}
          PROVE  ConfigFirst(v)' /\ (At(v, "done") => At(v, "done")')
      BY <2>1, <2>2, <2>3, OthersKeep
    <2>4. QED BY <2>1, <2>3
  <1>3. QED BY <1>1, <1>2, UserTokenCases, MgrTokenCases DEF Next

-----------------------------------------------------------------------------
(* The manager's thread.                                                   *)
MgrTyped == manager \in ManagerStates

(* A step of the manager that loses nothing it was given.                  *)
MgrKeeps ==
  /\ MgrTyped' /\ Seen'
  /\ \A f \in Deferred("uploader") : Coming(f) => Coming(f)'
  /\ \A f \in Deferred("picture") : InHand(f) => InHand(f)'

LEMMA MgrFields ==
  ASSUME MgrTyped
  PROVE  LET q == manager.q IN
         /\ q \in Seq(Functions) /\ Len(q) \in Nat
         /\ manager.nLen \in Nat /\ manager.run \in Functions
         /\ manager.unseen \subseteq Deferred("uploader")
         /\ manager.nIsStarted \in BOOLEAN /\ manager.nQuit \in BOOLEAN
         /\ manager.pc \in {"none", "loop", "pop", "run", "join", "release", "stop", "stat", "done"}
         /\ \A i \in 1 .. Len(q) : q[i] \in Functions
  <1>1. /\ manager.q \in Seq(Functions) /\ manager.nLen \in Nat /\ manager.run \in Functions
        /\ manager.unseen \subseteq Deferred("uploader")
        /\ manager.nIsStarted \in BOOLEAN /\ manager.nQuit \in BOOLEAN
        /\ manager.pc \in {"none", "loop", "pop", "run", "join", "release", "stop", "stat", "done"}
    BY DEF MgrTyped, ManagerStates
  <1>2. QED BY <1>1, LenProperties, ElementOfSeq

LEMMA DeferredFields ==
  /\ NullFn \in Functions
  /\ \A f \in Deferred("uploader") : f.fn = "uploader" /\ f \in Functions /\ f # NullFn
  /\ \A f \in Deferred("picture") : f.fn = "picture" /\ f \in Functions /\ f # NullFn
  /\ \A u \in Uploaders : /\ Fn("uploader", u) \in Deferred("uploader")
                          /\ Fn("picture", u) \in Deferred("picture")
                          /\ Fn("uploader", u) # NullFn /\ Fn("picture", u) # NullFn
                          /\ Fn("uploader", u).fn = "uploader" /\ Fn("picture", u).fn = "picture"
                          /\ Fn("uploader", u).arg = u /\ Fn("picture", u).arg = u
  BY DEF Functions, Deferred, NullFn, Fn

LEMMA StoppedRuns ==
  ASSUME MgrTyped, manager' \in ManagerStates, manager'.q = manager.q, Seen,
         manager'.pc = manager.pc, manager'.run = manager.run, manager'.nLen = manager.nLen,
         manager'.unseen = manager.unseen
  PROVE  MgrKeeps
  BY DEF MgrKeeps, MgrTyped, Seen, Coming, InHand, Queued

LEMMA StartMgrKeeps ==
  ASSUME MgrTyped, Seen, LinkStartMgr, manager.pc = "none"
  PROVE  MgrKeeps
  <1>1. manager' = [manager EXCEPT !.nIsStarted = TRUE, !.pc = "loop", !.nLen = 0]
    BY DEF LinkStartMgr
  <1>2. /\ manager' \in ManagerStates /\ manager'.q = manager.q /\ manager'.unseen = manager.unseen
        /\ manager'.nLen = 0 /\ manager'.run = manager.run /\ manager'.pc = "loop"
    BY <1>1 DEF MgrTyped, ManagerStates
  <1>3. manager.nLen = 0
    BY DEF Seen
  <1>4. QED BY <1>2, <1>3 DEF MgrKeeps, MgrTyped, Seen, Coming, InHand, Queued

(* A function more in the queue; seen behind what was there.               *)
LEMMA PushKeeps ==
  ASSUME MgrTyped, Seen, NEW f \in Functions, NEW n \in SUBSET Deferred("uploader"),
         f \in n \/ f = NullFn \/ manager'.pc = "stat",
         manager' \in ManagerStates, manager'.q = Append(manager.q, f),
         manager'.run = manager.run, manager'.nLen = manager.nLen,
         manager'.unseen = manager.unseen \cup n,
         manager'.pc = manager.pc \/ (manager.pc = "release" /\ manager'.pc = "stat")
  PROVE  MgrKeeps /\ Queued(f)'
  <1> DEFINE q == manager.q
  <1>1. q \in Seq(Functions) /\ Len(q) \in Nat /\ manager.nLen \in Nat
    BY MgrFields
  <1>2. /\ Len(manager'.q) = Len(q) + 1
        /\ \A i \in 1 .. Len(q) : manager'.q[i] = q[i]
        /\ manager'.q[Len(q) + 1] = f
    BY <1>1, AppendProperties
  <1>3. Queued(f)' /\ \A g : Queued(g) => Queued(g)'
    BY <1>1, <1>2 DEF Queued
  <1>4. Seen'
    <2>1. ASSUME manager'.pc # "stat", NEW i \in manager.nLen + 1 .. Len(manager'.q)
          PROVE  manager'.q[i] \in manager'.unseen \cup {NullFn}
      <3>1. CASE i \in manager.nLen + 1 .. Len(q)
        <4>1. q[i] \in manager.unseen \cup {NullFn} /\ manager'.q[i] = q[i]
          BY <1>1, <1>2, <2>1, <3>1 DEF Seen
        <4>2. QED BY <4>1
      <3>2. CASE i = Len(q) + 1
        BY <1>2, <2>1, <3>2
      <3>3. QED BY <1>1, <1>2, <3>1, <3>2
    <2>2. QED BY <2>1 DEF Seen
  <1>5. QED BY <1>3, <1>4 DEF MgrKeeps, MgrTyped, Coming, InHand

LEMMA AppendStates ==
  ASSUME MgrTyped, NEW f \in Functions
  PROVE  [manager EXCEPT !.q = Append(@, f)] \in ManagerStates
  <1>1. Append(manager.q, f) \in Seq(Functions)
    BY MgrFields, AppendProperties
  <1>2. QED BY <1>1 DEF MgrTyped, ManagerStates

(* pushRecycle: the function is in the queue or refused.                   *)
LEMMA DeferKeeps ==
  ASSUME MgrTyped, Seen, NEW f \in Deferred("uploader"), Defer(f)
  PROVE  /\ MgrKeeps /\ refused \subseteq refused'
         /\ Queued(f)' \/ f \in refused'
         /\ manager'.pc = manager.pc /\ manager'.run = manager.run
  <1>1. CASE Accepts(manager)
    <2> DEFINE p == [manager EXCEPT !.q = Append(@, f)]
    <2>1. p \in ManagerStates
      BY AppendStates, DeferredFields
    <2>2. manager' = [p EXCEPT !.unseen = manager.unseen \cup {f}] /\ refused' = refused
      <3>1. p.unseen = manager.unseen
        BY DEF MgrTyped, ManagerStates
      <3>2. QED BY <1>1, <3>1 DEF Defer, LinkPushFunction, Pushed
    <2>3. p.q = Append(manager.q, f) /\ p.run = manager.run /\ p.pc = manager.pc
          /\ p.nLen = manager.nLen /\ p.unseen = manager.unseen
      BY DEF MgrTyped, ManagerStates
    <2>4. manager.unseen \cup {f} \in SUBSET Deferred("uploader")
      BY MgrFields
    <2> HIDE DEF p
    <2>5. /\ manager' \in ManagerStates /\ manager'.q = Append(manager.q, f)
          /\ manager'.run = manager.run /\ manager'.pc = manager.pc
          /\ manager'.nLen = manager.nLen /\ manager'.unseen = manager.unseen \cup {f}
      BY <2>1, <2>2, <2>3, <2>4 DEF ManagerStates
    <2>6. {f} \in SUBSET Deferred("uploader") /\ f \in {f} /\ f \in Functions
      BY DeferredFields
    <2>7. MgrKeeps /\ Queued(f)'
      BY <2>5, <2>6, PushKeeps
    <2>8. QED BY <2>2, <2>5, <2>7
  <1>2. CASE ~Accepts(manager)
    <2>1. manager' = [manager EXCEPT !.unseen = manager.unseen] /\ refused' = refused \cup {f}
      BY <1>2 DEF Defer, LinkPushFunction, Pushed
    <2>2. manager' = manager
      BY <2>1 DEF MgrTyped, ManagerStates
    <2>3. MgrKeeps
      BY <2>2, StoppedRuns DEF MgrTyped
    <2>4. QED BY <2>1, <2>2, <2>3
  <1>3. QED BY <1>1, <1>2

(* LinkStopMgr.                                                            *)
LEMMA StopKeeps ==
  ASSUME MgrTyped, Seen, StopQuit \/ StopPush
  PROVE  MgrKeeps /\ manager'.pc = manager.pc /\ manager'.run = manager.run
  <1>1. CASE StopQuit
    <2>1. manager' = [manager EXCEPT !.nQuit = TRUE]
      BY <1>1 DEF StopQuit
    <2>2. /\ manager' \in ManagerStates /\ manager'.q = manager.q /\ manager'.unseen = manager.unseen
          /\ manager'.nLen = manager.nLen /\ manager'.run = manager.run /\ manager'.pc = manager.pc
      BY <2>1 DEF MgrTyped, ManagerStates
    <2>3. QED BY <2>2, StoppedRuns
  <1>2. CASE StopPush
    <2>1. CASE Accepts(manager)
      <3>1. manager' = [manager EXCEPT !.q = Append(@, NullFn)]
        BY <1>2, <2>1 DEF StopPush, Pushed
      <3>2. manager' \in ManagerStates
        BY <3>1, AppendStates, DeferredFields
      <3>3. /\ manager'.q = Append(manager.q, NullFn) /\ manager'.unseen = manager.unseen
            /\ manager'.nLen = manager.nLen /\ manager'.run = manager.run
            /\ manager'.pc = manager.pc
        BY <3>1 DEF MgrTyped, ManagerStates
      <3>4. manager'.unseen = manager.unseen \cup {} /\ {} \in SUBSET Deferred("uploader")
        BY <3>3
      <3>5. QED BY <3>2, <3>3, <3>4, PushKeeps, DeferredFields
    <2>2. CASE ~Accepts(manager)
      <3>1. manager' = manager
        BY <1>2, <2>2 DEF StopPush, Pushed
      <3>2. QED BY <3>1, StoppedRuns DEF MgrTyped
    <2>3. QED BY <2>1, <2>2
  <1>3. QED BY <1>1, <1>2

(* What the queue still holds when it is destroyed was not seen.           *)
LEMMA JoinKeeps ==
  ASSUME MgrTyped, Seen, StopJoin
  PROVE  MgrKeeps /\ manager'.pc = "done"
  <1>1. manager.pc = "done" /\ manager' = [manager EXCEPT !.nIsStarted = FALSE, !.q = <<>>]
    BY DEF StopJoin
  <1>2. /\ manager' \in ManagerStates /\ manager'.q = <<>> /\ manager'.unseen = manager.unseen
        /\ manager'.nLen = manager.nLen /\ manager'.run = manager.run /\ manager'.pc = manager.pc
    BY <1>1, EmptySeq DEF MgrTyped, ManagerStates
  <1>3. Len(manager.q) \in Nat /\ manager.nLen = 0 /\ manager.unseen \subseteq Deferred("uploader")
    BY <1>1, MgrFields DEF Seen
  <1>4. ASSUME NEW f, Queued(f), f # NullFn PROVE f \in manager.unseen
    <2>1. PICK i \in 1 .. Len(manager.q) : manager.q[i] = f
      BY <1>4 DEF Queued
    <2>2. i \in manager.nLen + 1 .. Len(manager.q)
      BY <1>3
    <2>3. QED BY <1>1, <1>4, <2>1, <2>2 DEF Seen
  <1>5. \A f \in Deferred("uploader") : Coming(f) => Coming(f)'
    BY <1>1, <1>2, <1>4, DeferredFields DEF Coming
  <1>6. \A f \in Deferred("picture") : ~InHand(f)
    <2>1. SUFFICES ASSUME NEW f \in Deferred("picture"), InHand(f) PROVE FALSE
      OBVIOUS
    <2>2. Queued(f)
      BY <1>1, <2>1 DEF InHand
    <2>3. f \in Deferred("uploader")
      BY <1>3, <1>4, <2>2, DeferredFields
    <2>4. QED BY <2>3, DeferredFields
  <1>7. Seen'
    <2>1. manager'.nLen + 1 .. Len(manager'.q) = {}
      BY <1>2, <1>3
    <2>2. QED BY <1>2, <1>3, <2>1 DEF Seen
  <1>8. QED BY <1>1, <1>2, <1>5, <1>6, <1>7 DEF MgrKeeps, MgrTyped

(* recycle.                                                                *)
LEMMA RecycleKeeps ==
  ASSUME MgrTyped, Seen, Recycle
  PROVE  /\ MgrKeeps
         /\ manager'.pc \in {"run", "pop", "done", "loop", "stat"}
         /\ manager.pc \in {"loop", "pop", "stat"}
  <1> DEFINE q == manager.q
  <1>0. /\ q \in Seq(Functions) /\ Len(q) \in Nat /\ manager.nLen \in Nat
        /\ \A i \in 1 .. Len(q) : q[i] \in Functions
    BY MgrFields
  <1>1. CASE RecycleLoop
    <2>1. /\ manager.pc = "loop"
          /\ manager' = [manager EXCEPT !.pc = IF manager.nQuit /\ manager.nLen = 0 THEN "done" ELSE "pop"]
      BY <1>1 DEF RecycleLoop
    <2>2. /\ manager' \in ManagerStates /\ manager'.q = q /\ manager'.unseen = manager.unseen
          /\ manager'.nLen = manager.nLen /\ manager'.run = manager.run
          /\ manager'.pc \in {"done", "pop"} /\ (manager'.pc = "done" => manager.nLen = 0)
      BY <2>1 DEF MgrTyped, ManagerStates
    <2>3. QED BY <2>1, <2>2 DEF MgrKeeps, MgrTyped, Seen, Coming, InHand, Queued
  <1>2. CASE RecyclePop
    <2>1. /\ manager.pc = "pop" /\ q # <<>>
          /\ manager' = [manager EXCEPT !.q = Tail(q), !.run = Head(q), !.nLen = Len(q) - 1,
                           !.unseen = {}, !.pc = IF Head(q) = NullFn THEN "stat" ELSE "run"]
      BY <1>2 DEF RecyclePop
    <2>2. /\ Len(q) >= 1 /\ Head(q) = q[1] /\ Head(q) \in Functions /\ Tail(q) \in Seq(Functions)
          /\ Len(Tail(q)) = Len(q) - 1 /\ Len(q) - 1 \in Nat
          /\ \A i \in 1 .. Len(Tail(q)) : Tail(q)[i] = q[i + 1]
      BY <1>0, <2>1, EmptySeq, HeadTailProperties
    <2>3. /\ manager' \in ManagerStates /\ manager'.q = Tail(q) /\ manager'.unseen = {}
          /\ manager'.nLen = Len(q) - 1 /\ manager'.run = q[1]
          /\ manager'.pc = IF q[1] = NullFn THEN "stat" ELSE "run"
      BY <2>1, <2>2 DEF MgrTyped, ManagerStates
    <2>4. ASSUME NEW f, Queued(f), f # NullFn
          PROVE  Queued(f)' \/ (manager'.run = f /\ manager'.pc = "run")
      <3>1. PICK i \in 1 .. Len(q) : q[i] = f
        BY <2>4 DEF Queued
      <3>2. CASE i = 1
        BY <2>3, <2>4, <3>1, <3>2
      <3>3. CASE i # 1
        <4>1. i - 1 \in 1 .. Len(Tail(q)) /\ Tail(q)[i - 1] = f
          BY <1>0, <2>2, <3>1, <3>3
        <4>2. QED BY <2>3, <4>1 DEF Queued
      <3>4. QED BY <3>2, <3>3
    <2>5. Seen'
      <3>1. manager'.nLen + 1 .. Len(manager'.q) = {}
        BY <2>2, <2>3
      <3>2. QED BY <2>3, <3>1 DEF Seen
    <2>6. \A f \in Deferred("uploader") : Coming(f) => Coming(f)'
      BY <2>1, <2>4, DeferredFields DEF Coming
    <2>7. \A f \in Deferred("picture") : InHand(f) => InHand(f)'
      BY <2>1, <2>4, DeferredFields DEF InHand
    <2>8. QED BY <2>1, <2>3, <2>5, <2>6, <2>7 DEF MgrKeeps, MgrTyped
  <1>3. CASE RecycleTimeout
    <2>1. /\ manager.pc = "pop" /\ q = <<>>
          /\ manager' = [manager EXCEPT !.pc = "loop", !.nLen = 0, !.unseen = {}]
      BY <1>3 DEF RecycleTimeout
    <2>2. /\ manager' \in ManagerStates /\ manager'.q = <<>> /\ manager'.nLen = 0
          /\ manager'.pc = "loop"
      BY <2>1 DEF MgrTyped, ManagerStates
    <2>3. Len(q) = 0 /\ Len(manager'.q) = 0
      BY <2>1, <2>2
    <2>4. \A f : ~Queued(f)
      BY <2>3 DEF Queued
    <2>5. QED BY <2>1, <2>2, <2>3, <2>4 DEF MgrKeeps, MgrTyped, Seen, Coming, InHand
  <1>4. CASE RecycleStat
    <2>1. /\ manager.pc = "stat"
          /\ manager' = [manager EXCEPT !.pc = "loop", !.run = NullFn, !.nLen = Len(q), !.unseen = {}]
      BY <1>4 DEF RecycleStat
    <2>2. /\ manager' \in ManagerStates /\ manager'.q = q /\ manager'.nLen = Len(q)
          /\ manager'.pc = "loop"
      BY <1>0, <2>1, DeferredFields DEF MgrTyped, ManagerStates
    <2>3. manager'.nLen + 1 .. Len(manager'.q) = {}
      BY <1>0, <2>2
    <2>4. QED BY <2>1, <2>2, <2>3 DEF MgrKeeps, MgrTyped, Seen, Coming, InHand, Queued
  <1>5. QED BY <1>1, <1>2, <1>3, <1>4 DEF Recycle

(* A function of the thread goes on.                                       *)
LEMMA GoToKeeps ==
  ASSUME MgrTyped, Seen, NEW pc \in {"join", "release", "stop", "stat"}, GoTo(pc),
         manager.pc \in {"run", "join", "stop"}
  PROVE  /\ MgrTyped' /\ Seen'
         /\ \A f : Queued(f) => Queued(f)'
         /\ manager'.run = manager.run /\ manager'.pc = pc
  <1>1. /\ manager' \in ManagerStates /\ manager'.q = manager.q /\ manager'.unseen = manager.unseen
        /\ manager'.nLen = manager.nLen /\ manager'.run = manager.run /\ manager'.pc = pc
    BY DEF MgrTyped, ManagerStates, GoTo
  <1>2. QED BY <1>1 DEF MgrTyped, Seen, Queued

LEMMA ReleaseKeeps ==
  ASSUME MgrTyped, Seen, NEW u \in Uploaders, Release(u)
  PROVE  /\ MgrKeeps /\ manager'.pc = "stat" /\ refused \subseteq refused'
         /\ HasPicture(u) => Queued(Fn("picture", u))' \/ Fn("picture", u) \in refused'
         /\ manager.pc = "release" /\ manager.run = Fn("uploader", u)
  <1>0. manager.pc = "release" /\ manager.run = Fn("uploader", u)
    BY DEF Release, Running
  <1>1. CASE ~(HasPicture(u) /\ Accepts(manager))
    <2>1. manager' = [manager EXCEPT !.pc = "stat"] /\ refused \subseteq refused'
          /\ (HasPicture(u) => Fn("picture", u) \in refused')
      BY <1>1 DEF Release, GoTo, Pushed
    <2>2. /\ manager' \in ManagerStates /\ manager'.q = manager.q /\ manager'.unseen = manager.unseen
          /\ manager'.nLen = manager.nLen /\ manager'.run = manager.run /\ manager'.pc = "stat"
      BY <2>1 DEF MgrTyped, ManagerStates
    <2>3. QED BY <1>0, <2>1, <2>2 DEF MgrKeeps, MgrTyped, Seen, Coming, InHand, Queued
  <1>2. CASE HasPicture(u) /\ Accepts(manager)
    <2> DEFINE f == Fn("picture", u)
               p == [manager EXCEPT !.q = Append(@, f)]
    <2>1. f \in Functions
      BY DeferredFields
    <2>2. manager' = [p EXCEPT !.pc = "stat"] /\ refused' = refused
      BY <1>2 DEF Release, Pushed
    <2>3. p \in ManagerStates
      BY <2>1, AppendStates
    <2>4. p.q = Append(manager.q, f) /\ p.run = manager.run
          /\ p.nLen = manager.nLen /\ p.unseen = manager.unseen
      BY DEF MgrTyped, ManagerStates
    <2> HIDE DEF p, f
    <2>5. /\ manager' \in ManagerStates /\ manager'.q = Append(manager.q, f)
          /\ manager'.run = manager.run /\ manager'.pc = "stat"
          /\ manager'.nLen = manager.nLen /\ manager'.unseen = manager.unseen
      BY <2>2, <2>3, <2>4 DEF ManagerStates
    <2>6. manager'.unseen = manager.unseen \cup {} /\ {} \in SUBSET Deferred("uploader")
      BY <2>5
    <2>7. MgrKeeps /\ Queued(f)'
      BY <1>0, <2>1, <2>5, <2>6, PushKeeps
    <2>8. QED BY <1>0, <2>2, <2>5, <2>7 DEF f
  <1>3. QED BY <1>1, <1>2

-----------------------------------------------------------------------------
(* The picture uploaders: one that was freed stays so.                     *)
PicTyped == pic \in [Uploaders -> PicStates]

PicKeeps ==
  /\ PicTyped'
  /\ \A u \in Uploaders : /\ pic[u].pc = "freed" => pic'[u].pc = "freed"
                          /\ pic[u].pc # "none" => pic'[u].pc # "none"

PicOld == \A u \in Uploaders : pic[u].pc = "none" => pic'[u].pc = "none"

LEMMA PicOne ==
  ASSUME PicTyped, NEW u \in Uploaders, NEW p \in PicStates, pic' = [pic EXCEPT ![u] = p],
         pic[u].pc # "freed" \/ p.pc = "freed", pic[u].pc # "none" => p.pc # "none"
  PROVE  PicKeeps /\ (pic[u].pc # "none" \/ p.pc = "none" => PicOld)
  BY DEF PicTyped, PicKeeps, PicOld

LEMMA PicFields ==
  ASSUME PicTyped, NEW u \in Uploaders
  PROVE  /\ pic[u] \in PicStates /\ pic[u].q \in Seq({"GET", "STOP"}) /\ Len(pic[u].q) \in Nat
         /\ pic[u].nLen \in Nat /\ pic[u].nQuit \in BOOLEAN
  <1>1. pic[u] \in PicStates /\ pic[u].q \in Seq({"GET", "STOP"})
        /\ pic[u].nLen \in Nat /\ pic[u].nQuit \in BOOLEAN
    BY DEF PicTyped, PicStates
  <1>2. QED BY <1>1, LenProperties

LEMMA PicThreadKeeps ==
  ASSUME PicTyped, NEW u \in Uploaders, ListenPicUpload(u)
  PROVE  PicKeeps /\ PicOld
  <1>0. /\ pic[u] \in PicStates /\ pic[u].q \in Seq({"GET", "STOP"}) /\ Len(pic[u].q) \in Nat
    BY PicFields
  <1>1. \A n : PicNext(u, n) \in {"done", "pop"}
    BY DEF PicNext
  <1>2. CASE PicStart(u)
    <2>1. PICK nLen \in 0 .. 1 : pic' = [pic EXCEPT ![u].pc = PicNext(u, nLen)]
      BY <1>2 DEF PicStart
    <2> DEFINE p == [pic[u] EXCEPT !.pc = PicNext(u, nLen)]
    <2>2. p \in PicStates /\ p.pc # "none" /\ pic[u].pc = "start" /\ pic' = [pic EXCEPT ![u] = p]
      BY <1>0, <1>1, <1>2, <2>1 DEF PicStart, PicStates
    <2> HIDE DEF p
    <2>3. QED BY <2>2, PicOne
  <1>3. CASE PicPop(u)
    <2> DEFINE s == pic[u]
               p == [s EXCEPT !.q = Tail(s.q), !.nLen = Len(s.q) - 1,
                       !.pc = IF Head(s.q) = "STOP" THEN "done" ELSE "callback"]
    <2>1. s.q # <<>> /\ s.pc = "pop" /\ pic' = [pic EXCEPT ![u] = p]
      BY <1>3 DEF PicPop
    <2>2. Tail(s.q) \in Seq({"GET", "STOP"}) /\ Len(s.q) - 1 \in Nat
      BY <1>0, <2>1, EmptySeq, HeadTailProperties
    <2>3. p \in PicStates /\ p.pc # "none"
      BY <1>0, <2>2 DEF PicStates
    <2> HIDE DEF p
    <2>4. QED BY <2>1, <2>3, PicOne
  <1>4. CASE PicTimeout(u)
    <2> DEFINE p == [pic[u] EXCEPT !.pc = PicNext(u, 0), !.nLen = 0]
    <2>1. p \in PicStates /\ p.pc # "none" /\ pic[u].pc = "pop" /\ pic' = [pic EXCEPT ![u] = p]
      BY <1>0, <1>1, <1>4 DEF PicTimeout, PicStates
    <2> HIDE DEF p
    <2>2. QED BY <2>1, PicOne
  <1>5. CASE PicCallback(u)
    <2> DEFINE p == [pic[u] EXCEPT !.pc = PicNext(u, pic[u].nLen)]
    <2>1. p \in PicStates /\ p.pc # "none" /\ pic[u].pc = "callback" /\ pic' = [pic EXCEPT ![u] = p]
      BY <1>0, <1>1, <1>5 DEF PicCallback, PicStates
    <2> HIDE DEF p
    <2>2. QED BY <2>1, PicOne
  <1>6. QED BY <1>2, <1>3, <1>4, <1>5 DEF ListenPicUpload

LEMMA PicCallsKeep ==
  ASSUME PicTyped, NEW u \in Uploaders
  PROVE  /\ LinkNewPictureUploader(u) => PicKeeps /\ \A v \in Uploaders \ {u} : pic'[v] = pic[v]
         /\ HasPicture(u) /\ LinkSendItIsTimeToCaptureSignal(u) => PicKeeps /\ PicOld
         /\ WaitPicQuit(u) => PicKeeps /\ PicOld
         /\ WaitPicStop(u) => PicKeeps /\ PicOld
         /\ WaitPicJoin(u) => PicKeeps /\ PicOld /\ pic'[u].pc = "freed"
  <1> DEFINE s == pic[u]
  <1>0. s \in PicStates /\ s.q \in Seq({"GET", "STOP"})
    BY PicFields
  <1>1. \A m \in {"GET", "STOP"} : Append(s.q, m) \in Seq({"GET", "STOP"})
    BY <1>0, AppendProperties
  <1>2. ASSUME LinkNewPictureUploader(u) PROVE PicKeeps /\ \A v \in Uploaders \ {u} : pic'[v] = pic[v]
    <2> DEFINE p == [s EXCEPT !.pc = "start"]
    <2>1. p \in PicStates /\ p.pc = "start" /\ s.pc = "none" /\ pic' = [pic EXCEPT ![u] = p]
      BY <1>0, <1>2 DEF LinkNewPictureUploader, PicStates
    <2> HIDE DEF p
    <2>2. QED BY <2>1, PicOne DEF PicTyped
  <1>3. ASSUME NEW m \in {"GET", "STOP"}, pic' = [pic EXCEPT ![u].q = Append(@, m)] PROVE PicKeeps /\ PicOld
    <2> DEFINE p == [s EXCEPT !.q = Append(s.q, m)]
    <2>1. p \in PicStates /\ p.pc = s.pc /\ pic' = [pic EXCEPT ![u] = p]
      BY <1>0, <1>1, <1>3 DEF PicStates
    <2> HIDE DEF p
    <2>2. QED BY <2>1, PicOne
  <1>4. ASSUME pic' = pic PROVE PicKeeps /\ PicOld
    BY <1>4 DEF PicKeeps, PicOld, PicTyped
  <1>5. ASSUME WaitPicQuit(u) PROVE PicKeeps /\ PicOld
    <2> DEFINE p == [s EXCEPT !.nQuit = TRUE]
    <2>1. p \in PicStates /\ p.pc = s.pc /\ pic' = [pic EXCEPT ![u] = p]
      BY <1>0, <1>5 DEF PicStates, WaitPicQuit
    <2> HIDE DEF p
    <2>2. QED BY <2>1, PicOne
  <1>6. ASSUME WaitPicJoin(u) PROVE PicKeeps /\ PicOld /\ pic'[u].pc = "freed"
    <2> DEFINE p == [s EXCEPT !.pc = "freed", !.q = <<>>]
    <2>1. p \in PicStates /\ p.pc = "freed" /\ s.pc = "done" /\ pic' = [pic EXCEPT ![u] = p]
      BY <1>0, <1>6, EmptySeq DEF PicStates, WaitPicJoin
    <2> HIDE DEF p
    <2>2. pic'[u].pc = "freed"
      BY <2>1 DEF PicTyped
    <2>3. QED BY <2>1, <2>2, PicOne
  <1>7. QED
    BY <1>2, <1>3, <1>4, <1>5, <1>6 DEF LinkSendItIsTimeToCaptureSignal, WaitPicStop

-----------------------------------------------------------------------------
(* What a step of the system does to the picture uploaders: only a new     *)
(* uploader gets one.                                                      *)
PicMoves ==
  /\ PicKeeps
  /\ \A v \in Uploaders : HasPicture(v)' => HasPicture(v) \/ life[v] = "none"

LEMMA PicStep ==
  ASSUME PicTyped, [Next]_vars
  PROVE  PicMoves
  <1>1. ASSUME PicKeeps, PicOld PROVE PicMoves
    BY <1>1 DEF PicMoves, PicOld, HasPicture
  <1>2. ASSUME UNCHANGED pic PROVE PicMoves
    BY <1>2 DEF PicMoves, PicKeeps, PicTyped, HasPicture
  <1>3. CASE LinkInit \/ LinkCleanup \/ CleanupPush \/ CleanupJoin \/ MgrThread \/ UNCHANGED vars
    BY <1>2, <1>3 DEF LinkInit, LinkCleanup, CleanupPush, CleanupJoin, Stop, MgrThread, vars
  <1>4. ASSUME NEW u \in Uploaders,
               \/ DestroyTsUploader(u) \/ JoinTokenThread(u) \/ Release(u)
               \/ LinkCreateAndStartAVUploader(u) \/ LinkNewUploaderNoHandle(u)
               \/ LinkFreeUploader(u) \/ Worker(u) \/ TokenThreadOf(u)
        PROVE  PicMoves
    BY <1>2, <1>4 DEF DestroyTsUploader, JoinTokenThread, Release, LinkCreateAndStartAVUploader,
                      LinkNewUploaderNoHandle, LinkFreeUploader, Worker, TokenThreadOf
  <1>5. ASSUME NEW u \in Uploaders,
               \/ PicQuit(u) \/ PicStop(u) \/ PicJoin(u) \/ Capture(u)
        PROVE  PicMoves
    <2>1. \/ WaitPicQuit(u) \/ WaitPicStop(u) \/ WaitPicJoin(u)
          \/ HasPicture(u) /\ LinkSendItIsTimeToCaptureSignal(u)
      BY <1>5 DEF PicQuit, PicStop, PicJoin, Capture
    <2>2. QED BY <1>1, <2>1, PicCallsKeep
  <1>6. ASSUME NEW u \in Uploaders, PicThreadOf(u) PROVE PicMoves
    BY <1>1, <1>6, PicThreadKeeps DEF PicThreadOf
  <1>7. ASSUME NEW u \in Uploaders, LinkNewUploader(u) PROVE PicMoves
    <2>1. life[u] = "none" /\ LinkNewPictureUploader(u)
      BY <1>7 DEF LinkNewUploader
    <2>2. PicKeeps /\ \A v \in Uploaders \ {u} : pic'[v] = pic[v]
      BY <2>1, PicCallsKeep
    <2>3. QED BY <2>1, <2>2 DEF PicMoves, HasPicture
  <1>8. QED BY <1>3, <1>4, <1>5, <1>6, <1>7 DEF Next, FunctionThread, RunFunction

-----------------------------------------------------------------------------
(* What a step of the system does to the manager and the program.          *)
Progs == {"out", "in", "quitSet", "join"}
ProgTyped == nProcStatus \in 0 .. 2 /\ user \in Progs

(* The program's steps between its calls, and those of the other threads.  *)
ProgQuiet ==
  /\ UNCHANGED <<nProcStatus, user>>
  /\ manager.pc \in {"none", "done"} => manager'.pc = manager.pc
  /\ \A v \in Uploaders : life'[v] = "live" => life[v] = "live" \/ user = "in"

LEMMA ProgQuietKeeps ==
  ASSUME ProgTyped, Order, ProgQuiet
  PROVE  ProgTyped' /\ Order'
  BY DEF ProgTyped, Progs, Order, ProgQuiet

LEMMA CallsKeepOrder ==
  ASSUME MgrTyped, LifeTyped, ProgTyped, Order, Seen, LinkInit \/ LinkCleanup \/ CleanupPush \/ CleanupJoin
  PROVE  ProgTyped' /\ Order'
  <1>1. CASE LinkInit
    <2>1. CASE nProcStatus = 0
      BY <1>1, <2>1 DEF LinkInit, ProgTyped, Progs, Order
    <2>2. CASE nProcStatus # 0
      BY <1>1, <2>2 DEF LinkInit, ProgTyped, Progs, Order
    <2>3. QED BY <2>1, <2>2
  <1>2. CASE LinkCleanup
    <2>1. CASE nProcStatus = 1 /\ Stop("in", "quitSet", StopQuit /\ nProcStatus' = 2)
      BY <1>2, <2>1 DEF LinkCleanup, Stop, ProgTyped, Progs, Order
    <2>2. CASE nProcStatus # 1 /\ Stop("in", "out", UNCHANGED <<manager, nProcStatus>>)
      BY <1>2, <2>2 DEF LinkCleanup, Stop, ProgTyped, Progs, Order
    <2>3. QED BY <1>2, <2>1, <2>2 DEF LinkCleanup
  <1>3. CASE CleanupPush
    BY <1>3 DEF CleanupPush, Stop, ProgTyped, Progs, Order
  <1>4. CASE CleanupJoin
    <2>1. StopJoin /\ user = "join" /\ user' = "out" /\ UNCHANGED <<nProcStatus, life>>
      BY <1>4 DEF CleanupJoin, Stop
    <2>2. manager'.pc = "done"
      BY <2>1, JoinKeeps
    <2>3. QED BY <2>1, <2>2 DEF ProgTyped, Progs, Order
  <1>5. QED BY <1>1, <1>2, <1>3, <1>4

LEMMA OrderStep ==
  ASSUME MgrTyped, LifeTyped, ProgTyped, Order, Seen, [Next]_vars
  PROVE  ProgTyped' /\ Order'
  <1>1. CASE LinkInit \/ LinkCleanup \/ CleanupPush \/ CleanupJoin
    BY <1>1, CallsKeepOrder
  <1>2. CASE MgrThread
    BY <1>2, RecycleKeeps, ProgQuietKeeps DEF MgrThread, ProgQuiet
  <1>3. CASE UNCHANGED vars
    BY <1>3, ProgQuietKeeps DEF ProgQuiet, vars
  <1>4. CASE FunctionThread
    <2>1. PICK u \in Uploaders : \/ DestroyTsUploader(u) \/ JoinTokenThread(u) \/ Release(u)
                                 \/ PicQuit(u) \/ PicStop(u) \/ PicJoin(u)
      BY <1>4 DEF FunctionThread, RunFunction
    <2>2. manager.pc \notin {"none", "done"}
      BY <2>1 DEF DestroyTsUploader, JoinTokenThread, Release, PicQuit, PicStop, PicJoin, Running
    <2>3. \A v \in Uploaders : life'[v] = "live" => life[v] = "live"
      BY <2>1 DEF DestroyTsUploader, JoinTokenThread, Release, PicQuit, PicStop, PicJoin, LifeTyped
    <2>4. QED BY <1>4, <2>2, <2>3, ProgQuietKeeps DEF FunctionThread, ProgQuiet
  <1>5. ASSUME NEW u \in Uploaders,
               \/ LinkCreateAndStartAVUploader(u) \/ LinkNewUploader(u)
               \/ Capture(u) \/ Worker(u) \/ TokenThreadOf(u) \/ PicThreadOf(u)
        PROVE  ProgTyped' /\ Order'
    <2>1. UNCHANGED <<manager, nProcStatus, user>>
      BY <1>5 DEF LinkCreateAndStartAVUploader, LinkNewUploader, Capture, Worker, TokenThreadOf,
                  PicThreadOf
    <2>2. \A v \in Uploaders : life'[v] = "live" => life[v] = "live" \/ user = "in"
      BY <1>5 DEF LinkCreateAndStartAVUploader, LinkNewUploader, Capture, Worker, TokenThreadOf,
                  PicThreadOf, LifeTyped
    <2>3. QED BY <2>1, <2>2, ProgQuietKeeps DEF ProgQuiet
  <1>6. ASSUME NEW u \in Uploaders, LinkNewUploaderNoHandle(u) \/ LinkFreeUploader(u)
        PROVE  ProgTyped' /\ Order'
    <2>1. /\ UNCHANGED <<nProcStatus, user>> /\ user = "in" /\ Defer(Fn("uploader", u))
      BY <1>6 DEF LinkNewUploaderNoHandle, LinkFreeUploader
    <2>2. manager'.pc = manager.pc
      BY <2>1, DeferKeeps, DeferredFields
    <2>3. QED BY <2>1, <2>2, ProgQuietKeeps DEF ProgQuiet
  <1>7. QED BY <1>1, <1>2, <1>3, <1>4, <1>5, <1>6 DEF Next

LEMMA LifeTypedStep ==
  ASSUME LifeTyped, [Next]_vars
  PROVE  LifeTyped'
  <1>1. ASSUME life' = life PROVE LifeTyped'
    BY <1>1 DEF LifeTyped
  <1>2. ASSUME NEW u \in Uploaders, NEW s \in {"live", "freed", "drained", "reclaimed"},
               life' = [life EXCEPT ![u] = s]
        PROVE  LifeTyped'
    BY <1>2 DEF LifeTyped
  <1>3. CASE LinkInit \/ LinkCleanup \/ CleanupPush \/ CleanupJoin \/ MgrThread \/ UNCHANGED vars
    BY <1>1, <1>3 DEF LinkInit, LinkCleanup, CleanupPush, CleanupJoin, Stop, MgrThread, vars
  <1>4. ASSUME NEW u \in Uploaders,
               \/ DestroyTsUploader(u) \/ Release(u) \/ LinkCreateAndStartAVUploader(u)
               \/ LinkNewUploader(u) \/ LinkNewUploaderNoHandle(u) \/ LinkFreeUploader(u)
        PROVE  LifeTyped'
    BY <1>2, <1>4 DEF DestroyTsUploader, Release, LinkCreateAndStartAVUploader, LinkNewUploader,
                      LinkNewUploaderNoHandle, LinkFreeUploader
  <1>5. ASSUME NEW u \in Uploaders,
               \/ JoinTokenThread(u) \/ PicQuit(u) \/ PicStop(u) \/ PicJoin(u)
               \/ Capture(u) \/ Worker(u) \/ TokenThreadOf(u) \/ PicThreadOf(u)
        PROVE  LifeTyped'
    BY <1>1, <1>5 DEF JoinTokenThread, PicQuit, PicStop, PicJoin, Capture, Worker, TokenThreadOf,
                      PicThreadOf
  <1>6. QED BY <1>3, <1>4, <1>5 DEF Next, FunctionThread, RunFunction

-----------------------------------------------------------------------------
(* The destruction of an uploader the step leaves where it is.             *)
RunsSame(u) ==
  /\ Running("uploader", "join", u)' = Running("uploader", "join", u)
  /\ Running("uploader", "release", u)' = Running("uploader", "release", u)

GivenKept(u) ==
  /\ refused \subseteq refused'
  /\ Coming(Fn("uploader", u)) => Coming(Fn("uploader", u))'
  /\ InHand(Fn("picture", u)) => InHand(Fn("picture", u))' \/ pic'[u].pc = "freed"

Carried(u) ==
  /\ PicMoves /\ (At(u, "done") => At(u, "done")')

LEMMA RefusedStays ==
  ASSUME NEW u \in Uploaders, Whereabouts(u), Carried(u), GivenKept(u), RunsSame(u),
         life'[u] = life[u]
  PROVE  Whereabouts(u)'
  <1>1. Destroying(u) => Destroying(u)'
    BY DEF Destroying, GivenKept
  <1>2. PicDestroying(u) => PicDestroying(u)'
    <2>1. pic[u].pc = "freed" => pic'[u].pc = "freed"
      BY DEF Carried, PicMoves, PicKeeps
    <2>2. QED BY <2>1 DEF PicDestroying, GivenKept
  <1>3. life[u] = "reclaimed" /\ HasPicture(u)' => HasPicture(u)
    BY DEF Carried, PicMoves
  <1>4. QED BY <1>1, <1>2, <1>3 DEF Whereabouts, Carried, RunsSame

LEMMA KeptGives ==
  ASSUME MgrKeeps, refused \subseteq refused'
  PROVE  \A u \in Uploaders : GivenKept(u)
  BY DeferredFields DEF MgrKeeps, GivenKept

LEMMA SameRuns ==
  ASSUME \/ manager'.pc = manager.pc /\ manager'.run = manager.run
         \/ manager.pc \notin {"join", "release"} /\ manager'.pc \notin {"join", "release"}
  PROVE  \A u \in Uploaders : RunsSame(u)
  BY DEF RunsSame, Running

LEMMA UnchangedKeeps ==
  ASSUME MgrTyped, Seen, UNCHANGED <<manager, refused>>
  PROVE  \A u \in Uploaders : GivenKept(u) /\ RunsSame(u)
  BY DEF GivenKept, RunsSame, Running, Coming, InHand, Queued

(* The calls of the program.                                               *)
LEMMA CallsKeepWhere ==
  ASSUME MgrTyped, LifeTyped, Order, Seen, \A u \in Uploaders : Whereabouts(u) /\ Carried(u),
         LinkInit \/ LinkCleanup \/ CleanupPush \/ CleanupJoin
  PROVE  MgrTyped' /\ Seen' /\ \A u \in Uploaders : Whereabouts(u)'
  <1>0. life' = life /\ refused' = refused
    BY DEF LinkInit, LinkCleanup, CleanupPush, CleanupJoin, Stop
  <1>1. ASSUME MgrKeeps, \A u \in Uploaders : RunsSame(u)
        PROVE  MgrTyped' /\ Seen' /\ \A u \in Uploaders : Whereabouts(u)'
    <2>1. \A u \in Uploaders : GivenKept(u)
      BY <1>0, <1>1, KeptGives
    <2>2. \A u \in Uploaders : Whereabouts(u)'
      BY <1>0, <1>1, <2>1, RefusedStays
    <2>3. QED BY <1>1, <2>2 DEF MgrKeeps
  <1>2. ASSUME UNCHANGED manager
        PROVE  MgrKeeps /\ \A u \in Uploaders : RunsSame(u)
    BY <1>0, <1>2, UnchangedKeeps, StoppedRuns DEF MgrTyped
  <1>3. CASE LinkInit
    <2>1. CASE nProcStatus = 0
      <3>1. manager.pc = "none" /\ LinkStartMgr
        BY <1>3, <2>1 DEF LinkInit, Order
      <3>2. manager' = [manager EXCEPT !.nIsStarted = TRUE, !.pc = "loop", !.nLen = 0]
        BY <3>1 DEF LinkStartMgr
      <3>3. manager'.pc = "loop"
        BY <3>2 DEF MgrTyped, ManagerStates
      <3>4. MgrKeeps
        BY <3>1, StartMgrKeeps
      <3>5. \A u \in Uploaders : RunsSame(u)
        BY <3>1, <3>3, SameRuns
      <3>6. QED BY <1>1, <3>4, <3>5
    <2>2. CASE nProcStatus # 0
      BY <1>1, <1>2, <1>3, <2>2 DEF LinkInit
    <2>3. QED BY <2>1, <2>2
  <1>4. CASE StopQuit \/ StopPush
    <2>1. MgrKeeps /\ manager'.pc = manager.pc /\ manager'.run = manager.run
      BY <1>4, StopKeeps
    <2>2. \A u \in Uploaders : RunsSame(u)
      BY <2>1, SameRuns
    <2>3. QED BY <1>1, <2>1, <2>2
  <1>5. CASE StopJoin
    <2>1. MgrKeeps /\ manager'.pc = "done" /\ manager.pc = "done"
      BY <1>5, JoinKeeps DEF StopJoin
    <2>2. \A u \in Uploaders : RunsSame(u)
      BY <2>1, SameRuns
    <2>3. QED BY <1>1, <2>1, <2>2
  <1>6. LinkInit \/ StopQuit \/ StopPush \/ StopJoin \/ UNCHANGED manager
    BY DEF LinkCleanup, CleanupPush, CleanupJoin, Stop
  <1>7. QED BY <1>1, <1>2, <1>3, <1>4, <1>5, <1>6

(* The steps of an uploader's threads, and its creation.                   *)
LEMMA OthersKeepWhere ==
  ASSUME MgrTyped, LifeTyped, Seen, NEW u \in Uploaders, UNCHANGED <<manager, refused>>,
         \A v \in Uploaders : Whereabouts(v) /\ Carried(v) /\ ConfigFirst(v),
         life' = life \/ (life[u] = "none" /\ life' = [life EXCEPT ![u] = "live"])
  PROVE  MgrTyped' /\ Seen' /\ \A v \in Uploaders : Whereabouts(v)'
  <1>1. \A v \in Uploaders : GivenKept(v) /\ RunsSame(v)
    BY UnchangedKeeps
  <1>2. MgrTyped' /\ Seen'
    BY DEF MgrTyped, Seen
  <1>3. \A v \in Uploaders : life'[v] = life[v] => Whereabouts(v)'
    BY <1>1, RefusedStays
  <1>4. CASE life' = life
    BY <1>2, <1>3, <1>4
  <1>5. CASE life[u] = "none" /\ life' = [life EXCEPT ![u] = "live"]
    <2>1. life'[u] = "live" /\ \A v \in Uploaders \ {u} : life'[v] = life[v]
      BY <1>5 DEF LifeTyped
    <2>2. Whereabouts(u)'
      BY <1>1, <2>1 DEF Whereabouts, RunsSame, Carried
    <2>3. QED BY <1>2, <1>3, <2>1, <2>2
  <1>6. QED BY <1>4, <1>5

(* LinkFreeUploader, and LinkNewUploader without a handle.                 *)
LEMMA FreeKeepsWhere ==
  ASSUME MgrTyped, LifeTyped, Seen, NEW u \in Uploaders, Defer(Fn("uploader", u)),
         \A v \in Uploaders : Whereabouts(v) /\ Carried(v),
         life' = [life EXCEPT ![u] = "freed"]
  PROVE  MgrTyped' /\ Seen' /\ \A v \in Uploaders : Whereabouts(v)'
  <1>1. /\ MgrKeeps /\ refused \subseteq refused'
        /\ Queued(Fn("uploader", u))' \/ Fn("uploader", u) \in refused'
        /\ manager'.pc = manager.pc /\ manager'.run = manager.run
    BY DeferKeeps, DeferredFields
  <1>2. \A v \in Uploaders : GivenKept(v)
    BY <1>1, KeptGives
  <1>3. \A v \in Uploaders : RunsSame(v)
    BY <1>1, SameRuns
  <1>4. life'[u] = "freed" /\ \A v \in Uploaders \ {u} : life'[v] = life[v]
    BY DEF LifeTyped
  <1>5. Destroying(u)'
    BY <1>1 DEF Destroying, Coming
  <1>6. Whereabouts(u)'
    BY <1>3, <1>4, <1>5 DEF Whereabouts, RunsSame, Carried
  <1>7. \A v \in Uploaders \ {u} : Whereabouts(v)'
    BY <1>2, <1>3, <1>4, RefusedStays
  <1>8. QED BY <1>1, <1>6, <1>7 DEF MgrKeeps

(* The thread runs one function at a time: what the others wait for is in  *)
(* the queue.                                                              *)
LEMMA OneRuns ==
  ASSUME MgrTyped, NEW fn \in {"uploader", "picture"}, NEW u \in Uploaders, manager.run = Fn(fn, u),
         manager.pc \in {"run", "stop", "join", "release"}, manager'.run = manager.run,
         \A f : Queued(f) => Queued(f)'
  PROVE  \A v \in Uploaders :
           /\ fn # "uploader" \/ v # u => (Coming(Fn("uploader", v)) => Coming(Fn("uploader", v))')
           /\ fn # "picture" \/ v # u => (InHand(Fn("picture", v)) => InHand(Fn("picture", v))')
           /\ fn # "uploader" \/ v # u => RunsSame(v)
  <1>1. ASSUME NEW v \in Uploaders, fn # "uploader" \/ v # u PROVE manager.run # Fn("uploader", v)
    BY <1>1 DEF Fn
  <1>2. ASSUME NEW v \in Uploaders, fn # "picture" \/ v # u PROVE manager.run # Fn("picture", v)
    BY <1>2 DEF Fn
  <1>3. QED BY <1>1, <1>2 DEF Coming, InHand, RunsSame, Running

LEMMA DrainKeepsWhere ==
  ASSUME MgrTyped, LifeTyped, Seen, NEW u \in Uploaders, DestroyTsUploader(u),
         \A v \in Uploaders : Whereabouts(v) /\ Carried(v)
  PROVE  MgrTyped' /\ Seen' /\ \A v \in Uploaders : Whereabouts(v)'
  <1>1. /\ manager.pc = "run" /\ manager.run = Fn("uploader", u) /\ GoTo("join")
        /\ life' = [life EXCEPT ![u] = "drained"] /\ refused' = refused
    BY DEF DestroyTsUploader, Running
  <1>2. /\ MgrTyped' /\ Seen' /\ manager'.run = manager.run /\ manager'.pc = "join"
        /\ \A f : Queued(f) => Queued(f)'
    BY <1>1, GoToKeeps
  <1>3. life'[u] = "drained" /\ \A v \in Uploaders \ {u} : life'[v] = life[v]
    BY <1>1 DEF LifeTyped
  <1>4. Whereabouts(u)'
    BY <1>1, <1>2, <1>3 DEF Whereabouts, Running
  <1>5. ASSUME NEW v \in Uploaders \ {u} PROVE Whereabouts(v)'
    <2>1. GivenKept(v) /\ RunsSame(v)
      BY <1>1, <1>2, OneRuns DEF GivenKept
    <2>2. QED BY <1>3, <2>1, RefusedStays
  <1>6. QED BY <1>2, <1>4, <1>5

LEMMA JoinKeepsWhere ==
  ASSUME MgrTyped, LifeTyped, Seen, NEW u \in Uploaders, JoinTokenThread(u),
         \A v \in Uploaders : Whereabouts(v) /\ Carried(v)
  PROVE  MgrTyped' /\ Seen' /\ \A v \in Uploaders : Whereabouts(v)'
  <1>1. /\ manager.pc = "join" /\ manager.run = Fn("uploader", u) /\ GoTo("release")
        /\ life' = life /\ refused' = refused /\ At(u, "done")
    BY DEF JoinTokenThread, Running
  <1>2. /\ MgrTyped' /\ Seen' /\ manager'.run = manager.run /\ manager'.pc = "release"
        /\ \A f : Queued(f) => Queued(f)'
    BY <1>1, GoToKeeps
  <1>3. ASSUME NEW v \in Uploaders \ {u} PROVE Whereabouts(v)'
    <2>1. GivenKept(v) /\ RunsSame(v)
      BY <1>1, <1>2, OneRuns DEF GivenKept
    <2>2. QED BY <1>1, <2>1, RefusedStays
  <1>4. Whereabouts(u)'
    <2>1. At(u, "done")' /\ Running("uploader", "release", u)'
      BY <1>1, <1>2 DEF Carried, Running
    <2>2. Coming(Fn("uploader", u)) => Coming(Fn("uploader", u))'
      BY <1>1, <1>2 DEF Coming
    <2>3. InHand(Fn("picture", u)) => InHand(Fn("picture", u))'
      BY <1>1, <1>2, OneRuns
    <2>4. Destroying(u) => Destroying(u)'
      BY <1>1, <2>2 DEF Destroying
    <2>5. PicDestroying(u) => PicDestroying(u)'
      BY <1>1, <2>3 DEF PicDestroying, Carried, PicMoves, PicKeeps
    <2>6. life[u] = "reclaimed" /\ HasPicture(u)' => HasPicture(u)
      BY DEF Carried, PicMoves
    <2>7. QED BY <1>1, <2>1, <2>4, <2>5, <2>6 DEF Whereabouts
  <1>5. QED BY <1>2, <1>3, <1>4

LEMMA ReleaseKeepsWhere ==
  ASSUME MgrTyped, LifeTyped, Seen, NEW u \in Uploaders, Release(u),
         \A v \in Uploaders : Whereabouts(v) /\ Carried(v)
  PROVE  MgrTyped' /\ Seen' /\ \A v \in Uploaders : Whereabouts(v)'
  <1>1. /\ MgrKeeps /\ manager'.pc = "stat" /\ refused \subseteq refused'
        /\ HasPicture(u) => Queued(Fn("picture", u))' \/ Fn("picture", u) \in refused'
        /\ manager.pc = "release" /\ manager.run = Fn("uploader", u)
    BY ReleaseKeeps
  <1>2. life'[u] = "reclaimed" /\ (\A v \in Uploaders \ {u} : life'[v] = life[v])
        /\ Running("uploader", "release", u) /\ UNCHANGED pic
    BY DEF Release, LifeTyped
  <1>3. \A v \in Uploaders : GivenKept(v)
    BY <1>1, KeptGives
  <1>4. ASSUME NEW v \in Uploaders \ {u} PROVE Whereabouts(v)'
    <2>1. RunsSame(v)
      BY <1>1 DEF RunsSame, Running, Fn
    <2>2. QED BY <1>2, <1>3, <2>1, RefusedStays
  <1>5. Whereabouts(u)'
    <2>1. At(u, "done")'
      BY <1>2 DEF Whereabouts, Carried
    <2>2. HasPicture(u)' => PicDestroying(u)'
      BY <1>1, <1>2 DEF HasPicture, PicDestroying, InHand
    <2>3. QED BY <1>1, <1>2, <2>1, <2>2 DEF Whereabouts, Running
  <1>6. QED BY <1>1, <1>4, <1>5 DEF MgrKeeps

LEMMA PicturesKeepWhere ==
  ASSUME MgrTyped, LifeTyped, Seen, PicTyped, NEW u \in Uploaders, PicQuit(u) \/ PicStop(u) \/ PicJoin(u),
         \A v \in Uploaders : Whereabouts(v) /\ Carried(v)
  PROVE  MgrTyped' /\ Seen' /\ \A v \in Uploaders : Whereabouts(v)'
  <1>1. /\ life' = life /\ refused' = refused /\ manager.run = Fn("picture", u)
        /\ \/ manager.pc = "run" /\ GoTo("stop")
           \/ manager.pc = "stop" /\ GoTo("join")
           \/ manager.pc = "join" /\ GoTo("stat") /\ WaitPicJoin(u)
    BY DEF PicQuit, PicStop, PicJoin, Running
  <1>2. /\ MgrTyped' /\ Seen' /\ manager'.run = manager.run
        /\ \A f : Queued(f) => Queued(f)'
        /\ manager'.pc \in {"stop", "join"} \/ (manager'.pc = "stat" /\ WaitPicJoin(u))
    BY <1>1, GoToKeeps
  <1>3. WaitPicJoin(u) => pic'[u].pc = "freed"
    BY PicCallsKeep
  <1>4. ASSUME NEW v \in Uploaders PROVE GivenKept(v) /\ RunsSame(v)
    <2>1. (Coming(Fn("uploader", v)) => Coming(Fn("uploader", v))') /\ RunsSame(v)
      BY <1>1, <1>2, OneRuns
    <2>2. CASE v = u
      BY <1>1, <1>2, <1>3, <2>1, <2>2 DEF GivenKept, InHand
    <2>3. CASE v # u
      BY <1>1, <1>2, <2>1, <2>3, OneRuns DEF GivenKept
    <2>4. QED BY <2>1, <2>2, <2>3
  <1>5. QED BY <1>1, <1>2, <1>4, RefusedStays

LEMMA WhereStep ==
  ASSUME MgrTyped, LifeTyped, PicTyped, Order, Seen,
         \A u \in Uploaders : Whereabouts(u) /\ Carried(u) /\ ConfigFirst(u), [Next]_vars
  PROVE  MgrTyped' /\ Seen' /\ \A u \in Uploaders : Whereabouts(u)'
  <1>1. CASE LinkInit \/ LinkCleanup \/ CleanupPush \/ CleanupJoin
    BY <1>1, CallsKeepWhere
  <1>2. CASE MgrThread
    <2>1. Recycle /\ life' = life /\ refused' = refused
      BY <1>2 DEF MgrThread
    <2>2. MgrKeeps /\ \A u \in Uploaders : RunsSame(u)
      BY <2>1, RecycleKeeps, SameRuns
    <2>3. \A u \in Uploaders : GivenKept(u)
      BY <2>1, <2>2, KeptGives
    <2>4. QED BY <2>1, <2>2, <2>3, RefusedStays DEF MgrKeeps
  <1>3. CASE UNCHANGED vars
    <2>1. UNCHANGED <<manager, refused>> /\ life' = life
      BY <1>3 DEF vars
    <2>2. \A u \in Uploaders : GivenKept(u) /\ RunsSame(u)
      BY <2>1, UnchangedKeeps
    <2>3. MgrTyped' /\ Seen'
      BY <2>1 DEF MgrTyped, Seen
    <2>4. QED BY <2>1, <2>2, <2>3, RefusedStays
  <1>4. CASE FunctionThread
    BY <1>4, DrainKeepsWhere, JoinKeepsWhere, ReleaseKeepsWhere, PicturesKeepWhere
       DEF FunctionThread, RunFunction
  <1>5. ASSUME NEW u \in Uploaders,
               \/ LinkCreateAndStartAVUploader(u) \/ LinkNewUploader(u)
               \/ Capture(u) \/ Worker(u) \/ TokenThreadOf(u) \/ PicThreadOf(u)
        PROVE  MgrTyped' /\ Seen' /\ \A v \in Uploaders : Whereabouts(v)'
    <2>1. /\ UNCHANGED <<manager, refused>>
          /\ life' = life \/ (life[u] = "none" /\ life' = [life EXCEPT ![u] = "live"])
      BY <1>5 DEF LinkCreateAndStartAVUploader, LinkNewUploader, Capture, Worker, TokenThreadOf,
                  PicThreadOf
    <2>2. QED BY <2>1, OthersKeepWhere
  <1>6. ASSUME NEW u \in Uploaders, LinkNewUploaderNoHandle(u) \/ LinkFreeUploader(u)
        PROVE  MgrTyped' /\ Seen' /\ \A v \in Uploaders : Whereabouts(v)'
    <2>1. Defer(Fn("uploader", u)) /\ life' = [life EXCEPT ![u] = "freed"]
      BY <1>6 DEF LinkNewUploaderNoHandle, LinkFreeUploader
    <2>2. QED BY <2>1, FreeKeepsWhere
  <1>7. QED BY <1>1, <1>2, <1>3, <1>4, <1>5, <1>6 DEF Next

-----------------------------------------------------------------------------
LEMMA LifeInit == Init => LifeInv
  <1> SUFFICES ASSUME Init PROVE LifeInv
    OBVIOUS
  <1> USE DEF Init, TokenInit, MgrInit, PicInit
  <1>1. Typed
    <2>1. /\ pUpdateQueue \in [Uploaders -> Seq(Messages)] /\ remoteConfig \in [Uploaders -> BOOLEAN]
          /\ session \in [Uploaders -> Nat] /\ isQuit \in [Uploaders -> BOOLEAN]
          /\ life \in [Uploaders -> {"none", "live", "freed", "drained", "reclaimed"}]
      BY EmptySeq
    <2>2. tokenThread \in [Uploaders -> ThreadStates]
      BY DEF ThreadStates, NoMsg, Msg, NoSession
    <2>3. pic \in [Uploaders -> PicStates]
      BY LifeCycleAssumption, EmptySeq DEF PicStates
    <2>4. manager \in ManagerStates
      BY DeferredFields, EmptySeq DEF ManagerStates
    <2>5. nProcStatus \in 0 .. 2 /\ user \in {"out", "in", "quitSet", "join"}
      OBVIOUS
    <2> HIDE DEF Init, TokenInit, MgrInit, PicInit
    <2>6. QED BY ONLY <2>1, <2>2, <2>3, <2>4, <2>5 DEF Typed
  <1>2. Order
    BY DEF Order
  <1>3. Seen
    <2>1. manager.nLen = 0 /\ Len(manager.q) = 0
      BY EmptySeq
    <2>2. manager.nLen + 1 .. Len(manager.q) = {}
      BY <2>1
    <2>3. QED BY <2>1, <2>2 DEF Seen
  <1>4. ASSUME NEW u \in Uploaders PROVE ConfigFirst(u) /\ Whereabouts(u)
    <2>1. /\ pUpdateQueue[u] = <<>> /\ session[u] = 0 /\ life[u] = "none"
          /\ tokenThread[u].pc = "none" /\ tokenThread[u].shouldUpdateToken = FALSE
      OBVIOUS
    <2>2. 1 .. Len(pUpdateQueue[u]) = {}
      BY <2>1
    <2>3. ConfigFirst(u)
      BY <2>1, <2>2 DEF ConfigFirst, At
    <2>4. manager.pc = "none"
      OBVIOUS
    <2>5. Whereabouts(u)
      BY <2>1, <2>4 DEF Whereabouts, Running
    <2>6. QED BY <2>3, <2>5
  <1>5. QED BY <1>1, <1>2, <1>3, <1>4 DEF LifeInv

LEMMA LifeStep == LifeInv /\ [Next]_vars => LifeInv'
  <1> SUFFICES ASSUME LifeInv, [Next]_vars PROVE LifeInv'
    OBVIOUS
  <1>1. Typed /\ Order /\ Seen /\ \A u \in Uploaders : ConfigFirst(u) /\ Whereabouts(u)
    BY DEF LifeInv
  <1>2. TokenTyped /\ LifeTyped /\ MgrTyped /\ PicTyped /\ ProgTyped
    BY <1>1 DEF Typed, TokenTyped, LifeTyped, MgrTyped, PicTyped, ProgTyped, Progs
  <1>3. \A u \in Uploaders : life[u] = "none" => ~Running("uploader", "release", u)
    BY <1>1 DEF ConfigFirst, Whereabouts, At
  <1>4. TokenTyped' /\ \A u \in Uploaders : ConfigFirst(u)' /\ (At(u, "done") => At(u, "done")')
    BY <1>1, <1>2, <1>3, TokenInvStep
  <1>5. PicMoves
    BY <1>2, PicStep
  <1>6. \A u \in Uploaders : Carried(u)
    BY <1>4, <1>5 DEF Carried
  <1>7. MgrTyped' /\ Seen' /\ \A u \in Uploaders : Whereabouts(u)'
    BY <1>1, <1>2, <1>6, WhereStep
  <1>8. LifeTyped' /\ ProgTyped' /\ Order'
    BY <1>1, <1>2, LifeTypedStep, OrderStep
  <1>9. PicTyped'
    BY <1>5 DEF PicMoves, PicKeeps
  <1>10. Typed'
    BY <1>4, <1>7, <1>8, <1>9 DEF Typed, TokenTyped, LifeTyped, MgrTyped, PicTyped, ProgTyped, Progs
  <1>11. QED BY <1>4, <1>7, <1>8, <1>10 DEF LifeInv

(* The strengthened invariant of the API life cycle: where the destruction *)
(* of each freed uploader is, and what the token thread was asked for.     *)
THEOREM LifeInvariant == Spec => []LifeInv
  BY LifeInit, LifeStep, PTL DEF Spec

(* No token is asked for without a configuration (updateToken reads the    *)
(* address of the token server from it), whatever fetches fail, time out   *)
(* or are called off, and with any messages in between.                    *)
THEOREM ConfigBeforeToken == Spec => []TokenNeedsConfig
  <1>1. LifeInv => TokenNeedsConfig
    BY DEF LifeInv, ConfigFirst, TokenNeedsConfig
  <1>2. QED BY <1>1, LifeInvariant, PTL

(* When LinkCleanup has returned, what pushRecycle and                     *)
(* LinkDestroyPictureUploader handed to the manager is destroyed, but for  *)
(* what it refused or did not see any more; no token thread outlives its   *)
(* uploader.                                                               *)
THEOREM FreedReclaimed == Spec => []FreedIsReclaimed
  <1>1. ASSUME LifeInv PROVE FreedIsReclaimed
    <2>1. /\ Typed /\ Order /\ Seen /\ MgrTyped
          /\ \A u \in Uploaders : Whereabouts(u)
      BY <1>1 DEF LifeInv, Typed, MgrTyped
    <2>2. \A u \in Uploaders : life[u] = "reclaimed" => At(u, "done")
      BY <2>1 DEF Whereabouts
    <2>3. ASSUME nProcStatus = 2, user = "out"
          PROVE  /\ manager.pc = "done" /\ manager.unseen \subseteq Deferred("uploader")
                 /\ \A f : Queued(f) /\ f # NullFn => f \in manager.unseen
      <3>1. manager.pc = "done" /\ manager.nLen = 0
        BY <2>1, <2>3 DEF Order, Seen
      <3>2. Len(manager.q) \in Nat /\ manager.unseen \subseteq Deferred("uploader")
        BY <2>1, MgrFields
      <3>3. \A i \in 1 .. Len(manager.q) : i \in manager.nLen + 1 .. Len(manager.q)
        BY <3>1, <3>2
      <3>4. \A i \in 1 .. Len(manager.q) : manager.q[i] \in manager.unseen \cup {NullFn}
        BY <2>1, <3>1, <3>3 DEF Seen
      <3>5. QED BY <3>1, <3>2, <3>4 DEF Queued
    <2>4. ASSUME nProcStatus = 2, user = "out", NEW u \in Uploaders
          PROVE  life[u] \in {"none", "reclaimed"} \/ Lost(Fn("uploader", u))
      <3>1. life[u] \in {"none", "live", "freed", "drained", "reclaimed"} /\ life[u] # "live"
        BY <2>1, <2>4 DEF Typed, Order
      <3>2. life[u] # "drained"
        BY <2>1, <2>3, <2>4 DEF Whereabouts, Running
      <3>3. life[u] = "freed" => Destroying(u)
        BY <2>1 DEF Whereabouts
      <3>4. Destroying(u) => Lost(Fn("uploader", u))
        BY <2>3, <2>4, DeferredFields DEF Destroying, Coming, Lost
      <3>5. QED BY <3>1, <3>2, <3>3, <3>4
    <2>5. ASSUME nProcStatus = 2, user = "out", NEW u \in Uploaders, life[u] = "reclaimed"
          PROVE  pic[u].pc \in {"none", "freed"} \/ Fn("picture", u) \in refused
      <3>1. HasPicture(u) => PicDestroying(u)
        BY <2>1, <2>5 DEF Whereabouts
      <3>2. ~InHand(Fn("picture", u))
        <4>1. ~Queued(Fn("picture", u))
          BY <2>3, <2>5, DeferredFields
        <4>2. QED BY <2>3, <2>5, <4>1 DEF InHand
      <3>3. QED BY <3>1, <3>2 DEF HasPicture, PicDestroying
    <2>6. QED BY <2>2, <2>4, <2>5 DEF FreedIsReclaimed
  <1>2. LifeInv => FreedIsReclaimed
    BY <1>1
  <1>3. QED BY <1>2, LifeInvariant, PTL
=============================================================================
