----------------------------- MODULE MqttAppsProofs -----------------------------
(***************************************************************************)
(* The MQTT instance and its two users, for every number of topics,        *)
(* contexts, log lines, slots and messages: the log outlived by its        *)
(* instance, the subscriptions recovered, the control messages in order.   *)
(***************************************************************************)
EXTENDS MqttApps, WellFoundedInduction, TLAPS

Asked == Topics \cup {NoTopic}
Stages == {"idle", "lock", "call", "lost", "replace", "unlock", "spin", "ok", "failed"}
Ops == {"none", "publish", "subscribe", "unsubscribe", "refused", "accepted"}
Call == [pc : Stages, op : Ops, ctx : Nat, topic : Asked, back : {"idle", "unlock"}]

MqttTyped ==
  /\ mosq \in Nat /\ link \in Nat /\ connected \in BOOLEAN /\ isDestroying \in BOOLEAN
  /\ list \in Seq(Asked) /\ todo \in Seq(Asked) /\ filter \in Asked
  /\ th \in [Threads -> Call]

(* The instance has one context at most, its current one, from the moment  *)
(* its thread made the first; there is nothing to lose before.             *)
OneContext ==
  /\ open \subseteq {mosq}
  /\ tpc \in {"none", "start"} => mosq = 0
  /\ mosq = 0 =>
       /\ ~connected /\ link = 0 /\ tpc \in {"none", "start", "over"}
       /\ \A t \in Threads : th[t].pc \notin {"lost", "replace"}

(* The thread ends, and the instance is freed, on demand only.             *)
EndsOnDemand ==
  /\ tpc \in {"end", "deinit"} => isDestroying
  /\ inst = "freed" /\ mosq # 0 => isDestroying
  /\ inst = "none" <=> tpc = "none"
  /\ inst = "freed" => tpc = "over"

(* The main thread of the log asks for that after the log thread was       *)
(* joined, and the log thread leaves no call behind.                       *)
JoinedFirst ==
  app = "log" =>
    /\ lpc # "publishing" => th[User] = Idle
    /\ isDestroying => main = "over"
    /\ main \in {"destroying", "over"} => lpc = "over"
    /\ main \in {"out", "log"} => lpc = "none"

(* A topic that RecoverSub has not come to is still before it.             *)
Recovering ==
  Linked(mosq) =>
    /\ Recovered => ToSet(list) \subseteq subs \cup lost
    /\ tpc \in {"recover", "resubscribe"} =>
         ToSet(list) \subseteq subs \cup lost \cup ToSet(todo)

InstanceInv == MqttTyped /\ OneContext /\ EndsOnDemand /\ JoinedFirst /\ Recovering

-----------------------------------------------------------------------------
(* A ring: its size is the distance from its output to its input.          *)
Places == 0 .. QueueMax - 1
Ring == [live : {TRUE}, pAlloc : [Places -> Nat], nCapacity : {QueueMax},
         nSize : 0 .. QueueMax, nNextIn : Places, nNextOut : Places]
Wrapped(x) == IF x < QueueMax THEN x ELSE x - QueueMax
Whole(q) == q.nNextIn = Wrapped(q.nNextOut + q.nSize)
Item(q, i) == q.pAlloc[Wrapped(q.nNextOut + i - 1)]

Used == {s \in [isUsed : {TRUE}, pQueue : Ring] : Whole(s.pQueue)}
NotUsed == [isUsed : {FALSE}, pQueue : {NoQueue}]

Doing == {"out", "in", "subscribing", "answer", "answering", "unsubscribing", "over"}

IoTyped ==
  /\ Session \in [Sessions -> Used \cup NotUsed]
  /\ nMessageID \in Sessions \cup {NoSession}
  /\ ctl \in [pc : Doing, slot : Sessions \cup {NoSession}]
  /\ ctl.slot # NoSession => Session[ctl.slot].isUsed
  /\ msgs \in Nat /\ given \in Nat /\ got \in Nat

(* The message on its way is newer than those the slot was given.          *)
NewestLast == given <= msgs /\ (tpc = "control" => given < msgs)

(* The items of the slot go up from the message received last to the one   *)
(* given last.                                                             *)
Ascending(q, from, to) ==
  /\ q.nSize = 0 => from = to
  /\ q.nSize > 0 => from < Item(q, 1) /\ Item(q, q.nSize) = to
  /\ \A i, j \in 1 .. q.nSize : i < j => Item(q, i) < Item(q, j)

SlotAscends == ctl.slot # NoSession => Ascending(Session[ctl.slot].pQueue, got, given)

ControlInv == IoTyped /\ NewestLast /\ SlotAscends

-----------------------------------------------------------------------------
(* The steps of the instance's thread, and of calls in progress.           *)
LEMMA StageTyped ==
  ASSUME MqttTyped, NEW t \in Threads, NEW p \in Stages, th' = [th EXCEPT ![t].pc = p]
  PROVE  th' \in [Threads -> Call]
  BY DEF MqttTyped, Call

LEMMA LosesTyped ==
  ASSUME MqttTyped, NEW t \in Threads, NEW back \in {"idle", "unlock"}, Loses(t, back)
  PROVE  th' \in [Threads -> Call]
  <1> DEFINE lost1 == [th EXCEPT ![t].pc = "lost"]
  <1>1. lost1 \in [Threads -> Call]
    BY DEF MqttTyped, Call, Stages
  <1>2. th' = [lost1 EXCEPT ![t].back = back]
    BY DEF Loses, MqttTyped, Call
  <1> HIDE DEF lost1
  <1>3. QED
    BY <1>1, <1>2 DEF Call

LEMMA StartStep ==
  ASSUME InstanceInv, Start, UNCHANGED <<logVars, ioVars, app>>
  PROVE  InstanceInv'
  <1> USE DEF InstanceInv, T, Until, net, flags, topics, logVars, ioVars, Start
  <1>1. MqttTyped'
    BY MqttInstanceAssumption DEF MqttTyped, OneContext, Call, Threads, User, Mqtt,
      Stages, Ops, Asked
  <1>2. OneContext'
    BY MqttInstanceAssumption DEF MqttTyped, OneContext, Call, Threads, User, Mqtt, Stages
  <1>3. EndsOnDemand'
    BY DEF EndsOnDemand, OneContext
  <1>4. JoinedFirst'
    BY DEF JoinedFirst, MqttTyped, Call, Threads, User, Mqtt, Idle
  <1>5. Recovering'
    BY DEF Recovering, Linked, Recovered, OneContext, MqttTyped, ToSet
  <1>6. QED
    BY <1>1, <1>2, <1>3, <1>4, <1>5

LEMMA StartFailsStep ==
  ASSUME InstanceInv, StartFails, UNCHANGED <<logVars, ioVars, app>>
  PROVE  InstanceInv'
  <1> USE DEF InstanceInv, T, Until, net, flags, topics, logVars, ioVars, StartFails
  <1>1. MqttTyped'
    BY MqttInstanceAssumption DEF MqttTyped, OneContext, Call, Threads, User, Mqtt,
      Stages, Ops, Asked
  <1>2. OneContext'
    BY MqttInstanceAssumption DEF MqttTyped, OneContext, Call, Threads, User, Mqtt, Stages
  <1>3. EndsOnDemand'
    BY DEF EndsOnDemand, OneContext
  <1>4. JoinedFirst'
    BY DEF JoinedFirst, MqttTyped, Call, Threads, User, Mqtt, Idle
  <1>5. Recovering'
    BY DEF Recovering, Linked, Recovered, OneContext, MqttTyped, ToSet
  <1>6. QED
    BY <1>1, <1>2, <1>3, <1>4, <1>5

LEMMA ToConnectStep ==
  ASSUME InstanceInv, ToConnect, UNCHANGED <<logVars, ioVars, app>>
  PROVE  InstanceInv'
  <1> USE DEF InstanceInv, T, Until, net, flags, topics, logVars, ioVars, ToConnect
  <1>1. MqttTyped'
    BY MqttInstanceAssumption DEF MqttTyped, OneContext, Call, Threads, User, Mqtt,
      Stages, Ops, Asked
  <1>2. OneContext'
    BY MqttInstanceAssumption DEF MqttTyped, OneContext, Call, Threads, User, Mqtt, Stages
  <1>3. EndsOnDemand'
    BY DEF EndsOnDemand, OneContext
  <1>4. JoinedFirst'
    BY DEF JoinedFirst, MqttTyped, Call, Threads, User, Mqtt, Idle
  <1>5. Recovering'
    BY DEF Recovering, Linked, Recovered, OneContext, MqttTyped, ToSet
  <1>6. QED
    BY <1>1, <1>2, <1>3, <1>4, <1>5

LEMMA ToLoopStep ==
  ASSUME InstanceInv, ToLoop, UNCHANGED <<logVars, ioVars, app>>
  PROVE  InstanceInv'
  <1> USE DEF InstanceInv, T, Until, net, flags, topics, logVars, ioVars, ToLoop
  <1>1. MqttTyped'
    BY MqttInstanceAssumption DEF MqttTyped, OneContext, Call, Threads, User, Mqtt,
      Stages, Ops, Asked
  <1>2. OneContext'
    BY MqttInstanceAssumption DEF MqttTyped, OneContext, Call, Threads, User, Mqtt, Stages
  <1>3. EndsOnDemand'
    BY DEF EndsOnDemand, OneContext
  <1>4. JoinedFirst'
    BY DEF JoinedFirst, MqttTyped, Call, Threads, User, Mqtt, Idle
  <1>5. Recovering'
    BY DEF Recovering, Linked, Recovered, OneContext, MqttTyped, ToSet
  <1>6. QED
    BY <1>1, <1>2, <1>3, <1>4, <1>5

LEMMA ConnectLockStep ==
  ASSUME InstanceInv, ConnectLock, UNCHANGED <<logVars, ioVars, app>>
  PROVE  InstanceInv'
  <1> USE DEF InstanceInv, T, Until, net, flags, topics, logVars, ioVars, ConnectLock
  <1>1. MqttTyped'
    BY MqttInstanceAssumption DEF MqttTyped, OneContext, Call, Threads, User, Mqtt,
      Stages, Ops, Asked
  <1>2. OneContext'
    BY MqttInstanceAssumption DEF MqttTyped, OneContext, Call, Threads, User, Mqtt, Stages
  <1>3. EndsOnDemand'
    BY DEF EndsOnDemand, OneContext
  <1>4. JoinedFirst'
    BY DEF JoinedFirst, MqttTyped, Call, Threads, User, Mqtt, Idle
  <1>5. Recovering'
    BY DEF Recovering, Linked, Recovered, OneContext, MqttTyped, ToSet
  <1>6. QED
    BY <1>1, <1>2, <1>3, <1>4, <1>5

LEMMA NetConnectFailsStep ==
  ASSUME InstanceInv, NetConnectFails, UNCHANGED <<logVars, ioVars, app>>
  PROVE  InstanceInv'
  <1> USE DEF InstanceInv, T, Until, net, flags, topics, logVars, ioVars,
              NetConnectFails, Idle
  <1>1. MqttTyped'
    BY MqttInstanceAssumption DEF MqttTyped, OneContext, Call, Threads, User, Mqtt,
      Stages, Ops, Asked
  <1>2. OneContext'
    BY MqttInstanceAssumption DEF MqttTyped, OneContext, Call, Threads, User, Mqtt, Stages
  <1>3. EndsOnDemand'
    BY DEF EndsOnDemand, OneContext
  <1>4. JoinedFirst'
    BY DEF JoinedFirst, MqttTyped, Call, Threads, User, Mqtt, Idle
  <1>5. Recovering'
    BY DEF Recovering, Linked, Recovered, OneContext, MqttTyped, ToSet
  <1>6. QED
    BY <1>1, <1>2, <1>3, <1>4, <1>5

LEMMA ConnectFailsStep ==
  ASSUME InstanceInv, ConnectFails, UNCHANGED <<logVars, ioVars, app>>
  PROVE  InstanceInv'
  <1> USE DEF InstanceInv, T, Until, net, flags, topics, logVars, ioVars, ConnectFails
  <1>1. MqttTyped'
    BY MqttInstanceAssumption DEF MqttTyped, OneContext, Call, Threads, User, Mqtt,
      Stages, Ops, Asked
  <1>2. OneContext'
    BY MqttInstanceAssumption DEF MqttTyped, OneContext, Call, Threads, User, Mqtt, Stages
  <1>3. EndsOnDemand'
    BY DEF EndsOnDemand, OneContext
  <1>4. JoinedFirst'
    BY DEF JoinedFirst, MqttTyped, Call, Threads, User, Mqtt, Idle
  <1>5. Recovering'
    BY DEF Recovering, Linked, Recovered, OneContext, MqttTyped, ToSet
  <1>6. QED
    BY <1>1, <1>2, <1>3, <1>4, <1>5

LEMMA ConnectStep ==
  ASSUME InstanceInv, Connect, UNCHANGED <<logVars, ioVars, app>>
  PROVE  InstanceInv'
  <1> USE DEF InstanceInv, T, Until, net, flags, topics, logVars, ioVars, Connect
  <1>1. MqttTyped'
    BY MqttInstanceAssumption DEF MqttTyped, OneContext, Call, Threads, User, Mqtt,
      Stages, Ops, Asked
  <1>2. OneContext'
    BY MqttInstanceAssumption DEF MqttTyped, OneContext, Call, Threads, User, Mqtt, Stages
  <1>3. EndsOnDemand'
    BY DEF EndsOnDemand, OneContext
  <1>4. JoinedFirst'
    BY DEF JoinedFirst, MqttTyped, Call, Threads, User, Mqtt, Idle
  <1>5. Recovering'
    BY DEF Recovering, Linked, Recovered, OneContext, MqttTyped, ToSet
  <1>6. QED
    BY <1>1, <1>2, <1>3, <1>4, <1>5

LEMMA OnEventStep ==
  ASSUME InstanceInv, OnEvent, UNCHANGED <<logVars, ioVars, app>>
  PROVE  InstanceInv'
  <1> USE DEF InstanceInv, T, Until, net, flags, topics, logVars, ioVars, OnEvent,
              Begin, Idle, Ready
  <1>1. MqttTyped'
    BY MqttInstanceAssumption DEF MqttTyped, OneContext, Call, Threads, User, Mqtt,
      Stages, Ops, Asked
  <1>2. OneContext'
    BY MqttInstanceAssumption DEF MqttTyped, OneContext, Call, Threads, User, Mqtt, Stages
  <1>3. EndsOnDemand'
    BY DEF EndsOnDemand, OneContext
  <1>4. JoinedFirst'
    BY DEF JoinedFirst, MqttTyped, Call, Threads, User, Mqtt, Idle
  <1>5. Recovering'
    BY DEF Recovering, Linked, Recovered, OneContext, MqttTyped, ToSet
  <1>6. QED
    BY <1>1, <1>2, <1>3, <1>4, <1>5

LEMMA OnEventPlainStep ==
  ASSUME InstanceInv, OnEventPlain, UNCHANGED <<logVars, ioVars, app>>
  PROVE  InstanceInv'
  <1> USE DEF InstanceInv, T, Until, net, flags, topics, logVars, ioVars, OnEventPlain
  <1>1. MqttTyped'
    BY MqttInstanceAssumption DEF MqttTyped, OneContext, Call, Threads, User, Mqtt,
      Stages, Ops, Asked
  <1>2. OneContext'
    BY MqttInstanceAssumption DEF MqttTyped, OneContext, Call, Threads, User, Mqtt, Stages
  <1>3. EndsOnDemand'
    BY DEF EndsOnDemand, OneContext
  <1>4. JoinedFirst'
    BY DEF JoinedFirst, MqttTyped, Call, Threads, User, Mqtt, Idle
  <1>5. Recovering'
    BY DEF Recovering, Linked, Recovered, OneContext, MqttTyped, ToSet
  <1>6. QED
    BY <1>1, <1>2, <1>3, <1>4, <1>5

LEMMA EventEndsStep ==
  ASSUME InstanceInv, EventEnds, UNCHANGED <<logVars, ioVars, app>>
  PROVE  InstanceInv'
  <1> USE DEF InstanceInv, T, Until, net, flags, topics, logVars, ioVars, EventEnds, Idle
  <1>1. MqttTyped'
    BY MqttInstanceAssumption DEF MqttTyped, OneContext, Call, Threads, User, Mqtt,
      Stages, Ops, Asked
  <1>2. OneContext'
    BY MqttInstanceAssumption DEF MqttTyped, OneContext, Call, Threads, User, Mqtt, Stages
  <1>3. EndsOnDemand'
    BY DEF EndsOnDemand, OneContext
  <1>4. JoinedFirst'
    BY DEF JoinedFirst, MqttTyped, Call, Threads, User, Mqtt, Idle
  <1>5. Recovering'
    BY DEF Recovering, Linked, Recovered, OneContext, MqttTyped, ToSet
  <1>6. QED
    BY <1>1, <1>2, <1>3, <1>4, <1>5

LEMMA RecoverHeadStep ==
  ASSUME InstanceInv, RecoverHead, UNCHANGED <<logVars, ioVars, app>>
  PROVE  InstanceInv'
  <1> USE DEF InstanceInv, T, Until, net, flags, topics, logVars, ioVars, RecoverHead
  <1>1. MqttTyped'
    BY MqttInstanceAssumption DEF MqttTyped, OneContext, Call, Threads, User, Mqtt,
      Stages, Ops, Asked
  <1>2. OneContext'
    BY MqttInstanceAssumption DEF MqttTyped, OneContext, Call, Threads, User, Mqtt, Stages
  <1>3. EndsOnDemand'
    BY DEF EndsOnDemand, OneContext
  <1>4. JoinedFirst'
    BY DEF JoinedFirst, MqttTyped, Call, Threads, User, Mqtt, Idle
  <1>5. Recovering'
    BY DEF Recovering, Linked, Recovered, OneContext, MqttTyped, ToSet
  <1>6. QED
    BY <1>1, <1>2, <1>3, <1>4, <1>5

LEMMA RecoverLockStep ==
  ASSUME InstanceInv, RecoverLock, UNCHANGED <<logVars, ioVars, app>>
  PROVE  InstanceInv'
  <1> USE DEF InstanceInv, T, Until, net, flags, topics, logVars, ioVars, RecoverLock
  <1>1. MqttTyped'
    BY MqttInstanceAssumption DEF MqttTyped, OneContext, Call, Threads, User, Mqtt,
      Stages, Ops, Asked
  <1>2. OneContext'
    BY MqttInstanceAssumption DEF MqttTyped, OneContext, Call, Threads, User, Mqtt, Stages
  <1>3. EndsOnDemand'
    BY DEF EndsOnDemand, OneContext
  <1>4. JoinedFirst'
    BY DEF JoinedFirst, MqttTyped, Call, Threads, User, Mqtt, Idle
  <1>5. Recovering'
    BY DEF Recovering, Linked, Recovered, OneContext, MqttTyped, ToSet
  <1>6. QED
    BY <1>1, <1>2, <1>3, <1>4, <1>5

LEMMA RecoverNextStep ==
  ASSUME InstanceInv, RecoverNext, UNCHANGED <<logVars, ioVars, app>>
  PROVE  InstanceInv'
  <1> USE DEF InstanceInv, T, Until, net, flags, topics, logVars, ioVars, RecoverNext,
              FailsTo, Loses, Ready
  <1>a. todo \in Seq(Asked) /\ todo # <<>>
    BY DEF MqttTyped
  <1>b. Head(todo) \in Asked /\ Tail(todo) \in Seq(Asked)
    BY <1>a
  <1>c. th' \in [Threads -> Call]
    <2>1. \/ th' = th \/ th' = [th EXCEPT ![Mqtt].pc = "idle"] \/ Loses(Mqtt, "idle")
      OBVIOUS
    <2>2. QED
      BY <2>1, StageTyped, LosesTyped DEF MqttTyped, Threads, Stages
  <1>d. filter' \in Asked
    BY <1>b DEF MqttTyped
  <1>1. MqttTyped'
    BY <1>b, <1>c, <1>d DEF MqttTyped
  <1>2. OneContext'
    BY MqttInstanceAssumption DEF MqttTyped, OneContext, Call, Threads, User, Mqtt, Stages
  <1>3. EndsOnDemand'
    BY DEF EndsOnDemand, OneContext
  <1>4. JoinedFirst'
    BY DEF JoinedFirst, MqttTyped, Call, Threads, User, Mqtt, Idle
  <1>e. ToSet(todo) \subseteq {Head(todo)} \cup ToSet(todo')
    <2>1. \A i \in DOMAIN todo : i = 1 \/ (i - 1 \in DOMAIN todo' /\ todo'[i - 1] = todo[i])
      BY <1>a
    <2>2. \A i \in DOMAIN todo : i = 1 => todo[i] = Head(todo)
      BY <1>a
    <2>3. QED
      BY <2>1, <2>2 DEF ToSet
  <1>f. Head(todo) \in subs' \cup lost' /\ subs \cup lost \subseteq subs' \cup lost'
    OBVIOUS
  <1>g. ToSet(list') = ToSet(list) /\ tpc = "resubscribe" /\ tpc' = tpc
    OBVIOUS
  <1>5. Recovering'
    BY <1>e, <1>f, <1>g DEF Recovering, Linked, Recovered
  <1>6. QED
    BY <1>1, <1>2, <1>3, <1>4, <1>5

LEMMA RecoverEndStep ==
  ASSUME InstanceInv, RecoverEnd, UNCHANGED <<logVars, ioVars, app>>
  PROVE  InstanceInv'
  <1> USE DEF InstanceInv, T, Until, net, flags, topics, logVars, ioVars, RecoverEnd,
              Idle, Ready
  <1>1. MqttTyped'
    BY MqttInstanceAssumption DEF MqttTyped, OneContext, Call, Threads, User, Mqtt,
      Stages, Ops, Asked
  <1>2. OneContext'
    BY MqttInstanceAssumption DEF MqttTyped, OneContext, Call, Threads, User, Mqtt, Stages
  <1>3. EndsOnDemand'
    BY DEF EndsOnDemand, OneContext
  <1>4. JoinedFirst'
    BY DEF JoinedFirst, MqttTyped, Call, Threads, User, Mqtt, Idle
  <1>5. Recovering'
    BY DEF Recovering, Linked, Recovered, OneContext, MqttTyped, ToSet
  <1>6. QED
    BY <1>1, <1>2, <1>3, <1>4, <1>5

LEMMA LoopLockStep ==
  ASSUME InstanceInv, LoopLock, UNCHANGED <<logVars, ioVars, app>>
  PROVE  InstanceInv'
  <1> USE DEF InstanceInv, T, Until, net, flags, topics, logVars, ioVars, LoopLock
  <1>1. MqttTyped'
    BY MqttInstanceAssumption DEF MqttTyped, OneContext, Call, Threads, User, Mqtt,
      Stages, Ops, Asked
  <1>2. OneContext'
    BY MqttInstanceAssumption DEF MqttTyped, OneContext, Call, Threads, User, Mqtt, Stages
  <1>3. EndsOnDemand'
    BY DEF EndsOnDemand, OneContext
  <1>4. JoinedFirst'
    BY DEF JoinedFirst, MqttTyped, Call, Threads, User, Mqtt, Idle
  <1>5. Recovering'
    BY DEF Recovering, Linked, Recovered, OneContext, MqttTyped, ToSet
  <1>6. QED
    BY <1>1, <1>2, <1>3, <1>4, <1>5

LEMMA WaitMessageStep ==
  ASSUME InstanceInv, WaitMessage, UNCHANGED <<logVars, ioVars, app>>
  PROVE  InstanceInv'
  <1> USE DEF InstanceInv, T, Until, net, flags, topics, logVars, ioVars, WaitMessage
  <1>1. MqttTyped'
    BY MqttInstanceAssumption DEF MqttTyped, OneContext, Call, Threads, User, Mqtt,
      Stages, Ops, Asked
  <1>2. OneContext'
    BY MqttInstanceAssumption DEF MqttTyped, OneContext, Call, Threads, User, Mqtt, Stages
  <1>3. EndsOnDemand'
    BY DEF EndsOnDemand, OneContext
  <1>4. JoinedFirst'
    BY DEF JoinedFirst, MqttTyped, Call, Threads, User, Mqtt, Idle
  <1>5. Recovering'
    BY DEF Recovering, Linked, Recovered, OneContext, MqttTyped, ToSet
  <1>6. QED
    BY <1>1, <1>2, <1>3, <1>4, <1>5

LEMMA WaitTimeoutStep ==
  ASSUME InstanceInv, WaitTimeout, UNCHANGED <<logVars, ioVars, app>>
  PROVE  InstanceInv'
  <1> USE DEF InstanceInv, T, Until, net, flags, topics, logVars, ioVars, WaitTimeout
  <1>1. MqttTyped'
    BY MqttInstanceAssumption DEF MqttTyped, OneContext, Call, Threads, User, Mqtt,
      Stages, Ops, Asked
  <1>2. OneContext'
    BY MqttInstanceAssumption DEF MqttTyped, OneContext, Call, Threads, User, Mqtt, Stages
  <1>3. EndsOnDemand'
    BY DEF EndsOnDemand, OneContext
  <1>4. JoinedFirst'
    BY DEF JoinedFirst, MqttTyped, Call, Threads, User, Mqtt, Idle
  <1>5. Recovering'
    BY DEF Recovering, Linked, Recovered, OneContext, MqttTyped, ToSet
  <1>6. QED
    BY <1>1, <1>2, <1>3, <1>4, <1>5

LEMMA WaitFailsStep ==
  ASSUME InstanceInv, WaitFails, UNCHANGED <<logVars, ioVars, app>>
  PROVE  InstanceInv'
  <1> USE DEF InstanceInv, T, Until, net, flags, topics, logVars, ioVars, WaitFails,
              FailsTo, Loses
  <1>a. th' = [th EXCEPT ![Mqtt].pc = "idle"] \/ Loses(Mqtt, "idle")
    OBVIOUS
  <1>b. th' \in [Threads -> Call]
    BY <1>a, StageTyped, LosesTyped DEF Threads, Stages
  <1>1. MqttTyped'
    BY <1>b DEF MqttTyped
  <1>2. OneContext'
    BY MqttInstanceAssumption DEF MqttTyped, OneContext, Call, Threads, User, Mqtt, Stages
  <1>3. EndsOnDemand'
    BY DEF EndsOnDemand, OneContext
  <1>4. JoinedFirst'
    BY DEF JoinedFirst, MqttTyped, Call, Threads, User, Mqtt, Idle
  <1>5. Recovering'
    BY DEF Recovering, Linked, Recovered, OneContext, MqttTyped, ToSet
  <1>6. QED
    BY <1>1, <1>2, <1>3, <1>4, <1>5

LEMMA PingStep ==
  ASSUME InstanceInv, Ping, UNCHANGED <<logVars, ioVars, app>>
  PROVE  InstanceInv'
  <1> USE DEF InstanceInv, T, Until, net, flags, topics, logVars, ioVars, Ping
  <1>1. MqttTyped'
    BY MqttInstanceAssumption DEF MqttTyped, OneContext, Call, Threads, User, Mqtt,
      Stages, Ops, Asked
  <1>2. OneContext'
    BY MqttInstanceAssumption DEF MqttTyped, OneContext, Call, Threads, User, Mqtt, Stages
  <1>3. EndsOnDemand'
    BY DEF EndsOnDemand, OneContext
  <1>4. JoinedFirst'
    BY DEF JoinedFirst, MqttTyped, Call, Threads, User, Mqtt, Idle
  <1>5. Recovering'
    BY DEF Recovering, Linked, Recovered, OneContext, MqttTyped, ToSet
  <1>6. QED
    BY <1>1, <1>2, <1>3, <1>4, <1>5

LEMMA PingFailsStep ==
  ASSUME InstanceInv, PingFails, UNCHANGED <<logVars, ioVars, app>>
  PROVE  InstanceInv'
  <1> USE DEF InstanceInv, T, Until, net, flags, topics, logVars, ioVars, PingFails,
              FailsTo, Loses
  <1>a. th' = [th EXCEPT ![Mqtt].pc = "idle"] \/ Loses(Mqtt, "idle")
    OBVIOUS
  <1>b. th' \in [Threads -> Call]
    BY <1>a, StageTyped, LosesTyped DEF Threads, Stages
  <1>1. MqttTyped'
    BY <1>b DEF MqttTyped
  <1>2. OneContext'
    BY MqttInstanceAssumption DEF MqttTyped, OneContext, Call, Threads, User, Mqtt, Stages
  <1>3. EndsOnDemand'
    BY DEF EndsOnDemand, OneContext
  <1>4. JoinedFirst'
    BY DEF JoinedFirst, MqttTyped, Call, Threads, User, Mqtt, Idle
  <1>5. Recovering'
    BY DEF Recovering, Linked, Recovered, OneContext, MqttTyped, ToSet
  <1>6. QED
    BY <1>1, <1>2, <1>3, <1>4, <1>5

LEMMA LoopEndStep ==
  ASSUME InstanceInv, LoopEnd, UNCHANGED <<logVars, ioVars, app>>
  PROVE  InstanceInv'
  <1> USE DEF InstanceInv, T, Until, net, flags, topics, logVars, ioVars, LoopEnd, Idle
  <1>1. MqttTyped'
    BY MqttInstanceAssumption DEF MqttTyped, OneContext, Call, Threads, User, Mqtt,
      Stages, Ops, Asked
  <1>2. OneContext'
    BY MqttInstanceAssumption DEF MqttTyped, OneContext, Call, Threads, User, Mqtt, Stages
  <1>3. EndsOnDemand'
    BY DEF EndsOnDemand, OneContext
  <1>4. JoinedFirst'
    BY DEF JoinedFirst, MqttTyped, Call, Threads, User, Mqtt, Idle
  <1>5. Recovering'
    BY DEF Recovering, Linked, Recovered, OneContext, MqttTyped, ToSet
  <1>6. QED
    BY <1>1, <1>2, <1>3, <1>4, <1>5

LEMMA DisconnectStep ==
  ASSUME InstanceInv, Disconnect, UNCHANGED <<logVars, ioVars, app>>
  PROVE  InstanceInv'
  <1> USE DEF InstanceInv, T, Until, net, flags, topics, logVars, ioVars, Disconnect
  <1>1. MqttTyped'
    BY MqttInstanceAssumption DEF MqttTyped, OneContext, Call, Threads, User, Mqtt,
      Stages, Ops, Asked
  <1>2. OneContext'
    BY MqttInstanceAssumption DEF MqttTyped, OneContext, Call, Threads, User, Mqtt, Stages
  <1>3. EndsOnDemand'
    BY DEF EndsOnDemand, OneContext
  <1>4. JoinedFirst'
    BY DEF JoinedFirst, MqttTyped, Call, Threads, User, Mqtt, Idle
  <1>5. Recovering'
    BY DEF Recovering, Linked, Recovered, OneContext, MqttTyped, ToSet
  <1>6. QED
    BY <1>1, <1>2, <1>3, <1>4, <1>5

LEMMA NotConnectedStep ==
  ASSUME InstanceInv, NotConnected, UNCHANGED <<logVars, ioVars, app>>
  PROVE  InstanceInv'
  <1> USE DEF InstanceInv, T, Until, net, flags, topics, logVars, ioVars, NotConnected
  <1>1. MqttTyped'
    BY MqttInstanceAssumption DEF MqttTyped, OneContext, Call, Threads, User, Mqtt,
      Stages, Ops, Asked
  <1>2. OneContext'
    BY MqttInstanceAssumption DEF MqttTyped, OneContext, Call, Threads, User, Mqtt, Stages
  <1>3. EndsOnDemand'
    BY DEF EndsOnDemand, OneContext
  <1>4. JoinedFirst'
    BY DEF JoinedFirst, MqttTyped, Call, Threads, User, Mqtt, Idle
  <1>5. Recovering'
    BY DEF Recovering, Linked, Recovered, OneContext, MqttTyped, ToSet
  <1>6. QED
    BY <1>1, <1>2, <1>3, <1>4, <1>5

LEMMA LinkMqttDestroyInstanceStep ==
  ASSUME InstanceInv, LinkMqttDestroyInstance, UNCHANGED <<logVars, ioVars, app>>
  PROVE  InstanceInv'
  <1> USE DEF InstanceInv, T, Until, net, flags, topics, logVars, ioVars,
              LinkMqttDestroyInstance
  <1>1. MqttTyped'
    BY MqttInstanceAssumption DEF MqttTyped, OneContext, Call, Threads, User, Mqtt,
      Stages, Ops, Asked
  <1>2. OneContext'
    BY MqttInstanceAssumption DEF MqttTyped, OneContext, Call, Threads, User, Mqtt, Stages
  <1>3. EndsOnDemand'
    BY DEF EndsOnDemand, OneContext
  <1>4. JoinedFirst'
    BY DEF JoinedFirst, MqttTyped, Call, Threads, User, Mqtt, Idle
  <1>5. Recovering'
    BY DEF Recovering, Linked, Recovered, OneContext, MqttTyped, ToSet
  <1>6. QED
    BY <1>1, <1>2, <1>3, <1>4, <1>5

LEMMA OnDisconnectStep ==
  ASSUME InstanceInv, NEW t \in Threads, OnDisconnect(t), tpc' = tpc,
         UNCHANGED <<logVars, ioVars, app>>
  PROVE  InstanceInv'
  <1> USE DEF InstanceInv, T, Until, net, flags, topics, logVars, ioVars, OnDisconnect
  <1>1. MqttTyped'
    BY ZenonT(60), MqttInstanceAssumption DEF MqttTyped, OneContext, Call, Threads, User, Mqtt,
      Stages, Ops, Asked
  <1>2. OneContext'
    BY MqttInstanceAssumption DEF MqttTyped, OneContext, Call, Threads, User, Mqtt, Stages
  <1>3. EndsOnDemand'
    BY DEF EndsOnDemand, OneContext
  <1>4. JoinedFirst'
    BY DEF JoinedFirst, MqttTyped, Call, Threads, User, Mqtt, Idle
  <1>5. Recovering'
    BY DEF Recovering, Linked, Recovered, OneContext, MqttTyped, ToSet
  <1>6. QED
    BY <1>1, <1>2, <1>3, <1>4, <1>5

LEMMA ReplaceStep ==
  ASSUME InstanceInv, NEW t \in Threads, Replace(t), tpc' = tpc,
         UNCHANGED <<logVars, ioVars, app>>
  PROVE  InstanceInv'
  <1> USE DEF InstanceInv, T, Until, net, flags, topics, logVars, ioVars, Replace
  <1>a. th' \in [Threads -> Call]
    BY DEF MqttTyped, Call, Stages
  <1>b. mosq' \in Nat /\ filter' \in Asked
    <2>1. CASE isDestroying
      BY <2>1 DEF MqttTyped
    <2>2. CASE ~isDestroying
      BY <2>2 DEF MqttTyped, Asked
    <2>3. QED
      BY <2>1, <2>2
  <1>1. MqttTyped'
    BY <1>a, <1>b DEF MqttTyped
  <1>2. OneContext'
    BY MqttInstanceAssumption DEF MqttTyped, OneContext, Call, Threads, User, Mqtt, Stages
  <1>3. EndsOnDemand'
    BY DEF EndsOnDemand, OneContext
  <1>4. JoinedFirst'
    BY DEF JoinedFirst, MqttTyped, Call, Threads, User, Mqtt, Idle
  <1>5. Recovering'
    BY DEF Recovering, Linked, Recovered, OneContext, MqttTyped, ToSet
  <1>6. QED
    BY <1>1, <1>2, <1>3, <1>4, <1>5

LEMMA LockStep ==
  ASSUME InstanceInv, NEW t \in Threads, Lock(t), tpc' = tpc,
         UNCHANGED <<logVars, ioVars, app>>
  PROVE  InstanceInv'
  <1> USE DEF InstanceInv, T, Until, net, flags, topics, logVars, ioVars, Lock
  <1>1. MqttTyped'
    BY ZenonT(60), MqttInstanceAssumption DEF MqttTyped, OneContext, Call, Threads, User, Mqtt,
      Stages, Ops, Asked
  <1>2. OneContext'
    BY MqttInstanceAssumption DEF MqttTyped, OneContext, Call, Threads, User, Mqtt, Stages
  <1>3. EndsOnDemand'
    BY DEF EndsOnDemand, OneContext
  <1>4. JoinedFirst'
    BY DEF JoinedFirst, MqttTyped, Call, Threads, User, Mqtt, Idle
  <1>5. Recovering'
    BY DEF Recovering, Linked, Recovered, OneContext, MqttTyped, ToSet
  <1>6. QED
    BY <1>1, <1>2, <1>3, <1>4, <1>5

LEMMA CallFailsStep ==
  ASSUME InstanceInv, NEW t \in Threads, CallFails(t), tpc' = tpc,
         UNCHANGED <<logVars, ioVars, app>>
  PROVE  InstanceInv'
  <1> USE DEF InstanceInv, T, Until, net, flags, topics, logVars, ioVars, CallFails,
              Leave, Loses
  <1>1. MqttTyped'
    BY MqttInstanceAssumption DEF MqttTyped, OneContext, Call, Threads, User, Mqtt,
      Stages, Ops, Asked
  <1>2. OneContext'
    BY MqttInstanceAssumption DEF MqttTyped, OneContext, Call, Threads, User, Mqtt, Stages
  <1>3. EndsOnDemand'
    BY DEF EndsOnDemand, OneContext
  <1>4. JoinedFirst'
    BY DEF JoinedFirst, MqttTyped, Call, Threads, User, Mqtt, Idle
  <1>5. Recovering'
    BY DEF Recovering, Linked, Recovered, OneContext, MqttTyped, ToSet
  <1>6. QED
    BY <1>1, <1>2, <1>3, <1>4, <1>5

LEMMA PublishedStep ==
  ASSUME InstanceInv, NEW t \in Threads, Published(t), tpc' = tpc,
         UNCHANGED <<logVars, ioVars, app>>
  PROVE  InstanceInv'
  <1> USE DEF InstanceInv, T, Until, net, flags, topics, logVars, ioVars, Published,
              Succeeds, Leave
  <1>1. MqttTyped'
    BY SMTT(40), MqttInstanceAssumption DEF MqttTyped, OneContext, Call, Threads, User, Mqtt,
      Stages, Ops, Asked
  <1>2. OneContext'
    BY MqttInstanceAssumption DEF MqttTyped, OneContext, Call, Threads, User, Mqtt, Stages
  <1>3. EndsOnDemand'
    BY DEF EndsOnDemand, OneContext
  <1>4. JoinedFirst'
    BY DEF JoinedFirst, MqttTyped, Call, Threads, User, Mqtt, Idle
  <1>5. Recovering'
    BY DEF Recovering, Linked, Recovered, OneContext, MqttTyped, ToSet
  <1>6. QED
    BY <1>1, <1>2, <1>3, <1>4, <1>5

LEMMA SubscribedStep ==
  ASSUME InstanceInv, NEW t \in Threads, Subscribed(t), tpc' = tpc,
         UNCHANGED <<logVars, ioVars, app>>
  PROVE  InstanceInv'
  <1> USE DEF InstanceInv, T, Until, net, flags, topics, logVars, ioVars, Subscribed,
              Succeeds, Leave, InsertNode
  <1>a. th[t].topic \in Asked /\ list \in Seq(Asked)
    BY DEF MqttTyped, Call
  <1>b. list' \in Seq(Asked)
    BY <1>a
  <1>c. th' \in [Threads -> Call]
    BY DEF MqttTyped, Call, Stages
  <1>1. MqttTyped'
    BY <1>b, <1>c DEF MqttTyped
  <1>2. OneContext'
    BY MqttInstanceAssumption DEF MqttTyped, OneContext, Call, Threads, User, Mqtt, Stages
  <1>3. EndsOnDemand'
    BY DEF EndsOnDemand, OneContext
  <1>4. JoinedFirst'
    BY DEF JoinedFirst, MqttTyped, Call, Threads, User, Mqtt, Idle
  <1>d. ToSet(list') \subseteq ToSet(list) \cup {th[t].topic}
    BY <1>a DEF ToSet
  <1>e. th[t].topic \in subs' \cup lost' /\ subs \cup lost \subseteq subs' \cup lost'
    OBVIOUS
  <1>5. Recovering'
    BY <1>d, <1>e DEF Recovering, Linked, Recovered
  <1>6. QED
    BY <1>1, <1>2, <1>3, <1>4, <1>5

LEMMA UnsubscribedStep ==
  ASSUME InstanceInv, NEW t \in Threads, Unsubscribed(t), tpc' = tpc,
         UNCHANGED <<logVars, ioVars, app>>
  PROVE  InstanceInv'
  <1> USE DEF InstanceInv, T, Until, net, flags, topics, logVars, ioVars, Unsubscribed,
              Succeeds, Leave, Spins
  <1>a. th[t] \in Call /\ list \in Seq(Asked)
    BY DEF MqttTyped
  <1>b. list' \in Seq(Asked)
    <2>1. CASE Spins(th[t].topic)
      BY <2>1, <1>a
    <2>2. CASE ~Spins(th[t].topic)
      BY <2>2, <1>a
    <2>3. QED
      BY <2>1, <2>2
  <1>c. th' \in [Threads -> Call]
    <2>1. CASE Spins(th[t].topic)
      BY <2>1 DEF MqttTyped, Call, Stages
    <2>2. CASE ~Spins(th[t].topic)
      BY ZenonT(60), <2>2 DEF MqttTyped, Call, Stages
    <2>3. QED
      BY <2>1, <2>2
  <1>1. MqttTyped'
    BY <1>b, <1>c DEF MqttTyped
  <1>2. OneContext'
    BY ZenonT(60), MqttInstanceAssumption DEF MqttTyped, OneContext, Call, Threads, User, Mqtt, Stages
  <1>3. EndsOnDemand'
    BY DEF EndsOnDemand, OneContext
  <1>4. JoinedFirst'
    BY DEF JoinedFirst, MqttTyped, Call, Threads, User, Mqtt, Idle
  <1>5. Recovering'
    BY SMTT(40) DEF Recovering, Linked, Recovered, OneContext, MqttTyped, ToSet
  <1>6. QED
    BY <1>1, <1>2, <1>3, <1>4, <1>5

LEMMA UnlockStep ==
  ASSUME InstanceInv, NEW t \in Threads, Unlock(t), tpc' = tpc,
         UNCHANGED <<logVars, ioVars, app>>
  PROVE  InstanceInv'
  <1> USE DEF InstanceInv, T, Until, net, flags, topics, logVars, ioVars, Unlock, Leave
  <1>1. MqttTyped'
    BY SMTT(40), MqttInstanceAssumption DEF MqttTyped, OneContext, Call, Threads, User, Mqtt,
      Stages, Ops, Asked
  <1>2. OneContext'
    BY MqttInstanceAssumption DEF MqttTyped, OneContext, Call, Threads, User, Mqtt, Stages
  <1>3. EndsOnDemand'
    BY DEF EndsOnDemand, OneContext
  <1>4. JoinedFirst'
    BY DEF JoinedFirst, MqttTyped, Call, Threads, User, Mqtt, Idle
  <1>5. Recovering'
    BY DEF Recovering, Linked, Recovered, OneContext, MqttTyped, ToSet
  <1>6. QED
    BY <1>1, <1>2, <1>3, <1>4, <1>5

-----------------------------------------------------------------------------
(* The log's and the program's own steps.                                  *)
LEMMA QnlinkingMQTT_InitStep ==
  ASSUME InstanceInv, QnlinkingMQTT_Init, app = "log", UNCHANGED <<ioVars, app>>
  PROVE  InstanceInv'
  <1> USE DEF mqttVars, InstanceInv, T, Until, net, flags, topics, logVars, ioVars,
              QnlinkingMQTT_Init, LinkMqttCreateInstance, EndsOnDemand
  <1>1. MqttTyped'
    BY MqttInstanceAssumption DEF MqttTyped, OneContext, Call, Threads, User, Mqtt,
      Stages, Ops, Asked
  <1>2. OneContext'
    BY MqttInstanceAssumption DEF MqttTyped, OneContext, Call, Threads, User, Mqtt, Stages
  <1>3. EndsOnDemand'
    BY DEF EndsOnDemand, OneContext
  <1>4. JoinedFirst'
    BY DEF JoinedFirst, MqttTyped, Call, Threads, User, Mqtt, Idle
  <1>5. Recovering'
    BY DEF Recovering, Linked, Recovered, OneContext, MqttTyped, ToSet
  <1>6. QED
    BY <1>1, <1>2, <1>3, <1>4, <1>5

LEMMA InitLogStep ==
  ASSUME InstanceInv, InitLog, app = "log", UNCHANGED <<ioVars, app>>
  PROVE  InstanceInv'
  <1> USE DEF mqttVars, InstanceInv, T, Until, net, flags, topics, logVars, ioVars, InitLog
  <1>1. MqttTyped'
    BY MqttInstanceAssumption DEF MqttTyped, OneContext, Call, Threads, User, Mqtt,
      Stages, Ops, Asked
  <1>2. OneContext'
    BY MqttInstanceAssumption DEF MqttTyped, OneContext, Call, Threads, User, Mqtt, Stages
  <1>3. EndsOnDemand'
    BY DEF EndsOnDemand, OneContext
  <1>4. JoinedFirst'
    BY DEF JoinedFirst, MqttTyped, Call, Threads, User, Mqtt, Idle
  <1>5. Recovering'
    BY DEF Recovering, Linked, Recovered, OneContext, MqttTyped, ToSet
  <1>6. QED
    BY <1>1, <1>2, <1>3, <1>4, <1>5

LEMMA QnlinkingMQTT_SendLogStep ==
  ASSUME InstanceInv, QnlinkingMQTT_SendLog, app = "log", UNCHANGED <<ioVars, app>>
  PROVE  InstanceInv'
  <1> USE DEF mqttVars, InstanceInv, T, Until, net, flags, topics, logVars, ioVars,
              QnlinkingMQTT_SendLog
  <1>1. MqttTyped'
    BY MqttInstanceAssumption DEF MqttTyped, OneContext, Call, Threads, User, Mqtt,
      Stages, Ops, Asked
  <1>2. OneContext'
    BY MqttInstanceAssumption DEF MqttTyped, OneContext, Call, Threads, User, Mqtt, Stages
  <1>3. EndsOnDemand'
    BY DEF EndsOnDemand, OneContext
  <1>4. JoinedFirst'
    BY DEF JoinedFirst, MqttTyped, Call, Threads, User, Mqtt, Idle
  <1>5. Recovering'
    BY DEF Recovering, Linked, Recovered, OneContext, MqttTyped, ToSet
  <1>6. QED
    BY <1>1, <1>2, <1>3, <1>4, <1>5

LEMMA QnlinkingMQTT_CleanupStep ==
  ASSUME InstanceInv, QnlinkingMQTT_Cleanup, app = "log", UNCHANGED <<ioVars, app>>
  PROVE  InstanceInv'
  <1> USE DEF mqttVars, InstanceInv, T, Until, net, flags, topics, logVars, ioVars,
              QnlinkingMQTT_Cleanup
  <1>1. MqttTyped'
    BY MqttInstanceAssumption DEF MqttTyped, OneContext, Call, Threads, User, Mqtt,
      Stages, Ops, Asked
  <1>2. OneContext'
    BY MqttInstanceAssumption DEF MqttTyped, OneContext, Call, Threads, User, Mqtt, Stages
  <1>3. EndsOnDemand'
    BY DEF EndsOnDemand, OneContext
  <1>4. JoinedFirst'
    BY DEF JoinedFirst, MqttTyped, Call, Threads, User, Mqtt, Idle
  <1>5. Recovering'
    BY DEF Recovering, Linked, Recovered, OneContext, MqttTyped, ToSet
  <1>6. QED
    BY <1>1, <1>2, <1>3, <1>4, <1>5

LEMMA CleanupJoinStep ==
  ASSUME InstanceInv, CleanupJoin, app = "log", UNCHANGED <<ioVars, app>>
  PROVE  InstanceInv'
  <1> USE DEF mqttVars, InstanceInv, T, Until, net, flags, topics, logVars, ioVars,
              CleanupJoin
  <1>1. MqttTyped'
    BY MqttInstanceAssumption DEF MqttTyped, OneContext, Call, Threads, User, Mqtt,
      Stages, Ops, Asked
  <1>2. OneContext'
    BY MqttInstanceAssumption DEF MqttTyped, OneContext, Call, Threads, User, Mqtt, Stages
  <1>3. EndsOnDemand'
    BY DEF EndsOnDemand, OneContext
  <1>4. JoinedFirst'
    BY DEF JoinedFirst, MqttTyped, Call, Threads, User, Mqtt, Idle
  <1>5. Recovering'
    BY DEF Recovering, Linked, Recovered, OneContext, MqttTyped, ToSet
  <1>6. QED
    BY <1>1, <1>2, <1>3, <1>4, <1>5

LEMMA CleanupDestroyStep ==
  ASSUME InstanceInv, CleanupDestroy, app = "log", UNCHANGED <<ioVars, app>>
  PROVE  InstanceInv'
  <1> USE DEF mqttVars, InstanceInv, T, Until, net, flags, topics, logVars, ioVars,
              CleanupDestroy, LinkMqttDestroy
  <1>1. MqttTyped'
    BY MqttInstanceAssumption DEF MqttTyped, OneContext, Call, Threads, User, Mqtt,
      Stages, Ops, Asked
  <1>2. OneContext'
    BY MqttInstanceAssumption DEF MqttTyped, OneContext, Call, Threads, User, Mqtt, Stages
  <1>3. EndsOnDemand'
    BY DEF EndsOnDemand, OneContext
  <1>4. JoinedFirst'
    BY DEF JoinedFirst, MqttTyped, Call, Threads, User, Mqtt, Idle
  <1>5. Recovering'
    BY DEF Recovering, Linked, Recovered, OneContext, MqttTyped, ToSet
  <1>6. QED
    BY <1>1, <1>2, <1>3, <1>4, <1>5

LEMMA LogReceiveStep ==
  ASSUME InstanceInv, LogReceive, app = "log", UNCHANGED <<ioVars, app>>
  PROVE  InstanceInv'
  <1> USE DEF mqttVars, InstanceInv, T, Until, net, flags, topics, logVars, ioVars,
              LogReceive, Begin, Idle
  <1>1. MqttTyped'
    BY MqttInstanceAssumption DEF MqttTyped, OneContext, Call, Threads, User, Mqtt,
      Stages, Ops, Asked
  <1>2. OneContext'
    BY MqttInstanceAssumption DEF MqttTyped, OneContext, Call, Threads, User, Mqtt, Stages
  <1>3. EndsOnDemand'
    BY DEF EndsOnDemand, OneContext
  <1>4. JoinedFirst'
    BY DEF JoinedFirst, MqttTyped, Call, Threads, User, Mqtt, Idle
  <1>5. Recovering'
    BY DEF Recovering, Linked, Recovered, OneContext, MqttTyped, ToSet
  <1>6. QED
    BY <1>1, <1>2, <1>3, <1>4, <1>5

LEMMA LogTimeoutStep ==
  ASSUME InstanceInv, LogTimeout, app = "log", UNCHANGED <<ioVars, app>>
  PROVE  InstanceInv'
  <1> USE DEF mqttVars, InstanceInv, T, Until, net, flags, topics, logVars, ioVars,
              LogTimeout
  <1>1. MqttTyped'
    BY MqttInstanceAssumption DEF MqttTyped, OneContext, Call, Threads, User, Mqtt,
      Stages, Ops, Asked
  <1>2. OneContext'
    BY MqttInstanceAssumption DEF MqttTyped, OneContext, Call, Threads, User, Mqtt, Stages
  <1>3. EndsOnDemand'
    BY DEF EndsOnDemand, OneContext
  <1>4. JoinedFirst'
    BY DEF JoinedFirst, MqttTyped, Call, Threads, User, Mqtt, Idle
  <1>5. Recovering'
    BY DEF Recovering, Linked, Recovered, OneContext, MqttTyped, ToSet
  <1>6. QED
    BY <1>1, <1>2, <1>3, <1>4, <1>5

LEMMA LogPublishedStep ==
  ASSUME InstanceInv, LogPublished, app = "log", UNCHANGED <<ioVars, app>>
  PROVE  InstanceInv'
  <1> USE DEF mqttVars, InstanceInv, T, Until, net, flags, topics, logVars, ioVars,
              LogPublished, Idle
  <1>1. MqttTyped'
    BY MqttInstanceAssumption DEF MqttTyped, OneContext, Call, Threads, User, Mqtt,
      Stages, Ops, Asked
  <1>2. OneContext'
    BY MqttInstanceAssumption DEF MqttTyped, OneContext, Call, Threads, User, Mqtt, Stages
  <1>3. EndsOnDemand'
    BY DEF EndsOnDemand, OneContext
  <1>4. JoinedFirst'
    BY DEF JoinedFirst, MqttTyped, Call, Threads, User, Mqtt, Idle
  <1>5. Recovering'
    BY DEF Recovering, Linked, Recovered, OneContext, MqttTyped, ToSet
  <1>6. QED
    BY <1>1, <1>2, <1>3, <1>4, <1>5

LEMMA LogWhileStep ==
  ASSUME InstanceInv, LogWhile, app = "log", UNCHANGED <<ioVars, app>>
  PROVE  InstanceInv'
  <1> USE DEF mqttVars, InstanceInv, T, Until, net, flags, topics, logVars, ioVars, LogWhile
  <1>1. MqttTyped'
    BY MqttInstanceAssumption DEF MqttTyped, OneContext, Call, Threads, User, Mqtt,
      Stages, Ops, Asked
  <1>2. OneContext'
    BY MqttInstanceAssumption DEF MqttTyped, OneContext, Call, Threads, User, Mqtt, Stages
  <1>3. EndsOnDemand'
    BY DEF EndsOnDemand, OneContext
  <1>4. JoinedFirst'
    BY DEF JoinedFirst, MqttTyped, Call, Threads, User, Mqtt, Idle
  <1>5. Recovering'
    BY DEF Recovering, Linked, Recovered, OneContext, MqttTyped, ToSet
  <1>6. QED
    BY <1>1, <1>2, <1>3, <1>4, <1>5

LEMMA QnlinkingMQTT_MessageCallbackStep ==
  ASSUME InstanceInv, QnlinkingMQTT_MessageCallback, app = "log", UNCHANGED <<ioVars, app>>
  PROVE  InstanceInv'
  <1> USE DEF mqttVars, InstanceInv, T, Until, net, flags, topics, logVars, ioVars,
              QnlinkingMQTT_MessageCallback
  <1>1. MqttTyped'
    BY MqttInstanceAssumption DEF MqttTyped, OneContext, Call, Threads, User, Mqtt,
      Stages, Ops, Asked
  <1>2. OneContext'
    BY MqttInstanceAssumption DEF MqttTyped, OneContext, Call, Threads, User, Mqtt, Stages
  <1>3. EndsOnDemand'
    BY DEF EndsOnDemand, OneContext
  <1>4. JoinedFirst'
    BY DEF JoinedFirst, MqttTyped, Call, Threads, User, Mqtt, Idle
  <1>5. Recovering'
    BY DEF Recovering, Linked, Recovered, OneContext, MqttTyped, ToSet
  <1>6. QED
    BY <1>1, <1>2, <1>3, <1>4, <1>5

LEMMA IoCreateStep ==
  ASSUME InstanceInv, IoCreate, app = "io", UNCHANGED <<logVars, app>>
  PROVE  InstanceInv'
  <1> USE DEF mqttVars, InstanceInv, T, Until, net, flags, topics, logVars, ioVars,
              IoCreate, LinkMqttCreateInstance, EndsOnDemand
  <1>1. MqttTyped'
    BY MqttInstanceAssumption DEF MqttTyped, OneContext, Call, Threads, User, Mqtt,
      Stages, Ops, Asked
  <1>2. OneContext'
    BY MqttInstanceAssumption DEF MqttTyped, OneContext, Call, Threads, User, Mqtt, Stages
  <1>3. EndsOnDemand'
    BY DEF EndsOnDemand, OneContext
  <1>4. JoinedFirst'
    BY DEF JoinedFirst, MqttTyped, Call, Threads, User, Mqtt, Idle
  <1>5. Recovering'
    BY DEF Recovering, Linked, Recovered, OneContext, MqttTyped, ToSet
  <1>6. QED
    BY <1>1, <1>2, <1>3, <1>4, <1>5

LEMMA LinkInitIOCtrlStep ==
  ASSUME InstanceInv, LinkInitIOCtrl, app = "io", UNCHANGED <<logVars, app>>
  PROVE  InstanceInv'
  <1> USE DEF mqttVars, InstanceInv, T, Until, net, flags, topics, logVars, ioVars,
              LinkInitIOCtrl, Begin, Idle
  <1>1. MqttTyped'
    BY MqttInstanceAssumption, IoControlAssumption DEF MqttTyped, OneContext, Call,
      Threads, User, Mqtt, Stages, Ops, Asked
  <1>2. OneContext'
    BY MqttInstanceAssumption, IoControlAssumption DEF MqttTyped, OneContext, Call,
      Threads, User, Mqtt, Stages
  <1>3. EndsOnDemand'
    BY DEF EndsOnDemand, OneContext
  <1>4. JoinedFirst'
    BY DEF JoinedFirst, MqttTyped, Call, Threads, User, Mqtt, Idle
  <1>5. Recovering'
    BY DEF Recovering, Linked, Recovered, OneContext, MqttTyped, ToSet
  <1>6. QED
    BY <1>1, <1>2, <1>3, <1>4, <1>5

LEMMA InitIOCtrlReturnsStep ==
  ASSUME InstanceInv, InitIOCtrlReturns, app = "io", UNCHANGED <<logVars, app>>
  PROVE  InstanceInv'
  <1> USE DEF mqttVars, InstanceInv, T, Until, net, flags, topics, logVars, ioVars,
              InitIOCtrlReturns, Idle
  <1>1. MqttTyped'
    BY MqttInstanceAssumption DEF MqttTyped, OneContext, Call, Threads, User, Mqtt,
      Stages, Ops, Asked
  <1>2. OneContext'
    BY MqttInstanceAssumption DEF MqttTyped, OneContext, Call, Threads, User, Mqtt, Stages
  <1>3. EndsOnDemand'
    BY DEF EndsOnDemand, OneContext
  <1>4. JoinedFirst'
    BY DEF JoinedFirst, MqttTyped, Call, Threads, User, Mqtt, Idle
  <1>5. Recovering'
    BY DEF Recovering, Linked, Recovered, OneContext, MqttTyped, ToSet
  <1>6. QED
    BY <1>1, <1>2, <1>3, <1>4, <1>5

LEMMA LinkRecvIOCtrlStep ==
  ASSUME InstanceInv, LinkRecvIOCtrl, app = "io", UNCHANGED <<logVars, app>>
  PROVE  InstanceInv'
  <1> USE DEF mqttVars, InstanceInv, T, Until, net, flags, topics, logVars, ioVars,
              LinkRecvIOCtrl
  <1>1. MqttTyped'
    BY MqttInstanceAssumption DEF MqttTyped, OneContext, Call, Threads, User, Mqtt,
      Stages, Ops, Asked
  <1>2. OneContext'
    BY MqttInstanceAssumption DEF MqttTyped, OneContext, Call, Threads, User, Mqtt, Stages
  <1>3. EndsOnDemand'
    BY DEF EndsOnDemand, OneContext
  <1>4. JoinedFirst'
    BY DEF JoinedFirst, MqttTyped, Call, Threads, User, Mqtt, Idle
  <1>5. Recovering'
    BY DEF Recovering, Linked, Recovered, OneContext, MqttTyped, ToSet
  <1>6. QED
    BY <1>1, <1>2, <1>3, <1>4, <1>5

LEMMA LinkSendIOResponseStep ==
  ASSUME InstanceInv, LinkSendIOResponse, app = "io", UNCHANGED <<logVars, app>>
  PROVE  InstanceInv'
  <1> USE DEF mqttVars, InstanceInv, T, Until, net, flags, topics, logVars, ioVars,
              LinkSendIOResponse, Begin, Idle
  <1>1. MqttTyped'
    BY MqttInstanceAssumption DEF MqttTyped, OneContext, Call, Threads, User, Mqtt,
      Stages, Ops, Asked
  <1>2. OneContext'
    BY MqttInstanceAssumption DEF MqttTyped, OneContext, Call, Threads, User, Mqtt, Stages
  <1>3. EndsOnDemand'
    BY DEF EndsOnDemand, OneContext
  <1>4. JoinedFirst'
    BY DEF JoinedFirst, MqttTyped, Call, Threads, User, Mqtt, Idle
  <1>5. Recovering'
    BY DEF Recovering, Linked, Recovered, OneContext, MqttTyped, ToSet
  <1>6. QED
    BY <1>1, <1>2, <1>3, <1>4, <1>5

LEMMA AnsweredStep ==
  ASSUME InstanceInv, Answered, app = "io", UNCHANGED <<logVars, app>>
  PROVE  InstanceInv'
  <1> USE DEF mqttVars, InstanceInv, T, Until, net, flags, topics, logVars, ioVars,
              Answered, Idle
  <1>1. MqttTyped'
    BY MqttInstanceAssumption DEF MqttTyped, OneContext, Call, Threads, User, Mqtt,
      Stages, Ops, Asked
  <1>2. OneContext'
    BY MqttInstanceAssumption DEF MqttTyped, OneContext, Call, Threads, User, Mqtt, Stages
  <1>3. EndsOnDemand'
    BY DEF EndsOnDemand, OneContext
  <1>4. JoinedFirst'
    BY DEF JoinedFirst, MqttTyped, Call, Threads, User, Mqtt, Idle
  <1>5. Recovering'
    BY DEF Recovering, Linked, Recovered, OneContext, MqttTyped, ToSet
  <1>6. QED
    BY <1>1, <1>2, <1>3, <1>4, <1>5

LEMMA LinkDinitIOCtrlStep ==
  ASSUME InstanceInv, LinkDinitIOCtrl, app = "io", UNCHANGED <<logVars, app>>
  PROVE  InstanceInv'
  <1> USE DEF mqttVars, InstanceInv, T, Until, net, flags, topics, logVars, ioVars,
              LinkDinitIOCtrl
  <1>1. MqttTyped'
    BY MqttInstanceAssumption DEF MqttTyped, OneContext, Call, Threads, User, Mqtt,
      Stages, Ops, Asked
  <1>2. OneContext'
    BY MqttInstanceAssumption DEF MqttTyped, OneContext, Call, Threads, User, Mqtt, Stages
  <1>3. EndsOnDemand'
    BY DEF EndsOnDemand, OneContext
  <1>4. JoinedFirst'
    BY DEF JoinedFirst, MqttTyped, Call, Threads, User, Mqtt, Idle
  <1>5. Recovering'
    BY DEF Recovering, Linked, Recovered, OneContext, MqttTyped, ToSet
  <1>6. QED
    BY <1>1, <1>2, <1>3, <1>4, <1>5

LEMMA IoDestroyStep ==
  ASSUME InstanceInv, IoDestroy, app = "io", UNCHANGED <<logVars, app>>
  PROVE  InstanceInv'
  <1> USE DEF mqttVars, InstanceInv, T, Until, net, flags, topics, logVars, ioVars,
              IoDestroy, LinkMqttDestroy
  <1>1. MqttTyped'
    BY MqttInstanceAssumption DEF MqttTyped, OneContext, Call, Threads, User, Mqtt,
      Stages, Ops, Asked
  <1>2. OneContext'
    BY MqttInstanceAssumption DEF MqttTyped, OneContext, Call, Threads, User, Mqtt, Stages
  <1>3. EndsOnDemand'
    BY DEF EndsOnDemand, OneContext
  <1>4. JoinedFirst'
    BY DEF JoinedFirst, MqttTyped, Call, Threads, User, Mqtt, Idle
  <1>5. Recovering'
    BY DEF Recovering, Linked, Recovered, OneContext, MqttTyped, ToSet
  <1>6. QED
    BY <1>1, <1>2, <1>3, <1>4, <1>5

LEMMA IoUnsubscribedStep ==
  ASSUME InstanceInv, IoUnsubscribed, app = "io", UNCHANGED <<logVars, app>>
  PROVE  InstanceInv'
  <1> USE DEF mqttVars, InstanceInv, T, Until, net, flags, topics, logVars, ioVars,
              IoUnsubscribed, Idle
  <1>1. MqttTyped'
    BY MqttInstanceAssumption DEF MqttTyped, OneContext, Call, Threads, User, Mqtt,
      Stages, Ops, Asked
  <1>2. OneContext'
    BY MqttInstanceAssumption DEF MqttTyped, OneContext, Call, Threads, User, Mqtt, Stages
  <1>3. EndsOnDemand'
    BY DEF EndsOnDemand, OneContext
  <1>4. JoinedFirst'
    BY DEF JoinedFirst, MqttTyped, Call, Threads, User, Mqtt, Idle
  <1>5. Recovering'
    BY DEF Recovering, Linked, Recovered, OneContext, MqttTyped, ToSet
  <1>6. QED
    BY <1>1, <1>2, <1>3, <1>4, <1>5

LEMMA OnIOCtrlMessageStep ==
  ASSUME InstanceInv, OnIOCtrlMessage, app = "io", UNCHANGED <<logVars, app>>
  PROVE  InstanceInv'
  <1> USE DEF mqttVars, InstanceInv, T, Until, net, flags, topics, logVars, ioVars,
              OnIOCtrlMessage
  <1>1. MqttTyped'
    BY MqttInstanceAssumption DEF MqttTyped, OneContext, Call, Threads, User, Mqtt,
      Stages, Ops, Asked
  <1>2. OneContext'
    BY MqttInstanceAssumption DEF MqttTyped, OneContext, Call, Threads, User, Mqtt, Stages
  <1>3. EndsOnDemand'
    BY DEF EndsOnDemand, OneContext
  <1>4. JoinedFirst'
    BY DEF JoinedFirst, MqttTyped, Call, Threads, User, Mqtt, Idle
  <1>5. Recovering'
    BY DEF Recovering, Linked, Recovered, OneContext, MqttTyped, ToSet
  <1>6. QED
    BY <1>1, <1>2, <1>3, <1>4, <1>5

LEMMA SendToSessionStep ==
  ASSUME InstanceInv, SendToSession, app = "io", UNCHANGED <<logVars, app>>
  PROVE  InstanceInv'
  <1> USE DEF mqttVars, InstanceInv, T, Until, net, flags, topics, logVars, ioVars,
              SendToSession
  <1>1. MqttTyped'
    BY MqttInstanceAssumption DEF MqttTyped, OneContext, Call, Threads, User, Mqtt,
      Stages, Ops, Asked
  <1>2. OneContext'
    BY MqttInstanceAssumption DEF MqttTyped, OneContext, Call, Threads, User, Mqtt, Stages
  <1>3. EndsOnDemand'
    BY DEF EndsOnDemand, OneContext
  <1>4. JoinedFirst'
    BY DEF JoinedFirst, MqttTyped, Call, Threads, User, Mqtt, Idle
  <1>5. Recovering'
    BY DEF Recovering, Linked, Recovered, OneContext, MqttTyped, ToSet
  <1>6. QED
    BY <1>1, <1>2, <1>3, <1>4, <1>5

LEMMA OtherMessageStep ==
  ASSUME InstanceInv, OtherMessage, app = "io", UNCHANGED <<logVars, app>>
  PROVE  InstanceInv'
  <1> USE DEF mqttVars, InstanceInv, T, Until, net, flags, topics, logVars, ioVars,
              OtherMessage
  <1>1. MqttTyped'
    BY MqttInstanceAssumption DEF MqttTyped, OneContext, Call, Threads, User, Mqtt,
      Stages, Ops, Asked
  <1>2. OneContext'
    BY MqttInstanceAssumption DEF MqttTyped, OneContext, Call, Threads, User, Mqtt, Stages
  <1>3. EndsOnDemand'
    BY DEF EndsOnDemand, OneContext
  <1>4. JoinedFirst'
    BY DEF JoinedFirst, MqttTyped, Call, Threads, User, Mqtt, Idle
  <1>5. Recovering'
    BY DEF Recovering, Linked, Recovered, OneContext, MqttTyped, ToSet
  <1>6. QED
    BY <1>1, <1>2, <1>3, <1>4, <1>5

LEMMA IoUnsubscribeStep ==
  ASSUME InstanceInv, NEW topic \in Topics, IoUnsubscribe(topic), app = "io",
         UNCHANGED <<logVars, app>>
  PROVE  InstanceInv'
  <1> USE DEF mqttVars, InstanceInv, T, Until, net, flags, topics, logVars, ioVars,
              IoUnsubscribe, Begin, Idle
  <1>1. MqttTyped'
    BY MqttInstanceAssumption DEF MqttTyped, OneContext, Call, Threads, User, Mqtt,
      Stages, Ops, Asked
  <1>2. OneContext'
    BY MqttInstanceAssumption DEF MqttTyped, OneContext, Call, Threads, User, Mqtt, Stages
  <1>3. EndsOnDemand'
    BY DEF EndsOnDemand, OneContext
  <1>4. JoinedFirst'
    BY DEF JoinedFirst, MqttTyped, Call, Threads, User, Mqtt, Idle
  <1>5. Recovering'
    BY DEF Recovering, Linked, Recovered, OneContext, MqttTyped, ToSet
  <1>6. QED
    BY <1>1, <1>2, <1>3, <1>4, <1>5

-----------------------------------------------------------------------------
LEMMA InitInstanceInv == Init => InstanceInv
  <1> SUFFICES ASSUME Init PROVE InstanceInv
    OBVIOUS
  <1> USE DEF Init, InstanceInit, LogInit
  <1>1. list = <<>> /\ todo = <<>> /\ <<>> \in Seq(Asked)
    OBVIOUS
  <1>2. Idle \in Call
    BY DEF Idle, Call, Stages, Ops, Asked
  <1>3. MqttTyped
    BY <1>1, <1>2 DEF MqttTyped, Asked
  <1>4. OneContext
    BY DEF OneContext, Idle
  <1>5. EndsOnDemand /\ JoinedFirst
    BY DEF EndsOnDemand, JoinedFirst, Threads
  <1>6. Recovering
    BY DEF Recovering, Linked
  <1>7. QED
    BY <1>3, <1>4, <1>5, <1>6 DEF InstanceInv

LEMMA CallsStep ==
  ASSUME InstanceInv, NEW t \in Threads, Calls(t), tpc' = tpc,
         UNCHANGED <<logVars, ioVars, app>>
  PROVE  InstanceInv'
  BY OnDisconnectStep, ReplaceStep, LockStep, CallFailsStep, PublishedStep,
     SubscribedStep, UnsubscribedStep, UnlockStep DEF Calls

LEMMA ThreadStep ==
  ASSUME InstanceInv, LinkMqttThread \/ WaitMessage, UNCHANGED <<logVars, ioVars, app>>
  PROVE  InstanceInv'
  BY StartStep, StartFailsStep, ToConnectStep, ToLoopStep, ConnectLockStep, NetConnectFailsStep,
     ConnectFailsStep, ConnectStep, OnEventStep, OnEventPlainStep, EventEndsStep,
     RecoverHeadStep, RecoverLockStep, RecoverNextStep, RecoverEndStep, LoopLockStep,
     WaitMessageStep, WaitTimeoutStep, WaitFailsStep, PingStep, PingFailsStep, LoopEndStep,
     DisconnectStep, NotConnectedStep, LinkMqttDestroyInstanceStep DEF LinkMqttThread

LEMMA LogStep ==
  ASSUME InstanceInv, Log
  PROVE  InstanceInv'
  BY QnlinkingMQTT_InitStep, InitLogStep, QnlinkingMQTT_SendLogStep, QnlinkingMQTT_CleanupStep,
     CleanupJoinStep, CleanupDestroyStep, LogReceiveStep, LogTimeoutStep, LogPublishedStep,
     LogWhileStep, QnlinkingMQTT_MessageCallbackStep
  DEF Log, LogMain, QnlinkingMQTT_LogThread

LEMMA IoStep ==
  ASSUME InstanceInv, Io
  PROVE  InstanceInv'
  BY IoCreateStep, LinkInitIOCtrlStep, InitIOCtrlReturnsStep, LinkRecvIOCtrlStep,
     LinkSendIOResponseStep, AnsweredStep, LinkDinitIOCtrlStep, IoDestroyStep,
     IoUnsubscribeStep, IoUnsubscribedStep, OnIOCtrlMessageStep, SendToSessionStep,
     OtherMessageStep
  DEF Io, IoProgram, IoCallback

LEMMA StutterStep ==
  ASSUME InstanceInv, UNCHANGED vars
  PROVE  InstanceInv'
  <1> USE DEF vars, mqttVars, net, flags, topics, logVars, ioVars, InstanceInv
  <1>1. MqttTyped' /\ OneContext'
    BY DEF MqttTyped, OneContext
  <1>2. EndsOnDemand' /\ JoinedFirst'
    BY DEF EndsOnDemand, JoinedFirst
  <1>3. Recovering'
    BY DEF Recovering, Linked, Recovered
  <1>4. QED
    BY <1>1, <1>2, <1>3

(* The context, the demand to end, the join of the log thread and the      *)
(* topics still to recover hold together in every behaviour.               *)
THEOREM InstanceInvariant == Spec => []InstanceInv
  <1>1. InstanceInv /\ [Next]_vars => InstanceInv'
    <2> SUFFICES ASSUME InstanceInv, [Next]_vars PROVE InstanceInv'
      OBVIOUS
    <2>1. CASE Log
      BY <2>1, LogStep
    <2>2. CASE Io
      BY <2>2, IoStep
    <2>3. CASE Instance
      BY <2>3, ThreadStep, CallsStep DEF Instance
    <2>4. CASE UNCHANGED vars
      BY <2>4, StutterStep
    <2>5. QED
      BY <2>1, <2>2, <2>3, <2>4 DEF Next
  <1>2. QED
    BY InitInstanceInv, <1>1, PTL DEF Spec

(* On a connection whose subscriptions were recovered (RecoverSub) the     *)
(* broker has every topic of pSubsribeList that it was rightly asked for.  *)
THEOREM TopicsRecovered == Spec => []SubscriptionsRestored
  <1>1. InstanceInv => SubscriptionsRestored
    BY DEF InstanceInv, Recovering, SubscriptionsRestored
  <1>2. QED
    BY InstanceInvariant, <1>1, PTL

(* QnlinkingMQTT_Cleanup joins the log thread before the thread of the     *)
(* instance frees it, in every order of their steps.                       *)
THEOREM JoinedBeforeFreed == Spec => []InstanceOutlivesUsers
  <1>1. InstanceInv => InstanceOutlivesUsers
    BY DEF InstanceInv, EndsOnDemand, JoinedFirst, InstanceOutlivesUsers
  <1>2. QED
    BY InstanceInvariant, <1>1, PTL

-----------------------------------------------------------------------------
(* Places of a ring, and the places of its items.                          *)
LEMMA SomeRoom == QueueMax \in Nat /\ QueueMax > 0
  BY IoControlAssumption

LEMMA PlaceOf ==
  ASSUME NEW out \in Places, NEW i \in 1 .. QueueMax
  PROVE  Wrapped(out + i - 1) \in Places
  BY SomeRoom DEF Wrapped, Places

LEMMA InPlace ==
  ASSUME NEW out \in Places, NEW size \in 0 .. QueueMax
  PROVE  /\ Wrapped(Wrapped(out + size) + 1) \in Places /\ Wrapped(out + 1) \in Places
         /\ size < QueueMax =>
              /\ Wrapped(Wrapped(out + size) + 1) = Wrapped(out + (size + 1))
              /\ Wrapped(out + (size + 1) - 1) = Wrapped(out + size)
         /\ size = QueueMax =>
              /\ Wrapped(Wrapped(out + size) + 1) = Wrapped(Wrapped(out + 1) + size)
              /\ Wrapped(Wrapped(out + 1) + size - 1) = Wrapped(out + size)
         /\ size > 0 => Wrapped(Wrapped(out + 1) + (size - 1)) = Wrapped(out + size)
  <1> USE SomeRoom DEF Wrapped, Places
  <1>1. Wrapped(Wrapped(out + size) + 1) \in Places /\ Wrapped(out + 1) \in Places
    OBVIOUS
  <1>2. ASSUME size < QueueMax
        PROVE  /\ Wrapped(Wrapped(out + size) + 1) = Wrapped(out + (size + 1))
               /\ Wrapped(out + (size + 1) - 1) = Wrapped(out + size)
    BY <1>2
  <1>3. ASSUME size = QueueMax
        PROVE  /\ Wrapped(Wrapped(out + size) + 1) = Wrapped(Wrapped(out + 1) + size)
               /\ Wrapped(Wrapped(out + 1) + size - 1) = Wrapped(out + size)
    BY <1>3
  <1>4. ASSUME size > 0
        PROVE  Wrapped(Wrapped(out + 1) + (size - 1)) = Wrapped(out + size)
    BY <1>4
  <1>5. QED
    BY <1>1, <1>2, <1>3, <1>4

LEMMA OtherPlaces ==
  ASSUME NEW out \in Places, NEW size \in 0 .. QueueMax, NEW i \in 1 .. size
  PROVE  /\ size < QueueMax => Wrapped(out + i - 1) # Wrapped(out + size)
         /\ i < size =>
              /\ Wrapped(Wrapped(out + 1) + i - 1) = Wrapped(out + (i + 1) - 1)
              /\ Wrapped(out + (i + 1) - 1) \in Places
              /\ size = QueueMax => Wrapped(out + (i + 1) - 1) # Wrapped(out + size)
  BY SomeRoom DEF Wrapped, Places

(* What the operations of the ring do to its items.                        *)
LEMMA Wraps ==
  ASSUME NEW x \in Nat, x < QueueMax + QueueMax
  PROVE  x % QueueMax = Wrapped(x)
  <1> USE IoControlAssumption
  <1>1. CASE x < QueueMax
    BY <1>1, SMT DEF Wrapped
  <1>2. CASE x >= QueueMax
    BY <1>2, SMT DEF Wrapped
  <1>3. QED
    BY <1>1, <1>2

LEMMA NextPlace ==
  ASSUME NEW q \in Ring, NEW i \in Places
  PROVE  Next1(q, i) = Wrapped(i + 1) /\ Wrapped(i + 1) \in Places
  <1> USE IoControlAssumption
  <1>1. i + 1 \in Nat /\ i + 1 < QueueMax + QueueMax /\ q.nCapacity = QueueMax
    BY DEF Places, Ring
  <1>2. (i + 1) % QueueMax = Wrapped(i + 1)
    BY <1>1, Wraps
  <1>3. QED
    BY <1>1, <1>2 DEF Next1, Wrapped, Places

LEMMA CreatedRing ==
  /\ CreateMessageQueue(QueueMax) \in Ring /\ Whole(CreateMessageQueue(QueueMax))
  /\ CreateMessageQueue(QueueMax).nSize = 0
  BY IoControlAssumption DEF CreateMessageQueue, Ring, Whole, Wrapped, Places

LEMMA RingFields ==
  ASSUME NEW q \in Ring
  PROVE  /\ q.live = TRUE /\ q.nCapacity = QueueMax /\ q.pAlloc \in [Places -> Nat]
         /\ q.nSize \in 0 .. QueueMax /\ q.nNextIn \in Places /\ q.nNextOut \in Places
         /\ \A i \in 1 .. QueueMax :
              Wrapped(q.nNextOut + i - 1) \in Places /\ Item(q, i) \in Nat
  <1>1. /\ q.live = TRUE /\ q.nCapacity = QueueMax /\ q.pAlloc \in [Places -> Nat]
        /\ q.nSize \in 0 .. QueueMax /\ q.nNextIn \in Places /\ q.nNextOut \in Places
    BY DEF Ring
  <1>2. ASSUME NEW i \in 1 .. QueueMax
        PROVE  Wrapped(q.nNextOut + i - 1) \in Places /\ Item(q, i) \in Nat
    BY <1>1, PlaceOf DEF Item
  <1>3. QED
    BY <1>1, <1>2

(* The items stay, or each gives its place to the next.                    *)
Kept(q, r) == r.nSize = q.nSize + 1 /\ \A i \in 1 .. q.nSize : Item(r, i) = Item(q, i)
Moved(q, r) == r.nSize = q.nSize /\ \A i \in 1 .. q.nSize - 1 : Item(r, i) = Item(q, i + 1)

LEMMA SentRing ==
  ASSUME NEW q \in Ring, Whole(q), NEW m \in Nat, NEW r, r = SendMessage(q, m)
  PROVE  /\ r \in Ring /\ Whole(r) /\ r.nSize > 0 /\ Item(r, r.nSize) = m
         /\ Kept(q, r) \/ Moved(q, r)
  <1> DEFINE in == q.nNextIn
             out == q.nNextOut
             size == q.nSize
             data == q.pAlloc
             full == size = QueueMax
             toIn == Wrapped(in + 1)
             toOut == IF full THEN Wrapped(out + 1) ELSE out
             toSize == IF full THEN size ELSE size + 1
             toData == [data EXCEPT ![in] = m]
  <1>1. /\ in \in Places /\ out \in Places /\ size \in 0 .. QueueMax
        /\ data \in [Places -> Nat] /\ in = Wrapped(out + size)
    BY RingFields DEF Whole
  <1>2. r = [live |-> TRUE, pAlloc |-> toData, nCapacity |-> QueueMax,
             nSize |-> toSize, nNextIn |-> toIn, nNextOut |-> toOut]
    <2>1. q.live = TRUE /\ q.nCapacity = QueueMax
      BY RingFields
    <2>2. Next1(q, in) = toIn /\ Next1(q, out) = Wrapped(out + 1)
      BY <1>1, NextPlace
    <2>3. r = [q EXCEPT !.pAlloc = toData, !.nNextIn = toIn, !.nNextOut = toOut, !.nSize = toSize]
      BY <2>1, <2>2 DEF SendMessage, Full, Ring
    <2>4. QED
      BY <2>1, <2>3 DEF Ring
  <1>3. /\ r.pAlloc = toData /\ r.nSize = toSize /\ r.nNextIn = toIn /\ r.nNextOut = toOut
    BY <1>2
  <1> HIDE DEF in, out, size, data
  <1>4. toIn \in Places /\ toOut \in Places /\ toSize \in 0 .. QueueMax /\ toSize > 0
    <2>1. toIn \in Places /\ toOut \in Places
      BY <1>1, InPlace
    <2>2. toSize \in 0 .. QueueMax /\ toSize > 0
      BY <1>1, SomeRoom
    <2>3. QED
      BY <2>1, <2>2
  <1>0. size < QueueMax \/ full
    BY <1>1, SomeRoom
  <1>5. toIn = Wrapped(toOut + toSize)
    <2>1. CASE size < QueueMax
      BY <1>1, <2>1, InPlace, SomeRoom
    <2>2. CASE full
      BY <1>1, <2>2, InPlace
    <2>3. QED
      BY <1>0, <2>1, <2>2
  <1>6. r \in Ring /\ Whole(r)
    <2>1. toData \in [Places -> Nat]
      BY <1>1
    <2>2. QED
      BY <1>2, <1>3, <1>4, <1>5, <2>1 DEF Ring, Whole
  <1>7. Item(r, r.nSize) = m
    <2>1. Wrapped(toOut + toSize - 1) = in
      <3>1. CASE size < QueueMax
        BY <1>1, <3>1, InPlace, SomeRoom
      <3>2. CASE full
        BY <1>1, <3>2, InPlace
      <3>3. QED
        BY <1>0, <3>1, <3>2
    <2>2. QED
      BY <1>1, <1>3, <2>1 DEF Item
  <1>8. CASE ~full
    <2>1. \A i \in 1 .. size :
            Wrapped(toOut + i - 1) = Wrapped(out + i - 1) /\ Wrapped(out + i - 1) \in Places \ {in}
      <3> SUFFICES ASSUME NEW i \in 1 .. size
                   PROVE  Wrapped(out + i - 1) \in Places /\ Wrapped(out + i - 1) # in
        BY <1>8
      <3>1. i \in 1 .. QueueMax /\ size < QueueMax
        BY <1>0, <1>1, <1>8, SomeRoom
      <3>2. QED
        BY <1>1, <3>1, PlaceOf, OtherPlaces
    <2>2. \A i \in 1 .. q.nSize : Item(r, i) = Item(q, i)
      BY <1>1, <1>3, <1>8, <2>1 DEF Item, in, out, size, data
    <2>3. Kept(q, r)
      BY <1>3, <1>8, <2>2 DEF Kept, size
    <2>4. QED
      BY <1>3, <1>4, <1>6, <1>7, <2>3
  <1>9. CASE full
    <2>1. \A i \in 1 .. size - 1 :
            /\ Wrapped(toOut + i - 1) = Wrapped(out + (i + 1) - 1)
            /\ Wrapped(toOut + i - 1) \in Places \ {in}
      <3> SUFFICES ASSUME NEW i \in 1 .. size - 1
                   PROVE  /\ Wrapped(Wrapped(out + 1) + i - 1) = Wrapped(out + (i + 1) - 1)
                          /\ Wrapped(out + (i + 1) - 1) \in Places
                          /\ Wrapped(out + (i + 1) - 1) # in
        BY <1>9
      <3>1. i \in 1 .. size /\ i < size
        BY <1>1, SomeRoom
      <3>2. QED
        BY <1>1, <1>9, <3>1, OtherPlaces
    <2>2. \A i \in 1 .. q.nSize - 1 : Item(r, i) = Item(q, i + 1)
      BY <1>1, <1>3, <1>9, <2>1 DEF Item, in, out, size, data
    <2>3. Moved(q, r)
      BY <1>3, <1>9, <2>2 DEF Moved, size
    <2>4. QED
      BY <1>3, <1>4, <1>6, <1>7, <2>3
  <1>10. QED
    BY <1>8, <1>9

LEMMA ReceivedRing ==
  ASSUME NEW q \in Ring, Whole(q), ~Empty(q), NEW r, r = Received(q)
  PROVE  /\ r \in Ring /\ Whole(r) /\ r.nSize = q.nSize - 1
         /\ FirstMessage(q) = Item(q, 1)
         /\ \A i \in 1 .. r.nSize : Item(r, i) = Item(q, i + 1)
  <1> DEFINE out == q.nNextOut
             size == q.nSize
             toOut == Wrapped(out + 1)
  <1>1. /\ q.nNextIn \in Places /\ out \in Places /\ size \in 1 .. QueueMax
        /\ q.pAlloc \in [Places -> Nat] /\ q.nNextIn = Wrapped(out + size)
    <2>1. size \in 1 .. QueueMax
      <3>1. size \in 0 .. QueueMax /\ size # 0
        BY RingFields DEF Empty
      <3> HIDE DEF size
      <3>2. QED
        BY <3>1, SomeRoom
    <2>2. QED
      BY <2>1, RingFields DEF Whole
  <1>2. r = [live |-> TRUE, pAlloc |-> q.pAlloc, nCapacity |-> QueueMax,
             nSize |-> size - 1, nNextIn |-> q.nNextIn, nNextOut |-> toOut]
    <2>1. Next1(q, out) = toOut
      BY <1>1, NextPlace
    <2>2. QED
      BY <2>1 DEF Received, Ring
  <1>3. /\ r.pAlloc = q.pAlloc /\ r.nSize = size - 1
        /\ r.nNextIn = q.nNextIn /\ r.nNextOut = toOut
    BY <1>2
  <1> HIDE DEF out, size
  <1>4. toOut \in Places /\ size - 1 \in 0 .. QueueMax /\ q.nNextIn = Wrapped(toOut + (size - 1))
    <2>1. size \in 0 .. QueueMax /\ size > 0 /\ size - 1 \in 0 .. QueueMax
      BY <1>1, SomeRoom
    <2>2. QED
      BY <1>1, <2>1, InPlace
  <1>5. r \in Ring /\ Whole(r)
    BY <1>1, <1>2, <1>3, <1>4 DEF Ring, Whole
  <1>6. FirstMessage(q) = Item(q, 1)
    <2>1. Wrapped(out + 1 - 1) = out
      BY <1>1, SomeRoom DEF Wrapped, Places
    <2>2. QED
      BY <2>1 DEF FirstMessage, Item, out
  <1>7. ASSUME NEW i \in 1 .. size - 1
        PROVE  Wrapped(toOut + i - 1) = Wrapped(out + (i + 1) - 1)
    <2>1. size \in 0 .. QueueMax /\ i \in 1 .. size /\ i < size
      BY <1>1, SomeRoom
    <2>2. QED
      BY <1>1, <2>1, OtherPlaces
  <1>8. QED
    BY <1>3, <1>5, <1>6, <1>7 DEF Item, out, size

LEMMA RingContents ==
  ASSUME NEW q \in Ring
  PROVE  /\ Contents(q) \in Seq(Nat) /\ Len(Contents(q)) = q.nSize
         /\ \A i \in 1 .. q.nSize : Contents(q)[i] = Item(q, i)
  <1>1. \A i \in 1 .. q.nSize :
          q.pAlloc[(q.nNextOut + i - 1) % q.nCapacity] = Item(q, i) /\ Item(q, i) \in Nat
    <2> SUFFICES ASSUME NEW i \in 1 .. q.nSize
                 PROVE  q.pAlloc[(q.nNextOut + i - 1) % q.nCapacity] = Item(q, i) /\ Item(q, i) \in Nat
      OBVIOUS
    <2>1. i \in 1 .. QueueMax /\ q.nCapacity = QueueMax
      <3>1. q.nSize \in 0 .. QueueMax /\ q.nCapacity = QueueMax
        BY RingFields
      <3>2. QED
        BY <3>1, SomeRoom
    <2>2. q.nNextOut + i - 1 \in Nat /\ q.nNextOut + i - 1 < QueueMax + QueueMax
      <3>1. q.nNextOut \in Places
        BY RingFields
      <3>2. QED
        BY <2>1, <3>1, SomeRoom DEF Places
    <2>3. (q.nNextOut + i - 1) % QueueMax = Wrapped(q.nNextOut + i - 1)
      BY <2>2, Wraps
    <2>4. QED
      BY <2>1, <2>3, RingFields DEF Item
  <1>2. Contents(q) = [i \in 1 .. q.nSize |-> Item(q, i)]
    BY <1>1, RingFields DEF Contents
  <1>3. q.nSize \in Nat
    <2>1. q.nSize \in 0 .. QueueMax
      BY RingFields
    <2>2. QED
      BY <2>1, SomeRoom
  <1>4. QED
    BY <1>1, <1>2, <1>3

(* A message newer than those of the ring, and one taken from it, leave    *)
(* its items in order.                                                     *)
LEMMA SentAscends ==
  ASSUME NEW q \in Ring, Whole(q), NEW m \in Nat, NEW from \in Nat, NEW to \in Nat,
         to < m, Ascending(q, from, to), NEW r, r = SendMessage(q, m)
  PROVE  Ascending(r, from, m)
  <1> DEFINE n == q.nSize
             k == r.nSize
             old == [i \in 1 .. n |-> Item(q, i)]
             new == [i \in 1 .. k |-> Item(r, i)]
  <1>1. /\ n \in Nat /\ k \in Nat /\ k > 0 /\ new[k] = m
        /\ \/ k = n + 1 /\ \A i \in 1 .. n : new[i] = old[i]
           \/ k = n /\ \A i \in 1 .. n - 1 : new[i] = old[i + 1]
    <2>1. /\ r \in Ring /\ k > 0 /\ Item(r, k) = m
          /\ \/ k = n + 1 /\ \A i \in 1 .. n : Item(r, i) = Item(q, i)
             \/ k = n /\ \A i \in 1 .. n - 1 : Item(r, i) = Item(q, i + 1)
      <3>1. r \in Ring /\ r.nSize > 0 /\ Item(r, r.nSize) = m
        BY SentRing
      <3>2. Kept(q, r) \/ Moved(q, r)
        BY SentRing
      <3>3. QED
        BY <3>1, <3>2 DEF Kept, Moved
    <2>2. n \in 0 .. QueueMax /\ k \in 0 .. QueueMax
      BY <2>1, RingFields
    <2> HIDE DEF n, k
    <2>3. QED
      BY <2>1, <2>2, SomeRoom
  <1>2. /\ n = 0 => from = to
        /\ n > 0 => from < old[1] /\ old[n] = to
        /\ \A i, j \in 1 .. n : i < j => old[i] < old[j]
        /\ \A i \in 1 .. n : old[i] \in Nat
    <2>1. \A i \in 1 .. n : Item(q, i) \in Nat
      <3>1. n \in 0 .. QueueMax /\ \A i \in 1 .. QueueMax : Item(q, i) \in Nat
        BY RingFields
      <3> HIDE DEF n
      <3>2. QED
        BY <3>1, SomeRoom
    <2>2. /\ n = 0 => from = to
          /\ n > 0 => from < Item(q, 1) /\ Item(q, n) = to
          /\ \A i, j \in 1 .. n : i < j => Item(q, i) < Item(q, j)
      BY DEF Ascending
    <2> HIDE DEF n
    <2>3. QED
      BY <1>1, <2>1, <2>2
  <1>3. from < new[1] /\ \A i, j \in 1 .. k : i < j => new[i] < new[j]
    <2> HIDE DEF n, k, old, new
    <2>1. \A i \in 1 .. n : old[i] <= to
      BY <1>1, <1>2
    <2>2. CASE k = n + 1 /\ \A i \in 1 .. n : new[i] = old[i]
      BY <1>1, <1>2, <2>1, <2>2
    <2>3. CASE k = n /\ \A i \in 1 .. n - 1 : new[i] = old[i + 1]
      BY <1>1, <1>2, <2>1, <2>3
    <2>4. QED
      BY <1>1, <2>2, <2>3
  <1>4. \A i \in 1 .. k : new[i] = Item(r, i)
    OBVIOUS
  <1>5. 1 \in 1 .. k /\ k \in 1 .. k
    <2> HIDE DEF k
    <2> QED BY <1>1
  <1>6. from < Item(r, 1) /\ Item(r, k) = m /\ k > 0
    BY <1>1, <1>3, <1>4, <1>5
  <1>7. \A i, j \in 1 .. k : i < j => Item(r, i) < Item(r, j)
    BY <1>3, <1>4
  <1>8. QED
    BY <1>6, <1>7 DEF Ascending

LEMMA ReceivedAscends ==
  ASSUME NEW q \in Ring, Whole(q), ~Empty(q), NEW from \in Nat, NEW to \in Nat,
         Ascending(q, from, to), NEW r, r = Received(q)
  PROVE  FirstMessage(q) \in Nat /\ Ascending(r, FirstMessage(q), to)
  <1> DEFINE n == q.nSize
             k == r.nSize
  <1>1. /\ k = n - 1 /\ FirstMessage(q) = Item(q, 1)
        /\ \A i \in 1 .. k : Item(r, i) = Item(q, i + 1)
    BY ReceivedRing
  <1>2. n \in Nat /\ n > 0 /\ Item(q, 1) \in Nat
    <2>1. n \in 0 .. QueueMax /\ n # 0
      BY RingFields DEF Empty
    <2>2. \A i \in 1 .. QueueMax : Item(q, i) \in Nat
      BY RingFields
    <2> HIDE DEF n
    <2>3. QED
      BY <2>1, <2>2, SomeRoom
  <1>3. /\ Item(q, n) = to
        /\ \A i, j \in 1 .. n : i < j => Item(q, i) < Item(q, j)
    BY <1>2 DEF Ascending
  <1> HIDE DEF n, k
  <1>4. k = 0 => Item(q, 1) = to
    BY <1>1, <1>2, <1>3
  <1>5. k > 0 => Item(q, 1) < Item(r, 1) /\ Item(r, k) = to
    BY <1>1, <1>2, <1>3
  <1>6. \A i, j \in 1 .. k : i < j => Item(r, i) < Item(r, j)
    BY <1>1, <1>2, <1>3
  <1>7. QED
    BY <1>1, <1>2, <1>4, <1>5, <1>6 DEF Ascending, k

-----------------------------------------------------------------------------
(* The slots of IO control.                                                *)
Below == {ss \in Nat \X Nat : ss[1] < ss[2]}

LEMMA LeastIn ==
  ASSUME NEW S \in SUBSET Sessions, S # {}
  PROVE  Least(S) \in S
  <1>1. S \in SUBSET Nat
    BY IoControlAssumption DEF Sessions
  <1>2. IsWellFoundedOn(Below, Nat)
    BY NatLessThanWellFounded DEF OpToRel, Below
  <1>3. \E x \in S : \A y \in S : <<y, x>> \notin Below
    BY <1>1, <1>2, WFMin
  <1>4. \E x \in S : \A y \in S : ~(y < x)
    BY <1>1, <1>3 DEF Below
  <1>5. \E x \in S : \A y \in S : x <= y
    BY <1>1, <1>4
  <1>6. QED
    BY <1>5 DEF Least

LEMMA NoneIsNoSlot == NoSession \notin Sessions
  BY IoControlAssumption DEF NoSession, Sessions

LEMMA SlotRing ==
  ASSUME IoTyped, NEW i \in Sessions
  PROVE  /\ Session[i].isUsed => Session[i] = [isUsed |-> TRUE, pQueue |-> Session[i].pQueue]
                                 /\ Session[i].pQueue \in Ring /\ Whole(Session[i].pQueue)
         /\ ~Session[i].isUsed => Session[i] = [isUsed |-> FALSE, pQueue |-> NoQueue]
  <1>1. Session[i] \in Used \cup NotUsed
    BY DEF IoTyped
  <1>2. CASE Session[i] \in Used
    BY <1>2 DEF Used
  <1>3. CASE Session[i] \in NotUsed
    BY <1>3 DEF NotUsed
  <1>4. QED
    BY <1>1, <1>2, <1>3

LEMMA RingIsUsed ==
  ASSUME NEW q \in Ring, Whole(q)
  PROVE  [isUsed |-> TRUE, pQueue |-> q] \in Used
  BY DEF Used

LEMMA QueueReplaced ==
  ASSUME NEW s, NEW q, NEW r, s = [isUsed |-> TRUE, pQueue |-> q]
  PROVE  [s EXCEPT !.pQueue = r] = [isUsed |-> TRUE, pQueue |-> r]
  <1> DEFINE t == [s EXCEPT !.pQueue = r]
  <1>1. t = [s EXCEPT !.pQueue = r]
    OBVIOUS
  <1> HIDE DEF t
  <1>2. t = [isUsed |-> TRUE, pQueue |-> r]
    BY <1>1
  <1>3. QED
    BY <1>2 DEF t

-----------------------------------------------------------------------------
(* The steps that leave the slots alone, and those of IO control.          *)
LEMMA InitControlInv == Init => ControlInv
  <1> SUFFICES ASSUME Init PROVE ControlInv
    OBVIOUS
  <1> USE DEF Init, IoInit, InstanceInit
  <1>1. [isUsed |-> FALSE, pQueue |-> NoQueue] \in NotUsed
    BY DEF NotUsed
  <1>2. IoTyped
    BY <1>1, NoneIsNoSlot DEF IoTyped, Doing
  <1>3. NewestLast /\ SlotAscends
    BY DEF NewestLast, SlotAscends
  <1>4. QED
    BY <1>2, <1>3 DEF ControlInv

LEMMA ControlFrame ==
  ASSUME ControlInv, UNCHANGED ioVars, tpc' = "control" => tpc = "control"
  PROVE  ControlInv'
  BY DEF ControlInv, IoTyped, NewestLast, SlotAscends, ioVars

(* A step of the program's thread that keeps its slot or gives it up.      *)
LEMMA SlotFrame ==
  ASSUME ControlInv, UNCHANGED <<Session, nMessageID, msgs, given, got>>,
         ctl' \in [pc : Doing, slot : {ctl.slot, NoSession}],
         tpc' = "control" => tpc = "control"
  PROVE  ControlInv'
  <1>1. IoTyped'
    BY DEF ControlInv, IoTyped
  <1>2. NewestLast' /\ SlotAscends'
    BY DEF ControlInv, NewestLast, SlotAscends
  <1>3. QED
    BY <1>1, <1>2 DEF ControlInv

LEMMA ThreadControl ==
  ASSUME ControlInv, Instance
  PROVE  ControlInv'
  <1>1. tpc' = "control" => tpc = "control"
    BY DEF Instance, LinkMqttThread, Calls, T, Until, Start, StartFails, ToConnect, ToLoop,
      ConnectLock, NetConnectFails, ConnectFails, Connect, OnEvent, OnEventPlain, EventEnds,
      RecoverHead, RecoverLock, RecoverNext, RecoverEnd, LoopLock, WaitMessage, WaitTimeout,
      WaitFails, Ping, PingFails, LoopEnd, Disconnect, NotConnected, LinkMqttDestroyInstance
  <1>2. QED
    BY <1>1, ControlFrame DEF Instance

LEMMA LogControl ==
  ASSUME ControlInv, Log
  PROVE  ControlInv'
  <1>1. tpc' = "control" => tpc = "control"
    BY DEF Log, LogMain, QnlinkingMQTT_LogThread, QnlinkingMQTT_MessageCallback, T,
      QnlinkingMQTT_Init, InitLog, QnlinkingMQTT_SendLog, QnlinkingMQTT_Cleanup, CleanupJoin,
      CleanupDestroy, LogReceive, LogTimeout, LogPublished, LogWhile,
      LinkMqttCreateInstance, LinkMqttDestroy, mqttVars
  <1>2. QED
    BY <1>1, ControlFrame DEF Log

LEMMA LinkInitIOCtrlControl ==
  ASSUME ControlInv, LinkInitIOCtrl
  PROVE  ControlInv'
  <1> DEFINE slot == Least(Unused)
             q == CreateMessageQueue(QueueMax)
  <1>1. slot \in Sessions /\ ~Session[slot].isUsed
    BY LeastIn DEF LinkInitIOCtrl, Unused
  <1>2. q \in Ring /\ Whole(q) /\ q.nSize = 0
    BY CreatedRing
  <1>3. [isUsed |-> TRUE, pQueue |-> q] \in Used
    BY <1>2, RingIsUsed
  <1> HIDE DEF slot, q
  <1>4. /\ ctl' = [pc |-> "subscribing", slot |-> slot]
        /\ Session' = [Session EXCEPT ![slot] = [isUsed |-> TRUE, pQueue |-> q]]
        /\ given' = 0 /\ got' = 0 /\ tpc' = tpc /\ UNCHANGED <<nMessageID, msgs>>
    BY DEF LinkInitIOCtrl, slot, q
  <1>5. Session'[slot] = [isUsed |-> TRUE, pQueue |-> q]
    BY <1>1, <1>4 DEF ControlInv, IoTyped
  <1>6. IoTyped'
    BY <1>1, <1>3, <1>4, <1>5 DEF ControlInv, IoTyped, Doing
  <1>7. NewestLast'
    BY <1>4 DEF ControlInv, NewestLast, IoTyped
  <1>8. SlotAscends'
    BY <1>2, <1>4, <1>5 DEF SlotAscends, Ascending
  <1>9. QED
    BY <1>6, <1>7, <1>8 DEF ControlInv

LEMMA OnIOCtrlMessageControl ==
  ASSUME ControlInv, OnIOCtrlMessage
  PROVE  ControlInv'
  <1>1. Unused # Sessions => Least(Sessions \ Unused) \in Sessions
    BY LeastIn DEF Unused
  <1>2. IoTyped'
    BY <1>1 DEF OnIOCtrlMessage, ControlInv, IoTyped
  <1>3. NewestLast'
    BY DEF OnIOCtrlMessage, ControlInv, NewestLast, IoTyped
  <1>4. SlotAscends'
    BY DEF OnIOCtrlMessage, ControlInv, SlotAscends
  <1>5. QED
    BY <1>2, <1>3, <1>4 DEF ControlInv

LEMMA SendToSessionControl ==
  ASSUME ControlInv, SendToSession
  PROVE  ControlInv'
  <1> USE DEF ControlInv
  <1>1. tpc = "control" /\ tpc' = "waited" /\ UNCHANGED <<ctl, msgs, got>> /\ nMessageID' = NoSession
    BY DEF SendToSession, T
  <1>2. CASE nMessageID = NoSession
    <2>1. UNCHANGED <<Session, given>>
      BY <1>2 DEF SendToSession
    <2>2. QED
      BY <1>1, <2>1 DEF IoTyped, NewestLast, SlotAscends
  <1>3. CASE nMessageID # NoSession
    <2> DEFINE k == nMessageID
               q == Session[k].pQueue
               r == SendMessage(q, msgs)
    <2>1. k \in Sessions /\ k # NoSession
      BY <1>3 DEF IoTyped
    <2>2. /\ Session' = [Session EXCEPT ![k].pQueue = r]
          /\ given' = IF k = ctl.slot THEN msgs ELSE given
      BY <1>3 DEF SendToSession
    <2>3. /\ Session[k].isUsed => /\ Session[k] = [isUsed |-> TRUE, pQueue |-> q]
                                  /\ q \in Ring /\ Whole(q)
          /\ ~Session[k].isUsed => Session[k] = [isUsed |-> FALSE, pQueue |-> NoQueue]
      BY <2>1, SlotRing
    <2>4. NewestLast'
      BY <1>1, <2>2 DEF NewestLast, IoTyped
    <2>5. CASE ~Session[k].isUsed
      <3>1. r = q
        BY <2>3, <2>5 DEF SendMessage, NoQueue
      <3>2. k # ctl.slot
        BY <2>1, <2>5 DEF IoTyped
      <3>3. Session' = Session
        <4>1. [Session[k] EXCEPT !.pQueue = r] = Session[k]
          BY <2>3, <2>5, <3>1
        <4>2. Session' = [Session EXCEPT ![k] = [Session[k] EXCEPT !.pQueue = r]]
          BY <2>2
        <4>3. QED
          BY <2>1, <4>1, <4>2 DEF IoTyped
      <3>4. QED
        BY <1>1, <2>2, <2>4, <3>2, <3>3 DEF IoTyped, SlotAscends
    <2>6. CASE Session[k].isUsed
      <3>1. q \in Ring /\ Whole(q) /\ msgs \in Nat /\ given < msgs
        BY <1>1, <2>3, <2>6 DEF IoTyped, NewestLast
      <3>2. r \in Ring /\ Whole(r)
        BY <3>1, SentRing
      <3>3. Session' = [Session EXCEPT ![k] = [isUsed |-> TRUE, pQueue |-> r]]
        <4>1. [Session[k] EXCEPT !.pQueue = r] = [isUsed |-> TRUE, pQueue |-> r]
          BY <2>3, <2>6, QueueReplaced
        <4>2. Session' = [Session EXCEPT ![k] = [Session[k] EXCEPT !.pQueue = r]]
          BY <2>2
        <4>3. QED
          BY <4>1, <4>2
      <3>4. [isUsed |-> TRUE, pQueue |-> r] \in Used
        BY <3>2, RingIsUsed
      <3>5. k = ctl.slot => Ascending(r, got, msgs)
        <4>1. ASSUME k = ctl.slot PROVE Ascending(q, got, given)
          BY <4>1, <2>1 DEF SlotAscends
        <4>2. got \in Nat /\ given \in Nat
          BY DEF IoTyped
        <4>3. QED
          BY <3>1, <4>1, <4>2, SentAscends
      <3> HIDE DEF k, q, r
      <3>6. Session'[k] = [isUsed |-> TRUE, pQueue |-> r] /\ \A i \in Sessions \ {k} : Session'[i] = Session[i]
        BY <2>1, <3>3 DEF IoTyped
      <3>7. IoTyped'
        BY <1>1, <2>1, <2>2, <3>3, <3>4, <3>6 DEF IoTyped
      <3>8. SlotAscends'
        <4>1. CASE k = ctl.slot
          BY <1>1, <2>2, <3>5, <3>6, <4>1 DEF SlotAscends
        <4>2. CASE k # ctl.slot
          BY <1>1, <2>2, <3>6, <4>2 DEF SlotAscends, IoTyped
        <4>3. QED
          BY <4>1, <4>2
      <3>9. QED
        BY <2>4, <3>7, <3>8
    <2>7. QED
      BY <2>5, <2>6
  <1>4. QED
    BY <1>2, <1>3

LEMMA LinkRecvIOCtrlControl ==
  ASSUME ControlInv, LinkRecvIOCtrl
  PROVE  ControlInv'
  <1> USE DEF ControlInv
  <1> DEFINE k == ctl.slot
             q == Session[k].pQueue
             r == Received(q)
  <1>1. /\ k # NoSession /\ ~Empty(q) /\ got' = FirstMessage(q)
        /\ Session' = [Session EXCEPT ![k].pQueue = r]
        /\ ctl' = [ctl EXCEPT !.pc = "answer"]
        /\ UNCHANGED <<nMessageID, msgs, given, tpc>>
    BY DEF LinkRecvIOCtrl, mqttVars
  <1>2. k \in Sessions /\ Session[k].isUsed
    BY <1>1 DEF IoTyped
  <1>3. q \in Ring /\ Whole(q) /\ Session[k] = [isUsed |-> TRUE, pQueue |-> q]
    BY <1>2, SlotRing
  <1>4. got \in Nat /\ given \in Nat /\ Ascending(q, got, given)
    BY <1>1 DEF IoTyped, SlotAscends
  <1>5. r \in Ring /\ Whole(r)
    BY <1>1, <1>3, ReceivedRing
  <1>6. got' \in Nat /\ Ascending(r, got', given)
    BY <1>1, <1>3, <1>4, ReceivedAscends
  <1>7. [isUsed |-> TRUE, pQueue |-> r] \in Used
    BY <1>5, RingIsUsed
  <1>8. Session' = [Session EXCEPT ![k] = [isUsed |-> TRUE, pQueue |-> r]]
    <2>1. [Session[k] EXCEPT !.pQueue = r] = [isUsed |-> TRUE, pQueue |-> r]
      BY <1>3, QueueReplaced
    <2>2. Session' = [Session EXCEPT ![k] = [Session[k] EXCEPT !.pQueue = r]]
      BY <1>1
    <2>3. QED
      BY <2>1, <2>2
  <1>9. ctl'.slot = k /\ ctl' \in [pc : Doing, slot : Sessions \cup {NoSession}]
    BY <1>1 DEF IoTyped, Doing
  <1> HIDE DEF k, q, r
  <1>10. Session'[k] = [isUsed |-> TRUE, pQueue |-> r]
    BY <1>2, <1>8 DEF IoTyped
  <1>11. IoTyped'
    BY <1>1, <1>2, <1>6, <1>7, <1>8, <1>9, <1>10 DEF IoTyped
  <1>12. NewestLast'
    BY <1>1 DEF NewestLast
  <1>13. SlotAscends'
    BY <1>1, <1>6, <1>9, <1>10 DEF SlotAscends
  <1>14. QED
    BY <1>11, <1>12, <1>13

LEMMA LinkDinitIOCtrlControl ==
  ASSUME ControlInv, LinkDinitIOCtrl
  PROVE  ControlInv'
  <1> USE DEF ControlInv, LinkDinitIOCtrl
  <1>1. ctl'.slot = NoSession /\ ctl' \in [pc : Doing, slot : Sessions \cup {NoSession}]
    BY DEF IoTyped
  <1>2. [isUsed |-> FALSE, pQueue |-> NoQueue] \in NotUsed
    BY DEF NotUsed
  <1>3. IoTyped'
    BY <1>1, <1>2 DEF IoTyped
  <1>4. NewestLast'
    BY DEF NewestLast, IoTyped, mqttVars
  <1>5. SlotAscends'
    BY <1>1 DEF SlotAscends
  <1>6. QED
    BY <1>3, <1>4, <1>5

LEMMA OtherControl ==
  ASSUME ControlInv,
         \/ IoCreate \/ InitIOCtrlReturns \/ LinkSendIOResponse \/ Answered \/ IoDestroy
         \/ (\E topic \in Topics : IoUnsubscribe(topic)) \/ IoUnsubscribed \/ OtherMessage
  PROVE  ControlInv'
  <1> USE DEF IoCreate, InitIOCtrlReturns, LinkSendIOResponse, Answered, IoDestroy,
              IoUnsubscribe,
              IoUnsubscribed, OtherMessage, LinkMqttCreateInstance, LinkMqttDestroy, T, ioVars
  <1>1. UNCHANGED <<Session, nMessageID, msgs, given, got>> /\ (tpc' = "control" => tpc = "control")
    OBVIOUS
  <1>2. ctl \in [pc : Doing, slot : Sessions \cup {NoSession}]
    BY DEF ControlInv, IoTyped
  <1>3. ctl' \in [pc : Doing, slot : {ctl.slot, NoSession}]
    BY <1>2 DEF Doing
  <1>4. QED
    BY <1>1, <1>3, SlotFrame

(* The slot the program holds is in use, what it was given is in the       *)
(* order it came, and nothing on its way is older.                         *)
THEOREM ControlInvariant == Spec => []ControlInv
  <1>1. ControlInv /\ [Next]_vars => ControlInv'
    <2> SUFFICES ASSUME ControlInv, [Next]_vars PROVE ControlInv'
      OBVIOUS
    <2>1. CASE Log
      BY <2>1, LogControl
    <2>2. CASE Io
      BY <2>2, LinkInitIOCtrlControl, OnIOCtrlMessageControl, SendToSessionControl,
         LinkRecvIOCtrlControl, LinkDinitIOCtrlControl, OtherControl
      DEF Io, IoProgram, IoCallback
    <2>3. CASE Instance
      BY <2>3, ThreadControl
    <2>4. CASE UNCHANGED vars
      BY <2>4, ControlFrame DEF vars, mqttVars
    <2>5. QED
      BY <2>1, <2>2, <2>3, <2>4 DEF Next
  <1>2. QED
    BY InitControlInv, <1>1, PTL DEF Spec

LEMMA AscendingKept ==
  ASSUME NEW q \in Ring, NEW from \in Nat, NEW to \in Nat, Ascending(q, from, to)
  PROVE  LET kept == <<from>> \o Contents(q) IN
           /\ \A i, j \in DOMAIN kept : i < j => kept[i] < kept[j]
           /\ Last(kept) = to
  <1> DEFINE n == q.nSize
             c == Contents(q)
             kept == <<from>> \o c
  <1>1. c \in Seq(Nat) /\ Len(c) = n /\ \A i \in 1 .. n : c[i] = Item(q, i)
    BY RingContents
  <1>2. n \in Nat
    BY <1>1
  <1>3. /\ n = 0 => from = to
        /\ n > 0 => from < c[1] /\ c[n] = to
        /\ \A i, j \in 1 .. n : i < j => c[i] < c[j]
    BY <1>1, <1>2 DEF Ascending
  <1> HIDE DEF n, c
  <1>4. /\ kept \in Seq(Nat) /\ Len(kept) = n + 1 /\ kept[1] = from
        /\ \A i \in 2 .. n + 1 : kept[i] = c[i - 1]
    BY <1>1, <1>2
  <1>5. \A i, j \in 1 .. n + 1 : i < j => kept[i] < kept[j]
    <2> SUFFICES ASSUME NEW i \in 1 .. n + 1, NEW j \in 1 .. n + 1, i < j
                 PROVE  kept[i] < kept[j]
      OBVIOUS
    <2>1. j \in 2 .. n + 1 /\ j - 1 \in 1 .. n /\ kept[j] = c[j - 1]
      BY <1>2, <1>4
    <2>2. \A m \in 1 .. n : c[m] \in Nat
      BY <1>1, <1>2
    <2> HIDE DEF kept
    <2>3. CASE i = 1
      <3>1. kept[i] = from /\ from < c[1] /\ 1 \in 1 .. n
        BY <1>2, <1>3, <1>4, <2>1, <2>3
      <3>2. j - 1 = 1 \/ c[1] < c[j - 1]
        BY <1>3, <2>1, <3>1
      <3>3. QED
        BY <2>1, <2>2, <3>1, <3>2
    <2>4. CASE i # 1
      <3>1. i \in 2 .. n + 1 /\ i - 1 \in 1 .. n /\ i - 1 < j - 1 /\ kept[i] = c[i - 1]
        <4>1. i \in Nat /\ j \in Nat /\ i >= 1 /\ i <= n + 1
          BY <1>2
        <4>2. i \in 2 .. n + 1
          BY <1>2, <2>4, <4>1
        <4>3. kept[i] = c[i - 1]
          BY <1>4, <4>2
        <4>4. i - 1 \in 1 .. n /\ i - 1 < j - 1
          BY <1>2, <4>1, <4>2
        <4>5. QED
          BY <4>2, <4>3, <4>4
      <3>2. QED
        BY <1>3, <2>1, <3>1
    <2>5. QED
      BY <2>3, <2>4
  <1>6. Last(kept) = to
    <2>1. Last(kept) = kept[n + 1]
      BY <1>4 DEF Last
    <2> HIDE DEF kept
    <2>2. QED
      BY <1>2, <1>3, <1>4, <2>1
  <1>7. DOMAIN kept = 1 .. n + 1
    BY <1>2, <1>4
  <1>8. QED
    BY <1>5, <1>6, <1>7 DEF c

(* Through SendMessage, ReceiveMessage and a ring that gives up its oldest *)
(* message, a session receives the messages it was sent in order, each     *)
(* once, and the queue holds the newest.                                   *)
THEOREM ControlKeepsOrder == Spec => []ControlInOrder
  <1>1. ControlInv => ControlInOrder
    <2> SUFFICES ASSUME ControlInv, ctl.slot # NoSession
                 PROVE  LET kept == <<got>> \o Contents(Session[ctl.slot].pQueue) IN
                          /\ \A i, j \in DOMAIN kept : i < j => kept[i] < kept[j]
                          /\ Last(kept) = given
      BY DEF ControlInOrder
    <2>1. Session[ctl.slot].pQueue \in Ring
      BY SlotRing DEF ControlInv, IoTyped
    <2>2. Ascending(Session[ctl.slot].pQueue, got, given) /\ got \in Nat /\ given \in Nat
      BY DEF ControlInv, SlotAscends, IoTyped
    <2>3. QED
      BY <2>1, <2>2, AscendingKept
  <1>2. QED
    BY ControlInvariant, <1>1, PTL

=============================================================================
