------------------------------ MODULE MqttInstance ------------------------------
(***************************************************************************)
(* libmqtt/mqtt.c and libmqtt/wolfmqtt: one MQTT instance, the thread that *)
(* keeps it connected and a thread that publishes and subscribes.          *)
(*                                                                         *)
(* A call of the wolfMQTT library, which is not in src/, works on a        *)
(* context (pInstance->mosq).  A lost connection replaces the context      *)
(* inside that call (OnDisconnectCallback), on whatever thread made it.    *)
(* Calls read the context before they take listMutex, so that a call may   *)
(* find its context replaced: it then fails.  Contexts are numbered;       *)
(* MaxCtx bounds them, so the connections lost.                            *)
(***************************************************************************)
EXTENDS Integers, Sequences, FiniteSets, SequencesExt

CONSTANTS
  Topics, NoTopic,   \* topics one subscribes to
  EventTopic,        \* what the program's OnEvent may subscribe to
  MaxCtx,            \* contexts of one run
  MaxList,           \* subscriptions of one run
  nKeepalive         \* options.nKeepalive, in waits of one second

ASSUME MqttInstanceAssumption ==
  /\ NoTopic \notin Topics /\ EventTopic \in Topics
  /\ MaxCtx \in Nat \ {0} /\ MaxList \in Nat /\ nKeepalive \in Nat \ {0}

Mqtt == "mqtt"       \* the instance's thread
User == "user"       \* the thread that calls the API
Threads == {Mqtt, User}
NoOne == "none"

VARIABLES
  inst,       \* the instance: none, live or freed
  mosq,       \* the number of its context
  open,       \* contexts whose buffers exist
  connected, status, isDestroying,
  list,       \* pSubsribeList
  listMutex, netMutex,
  tpc,        \* where LinkMqttThread is
  th,         \* per thread: its call of the API or of wolfMQTT
  todo,       \* topics RecoverSub has before it
  nWait,      \* nWaitTimeoutCount of the context
  filter,     \* topics[0].topic_filter of the context
  sock,       \* SocketContext.stat of the context: "begin" or "conn"
  link,       \* the broker: the context it is connected to, or 0
  subs,       \* the broker: the session's subscriptions
  lost        \* history: topics the broker was not, or wrongly, asked for

net == <<mosq, open, connected, status, sock, link>>
flags == <<inst, isDestroying>>
topics == <<list, todo, filter, subs, lost>>
mqttVars == <<net, flags, topics, listMutex, netMutex, tpc, th, nWait>>

Idle == [pc |-> "idle", op |-> "none", ctx |-> 0, topic |-> NoTopic, back |-> "idle"]

(* LinkMqttInstanceInit comes with LinkMqttCreateInstance.                 *)
InstanceInit ==
  /\ inst = "none" /\ mosq = 0 /\ open = {} /\ connected = FALSE /\ status = "IDLE"
  /\ isDestroying = FALSE /\ list = <<>> /\ listMutex = NoOne /\ netMutex = NoOne
  /\ tpc = "none" /\ th = [t \in Threads |-> Idle] /\ todo = <<>> /\ nWait = 0
  /\ filter = NoTopic /\ sock = "begin" /\ link = 0 /\ subs = {} /\ lost = {}

LinkMqttCreateInstance ==
  /\ inst = "none" /\ inst' = "live" /\ tpc' = "start"
  /\ UNCHANGED <<net, isDestroying, topics, listMutex, netMutex, th, nWait>>

LinkMqttDestroy ==
  /\ isDestroying' = TRUE
  /\ UNCHANGED <<net, inst, topics, listMutex, netMutex, tpc, th, nWait>>

LinkMqttIsConnected == inst = "live" /\ connected

-----------------------------------------------------------------------------
(* The socket (mqttnet.c) for what happens on the line, and how it leaves  *)
(* a library call.                                                         *)

(* A peer that closed, and an error the socket no longer holds, read as 0. *)
NetRead(e) ==
  CASE e = "data" -> "bytes" [] e = "silence" -> "timeout"
    [] e = "closed" -> "zero" [] e = "reset" -> "network"

NetWrite(e) == CASE e = "sent" -> "bytes" [] e = "closed" -> "zero" [] e = "reset" -> "network"

Linked(c) == c \in open /\ link = c

(* External: what a call on context c can return, from what the socket     *)
(* gives it as it writes and then reads: the answer may be a refusal.  A   *)
(* context that was closed has no socket functions left.                   *)
Returns(c) ==
  {"error"} \cup
  {r \in {"ok", "timeout"} :
    Linked(c) /\ \E w \in {"sent", "closed", "reset"}, e \in {"data", "silence", "closed", "reset"} :
      NetWrite(w) = "bytes" /\ NetRead(e) = (IF r = "ok" THEN "bytes" ELSE "timeout")}

(* A failed call of thread t, which goes on at back: wolfMQTT may report   *)
(* the error to OnDisconnectCallback first, a timeout goes unheard there.  *)
Loses(t, back) ==
  mosq < MaxCtx /\ connected /\ th' = [th EXCEPT ![t].pc = "lost", ![t].back = back]
FailsTo(t, back) == th' = [th EXCEPT ![t].pc = back] \/ Loses(t, back)

(* OnDisconnectCallback, past its first look at connected: it takes        *)
(* netMutex, looks again, clears connected ...                             *)
OnDisconnect(t) ==
  /\ th[t].pc = "lost" /\ netMutex = NoOne
  /\ netMutex' = (IF connected THEN t ELSE NoOne) /\ connected' = FALSE
  /\ th' = [th EXCEPT ![t].pc = IF connected THEN "replace" ELSE th[t].back]
  /\ UNCHANGED <<mosq, open, status, sock, link, flags, topics, listMutex, tpc, nWait>>

(* ... and replaces the context, LinkMqttDinit and LinkMqttInit, unless    *)
(* the instance is being destroyed.                                        *)
Replace(t) ==
  /\ th[t].pc = "replace"
  /\ IF isDestroying THEN UNCHANGED <<mosq, open, nWait, filter, sock>>
     ELSE /\ mosq' = mosq + 1 /\ open' = (open \ {mosq}) \cup {mosq + 1}
          /\ nWait' = 0 /\ filter' = NoTopic /\ sock' = "begin"
  /\ link' = 0
  /\ status' = "CONNECT_ERROR" /\ netMutex' = NoOne
  /\ th' = [th EXCEPT ![t].pc = th[t].back]
  /\ UNCHANGED <<connected, flags, list, todo, subs, lost, listMutex, tpc>>

-----------------------------------------------------------------------------
(* LinkMqttPublish, LinkMqttSubscribe and LinkMqttUnsubscribe up to the    *)
(* mutex.  The last two put their topic into the context, before it.       *)
Begin(t, op, topic) ==
  /\ th[t].pc = "idle"
  /\ th' = [th EXCEPT ![t] = [Idle EXCEPT !.pc = "lock", !.op = op, !.ctx = mosq, !.topic = topic]]
  /\ filter' = IF op = "publish" THEN filter ELSE topic
  /\ UNCHANGED <<net, flags, list, todo, subs, lost, listMutex, netMutex, nWait>>

Lock(t) ==
  /\ th[t].pc = "lock" /\ listMutex = NoOne /\ listMutex' = t
  /\ th' = [th EXCEPT ![t].pc = "call"]
  /\ UNCHANGED <<net, flags, topics, netMutex, tpc, nWait>>

(* The call, what follows it under the mutex, and its result.              *)
Leave(t, result) == listMutex' = NoOne /\ th' = [th EXCEPT ![t].pc = result]

CallFails(t) ==
  /\ th[t].pc = "call"
  /\ \/ Leave(t, "failed")
     \/ /\ th[t].op = "publish" => connected
        /\ "error" \in Returns(th[t].ctx) /\ Loses(t, "unlock") /\ listMutex' = listMutex
  /\ UNCHANGED <<net, flags, topics, netMutex, tpc, nWait>>

Unlock(t) ==
  /\ th[t].pc = "unlock" /\ Leave(t, "failed")
  /\ UNCHANGED <<net, flags, topics, netMutex, tpc, nWait>>

Succeeds(t, op) ==
  th[t].pc = "call" /\ th[t].op = op /\ "ok" \in Returns(th[t].ctx)

Published(t) ==
  /\ Succeeds(t, "publish") /\ connected /\ Leave(t, "ok")
  /\ UNCHANGED <<net, flags, topics, netMutex, tpc, nWait>>

(* The broker is asked for the topic the context holds now, which another  *)
(* thread may have written; InsertNode keeps the caller's.                 *)
InsertNode(topic) == list' = Append(list, topic)

Subscribed(t) ==
  /\ Succeeds(t, "subscribe") /\ Leave(t, "ok")
  /\ subs' = subs \cup {filter} /\ InsertNode(th[t].topic)
  /\ lost' = lost \cup ({th[t].topic} \ {filter})
  /\ UNCHANGED <<net, flags, todo, filter, netMutex, tpc, nWait>>

(* DeleteNode looks at the first node only: for another topic it never     *)
(* ends, with listMutex held.                                              *)
Spins(topic) == list # <<>> /\ Head(list) # topic

Unsubscribed(t) ==
  /\ Succeeds(t, "unsubscribe")
  /\ subs' = subs \ {filter} /\ lost' = lost \cup {filter}
  /\ IF Spins(th[t].topic)
     THEN UNCHANGED <<list, listMutex>> /\ th' = [th EXCEPT ![t].pc = "spin"]
     ELSE list' = (IF list = <<>> THEN list ELSE Tail(list)) /\ Leave(t, "ok")
  /\ UNCHANGED <<net, flags, todo, filter, netMutex, tpc, nWait>>

Calls(t) ==
  \/ OnDisconnect(t) \/ Replace(t) \/ Lock(t) \/ CallFails(t)
  \/ Published(t) \/ Subscribed(t) \/ Unsubscribed(t) \/ Unlock(t)

Returned(t) == th[t].pc \in {"ok", "failed"}

-----------------------------------------------------------------------------
(* LinkMqttThread.  Until is the test of its loop.                         *)
T(from, to) == tpc = from /\ tpc' = to
Until(from) == T(from, IF isDestroying THEN "end" ELSE "test")
Ready == th[Mqtt].pc = "idle"

(* LinkMqttInit, for the first context; without one the thread frees the   *)
(* instance, which its creator goes on using.                              *)
Start ==
  /\ T("start", "test") /\ mosq' = 1 /\ open' = {1}
  /\ UNCHANGED <<connected, status, sock, link, flags, topics, listMutex, netMutex, th, nWait>>
StartFails ==
  /\ T("start", "over") /\ inst' = "freed"
  /\ UNCHANGED <<net, isDestroying, topics, listMutex, netMutex, th, nWait>>

(* The body of the loop chooses.                                           *)
ToConnect ==
  /\ T("test", "connect") /\ ~connected /\ status # "CONNECTING"
  /\ status' = "CONNECTING" /\ th' = [th EXCEPT ![Mqtt].ctx = mosq]
  /\ UNCHANGED <<mosq, open, connected, sock, link, flags, topics, listMutex, netMutex, nWait>>
ToLoop ==
  /\ T("test", "loop") /\ connected /\ status # "CONNECTING"
  /\ th' = [th EXCEPT ![Mqtt].ctx = mosq]
  /\ UNCHANGED <<net, flags, topics, listMutex, netMutex, nWait>>

(* LinkMqttConnect: it holds netMutex up to the answer of the broker.      *)
ConnectLock ==
  /\ T("connect", "connecting") /\ netMutex = NoOne /\ netMutex' = Mqtt
  /\ UNCHANGED <<net, flags, topics, listMutex, th, nWait>>

(* MqttClient_NetConnect: the name is resolved once per context; a refused *)
(* connection whose error the socket no longer holds counts as made.       *)
NetConnect(resolved, made, soError) ==
  IF sock = "begin" /\ ~resolved THEN "error" ELSE IF made \/ soError = 0 THEN "ok" ELSE "error"
SockAfter(resolved) == IF sock = "begin" /\ ~resolved THEN "begin" ELSE "conn"

NetConnectFailsStays ==  \* faulty variant: the status is left as it was
  /\ Until("connecting") /\ netMutex' = NoOne
  /\ th' = [th EXCEPT ![Mqtt] = Idle]
  /\ UNCHANGED <<net, flags, topics, listMutex, nWait>>

NetConnectFails ==
  /\ Until("connecting") /\ netMutex' = NoOne /\ status' = "CONNECT_ERROR"
  /\ IF th[Mqtt].ctx \notin open THEN sock' = sock
     ELSE \E resolved, made \in BOOLEAN, soError \in {0, 1} :
            NetConnect(resolved, made, soError) = "error" /\ sock' = SockAfter(resolved)
  /\ th' = [th EXCEPT ![Mqtt] = Idle]
  /\ UNCHANGED <<mosq, open, connected, link, flags, topics, listMutex, nWait>>

(* Refused, or the broker does not answer: the subscriptions are recovered *)
(* all the same.                                                           *)
ConnectFails ==
  /\ T("connecting", "head") /\ th[Mqtt].ctx \in open
  /\ sock' = "conn" /\ netMutex' = NoOne
  /\ th' = [th EXCEPT ![Mqtt].op = "refused"]
  /\ UNCHANGED <<mosq, open, connected, status, link, flags, topics, listMutex, nWait>>

(* MqttClient_Connect succeeds.  The session is clean: the broker has none *)
(* of its subscriptions yet.                                               *)
Connect ==
  /\ T("connecting", "event") /\ th[Mqtt].ctx \in open
  /\ \E resolved, made \in BOOLEAN : NetConnect(resolved, made, 0) = "ok" /\ sock' = SockAfter(resolved)
  /\ link' = th[Mqtt].ctx /\ subs' = {} /\ lost' = {}
  /\ connected' = TRUE /\ status' = "CONNACK_RECVD" /\ netMutex' = NoOne
  /\ th' = [th EXCEPT ![Mqtt].op = "accepted"]
  /\ UNCHANGED <<mosq, open, flags, list, todo, filter, listMutex, nWait>>

(* OnEventCallback for the success: the program may subscribe there.       *)
OnEvent ==
  /\ T("event", "subscribing") /\ Ready /\ Len(list) < MaxList
  /\ Begin(Mqtt, "subscribe", EventTopic)
OnEventPlain ==
  /\ T("event", "head")
  /\ UNCHANGED <<net, flags, topics, listMutex, netMutex, th, nWait>>
EventEnds ==
  /\ T("subscribing", "head") /\ Returned(Mqtt)
  /\ th' = [th EXCEPT ![Mqtt] = [Idle EXCEPT !.op = "accepted"]]
  /\ UNCHANGED <<net, flags, topics, listMutex, netMutex, nWait>>

(* RecoverSub looks at the head of the list before it takes the mutex ...  *)
RecoverHead ==
  /\ T("head", "recover") /\ todo' = list
  /\ th' = [th EXCEPT ![Mqtt].ctx = mosq]
  /\ UNCHANGED <<net, flags, list, filter, subs, lost, listMutex, netMutex, nWait>>

RecoverLockNext ==  \* faulty variant: it starts behind the first topic
  /\ T("recover", "resubscribe") /\ listMutex = NoOne /\ listMutex' = Mqtt
  /\ todo' = IF list = <<>> THEN list ELSE Tail(list)
  /\ UNCHANGED <<net, flags, list, filter, subs, lost, netMutex, th, nWait>>

(* ... and walks it from there: what was appended meanwhile is seen, what  *)
(* was appended to an empty list is not.                                   *)
RecoverLock ==
  /\ T("recover", "resubscribe") /\ listMutex = NoOne /\ listMutex' = Mqtt
  /\ todo' = IF todo # <<>> /\ list # <<>> /\ Head(todo) = Head(list) THEN list ELSE todo
  /\ UNCHANGED <<net, flags, list, filter, subs, lost, netMutex, th, nWait>>

RecoverNext ==
  /\ tpc = "resubscribe" /\ Ready /\ todo # <<>>
  /\ todo' = Tail(todo) /\ tpc' = tpc
  /\ filter' = IF th[Mqtt].ctx = mosq THEN Head(todo) ELSE filter
  /\ \/ /\ "ok" \in Returns(th[Mqtt].ctx)
        /\ subs' = subs \cup {Head(todo)} /\ UNCHANGED <<lost, th>>
     \/ /\ lost' = lost \cup {Head(todo)} /\ subs' = subs
        /\ FailsTo(Mqtt, "idle")
  /\ UNCHANGED <<net, flags, list, listMutex, netMutex, nWait>>

(* The end of LinkMqttConnect; its error is the refusal's, not that of a   *)
(* subscription.                                                           *)
RecoverEnd ==
  /\ Until("resubscribe") /\ Ready /\ todo = <<>> /\ listMutex' = NoOne
  /\ status' = IF th[Mqtt].op = "refused" THEN "CONNECT_ERROR" ELSE status
  /\ th' = [th EXCEPT ![Mqtt] = Idle]
  /\ UNCHANGED <<mosq, open, connected, sock, link, flags, topics, netMutex, nWait>>

(* LinkMqttLoop works on a copy of the client made before the mutex.       *)
LoopLock ==
  /\ T("loop", "wait") /\ listMutex = NoOne /\ listMutex' = Mqtt
  /\ UNCHANGED <<net, flags, topics, netMutex, th, nWait>>

(* A message: what OnMessageCallback does with it is the program's part.   *)
WaitMessage ==
  /\ T("wait", "message") /\ "ok" \in Returns(th[Mqtt].ctx)
  /\ UNCHANGED <<net, flags, topics, listMutex, netMutex, th, nWait>>
WaitTimeout ==
  /\ tpc = "wait" /\ "timeout" \in Returns(th[Mqtt].ctx)
  /\ nWait' = nWait + 1
  /\ tpc' = IF nWait + 1 >= nKeepalive THEN "ping" ELSE "waited"
  /\ UNCHANGED <<net, flags, topics, listMutex, netMutex, th>>
WaitFails ==
  /\ T("wait", "waited") /\ FailsTo(Mqtt, "idle")
  /\ UNCHANGED <<net, flags, topics, listMutex, netMutex, nWait>>

(* The pings.  When none is answered the connection is kept all the same.  *)
Ping ==
  /\ T("ping", "waited") /\ nWait' = 0
  /\ \/ "ok" \in Returns(th[Mqtt].ctx) \/ "timeout" \in Returns(th[Mqtt].ctx)
     \/ ~connected
  /\ UNCHANGED <<net, flags, topics, listMutex, netMutex, th>>
PingFails ==
  /\ T("ping", "waited") /\ nWait' = 0 /\ FailsTo(Mqtt, "idle")
  /\ UNCHANGED <<net, flags, topics, listMutex, netMutex>>

LoopEnd ==
  /\ Until("waited") /\ Ready /\ listMutex' = NoOne
  /\ th' = [th EXCEPT ![Mqtt] = Idle]
  /\ UNCHANGED <<net, flags, topics, netMutex, nWait>>

(* LinkMqttDisconnect, LinkMqttDinit and LinkMqttDestroyInstance.          *)
Disconnect ==
  /\ T("end", "deinit") /\ connected /\ netMutex = NoOne
  /\ connected' = FALSE /\ link' = 0 /\ sock' = "begin"
  /\ UNCHANGED <<mosq, open, status, flags, topics, listMutex, netMutex, th, nWait>>
NotConnected ==
  /\ T("end", "deinit") /\ ~connected
  /\ UNCHANGED <<net, flags, topics, listMutex, netMutex, th, nWait>>
LinkMqttDestroyInstance ==
  /\ T("deinit", "over") /\ inst' = "freed"
  /\ open' = open \ {mosq} /\ list' = <<>>
  /\ UNCHANGED <<mosq, connected, status, sock, link, isDestroying, todo, filter, subs, lost,
                 listMutex, netMutex, th, nWait>>

LinkMqttThread ==
  \/ Start \/ StartFails \/ ToConnect \/ ToLoop
  \/ ConnectLock \/ NetConnectFails \/ ConnectFails \/ Connect
  \/ OnEvent \/ OnEventPlain \/ EventEnds
  \/ RecoverHead \/ RecoverLock \/ RecoverNext \/ RecoverEnd
  \/ LoopLock \/ WaitTimeout \/ WaitFails \/ Ping \/ PingFails \/ LoopEnd
  \/ Disconnect \/ NotConnected \/ LinkMqttDestroyInstance
=============================================================================
