------------------------------- MODULE IoControl -------------------------------
(***************************************************************************)
(* libmqtt/control.c: sessions of IO control over an instance the program  *)
(* owns.  The instance's thread hands control messages to the queue of a   *)
(* session, from which a thread of the program receives and answers them.  *)
(***************************************************************************)
EXTENDS MqttInstance, MessageQueue

CONSTANTS
  Ctl,          \* the request topic of the device
  NSessions,    \* MAX_SESSION_ID
  QueueMax,     \* MESSAGE_QUEUE_MAX
  MaxMsg,       \* control messages of one run
  MaxInit       \* calls of LinkInitIOCtrl until the client has its n-th context

ASSUME IoControlAssumption ==
  /\ Ctl \in Topics
  /\ NSessions \in Nat \ {0} /\ QueueMax \in Nat \ {0} /\ MaxMsg \in Nat
  /\ MaxInit \in [0 .. MaxCtx -> Nat]

VARIABLES
  Session,     \* per slot: isUsed and pQueue
  nMessageID,  \* the slot OnIOCtrlMessage chose
  ctl,         \* the program's thread: what it does and the slot it holds
  msgs,        \* history: control messages that arrived
  given,       \* history: the last one handed to the slot the program holds
  got,         \* history: the last one it received there
  inits        \* history: calls of LinkInitIOCtrl

ioVars == <<Session, nMessageID, ctl, msgs, given, got, inits>>

NoSession == NSessions
Sessions == 0 .. NSessions - 1

IoInit ==
  /\ Session = [i \in Sessions |-> [isUsed |-> FALSE, pQueue |-> NoQueue]]
  /\ nMessageID = NoSession /\ ctl = [pc |-> "out", slot |-> NoSession]
  /\ msgs = 0 /\ given = 0 /\ got = 0 /\ inits = 0

Unused == {i \in Sessions : ~Session[i].isUsed}
Least(S) == CHOOSE i \in S : \A j \in S : i <= j

IoCreate ==
  /\ ctl.pc = "out" /\ ctl' = [ctl EXCEPT !.pc = "in"]
  /\ LinkMqttCreateInstance
  /\ UNCHANGED <<Session, nMessageID, msgs, given, got, inits>>

(* LinkInitIOCtrl: the slot is in use before the subscription, and stays   *)
(* so when that fails.                                                     *)
LinkInitIOCtrl ==
  /\ ctl.pc = "in" /\ ctl.slot = NoSession /\ Unused # {} /\ inits < MaxInit[mosq]
  /\ ctl' = [pc |-> "subscribing", slot |-> Least(Unused)]
  /\ inits' = inits + 1
  /\ Session' = [Session EXCEPT ![Least(Unused)] =
                   [isUsed |-> TRUE, pQueue |-> CreateMessageQueue(QueueMax)]]
  /\ given' = 0 /\ got' = 0
  /\ Begin(User, "subscribe", Ctl) /\ tpc' = tpc
  /\ UNCHANGED <<nMessageID, msgs>>
InitIOCtrlReturns ==
  /\ ctl.pc = "subscribing" /\ Returned(User)
  /\ IF th[User].pc = "ok"
     THEN ctl' = [ctl EXCEPT !.pc = "in"]
     ELSE ctl' = [pc |-> "in", slot |-> NoSession]
  /\ th' = [th EXCEPT ![User] = Idle]
  /\ UNCHANGED <<net, flags, topics, listMutex, netMutex, tpc, nWait,
                 Session, nMessageID, msgs, given, got, inits>>

(* OnIOCtrlMessage, on the instance's thread: the first slot in use, then  *)
(* its queue, if the program did not take it away.                         *)
OnIOCtrlMessage ==
  /\ T("message", "control") /\ Ctl \in subs /\ msgs < MaxMsg
  /\ msgs' = msgs + 1
  /\ nMessageID' = IF Unused = Sessions THEN NoSession ELSE Least(Sessions \ Unused)
  /\ UNCHANGED <<net, flags, topics, listMutex, netMutex, th, nWait, Session, ctl, given, got, inits>>
SendToSession ==
  /\ T("control", "waited")
  /\ IF nMessageID = NoSession THEN UNCHANGED <<Session, given>>
     ELSE /\ Session' = [Session EXCEPT ![nMessageID].pQueue = SendMessage(@, msgs)]
          /\ given' = IF nMessageID = ctl.slot THEN msgs ELSE given
  /\ nMessageID' = NoSession
  /\ UNCHANGED <<net, flags, topics, listMutex, netMutex, th, nWait, ctl, msgs, got, inits>>
OtherMessage ==
  /\ T("message", "waited")
  /\ UNCHANGED <<net, flags, topics, listMutex, netMutex, th, nWait, ioVars>>

(* LinkRecvIOCtrl, when it does not time out, and LinkSendIOResponse.      *)
LinkRecvIOCtrl ==
  /\ ctl.pc = "in" /\ ctl.slot # NoSession
  /\ LET q == Session[ctl.slot].pQueue IN
       /\ ~Empty(q)
       /\ got' = FirstMessage(q)
       /\ Session' = [Session EXCEPT ![ctl.slot].pQueue = Received(q)]
  /\ ctl' = [ctl EXCEPT !.pc = "answer"]
  /\ UNCHANGED <<mqttVars, nMessageID, msgs, given, inits>>
LinkSendIOResponse ==
  /\ ctl.pc = "answer" /\ ctl' = [ctl EXCEPT !.pc = "answering"]
  /\ Begin(User, "publish", NoTopic) /\ tpc' = tpc
  /\ UNCHANGED <<Session, nMessageID, msgs, given, got, inits>>
Answered ==
  /\ ctl.pc = "answering" /\ Returned(User) /\ ctl' = [ctl EXCEPT !.pc = "in"]
  /\ th' = [th EXCEPT ![User] = Idle]
  /\ UNCHANGED <<net, flags, topics, listMutex, netMutex, tpc, nWait,
                 Session, nMessageID, msgs, given, got, inits>>

(* LinkDinitIOCtrl: the subscription is left in place.                     *)
LinkDinitIOCtrl ==
  /\ ctl.pc = "in" /\ ctl.slot # NoSession
  /\ Session' = [Session EXCEPT ![ctl.slot] = [isUsed |-> FALSE, pQueue |-> NoQueue]]
  /\ ctl' = [ctl EXCEPT !.slot = NoSession] /\ given' = 0 /\ got' = 0
  /\ UNCHANGED <<mqttVars, nMessageID, msgs, inits>>

(* The program unsubscribes a topic, and destroys its instance.            *)
IoUnsubscribe(topic) ==
  /\ ctl.pc = "in" /\ ctl.slot = NoSession /\ ctl' = [ctl EXCEPT !.pc = "unsubscribing"]
  /\ Contains(list, topic)
  /\ Begin(User, "unsubscribe", topic) /\ tpc' = tpc
  /\ UNCHANGED <<Session, nMessageID, msgs, given, got, inits>>
IoUnsubscribed ==
  /\ ctl.pc = "unsubscribing" /\ Returned(User) /\ ctl' = [ctl EXCEPT !.pc = "in"]
  /\ th' = [th EXCEPT ![User] = Idle]
  /\ UNCHANGED <<net, flags, topics, listMutex, netMutex, tpc, nWait,
                 Session, nMessageID, msgs, given, got, inits>>
IoDestroy ==
  /\ ctl.pc = "in" /\ ctl.slot = NoSession /\ ctl' = [ctl EXCEPT !.pc = "over"]
  /\ LinkMqttDestroy
  /\ UNCHANGED <<Session, nMessageID, msgs, given, got, inits>>

IoProgram ==
  \/ IoCreate \/ LinkInitIOCtrl \/ InitIOCtrlReturns
  \/ LinkRecvIOCtrl \/ LinkSendIOResponse \/ Answered
  \/ LinkDinitIOCtrl \/ IoDestroy
  \/ (\E topic \in Topics : IoUnsubscribe(topic)) \/ IoUnsubscribed
IoCallback == OnIOCtrlMessage \/ SendToSession \/ OtherMessage
=============================================================================
