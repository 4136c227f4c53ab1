-------------------------------- MODULE MqttApps --------------------------------
(***************************************************************************)
(* The two users of an MQTT instance in libmqtt, each with an instance of  *)
(* its own: the SDK's log and a program with IO control.  They share no    *)
(* state, so that a behaviour is one of the two.                           *)
(***************************************************************************)
EXTENDS MqttLog, IoControl

VARIABLE app     \* which of the two

vars == <<mqttVars, logVars, ioVars, app>>

Init == InstanceInit /\ LogInit /\ IoInit /\ app \in {"log", "io"}

Log ==
  /\ app = "log" /\ UNCHANGED <<ioVars, app>>
  /\ LogMain \/ QnlinkingMQTT_LogThread \/ QnlinkingMQTT_MessageCallback

Io ==
  /\ app = "io" /\ UNCHANGED <<logVars, app>>
  /\ IoProgram \/ IoCallback

(* The instance's thread and the calls in progress; the log's OnEvent      *)
(* subscribes to nothing.                                                  *)
Instance ==
  /\ LinkMqttThread \/ WaitMessage \/ \E t \in Threads : Calls(t) /\ tpc' = tpc
  /\ app = "log" => tpc' # "subscribing"
  /\ UNCHANGED <<logVars, ioVars, app>>

Next == Log \/ Io \/ Instance

Spec == Init /\ [][Next]_vars

(* Threads are scheduled, listMutex is left alone for a millisecond after  *)
(* each call, and calls of the library return; a connection                *)
(* tried again and again is made.  The program is not bound to do anything.*)
MqttStep ==
  \/ LinkMqttThread \/ (Calls(Mqtt) /\ tpc' = tpc)
  \/ QnlinkingMQTT_MessageCallback \/ IoCallback

Fairness ==
  /\ SF_vars(MqttStep /\ Next) /\ SF_vars(Connect /\ Next)
  /\ WF_vars(Calls(User) /\ Next)

FairSpec == Spec /\ Fairness

-----------------------------------------------------------------------------
(* On a connection whose subscriptions were recovered the broker has every *)
(* topic of pSubsribeList but those whose request failed, whose request a  *)
(* second thread overwrote in the context, and those unsubscribed.         *)
Recovered == tpc \notin {"event", "subscribing", "head", "recover", "resubscribe"}

SubscriptionsRestored ==
  LinkMqttIsConnected /\ Linked(mosq) /\ Recovered => ToSet(list) \subseteq subs \cup lost

(* The log thread has ended before its instance is freed, unless the first *)
(* LinkMqttInit failed: the thread of the instance frees it then, and the  *)
(* log goes on with the pointer.                                           *)
InstanceOutlivesUsers ==
  app = "log" /\ inst = "freed" /\ mosq # 0 => lpc = "over" /\ th[User] = Idle

(* Control messages are received in the order they came in, each once, and *)
(* the queue holds the newest: a full queue gives up its oldest message.   *)
(* A slot that a failed LinkInitIOCtrl left in use, or a message a session *)
(* closed before got, takes them instead.                                  *)
ControlInOrder ==
  ctl.slot # NoSession =>
    LET kept == <<got>> \o Contents(Session[ctl.slot].pQueue) IN
      /\ \A i, j \in DOMAIN kept : i < j => kept[i] < kept[j]
      /\ Last(kept) = given

(* A connection that is lost is made again and an instance that is         *)
(* destroyed is freed, except when DeleteNode does not come back with the  *)
(* mutex it holds.                                                         *)
ReconnectsUntilDestroyed ==
  /\ (inst = "live" /\ ~connected) ~> (connected \/ inst = "freed" \/ th[User].pc = "spin")
  /\ isDestroying ~> (inst = "freed" \/ th[User].pc = "spin")
=============================================================================
