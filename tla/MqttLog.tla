-------------------------------- MODULE MqttLog --------------------------------
(***************************************************************************)
(* libmqtt/qnlinking_mqtt.c: the SDK's log over MQTT.  It owns an instance *)
(* whose API its log thread calls; the main thread sends the log lines and *)
(* cleans up.                                                              *)
(***************************************************************************)
EXTENDS MqttInstance, MessageQueue

CONSTANTS
  LogCap,     \* MESSAGE_QUEUE_MAX
  MaxLog      \* log lines of one run

ASSUME MqttLogAssumption == LogCap \in Nat \ {0} /\ MaxLog \in Nat

VARIABLES
  pLogQueue,    \* gQnlinkingMQTTLog.pQueue
  isUsed,       \* gQnlinkingMQTTLog.isUsed
  lpc,          \* QnlinkingMQTT_LogThread
  main,         \* the main thread
  lines         \* history: log lines sent

logVars == <<pLogQueue, isUsed, lpc, main, lines>>

LogInit ==
  pLogQueue = NoQueue /\ isUsed = FALSE /\ lpc = "none" /\ main = "out" /\ lines = 0

(* QnlinkingMQTT_Init: the instance, then the queue and the log thread.    *)
QnlinkingMQTT_Init ==
  /\ main = "out" /\ main' = "log"
  /\ LinkMqttCreateInstance
  /\ UNCHANGED <<pLogQueue, isUsed, lpc, lines>>
InitLog ==
  /\ main = "log" /\ main' = "in"
  /\ pLogQueue' = CreateMessageQueue(LogCap) /\ isUsed' = TRUE /\ lpc' = "receive"
  /\ UNCHANGED <<mqttVars, lines>>

(* QnlinkingMQTT_SendLog: a line is dropped when the queue is full.        *)
QnlinkingMQTT_SendLog ==
  /\ main = "in" /\ lines < MaxLog
  /\ lines' = lines + 1
  /\ pLogQueue' = IF Full(pLogQueue) THEN pLogQueue ELSE SendMessage(pLogQueue, lines + 1)
  /\ UNCHANGED <<mqttVars, isUsed, lpc, main>>

(* QnlinkingMQTT_LogThread: it waits for a second at most, publishes what  *)
(* it received and looks at isUsed.                                        *)
LogReceive ==
  /\ lpc = "receive" /\ ~Empty(pLogQueue)
  /\ pLogQueue' = Received(pLogQueue) /\ lpc' = "publishing"
  /\ Begin(User, "publish", NoTopic) /\ tpc' = tpc
  /\ UNCHANGED <<isUsed, main, lines>>
LogTimeout ==
  /\ lpc = "receive" /\ lpc' = "while"
  /\ UNCHANGED <<mqttVars, pLogQueue, isUsed, main, lines>>
LogPublished ==
  /\ lpc = "publishing" /\ Returned(User) /\ lpc' = "while"
  /\ th' = [th EXCEPT ![User] = Idle]
  /\ UNCHANGED <<net, flags, topics, listMutex, netMutex, tpc, nWait, pLogQueue, isUsed, main, lines>>
LogWhile ==
  /\ lpc = "while" /\ lpc' = IF isUsed THEN "receive" ELSE "over"
  /\ UNCHANGED <<mqttVars, pLogQueue, isUsed, main, lines>>

QnlinkingMQTT_LogThread == LogReceive \/ LogTimeout \/ LogPublished \/ LogWhile

(* QnlinkingMQTT_Cleanup: the log thread is joined before its queue and    *)
(* the instance go.                                                        *)
QnlinkingMQTT_Cleanup ==
  /\ main = "in" /\ main' = "joining" /\ isUsed' = FALSE
  /\ UNCHANGED <<mqttVars, pLogQueue, lpc, lines>>
CleanupJoinNot ==  \* faulty variant: the thread is left to end by itself
  /\ main = "joining" /\ main' = "destroying"
  /\ UNCHANGED <<mqttVars, pLogQueue, isUsed, lpc, lines>>
CleanupJoin ==
  /\ main = "joining" /\ lpc = "over" /\ main' = "destroying" /\ pLogQueue' = NoQueue
  /\ UNCHANGED <<mqttVars, isUsed, lpc, lines>>
CleanupDestroy ==
  /\ main = "destroying" /\ main' = "over"
  /\ LinkMqttDestroy
  /\ UNCHANGED <<pLogQueue, isUsed, lpc, lines>>

(* QnlinkingMQTT_MessageCallback: it ignores messages.                     *)
QnlinkingMQTT_MessageCallback ==
  /\ T("message", "waited")
  /\ UNCHANGED <<net, flags, topics, listMutex, netMutex, th, nWait, logVars>>

LogMain ==
  \/ QnlinkingMQTT_Init \/ InitLog \/ QnlinkingMQTT_SendLog
  \/ QnlinkingMQTT_Cleanup \/ CleanupJoin \/ CleanupDestroy
=============================================================================
