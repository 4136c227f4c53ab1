------------------------------ MODULE TokenThread ------------------------------
(***************************************************************************)
(* libtsuploader/tsmuxuploader.c, linkTokenAndConfigThread: the thread of  *)
(* an uploader that fetches its remote configuration and its upload        *)
(* tokens.                                                                 *)
(*                                                                         *)
(* It sleeps on pUpdateQueue_ until a message comes or the nearer of two   *)
(* deadlines passes: that of the configuration (its ttl, or the next try)  *)
(* and that of the next try for a token.  The lengths of the sleeps are    *)
(* left out: the configuration's deadline passes once it is set (it starts *)
(* in 2038), the token's while a token is missed, in any order.            *)
(***************************************************************************)
EXTENDS Integers, Sequences

CONSTANTS
  Uploaders,    \* the uploaders created by the program
  UpdateCap,    \* messages pUpdateQueue_ can hold: 50
  MaxSession    \* bound: sessions of one uploader

ASSUME TokenThreadAssumption == UpdateCap \in Nat \ {0} /\ MaxSession \in Nat

VARIABLES
  pUpdateQueue,   \* per uploader: the messages to the thread
  tokenThread,    \* per uploader: the thread's locals and its pc
  remoteConfig,   \* per uploader: remoteConfig.isValid
  token,          \* per uploader: the session its token was issued for, 0: none
  session,        \* per uploader: the sessions opened by its worker
  accepted,       \* history: the newest of them the thread was told of
  isQuit          \* per uploader: LinkDestroyTsMuxUploader was called

tokenVars == <<pUpdateQueue, tokenThread, remoteConfig, token, session, accepted, isQuit>>

NoSession == 0
Msg(nType, s) == [nType |-> nType, session |-> s]
NoMsg == Msg(0, NoSession)      \* param after memset: no message

TokenInit ==
  /\ pUpdateQueue = [u \in Uploaders |-> <<>>]
  /\ tokenThread = [u \in Uploaders |->
       [pc |-> "none", param |-> NoMsg, nLen |-> 0, rcDeadline |-> FALSE,
        shouldUpdateRc |-> FALSE, shouldUpdateToken |-> FALSE, sessionIdBak |-> NoSession]]
  /\ remoteConfig = [u \in Uploaders |-> FALSE]
  /\ token = [u \in Uploaders |-> NoSession]
  /\ session = [u \in Uploaders |-> 0] /\ accepted = [u \in Uploaders |-> 0]
  /\ isQuit = [u \in Uploaders |-> FALSE]

(* linkTsMuxUploaderTokenThreadStart.                                      *)
TokenThreadStart(u) ==
  /\ tokenThread[u].pc = "none"
  /\ tokenThread' = [tokenThread EXCEPT ![u].pc = "start"]
  /\ UNCHANGED <<pUpdateQueue, remoteConfig, token, session, accepted, isQuit>>

(* updateSegmentId and handNewSession, by the worker of the TS uploader:   *)
(* the first session asks for the configuration too.  A full queue loses   *)
(* the message.                                                            *)
NewSession(u) ==
  LET s == session[u] + 1
      room == Len(pUpdateQueue[u]) < UpdateCap
  IN /\ session[u] < MaxSession
     /\ session' = [session EXCEPT ![u] = s]
     /\ pUpdateQueue' = IF room THEN [pUpdateQueue EXCEPT ![u] = Append(@, Msg(IF s = 1 THEN 2 ELSE 1, s))]
                        ELSE pUpdateQueue
     /\ accepted' = IF room THEN [accepted EXCEPT ![u] = s] ELSE accepted
     /\ UNCHANGED <<tokenThread, remoteConfig, token, isQuit>>

SetQuitNever(u) == UNCHANGED isQuit  \* faulty variant: the thread is only sent a message
(* LinkDestroyTsMuxUploader.                                               *)
SetQuit(u) == isQuit' = [isQuit EXCEPT ![u] = TRUE]
Quit(u) ==
  /\ SetQuit(u)
  /\ UNCHANGED <<pUpdateQueue, tokenThread, remoteConfig, token, session, accepted>>

(* waitToCompleUploadAndDestroyTsMuxContext asks the thread to end; whether*)
(* the queue took the message is not looked at.                            *)
PushQuit(u) ==
  /\ pUpdateQueue' = IF Len(pUpdateQueue[u]) < UpdateCap
                     THEN [pUpdateQueue EXCEPT ![u] = Append(@, Msg(3, NoSession))]
                     ELSE pUpdateQueue
  /\ UNCHANGED <<tokenThread, remoteConfig, token, session, accepted, isQuit>>

-----------------------------------------------------------------------------
At(u, pc) == tokenThread[u].pc = pc

(* The loop goes on unless the uploader quits and the queue was empty      *)
(* after the last pop.  Before the first pop that length is not            *)
(* initialized.                                                            *)
Loop(u, nLen) == IF isQuit[u] /\ nLen = 0 THEN "done" ELSE "pop"
TokenStart(u) ==
  /\ At(u, "start")
  /\ \E nLen \in 0 .. 1 : tokenThread' = [tokenThread EXCEPT ![u].pc = Loop(u, nLen)]
  /\ UNCHANGED <<pUpdateQueue, remoteConfig, token, session, accepted, isQuit>>

HandleForgets(u, msg, nLen, rcDue) ==  \* faulty variant: the session is not kept
  LET t == tokenThread[u]
      pc == IF msg.nType = 3 THEN Loop(u, nLen)
            ELSE IF msg.nType = 2 \/ t.shouldUpdateRc \/ rcDue THEN "config"
            ELSE IF msg.nType = 1 \/ t.shouldUpdateToken THEN "token"
            ELSE Loop(u, nLen)
  IN [t EXCEPT !.pc = pc, !.nLen = nLen, !.param = IF pc \in {"config", "token"} THEN msg ELSE NoMsg]

(* What the thread does with a message, or with a deadline that passed:    *)
(* the configuration is fetched if it is asked for, missed or due, before  *)
(* any token.                                                              *)
Handle(u, msg, nLen, rcDue) ==
  LET t == tokenThread[u]
      pc == IF msg.nType = 3 THEN Loop(u, nLen)
            ELSE IF msg.nType = 2 \/ t.shouldUpdateRc \/ rcDue THEN "config"
            ELSE IF msg.nType = 1 \/ t.shouldUpdateToken THEN "token"
            ELSE Loop(u, nLen)
  IN [t EXCEPT !.pc = pc, !.nLen = nLen, !.param = IF pc \in {"config", "token"} THEN msg ELSE NoMsg,
        !.sessionIdBak = IF msg.session # NoSession THEN msg.session ELSE @]

TokenPop(u) ==
  /\ At(u, "pop") /\ pUpdateQueue[u] # <<>>
  /\ pUpdateQueue' = [pUpdateQueue EXCEPT ![u] = Tail(@)]
  /\ tokenThread' = [tokenThread EXCEPT ![u] =
       Handle(u, Head(pUpdateQueue[u]), Len(pUpdateQueue[u]) - 1, FALSE)]
  /\ UNCHANGED <<remoteConfig, token, session, accepted, isQuit>>

(* The pop times out: the wait was for the configuration, or, when only a  *)
(* token is missed, for the next try.                                      *)
TokenTimeout(u) ==
  LET t == tokenThread[u] IN
  /\ At(u, "pop") /\ pUpdateQueue[u] = <<>>
  /\ \/ /\ t.rcDeadline
        /\ tokenThread' = [tokenThread EXCEPT ![u] = Handle(u, NoMsg, 0, TRUE)]
     \/ /\ t.shouldUpdateToken /\ ~t.shouldUpdateRc
        /\ tokenThread' = [tokenThread EXCEPT ![u] = Handle(u, NoMsg, 0, FALSE)]
  /\ UNCHANGED <<pUpdateQueue, remoteConfig, token, session, accepted, isQuit>>

ConfigFailedOnce(u, isTtlGet) ==  \* faulty variant: a failed fetch is only tried again at the deadline
  /\ At(u, "config")
  /\ remoteConfig' = IF isTtlGet THEN [remoteConfig EXCEPT ![u] = FALSE] ELSE remoteConfig
  /\ tokenThread' = [tokenThread EXCEPT ![u].pc = Loop(u, tokenThread[u].nLen), ![u].param = NoMsg,
                       ![u].rcDeadline = TRUE, ![u].shouldUpdateToken = FALSE]
  /\ UNCHANGED <<pUpdateQueue, token, session, accepted, isQuit>>

(* getRemoteConfig fails; with a ttl in the answer the old configuration   *)
(* is not to be used any more (setRemoteConfigInvalid).                    *)
ConfigFailed(u, isTtlGet) ==
  /\ At(u, "config")
  /\ remoteConfig' = IF isTtlGet THEN [remoteConfig EXCEPT ![u] = FALSE] ELSE remoteConfig
  /\ tokenThread' = [tokenThread EXCEPT ![u].pc = Loop(u, tokenThread[u].nLen), ![u].param = NoMsg,
                       ![u].rcDeadline = TRUE,
                       ![u].shouldUpdateRc = TRUE, ![u].shouldUpdateToken = FALSE]
  /\ UNCHANGED <<pUpdateQueue, token, session, accepted, isQuit>>

(* updateRemoteConfig; a token must follow.                                *)
ConfigFetched(u) ==
  /\ At(u, "config")
  /\ remoteConfig' = [remoteConfig EXCEPT ![u] = TRUE]
  /\ tokenThread' = [tokenThread EXCEPT ![u].pc = "token", ![u].rcDeadline = TRUE,
                       ![u].shouldUpdateRc = FALSE, ![u].shouldUpdateToken = FALSE]
  /\ UNCHANGED <<pUpdateQueue, token, session, accepted, isQuit>>

(* updateToken and setToken, for the session of the message or the last    *)
(* one known.                                                              *)
TokenUpdated(u) ==
  LET t == tokenThread[u] IN
  /\ At(u, "token")
  /\ token' = [token EXCEPT ![u] = IF t.param.session # NoSession THEN t.param.session
                                   ELSE t.sessionIdBak]
  /\ tokenThread' = [tokenThread EXCEPT ![u].pc = Loop(u, tokenThread[u].nLen), ![u].param = NoMsg,
                       ![u].shouldUpdateToken = FALSE]
  /\ UNCHANGED <<pUpdateQueue, remoteConfig, session, accepted, isQuit>>

TokenFailed(u) ==
  /\ At(u, "token")
  /\ tokenThread' = [tokenThread EXCEPT ![u].pc = Loop(u, tokenThread[u].nLen), ![u].param = NoMsg,
                       ![u].shouldUpdateToken = TRUE]
  /\ UNCHANGED <<pUpdateQueue, remoteConfig, token, session, accepted, isQuit>>

TokenStep(u) ==
  \/ TokenStart(u) \/ TokenPop(u) \/ TokenTimeout(u)
  \/ \E isTtlGet \in BOOLEAN : ConfigFailed(u, isTtlGet)
  \/ ConfigFetched(u) \/ TokenUpdated(u) \/ TokenFailed(u)

(* uploadParamCallback, by the threads that upload: the token to use, or   *)
(* none (LINK_NOT_INITED) without a token or a valid configuration.        *)
uploadParamCallback(u) == IF remoteConfig[u] THEN token[u] ELSE NoSession

-----------------------------------------------------------------------------
(* A token is never asked for with a configuration the server has called   *)
(* off: the address of the token server is part of it, and the thread      *)
(* reads it without the mutex.  A failed fetch must shut the way to        *)
(* updateToken for messages, retries and timeouts alike.                   *)
TokenNeedsConfig == \A u \in Uploaders : At(u, "token") => remoteConfig[u]
=============================================================================
