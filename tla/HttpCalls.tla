-------------------------------- MODULE HttpCalls --------------------------------
(* The HTTP client of the SDK's threads: what they share, the cache of     *)
(* names, with every thread looking names up (app is "names"), and a       *)
(* request of one of them from the lookup to the caller's result (app is   *)
(* "request").  After the lookup a request touches nothing shared.         *)
EXTENDS HttpClient

VARIABLE app

vars == <<dnsVars, httpVars, app>>

Init == DnsInit /\ HttpInit /\ app \in {"names", "request"}

NamesStep(t) == app = "names" /\ LookingUp(t) /\ UNCHANGED <<httpVars, app>>

Sending == (\E n \in 1 .. Len(call.out) : Write(n)) \/ WriteInterrupted
             \/ \E error \in {"again", "other"} : WriteFails(error)
Receiving == (\E n \in 1 .. Len(line.reply) : Read(n)) \/ ReadSize \/ ReadEnd \/ ReadInterrupted
               \/ \E error \in {"again", "other"} : ReadFails(error)

CallStep ==
  /\ app = "request"
  /\ \/ (LookupStep(Caller) /\ UNCHANGED httpVars) \/ Connect \/ Sending \/ Receiving
     \/ LookUpHost(CallHost)
  /\ UNCHANGED app

Requests ==
  /\ app = "request"
  /\ Server \/ \E kind \in Kinds : Begin(kind)
  /\ UNCHANGED app

Next == CallStep \/ Requests \/ \E t \in Threads : NamesStep(t)

(* The resolver answers, every read and write of a socket has a timeout    *)
(* (set_rcv_timeout, set_snd_timeout), and threads are scheduled.          *)
Fairness == WF_vars(CallStep) /\ \A t \in Threads : WF_vars(NamesStep(t))

Spec == Init /\ [][Next]_vars
FairSpec == Spec /\ Fairness

-----------------------------------------------------------------------------
(* A caller that is told its request went well can rely on it: an upload   *)
(* (linkUpload) was received whole and answered with 200, a configuration  *)
(* or a token (linkSimpleHttpRequest) is the start of the body of a 2xx    *)
(* answer and its length that of the body; the body is the server's, all   *)
(* of it unless only the close of the connection says where it ends.       *)
ToldOk ==
  IF call.kind = "upload" THEN UploadResult(call) = "LINK_UPLOAD_RESULT_OK"
  ELSE call.kind = "simple" /\ call.ret = "ok"

AnswerTrue ==
  call.pc = "returned" /\ ToldOk =>
    /\ line.wire = Request(call.kind)
    /\ server.ans.code \in (IF call.kind = "upload" THEN {"200"} ELSE {"200", "2xx"})
    /\ IsPrefix(call.body, Body(server.ans.chunks))
    /\ server.ans.framing # "close" => call.body = Body(server.ans.chunks)
    /\ call.kind = "simple" => IsPrefix(call.resp, call.body) /\ call.respLen = Len(call.body)

(* Every request comes back to its caller, whatever the server does or     *)
(* leaves undone, and every lookup ends (http_trans_connect, http_req_send, *)
(* http_resp_read_headers, http_resp_read_body).                           *)
CallReturns ==
  /\ call.pc # "idle" ~> call.pc = "returned"
  /\ \A t \in Threads : look[t].pc # "idle" ~> look[t].pc \in {"done", "idle"}
=============================================================================
