-------------------------------- MODULE HttpClient --------------------------------
(* A request of one thread: the connection (http_trans.c, timeoutconn.c),  *)
(* the request sent (http_req.c), the answer read (http_resp.c), and what  *)
(* the caller is told (ghttp.c, qupload.c, httptools.c).  The request and  *)
(* the answer are sequences of small units, a read or a write moves some   *)
(* of them.  The build is the default one, without TLS, in the synchronous *)
(* mode the SDK uses.                                                      *)
EXTENDS DnsCache, Sequences, SequencesExt

CONSTANTS Caller,    \* the thread
          CallHost,  \* the host it sends to
          Kinds,     \* "upload" (linkUpload), "simple" (linkSimpleHttpRequest), "move" (LinkMoveFile)
          Parts,     \* the units of the three parts of an upload's body
          Piece,     \* how many are written at a time, 256 KiB in the code
          Chunks,    \* the ways an answer's body can be cut, sequences of sizes
          ReadMax,   \* io_buf_chunksize
          BufLen,    \* the caller's buffer, less its terminator
          MaxIntr    \* interrupted calls in a request

ASSUME HttpAssumption ==
  /\ Caller \in Threads /\ CallHost \in Hosts
  /\ Piece \in Nat \ {0} /\ ReadMax \in Nat \ {0} /\ BufLen \in Nat
  /\ Parts \in Seq(Nat \ {0}) \ {<<>>}
  /\ Chunks \subseteq Seq(Nat \ {0})   \* a chunk of no bytes is the last one

VARIABLES call,   \* the request: ghttp_request with its connection, and its result
          line,   \* the TCP connection: its state, what the server got, what it has sent
          server  \* the answer the server gave, its close, the interim answer

httpVars == <<call, line, server>>

-----------------------------------------------------------------------------
(* External: the server.  It answers a complete request as it likes and    *)
(* any other one with an error; it may close, or crash, at any time.       *)

Line == <<"line", 0, 0>>
Headers == <<"headers", 0, 0>>
Units(p, o, n) == [k \in 1 .. n |-> <<"body", p, o + k>>]
UpToPart[p \in 0 .. Len(Parts)] ==
  IF p = 0 THEN <<Line, Headers>> ELSE UpToPart[p-1] \o Units(p, 0, Parts[p])
Request(kind) == UpToPart[IF kind = "upload" THEN Len(Parts) ELSE 0]

Data(n) == <<"data", n>>
Size(n) == <<"size", n>>
Cont == <<"continue", 0>>
Head1 == <<"head", 1>>
Head2 == <<"head", 2>>
Cr == <<"cr", 0>>
Lf == <<"lf", 0>>

(* The body that ends with each chunk, and a chunked answer from each      *)
(* chunk on, counted from the last.                                        *)
Sums(chunks) ==
  LET upTo[j \in 0 .. Len(chunks)] == IF j = 0 THEN 0 ELSE upTo[j-1] + chunks[j] IN upTo
Total(chunks) == Sums(chunks)[Len(chunks)]
Datas(from, n) == [k \in 1 .. n |-> Data(from + k)]
Body(chunks) == Datas(0, Total(chunks))
OneChunk(chunks, j) ==
  <<Size(chunks[j+1])>> \o Datas(Sums(chunks)[j], chunks[j+1]) \o <<Cr, Lf>>
ChunksFrom(chunks) ==
  LET last[m \in 0 .. Len(chunks)] ==
        IF m = 0 THEN <<Size(0), Cr, Lf>> ELSE OneChunk(chunks, Len(chunks) - m) \o last[m-1]
  IN last
Chunked(chunks) == ChunksFrom(chunks)[Len(chunks)]

Framings == {"length", "chunked", "close", "bad"}
Encode(ans) ==
  <<Head1, Head2>> \o IF ans.framing = "chunked" THEN Chunked(ans.chunks) ELSE Body(ans.chunks)

NoAnswer == [code |-> "none", framing |-> "none", chunks |-> <<>>]
Answers(codes) == [code : codes, framing : Framings, chunks : Chunks]

Serving == call.pc # "returned" /\ line.conn = "up" /\ ~server.closed

Answer ==
  /\ Serving /\ server.ans = NoAnswer
  /\ \E ans \in Answers(IF line.wire = Request(call.kind) THEN {"200", "2xx", "other"} ELSE {"other"}) :
       /\ server' = [server EXCEPT !.ans = ans]
       /\ line' = [line EXCEPT !.reply = @ \o Encode(ans)]
  /\ UNCHANGED call

Continue ==
  /\ Serving /\ server.ans = NoAnswer /\ ~server.interim
  /\ server' = [server EXCEPT !.interim = TRUE]
  /\ line' = [line EXCEPT !.reply = Append(@, Cont)]
  /\ UNCHANGED call

(* What was not read yet may be lost with the server; a reset loses it all. *)
Close ==
  /\ Serving /\ server' = [server EXCEPT !.closed = TRUE]
  /\ \E n \in 0 .. Len(line.reply) : line' = [line EXCEPT !.reply = SubSeq(@, 1, n)]
  /\ UNCHANGED call

Reset ==
  /\ call.pc # "returned" /\ line.conn = "up"
  /\ line' = [line EXCEPT !.reply = <<>>, !.conn = "down"]
  /\ UNCHANGED <<call, server>>

(* A connection that was not there in time may still come up.              *)
Established ==
  /\ call.pc # "returned" /\ line.conn = "pending" /\ line' = [line EXCEPT !.conn = "up"]
  /\ UNCHANGED <<call, server>>

Server == (Answer \/ Continue \/ Close \/ Reset \/ Established) /\ UNCHANGED dnsVars

-----------------------------------------------------------------------------
(* The state between requests, and ghttp_request_new.                      *)

NewRequest(kind) ==
  [pc |-> "lookup", kind |-> kind,
   out |-> <<>>, part |-> 1, offset |-> 0,              \* what io_buf still has to write
   buf |-> <<>>, left |-> 0, last |-> 0, chunk |-> 0,   \* io_buf, io_buf_io_left, last_read, chunk_len
   body |-> <<>>, error |-> "none", intr |-> 0,
   ret |-> "none", code |-> "none", resp |-> <<>>, respLen |-> 0]

HttpInit ==
  /\ call = [NewRequest("none") EXCEPT !.pc = "idle"]
  /\ line = [conn |-> "none", wire |-> <<>>, reply |-> <<>>]
  /\ server = [ans |-> NoAnswer, interim |-> FALSE, closed |-> FALSE]

(* ghttp_is_timeout, and what each caller makes of an error.  A stale      *)
(* error counts: it is never cleared.                                      *)
IsTimeout(c) == c.error = "again"
Failed(c) == [c EXCEPT !.pc = "returned", !.ret = IF IsTimeout(c) THEN "timeout" ELSE "fail"]

MinOf(a, b) == IF a < b THEN a ELSE b

(* linkUpload is content with 200 alone, linkSimpleHttpRequest with 2xx,   *)
(* and copies what fits; LinkMoveFile says 0 to any answer.                *)
Returned(c) ==
  LET code == server.ans.code
      good == c.kind = "move" \/ code = "200" \/ (c.kind = "simple" /\ code = "2xx") IN
  [c EXCEPT !.pc = "returned", !.code = code, !.ret = IF good THEN "ok" ELSE "code",
            !.resp = IF good /\ c.kind = "simple" THEN SubSeq(c.body, 1, MinOf(Len(c.body), BufLen)) ELSE <<>>,
            !.respLen = IF good /\ c.kind = "simple" THEN Len(c.body) ELSE 0]

(* linkPutBuffer and uploadPicture: what the statistics are told.          *)
UploadResult(c) == IF c.ret = "ok" /\ c.code = "200" THEN "LINK_UPLOAD_RESULT_OK" ELSE "LINK_UPLOAD_RESULT_FAIL"

-----------------------------------------------------------------------------
(* ghttp_request_new .. ghttp_prepare, and ghttp_process: the connection.  *)

Pc(pc) == call.pc = pc

Begin(kind) ==
  /\ call.pc \in {"idle", "returned"}
  /\ call' = NewRequest(kind)
  /\ line' = [conn |-> "none", wire |-> <<>>, reply |-> <<>>]
  /\ server' = [ans |-> NoAnswer, interim |-> FALSE, closed |-> FALSE]
  /\ UNCHANGED dnsVars

LookUpHost(host) == Pc("lookup") /\ Lookup(Caller, host) /\ UNCHANGED httpVars

SendLine(c) == [c EXCEPT !.pc = "line", !.out = <<Line>>]

(* http_trans_connect.  timeout_connect puts the socket back to blocking,  *)
(* and forgets with it that the connection was refused or is not there:    *)
(* what fails here is the lookup, and a lookup that took too long.         *)
Connect ==
  /\ Pc("lookup") /\ Forget(Caller)
  /\ \/ /\ look[Caller].sinp = NoHost
        /\ call' = Failed([call EXCEPT !.error = "host"]) /\ UNCHANGED line
     \/ /\ look[Caller].sinp # NoHost
        /\ call' = Failed([call EXCEPT !.error = "again"]) /\ UNCHANGED line
     \/ /\ look[Caller].sinp # NoHost
        /\ call' = SendLine(call)
        /\ \E conn \in {"up", "pending", "down"} : line' = [line EXCEPT !.conn = conn]
  /\ UNCHANGED server

-----------------------------------------------------------------------------
(* http_req_send.  An error while the request line or the headers are      *)
(* written ends their loop and is forgotten; an interrupted write ends it  *)
(* as if all were written.                                                 *)

Writing == call.pc \in {"line", "headers", "body"}

NextPiece(c, part, offset) ==
  [c EXCEPT !.pc = "body", !.part = part, !.offset = offset,
            !.out = Units(part, offset, MinOf(Piece, Parts[part] - offset))]

ReadAnswer(c) == [c EXCEPT !.pc = "headers_in", !.out = <<>>, !.buf = <<>>, !.left = 0]

(* The io_buf is done with: what is sent next.                             *)
Sent(c) ==
  IF c.pc = "line" THEN [c EXCEPT !.pc = "headers", !.out = <<Headers>>]
  ELSE IF c.pc = "headers" THEN IF c.kind = "upload" THEN NextPiece(c, 1, 0) ELSE ReadAnswer(c)
  ELSE IF c.offset + Piece < Parts[c.part] THEN NextPiece(c, c.part, c.offset + Piece)
  ELSE IF c.part < Len(Parts) THEN NextPiece(c, c.part + 1, 0) ELSE ReadAnswer(c)

(* The body gives up on an EAGAIN even after a good write: it may be that  *)
(* of the headers.                                                         *)
Write(n) ==
  /\ Writing /\ line.conn = "up"
  /\ line' = [line EXCEPT !.wire = @ \o SubSeq(call.out, 1, n)]
  /\ LET c == [call EXCEPT !.out = SubSeq(@, n + 1, Len(@)), !.last = n] IN
     call' = IF Pc("body") /\ call.error = "again" THEN Failed(c)
             ELSE IF c.out # <<>> THEN c ELSE Sent(c)
  /\ UNCHANGED <<server, dnsVars>>

WriteFails(error) ==
  /\ Writing /\ (error = "again" <=> line.conn # "down")
  /\ LET c == [call EXCEPT !.error = error, !.last = -1] IN
     call' = IF Pc("body") THEN Failed(c) ELSE Sent(c)
  /\ UNCHANGED <<line, server, dnsVars>>

WriteInterrupted ==
  /\ Writing /\ call.intr < MaxIntr
  /\ call' = Sent([call EXCEPT !.error = "intr", !.last = -1, !.intr = @ + 1])
  /\ UNCHANGED <<line, server, dnsVars>>

-----------------------------------------------------------------------------
(* http_resp_read_headers and http_resp_read_body, from one read to the    *)
(* next: how a buffer is taken apart.                                      *)

(* flush_response_body *)
Flushed(c) == [c EXCEPT !.body = c.buf, !.buf = <<>>]

(* read_body_content_length *)
BodyOfLength(c) ==
  LET left == Total(server.ans.chunks) - Len(c.buf) IN
  IF server.ans.chunks = <<>> THEN Returned(c)
  ELSE IF left > 0 THEN [c EXCEPT !.pc = "length", !.left = left] ELSE Returned(Flushed(c))

StartBody(c) ==
  CASE server.ans.framing = "length" -> BodyOfLength(c)
    [] server.ans.framing = "chunked" -> [c EXCEPT !.pc = "size"]
    [] server.ans.framing = "close" -> [c EXCEPT !.pc = "close"]
    [] server.ans.framing = "bad" -> Failed(c)

(* An interim answer is cut off, and the next one waited for with another  *)
(* read, even when it is in the buffer.                                    *)
ReadHeaders(c) ==
  IF c.buf # <<>> /\ Head(c.buf) = Cont THEN [c EXCEPT !.buf = Tail(@), !.left = 0]
  ELSE IF Contains(c.buf, Head2) THEN StartBody([c EXCEPT !.buf = SubSeq(@, 3, Len(@)), !.left = 0])
  ELSE c

HasEndOfHeaders(c) == Contains(c.buf, Cont) \/ Contains(c.buf, Head2)

(* read_chunk and read_body_chunked, with the pieces the buffer has.       *)
TakeChunk(c) ==
  [c EXCEPT !.pc = "size", !.body = @ \o SubSeq(c.buf, 1, c.chunk), !.chunk = 0,
            !.buf = SubSeq(@, c.chunk + 3, Len(@)), !.left = 0]

WaitChunk(c) ==
  LET left == c.chunk - Len(c.buf) + 2 IN
  IF left > 0 THEN [c EXCEPT !.pc = "chunk", !.left = left] ELSE TakeChunk(c)

LastChunk(c) ==
  IF Len(c.buf) < 2 THEN [c EXCEPT !.pc = "last", !.left = 2 - Len(c.buf)] ELSE Returned(c)

ReadSize ==
  /\ Pc("size") /\ call.buf # <<>>
  /\ LET c == [call EXCEPT !.chunk = Head(call.buf)[2], !.buf = Tail(@), !.left = 0] IN
     call' = IF c.chunk = 0 THEN LastChunk(c) ELSE WaitChunk(c)
  /\ UNCHANGED <<line, server, dnsVars>>

-----------------------------------------------------------------------------
(* http_trans_read_into_buf, and what its caller does with the outcome.    *)

Reading == call.pc \in {"headers_in", "length", "chunk", "last", "close"} \/ (Pc("size") /\ call.buf = <<>>)
Left == IF call.left = 0 THEN ReadMax ELSE call.left

Read(n) ==
  /\ Reading /\ n <= MinOf(Left, ReadMax) /\ line.conn = "up"
  /\ line' = [line EXCEPT !.reply = SubSeq(@, n + 1, Len(@))]
  /\ LET c == [call EXCEPT !.buf = @ \o SubSeq(line.reply, 1, n), !.left = Left - n, !.last = n] IN
     call' = CASE Pc("headers_in") -> ReadHeaders(c)
               [] Pc("length") -> IF c.left = 0 THEN Returned(Flushed(c)) ELSE c
               [] Pc("chunk") -> IF c.left = 0 THEN TakeChunk(c) ELSE c
               [] Pc("last") -> IF c.left = 0 THEN Returned(c) ELSE c
               [] call.pc \in {"size", "close"} -> c
  /\ UNCHANGED <<server, dnsVars>>

(* A plausible slip: the end of the stream ends every body.                *)
EndsEveryBody(c) ==
  CASE c.pc = "headers_in" -> IF HasEndOfHeaders(c) THEN ReadHeaders(c) ELSE Failed(c)
    [] c.pc = "last" -> Returned(c)
    [] c.pc \in {"close", "length"} -> Returned(Flushed(c))
    [] c.pc \in {"size", "chunk"} -> Failed(c)

(* The peer has closed: the end of an answer that says nothing of its      *)
(* length, a short answer otherwise.                                       *)
Ends(c) ==
  CASE c.pc = "headers_in" -> IF HasEndOfHeaders(c) THEN ReadHeaders(c) ELSE Failed(c)
    [] c.pc = "last" -> Returned(c)
    [] c.pc = "close" -> Returned(Flushed(c))
    [] c.pc \in {"length", "size", "chunk"} -> Failed(c)

ReadEnd ==
  /\ Reading /\ line.conn = "up" /\ server.closed /\ line.reply = <<>>
  /\ call' = Ends([call EXCEPT !.left = Left, !.last = 0])
  /\ UNCHANGED <<line, server, dnsVars>>

(* A plausible slip, which is what the branches for TLS do: time that is   *)
(* up is tried again.                                                      *)
ReadFailsTriesAgain(error) ==
  /\ Reading /\ (error = "again" <=> line.conn # "down")
  /\ LET c == [call EXCEPT !.error = error, !.left = Left, !.last = -1] IN
     call' = IF error = "again" THEN c ELSE Failed(c)
  /\ UNCHANGED <<line, server, dnsVars>>

(* The time is up with nothing read, or the connection is not there.       *)
ReadFails(error) ==
  /\ Reading /\ (error = "again" <=> line.conn # "down")
  /\ call' = Failed([call EXCEPT !.error = error, !.left = Left, !.last = -1])
  /\ UNCHANGED <<line, server, dnsVars>>

ReadInterrupted ==
  /\ Reading /\ call.intr < MaxIntr
  /\ LET c == [call EXCEPT !.error = "intr", !.left = Left, !.last = -1, !.intr = @ + 1] IN
     call' = IF Pc("headers_in") THEN ReadHeaders(c) ELSE c
  /\ UNCHANGED <<line, server, dnsVars>>
=============================================================================
