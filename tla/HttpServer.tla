---------------------------- MODULE HttpServer -----------------------------
(***************************************************************************)
(* arale/net/http/HttpServer.cc and HttpResponse.{h,cc}: one connection,   *)
(* with the default callback or the one of examples/shorturl.  A peer      *)
(* sends a stream of tokens that arrives in pieces cut anywhere; onMessage *)
(* is called for each piece with all that is in the buffer.                *)
(***************************************************************************)
EXTENDS HttpContext

CONSTANT Streams       \* what the peer may send

ASSUME StreamsAssumption == Streams \subseteq Seq(STRING)

VARIABLES
    httpCallback_,     \* the callback of the server: "default" or "shorturl"
    sent,              \* all that the peer sends
    stream,            \* what has not arrived yet
    buf,               \* inputBuffer_ of the connection
    context,           \* of the connection
    state_,            \* of the connection: kConnected, or kDisconnecting after shutdown;
                       \* "terminated" when the program has ended
    handled,           \* history: the requests given to onRequest
    replies,           \* history: what was sent to the peer
    gotOne             \* history: the last call of onMessage handled a request

vars == <<httpCallback_, sent, stream, buf, context, state_, handled, replies, gotOne>>

\* The variables have their types.  parseRequest would not return from kExpectBody or
\* kGotAll, for which it has no way out: a message never finds the context there.
TypeOK ==
    /\ httpCallback_ \in {"default", "shorturl"}
    /\ sent \in Streams
    /\ \E i \in 1..Len(sent) + 1 : stream = SubSeq(sent, i, Len(sent))
    /\ context.parseState \in {"kExpectRequestLine", "kExpectHeaders"}
    /\ context.request.method \in Method \cup {"kInvalid"}
    /\ context.request.version \in Version \cup {"kUnknown"}
    /\ state_ \in {"kConnected", "kDisconnecting", "terminated"}
    /\ gotOne \in BOOLEAN

\* A server with its callback; onConnection has set a new context.
Init ==
    /\ httpCallback_ \in {"default", "shorturl"}
    /\ sent \in Streams
    /\ stream = sent
    /\ buf = <<>>
    /\ context = NewContext
    /\ state_ = "kConnected"
    /\ handled = <<>>
    /\ replies = <<>>
    /\ gotOne = FALSE

-----------------------------------------------------------------------------
\* onRequest: whether the response closes the connection, before httpCallback_.
CloseWanted(request) ==
    \/ getHeader(request, "Connection") = <<"close">>
    \/ request.version = "HTTP/1.0" /\ getHeader(request, "Connection") # <<"Keep-Alive">>

\* A response before its callback.
HttpResponse(close) == [statusCode |-> "kUnknown", closeConnection |-> close, headers |-> {}]

setStatusCode(response, code) == [response EXCEPT !.statusCode = code]
setCloseConnection(response, on) == [response EXCEPT !.closeConnection = on]
addResponseHeader(response, header) == [response EXCEPT !.headers = @ \cup {header}]

notFound(response) == setCloseConnection(setStatusCode(response, "404"), TRUE)

\* defaultHttpCallback.
defaultHttpCallback(request, response) == notFound(response)

\* onRequest of examples/shorturl, which looks at the path only.
g_redirections == {<<"/1">>, <<"/2">>}
shortUrl(request, response) ==
    IF request.path \in g_redirections
    THEN addResponseHeader(setStatusCode(response, "301"), "Location")
    ELSE IF request.path \in {<<"/">>, <<"/favicon">>}
    THEN addResponseHeader(setStatusCode(response, "200"), "Content-Type")
    ELSE notFound(response)

Respond(request) ==
    LET response == HttpResponse(CloseWanted(request))
    IN IF httpCallback_ = "default" THEN defaultHttpCallback(request, response)
       ELSE shortUrl(request, response)

\* appendToBuffer: the reply says that the connection closes, or how long the body is.
appendToBuffer(response) ==
    [status |-> response.statusCode,
     headers |-> {IF response.closeConnection THEN "Connection: close" ELSE "Content-Length"}
                 \cup response.headers]

\* The reply to a bad request line, a text without headers.
BadRequest == [status |-> "400", headers |-> {}]

\* Mutant of Send: the state of the connection is not looked at.
SendAlways(reply) == replies' = Append(replies, reply)

\* TcpConnection::send does nothing once the connection is shutting down.
Send(reply) == replies' = IF state_ = "kConnected" THEN Append(replies, reply) ELSE replies

shutdown(close) == state_' = IF close THEN "kDisconnecting" ELSE state_

\* Mutant of Reset: the request is kept.
ResetKeepsRequest(c) == context' = [c EXCEPT !.parseState = "kExpectRequestLine"]

\* reset(), after a request was handled: the request is swapped with a new one.
Reset(c) == context' = NewContext

\* onRequest and reset.
OnRequest(c) ==
    LET response == Respond(c.request)
    IN /\ handled' = Append(handled, c.request)
       /\ Send(appendToBuffer(response))
       /\ shutdown(response.closeConnection)
       /\ Reset(c)
       /\ gotOne' = TRUE

\* A piece of the stream arrives.
OnMessage(n) ==
    LET r == parseRequest(context, buf \o SubSeq(stream, 1, n))
    IN /\ state_ # "terminated"
       /\ stream' = SubSeq(stream, n + 1, Len(stream))
       /\ buf' = r.buf
       /\ \/ isGotAll(r.context) /\ OnRequest(r.context)
          \/ /\ ~isGotAll(r.context)
             /\ context' = r.context
             /\ gotOne' = FALSE
             /\ UNCHANGED handled
             /\ \/ r.does = "ok" /\ UNCHANGED <<state_, replies>>
                \/ r.does = "fail" /\ Send(BadRequest) /\ shutdown(TRUE)
                \/ r.does = "throw" /\ state_' = "terminated" /\ UNCHANGED replies
       /\ UNCHANGED <<httpCallback_, sent>>

Next == \E n \in 1..Len(stream) : OnMessage(n)

Spec == Init /\ [][Next]_vars

-----------------------------------------------------------------------------
(* Properties                                                              *)

\* parseRequest: whatever the cuts, the requests handled so far are the first ones of the
\* stream, and from where it is the parser will find in what is left the next one, if
\* there is one, and stop behind it.
CutsDoNotMatter ==
    /\ TypeOK
    /\ LET start == RequestStarts(sent)
           n == Len(handled)
           r == parseRequest(context, buf \o stream)
       IN /\ \A k \in 1..n : /\ IsRequestAt(sent, start[k - 1])
                             /\ handled[k] = RequestAt(sent, start[k - 1])
          /\ isGotAll(r.context) <=> IsRequestAt(sent, start[n])
          /\ isGotAll(r.context) => /\ r.context.request = RequestAt(sent, start[n])
                                    /\ r.buf = SubSeq(sent, start[n + 1], Len(sent))

\* onMessage: a message that handled no request leaves none complete in the buffer; a
\* request waits only behind one that came in the same piece, or behind a bad line.
NoRequestWaits == ~gotOne => ~isGotAll(parseRequest(context, buf).context)

\* onRequest and the error reply: every request handled is answered, in order and up to
\* the answer that is the last; nothing is sent after an answer that announces the close
\* or refuses the request, and a bad line is answered once however often it is parsed.
\* As the peer counts on it, the answer to an HTTP/1.0 request without a Connection header
\* is the last.
AnsweredInOrder ==
    LET last == Len(replies)
        final == {i \in DOMAIN replies : \/ replies[i].status = "400"
                                         \/ "Connection: close" \in replies[i].headers}
    IN /\ final \subseteq {last}
       /\ state_ = "kConnected" => final = {} /\ Len(replies) = Len(handled)
       /\ state_ = "kDisconnecting" => final # {}
       /\ \A i \in DOMAIN replies : replies[i].status = "400" =>
             i = last /\ Len(handled) = last - 1 /\ BadLineAt(sent, RequestStarts(sent)[last - 1])
       /\ \A i \in DOMAIN replies : replies[i].status # "400" =>
             i <= Len(handled) /\ (CloseWanted(handled[i]) => i \in final)
       /\ \A i \in DOMAIN handled :
             /\ handled[i].version = "HTTP/1.0"
             /\ <<"Connection">> \notin DOMAIN handled[i].headers
             => state_ # "kConnected" /\ last <= i

=============================================================================
