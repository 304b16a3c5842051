---------------------------- MODULE HttpContext ----------------------------
(***************************************************************************)
(* arale/net/http/HttpContext.{h,cc} and HttpRequest.h: the parser, as     *)
(* functions on the input buffer.  A buffer is a sequence of tokens; the   *)
(* characters that the parser looks for (space, colon, question mark, CR,  *)
(* LF) are tokens of their own, and words are whole.                       *)
(***************************************************************************)
EXTENDS Naturals, Sequences

CR == "CR"
LF == "LF"
SP == "SP"

Method == {"GET", "POST", "PUT", "HEAD", "DELETE"}
Version == {"HTTP/1.0", "HTTP/1.1"}

\* A request without anything, as a new context has it and a reset one.
NoHeaders == [h \in {} |-> <<>>]
NewRequest == [method |-> "kInvalid", version |-> "kUnknown", path |-> <<>>,
               query |-> <<>>, headers |-> NoHeaders]

\* A context: the parse state and the request that is being parsed.
NewContext == [parseState |-> "kExpectRequestLine", request |-> NewRequest]

isGotAll(context) == context.parseState = "kGotAll"

First(at) == CHOOSE i \in at : \A j \in at : i <= j
Last(at) == CHOOSE i \in at : \A j \in at : i >= j

\* std::find: the first place of a token in s[from..to], or to + 1.
Find(s, from, to, token) ==
    LET at == {i \in from..to : s[i] = token}
    IN IF at = {} THEN to + 1 ELSE First(at)

CRLFs(s) == {i \in 1..Len(s) - 1 : s[i] = CR /\ s[i + 1] = LF}

\* Buffer::findCRLF: where the first CRLF begins, or 0.
findCRLF(buf) == IF CRLFs(buf) = {} THEN 0 ELSE First(CRLFs(buf))

\* White space at both ends is dropped.
Spaces == {SP, CR, LF}
Trim(s) ==
    LET at == {i \in DOMAIN s : s[i] \notin Spaces}
    IN IF at = {} THEN <<>>
       ELSE SubSeq(s, First(at), Last(at))

\* headers_[header] = value: the last value wins.
addHeader(request, line, colon) ==
    LET name == SubSeq(line, 1, colon - 1)
        value == Trim(SubSeq(line, colon + 1, Len(line)))
        old == request.headers
    IN [request EXCEPT !.headers =
           [h \in DOMAIN old \cup {name} |-> IF h = name THEN value ELSE old[h]]]

\* getHeader: empty when there is none.
getHeader(request, name) ==
    IF <<name>> \in DOMAIN request.headers THEN request.headers[<<name>>] ELSE <<>>

\* setMethod: a word that is no method is kInvalid, for which it returns false.
setMethod(request, word) ==
    [request EXCEPT !.method = IF Len(word) = 1 /\ word[1] \in Method
                               THEN word[1] ELSE "kInvalid"]

setPath(request, path) == [request EXCEPT !.path = path]

\* string::assign(start, end) throws when the end is before the start.
setQueryThrows(start, end) == end < start
setQuery(request, query) == [request EXCEPT !.query = query]

\* parseRequestLine: what it returns, and what it has assigned by then.  The question
\* mark is looked for after the second space: the query of a good line stays in the
\* path, and one that is found is past the end that setQuery is given.
parseRequestLine(request, line) ==
    LET end == Len(line)
        space1 == Find(line, 1, end, SP)
        space2 == Find(line, space1 + 1, end, SP)
        question == Find(line, space2, end, "?")
        r1 == setMethod(request, SubSeq(line, 1, space1 - 1))
        r2 == IF question <= end
              THEN setQuery(setPath(r1, SubSeq(line, space1 + 1, question - 1)),
                            SubSeq(line, question, space2 - 1))
              ELSE setPath(r1, SubSeq(line, space1 + 1, space2 - 1))
        version == SubSeq(line, space2 + 1, end)
        known == Len(version) = 1 /\ version[1] \in Version
        Did(does, r) == [does |-> does, request |-> r]
    IN IF space1 > end THEN Did("fail", request)
       ELSE IF r1.method = "kInvalid" \/ space2 > end THEN Did("fail", r1)
       ELSE IF question <= end /\ setQueryThrows(question, space2)
            THEN Did("throw", setPath(r1, r2.path))
       ELSE IF known THEN Did("ok", [r2 EXCEPT !.version = version[1]]) ELSE Did("fail", r2)

Result(does, s, r, b) ==
    [does |-> does, context |-> [parseState |-> s, request |-> r], buf |-> b]

\* One round of the loop of parseRequest: a line is taken, or the loop ends ("more" no
\* longer).  A bad request line stays in the buffer.
Round(p) ==
    LET crlf == findCRLF(p.buf)
        line == SubSeq(p.buf, 1, crlf - 1)
        rest == SubSeq(p.buf, crlf + 2, Len(p.buf))
        colon == Find(line, 1, Len(line), ":")
        state == p.context.parseState
        request == p.context.request
        first == parseRequestLine(request, line)
    IN IF p.does # "more" THEN p
       ELSE IF crlf = 0 THEN Result("ok", state, request, p.buf)
       ELSE IF state = "kExpectRequestLine"
       THEN IF first.does = "ok" THEN Result("more", "kExpectHeaders", first.request, rest)
            ELSE Result(first.does, state, first.request, p.buf)
       ELSE IF colon <= Len(line)
            THEN Result("more", state, addHeader(request, line, colon), rest)
            ELSE Result("ok", "kGotAll", request, rest)

\* The loop after each number of rounds.
Rounds(context, buf) ==
    LET after[n \in Nat] == IF n = 0 THEN Result("more", context.parseState, context.request, buf)
                            ELSE Round(after[n - 1])
    IN after

\* Mutant of parseRequest: a line is taken and the rest left for the next message.
parseRequestOneLine(context, buf) ==
    LET r == Rounds(context, buf)[1]
    IN IF r.does = "more" THEN [r EXCEPT !.does = "ok"] ELSE r

\* parseRequest, from a context and a buffer: what they are when it returns, and what it
\* returns.  Every round but the last takes a line, so that these are enough.
parseRequest(context, buf) == Rounds(context, buf)[Len(buf) + 1]

-----------------------------------------------------------------------------
(* What a stream of tokens says as a whole.  A line is known by the place  *)
(* where it begins, a request by the place of its first line.              *)

Complete(s, a) == \E i \in CRLFs(s) : i >= a
EndOf(s, a) == First({i \in CRLFs(s) : i >= a})
LineAt(s, a) == SubSeq(s, a, EndOf(s, a) - 1)

\* The complete lines after the one at a, and those of them that end the headers.
LinesAfter(s, a) == {b \in {i + 2 : i \in {j \in CRLFs(s) : j >= a}} : Complete(s, b)}
HasColon(line) == \E i \in DOMAIN line : line[i] = ":"
LastLines(s, a) == {b \in LinesAfter(s, a) : ~HasColon(LineAt(s, b))}

IsRequestLine(line) == parseRequestLine(NewRequest, line).does = "ok"
BadLineAt(s, a) == Complete(s, a) /\ ~IsRequestLine(LineAt(s, a))

\* A request line, header lines, and a line without a colon that ends them.
IsRequestAt(s, a) ==
    Complete(s, a) /\ IsRequestLine(LineAt(s, a)) /\ LastLines(s, a) # {}

\* The headers of a set of lines: for each name the value of its last line.
Colon(line) == First({i \in DOMAIN line : line[i] = ":"})
Name(line) == SubSeq(line, 1, Colon(line) - 1)
Value(line) == Trim(SubSeq(line, Colon(line) + 1, Len(line)))
HeadersIn(s, lines) ==
    [n \in {Name(LineAt(s, b)) : b \in lines} |->
        Value(LineAt(s, Last({b \in lines : Name(LineAt(s, b)) = n})))]

RequestAt(s, a) ==
    [parseRequestLine(NewRequest, LineAt(s, a)).request EXCEPT
        !.headers = HeadersIn(s, {b \in LinesAfter(s, a) : b < First(LastLines(s, a))})]

\* Where the requests begin: the first at 1, another where the one before it ends.
RequestStarts(s) ==
    LET start[n \in Nat] ==
            IF n = 0 THEN 1
            ELSE IF IsRequestAt(s, start[n - 1])
            THEN EndOf(s, First(LastLines(s, start[n - 1]))) + 2 ELSE start[n - 1]
    IN start
=============================================================================
