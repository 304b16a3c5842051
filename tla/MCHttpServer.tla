---------------------------- MODULE MCHttpServer ----------------------------
(* Streams for HttpServer: up to three requests with good and bad request    *)
(* lines, a query, repeated and padded headers, and lines that are neither.  *)
EXTENDS HttpServer

CRLF == <<CR, LF>>

RequestLines == {
    <<"GET", SP, "/", SP, "HTTP/1.1">>,
    <<"POST", SP, "/", "?", "q", SP, "HTTP/1.0">>,
    <<"HEAD", SP, "/1", SP, "HTTP/1.0">>}
BadLines == {<<"BREW", SP, "/", SP, "HTTP/1.1">>, <<"GET", SP, "/">>,
             <<"GET", SP, "/", SP, "HTTP/1.1", SP>>, <<"GET">>, <<"GET", SP, "/", SP, "?">>}
HeaderGroups == {
    <<>>,
    <<"Connection", ":", SP, "close">> \o CRLF,
    <<"Connection", ":", "close">> \o CRLF \o <<"Connection", ":", SP, "Keep-Alive", SP>> \o CRLF,
    <<CR, "Host", ":", "h", ":", "1">> \o CRLF}
Ends == {CRLF, <<"text">> \o CRLF}

Request == {line \o CRLF \o hs \o end : line \in RequestLines, hs \in HeaderGroups, end \in Ends}
Plain == <<"GET", SP, "/", SP, "HTTP/1.1">> \o CRLF \o CRLF

MCStreams == {r \o q : r \in Request, q \in {Plain, Plain \o Plain, <<>>}}
             \cup {Plain \o bad \o CRLF \o CRLF \o Plain : bad \in BadLines}
             \cup {r \o Plain \o <<CR>> : r \in Request}
=============================================================================
