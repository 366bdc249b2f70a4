------------------------------ MODULE HttpServer ------------------------------
(***************************************************************************)
(* HttpServer::handleClient (src/src/http_server.cc) for the clients that  *)
(* TcpServer accepts: HttpSession::recvRequest (src/src/http_session.cc)   *)
(* over HttpRequestParser (src/src/http_parser.cc) and the stream          *)
(* functions (src/src/stream.cc), the dispatch and the response.           *)
(*                                                                         *)
(* A client sends a constant sequence of requests in units: two for each   *)
(* token of a head, which are a method, a path, headers and the end, and   *)
(* then the body.  TCP delivers them in any segments.  http_parser_execute *)
(* forgets at every call where a token began: one that ends in a later     *)
(* call than it began in is cut.  It consumes all it is given, up to the   *)
(* end of the head.  What a parser that does not start at the beginning of *)
(* a request makes of the units is open.                                   *)
(*                                                                         *)
(* A session's fiber leaves its thread of m_ioWorker when it waits, in     *)
(* recv for m_recvTimeout and in send for ever.                            *)
(***************************************************************************)
EXTENDS TcpServer, FiniteSets

CONSTANTS
    Script,        \* client -> its requests: the units it sends before it, its headers,
                   \* and the units of its body
    buff_size,     \* units of http_request_buffer_size
    m_isKeepalive,
    IoThreads,     \* the number of m_ioWorker's threads
    StrayLeft      \* bound: what the body of a request that is none may still want

Requests == [at : Nat, headers : Seq({"length", "keep-alive", "other"}), body : Nat]

\* The last unit of a request's head, and its last unit.
HeadEnd(r) == r.at + 2 * Len(r.headers) + 6
End(r) == HeadEnd(r) + r.body

ASSUME HttpAssumption ==
    /\ buff_size \in Nat /\ m_isKeepalive \in BOOLEAN
    /\ IoThreads \in Nat /\ StrayLeft \in Nat
    /\ \A c \in Clients :
        /\ Script[c] \in Seq(Requests)
        /\ \A i \in DOMAIN Script[c] :
              Script[c][i].at = IF i = 1 THEN 0 ELSE End(Script[c][i - 1])

VARIABLES
    pc,         \* client -> where its handleClient is
    sent,       \* client -> units it has sent
    got,        \* client -> units read() has taken
    eof,        \* the clients that have closed
    parser,     \* client -> its HttpRequestParser
    request,    \* client -> the request recvRequest has found the head of
    left,       \* client -> units of the body that readFixSize still wants
    handled,    \* client -> history: the requests given to the dispatch, until it is cut or
                \* astray
    answered,   \* client -> history: responses sent in full, until it is cut or astray
    cut,        \* history: the clients of which a token was cut
    astray,     \* history: the clients of which a parser began inside a request
    ahead       \* history: the clients that sent a request before the last answer

wirevars == <<sent, eof, ahead>>
svars == <<pc, got, parser, request, left, handled, answered, cut, astray>>
hvars == <<tvars, wirevars, svars>>

Fresh == [first |-> TRUE, path |-> 0, headers |-> <<>>, error |-> FALSE]
NoRequest == [path |-> 0, body |-> 0, length |-> 0, keep |-> FALSE]

Init ==
    /\ TcpInit
    /\ pc = [c \in Clients |-> "none"]
    /\ sent = [c \in Clients |-> 0] /\ got = [c \in Clients |-> 0]
    /\ eof = {} /\ cut = {} /\ astray = {} /\ ahead = {}
    /\ parser = [c \in Clients |-> Fresh]
    /\ request = [c \in Clients |-> NoRequest]
    /\ left = [c \in Clients |-> 0]
    /\ handled = [c \in Clients |-> <<>>]
    /\ answered = [c \in Clients |-> 0]

-----------------------------------------------------------------------------
(* What the clients send                                                   *)

\* The next request; the network delivers it in pieces.  What a client sends before it is
\* accepted is as good as sent then.
Send(c) ==
    /\ client[c] = "accepted" /\ c \notin eof /\ pc[c] # "closed"
    /\ \E i \in DOMAIN Script[c] :
        /\ Script[c][i].at = sent[c]
        /\ sent' = [sent EXCEPT ![c] = End(Script[c][i])]
        /\ ahead' = IF i > answered[c] + 1 THEN ahead \cup {c} ELSE ahead
    /\ UNCHANGED <<tvars, eof, svars>>

\* The client goes, perhaps before all it has to send is sent.  What read() has not
\* taken comes whole or not at all: to take a part of it and then the end is to take the
\* part before the client goes.
Shutdown(c, n) ==
    /\ client[c] = "accepted" /\ c \notin eof /\ pc[c] # "closed"
    /\ n \in {got[c], sent[c]}
    /\ sent' = [sent EXCEPT ![c] = n]
    /\ eof' = eof \cup {c}
    /\ UNCHANGED <<tvars, ahead, svars>>

-----------------------------------------------------------------------------
(* handleClient                                                            *)

\* A thread of m_ioWorker is free, or will be: one that spins in readFixSize never is.
IoFree == Cardinality({c \in Clients : pc[c] = "spin"}) < IoThreads

\* m_ioWorker takes the task.
Begin(c) ==
    /\ client[c] = "accepted" /\ pc[c] = "none"
    /\ pc' = [pc EXCEPT ![c] = "head"]
    /\ UNCHANGED <<tvars, wirevars, got, parser, request, left, handled, answered, cut, astray>>

\* What read() may return, at once or when it arrives.
Avail(c) == sent[c] - got[c]

\* A call that ends after unit u of r cuts a token.  The end of the head has no text that
\* could be lost.
Splits(r, u) == u < HeadEnd(r) - 1 /\ (u - r.at) % 2 = 1

\* The headers of r that a call of http_parser_execute on its units after from up to to
\* reports.
Reported(r, from, to) ==
    LET begun == (from - r.at + 1) \div 2
        ended == (to - r.at) \div 2
    IN  SubSeq(r.headers, IF begun < 2 THEN 1 ELSE begun - 1,
                          IF ended < Len(r.headers) + 2 THEN ended - 2 ELSE Len(r.headers))

\* HttpRequestParser::execute on these units, and its callbacks.  A method that is cut is
\* an unknown one.
Execute(r, p, from, to) ==
    [first |-> FALSE,
     path |-> IF from <= r.at + 2 /\ to >= r.at + 4 THEN r.at + 4 ELSE p.path,
     headers |-> p.headers \o Reported(r, from, to),
     error |-> from = r.at + 1]

\* getContentLength: the map of the headers finds only the first (module HeaderMap).
getContentLength(r, p) ==
    IF p.headers # <<>> /\ p.headers[1] = "length" THEN r.body ELSE 0

\* Mutant of ToRead: the body is what came with the head.
ToReadNothing(length, extra) == 0

\* Mutant of ToRead: the request after the body is taken for a part of it.
ToReadUnguarded(length, extra) == length - extra

\* What of the body is still to come, of which the buffer holds some units.
ToRead(length, extra) == IF length > extra THEN length - extra ELSE 0

\* A turn of recvRequest's loop, in the client's request i: read, execute, and, at the
\* end of the head, how much of the body is still to come.  What was read beyond the body
\* is not kept.
ReadHead(c, i, n) ==
    LET r == Script[c][i]
        to == got[c] + n
        e == IF to < HeadEnd(r) THEN to ELSE HeadEnd(r)
        p == Execute(r, parser[c], got[c], e)
        length == getContentLength(r, p)
    IN
    /\ pc[c] = "head" /\ n \in 1 .. buff_size /\ n <= Avail(c)
    /\ got[c] \in r.at .. End(r) - 1 /\ (parser[c].first => got[c] = r.at)
    /\ got' = [got EXCEPT ![c] = to]
    /\ cut' = IF Splits(r, got[c]) THEN cut \cup {c} ELSE cut
    /\ \/ /\ p.error
          /\ pc' = [pc EXCEPT ![c] = "close"]
          /\ parser' = [parser EXCEPT ![c] = Fresh]
          /\ UNCHANGED <<request, left>>
       \/ /\ ~p.error /\ to < HeadEnd(r)
          /\ parser' = [parser EXCEPT ![c] = p]
          /\ UNCHANGED <<pc, request, left>>
       \/ /\ ~p.error /\ to >= HeadEnd(r)
          /\ parser' = [parser EXCEPT ![c] = Fresh]
          /\ request' = [request EXCEPT ![c] =
                [path |-> p.path, body |-> e + 1, length |-> length,
                 keep |-> Contains(p.headers, "keep-alive")]]
          /\ left' = [left EXCEPT ![c] = ToRead(length, to - e)]
          /\ pc' = [pc EXCEPT ![c] = IF left'[c] > 0 THEN "body" ELSE "handle"]
    /\ UNCHANGED <<tvars, wirevars, handled, answered, astray>>

\* The same in units that are not at the beginning of a request, for what went before
\* them is lost or was not taken for its body.  They may be no request, or look like one
\* or a part of one: bytes of a body may be anything.
ReadAstray(c, n) ==
    /\ \/ pc[c] = "astray"
       \/ /\ pc[c] = "head" /\ parser[c].first
          /\ \A i \in DOMAIN Script[c] : Script[c][i].at # got[c]
    /\ n \in 1 .. buff_size /\ n <= Avail(c)
    /\ got' = [got EXCEPT ![c] = @ + n]
    /\ astray' = astray \cup {c}
    /\ \/ /\ \E loc \in {"astray", "close"} : pc' = [pc EXCEPT ![c] = loc]
          /\ UNCHANGED <<request, left>>
       \/ \E l \in 0 .. StrayLeft, keep \in BOOLEAN :
            /\ request' = [request EXCEPT ![c] = [path |-> 0, body |-> 0, length |-> l, keep |-> keep]]
            /\ left' = [left EXCEPT ![c] = l]
            /\ pc' = [pc EXCEPT ![c] = IF l > 0 THEN "body" ELSE "handle"]
    /\ UNCHANGED <<tvars, wirevars, parser, handled, answered, cut>>

\* readFixSize reads on; it ends only with the last unit, or an error.
ReadBody(c, n) ==
    /\ pc[c] = "body" /\ n \in 1 .. left[c] /\ n <= Avail(c)
    /\ got' = [got EXCEPT ![c] = @ + n]
    /\ left' = [left EXCEPT ![c] = @ - n]
    /\ pc' = [pc EXCEPT ![c] = IF left'[c] = 0 THEN "handle" ELSE "body"]
    /\ UNCHANGED <<tvars, wirevars, parser, request, handled, answered, cut, astray>>

\* At the end of the stream, where read() returns 0, readFixSize reads for ever.
Spin(c) ==
    /\ pc[c] = "body" /\ c \in eof /\ Avail(c) = 0
    /\ pc' = [pc EXCEPT ![c] = "spin"]
    /\ UNCHANGED <<tvars, wirevars, got, parser, request, left, handled, answered, cut, astray>>

\* Mutant of ReadEnds: recvRequest, too, goes on at the end of the stream.
ReadEndsOpen(c) ==
    /\ pc[c] \in {"head", "astray", "body"} /\ c \notin eof
    /\ pc' = [pc EXCEPT ![c] = "close"]
    /\ UNCHANGED <<tvars, wirevars, got, parser, request, left, handled, answered, cut, astray>>

\* read() returns -1, if nothing comes for m_recvTimeout, or 0 at the end of the stream.
ReadEnds(c) ==
    /\ \/ pc[c] \in {"head", "astray"} /\ (c \in eof => Avail(c) = 0)
       \/ pc[c] = "body" /\ c \notin eof
    /\ pc' = [pc EXCEPT ![c] = "close"]
    /\ UNCHANGED <<tvars, wirevars, got, parser, request, left, handled, answered, cut, astray>>

\* Mutant of Answer: a response that is not sent is made again.
AnswerRetries(c) ==
    \/ /\ answered' = [answered EXCEPT ![c] = @ + 1]
       /\ pc' = [pc EXCEPT ![c] = IF m_isKeepalive /\ request[c].keep THEN "head" ELSE "close"]
       /\ request' = [request EXCEPT ![c] = NoRequest]
    \/ /\ c \in eof
       /\ pc' = [pc EXCEPT ![c] = "handle"]
       /\ UNCHANGED <<answered, request>>

\* sendResponse returns, with a result nobody looks at, and the test that ends the loop.
Answer(c) ==
    /\ \/ c \notin cut \cup astray /\ answered' = [answered EXCEPT ![c] = @ + 1]
       \/ c \in eof \cup cut \cup astray /\ UNCHANGED answered
    /\ pc' = [pc EXCEPT ![c] = IF m_isKeepalive /\ request[c].keep THEN "head" ELSE "close"]
    /\ request' = [request EXCEPT ![c] = NoRequest]

\* The dispatch and sendResponse: the kernel takes the response, or send waits for the
\* WRITE event, and no timer ends the wait: startAccept sets the timeout of recv only.
Handle(c) ==
    /\ pc[c] = "handle"
    /\ handled' = IF c \in cut \cup astray THEN handled ELSE [handled EXCEPT ![c] =
                    Append(@, [path |-> request[c].path,
                               body |-> [u \in 1 .. request[c].length |->
                                            IF u <= got[c] - request[c].body + 1
                                            THEN request[c].body + u - 1 ELSE 0]])]
    /\ \/ Answer(c)
       \/ pc' = [pc EXCEPT ![c] = "blocked"] /\ UNCHANGED <<answered, request>>
    /\ UNCHANGED <<tvars, wirevars, got, parser, left, cut, astray>>

\* The client reads, until the rest is sent, or its end breaks the connection.
Drain(c) ==
    /\ pc[c] = "blocked" /\ IoFree
    /\ Answer(c)
    /\ UNCHANGED <<tvars, wirevars, got, parser, left, handled, cut, astray>>

\* session->close(): nothing is left of the connection.
CloseSession(c) ==
    /\ pc[c] = "close"
    /\ pc' = [pc EXCEPT ![c] = "closed"]
    /\ sent' = [sent EXCEPT ![c] = 0] /\ got' = [got EXCEPT ![c] = 0]
    /\ parser' = [parser EXCEPT ![c] = Fresh]
    /\ request' = [request EXCEPT ![c] = NoRequest] /\ left' = [left EXCEPT ![c] = 0]
    /\ UNCHANGED <<tvars, eof, ahead, handled, answered, cut, astray>>

-----------------------------------------------------------------------------
Session(c) ==
    /\ IoFree
    /\ \/ Begin(c) \/ ReadEnds(c) \/ Spin(c) \/ Handle(c) \/ CloseSession(c)
       \/ \E n \in 1 .. Avail(c) :
            \/ ReadBody(c, n) \/ ReadAstray(c, n)
            \/ \E i \in DOMAIN Script[c] : ReadHead(c, i, n)

Next ==
    \/ TcpNext /\ UNCHANGED <<wirevars, svars>>
    \/ \E c \in Clients :
        \/ Session(c) \/ Drain(c) \/ Send(c)
        \/ \E n \in got[c] .. sent[c] : Shutdown(c, n)

\* The threads of m_ioWorker run what they may, and the timer of a recv that gets nothing
\* expires.  No client has to read.
Fairness ==
    /\ TcpFairness
    /\ \A c \in Clients : WF_hvars(Session(c))

FairSpec == Init /\ [][Next]_hvars /\ Fairness

-----------------------------------------------------------------------------
HttpTypeOK ==
    /\ TcpTypeOK
    /\ pc \in [Clients -> {"none", "head", "astray", "body", "spin", "handle", "blocked",
                        "close", "closed"}]
    /\ sent \in [Clients -> Nat] /\ got \in [Clients -> Nat]
    /\ eof \subseteq Clients /\ cut \subseteq Clients
    /\ astray \subseteq Clients /\ ahead \subseteq Clients
    /\ parser \in [Clients -> [first : BOOLEAN, path : Nat,
                               headers : Seq({"length", "keep-alive", "other"}),
                               error : BOOLEAN]]
    /\ request \in [Clients -> [path : Nat, body : Nat, length : Nat, keep : BOOLEAN]]
    /\ left \in [Clients -> Nat]
    /\ handled \in [Clients -> Seq([path : Nat, body : Seq(Nat)])]
    /\ answered \in [Clients -> Nat]
    /\ \A c \in Clients :
        /\ got[c] <= sent[c] /\ left[c] <= request[c].length
        /\ sent[c] = 0 \/ \E i \in DOMAIN Script[c] : sent[c] <= End(Script[c][i])

\* client -> its requests, as it means them.
Expected ==
    [c \in Clients |-> [i \in DOMAIN Script[c] |->
        [path |-> Script[c][i].at + 4,
         body |-> [k \in 1 .. Script[c][i].body |-> HeadEnd(Script[c][i]) + k]]]]

\* In whatever segments the requests arrive, if no token is cut and the client waits for
\* the answers, what is handled are its requests, one by one, each with its path and its
\* body: no unit is lost or taken twice between the parser's buffer, readFixSize and
\* the next request, and every parser begins where a request does.
InStep ==
    \A c \in Clients : c \notin cut \cup ahead =>
        c \notin astray /\ IsPrefix(handled[c], Expected[c])

\* A client that does not wait may lose whole requests, with what was read beyond a body;
\* as long as no parser begins inside a request, what is handled still are requests of
\* its, in their order and none of them twice.
Genuine ==
    \A c \in Clients : c \notin cut \cup astray =>
        \E f \in [DOMAIN handled[c] -> DOMAIN Expected[c]] :
            /\ \A i \in DOMAIN f : handled[c][i] = Expected[c][f[i]]
            /\ \A i, j \in DOMAIN f : i < j => f[i] < f[j]

\* Every client that is accepted is let go: its session ends and closes the socket.  It
\* does not if it spins in readFixSize at the end of the stream (stream.cc:7), if all
\* threads of m_ioWorker are held by sessions that do, or if the client never reads a
\* response that fills the socket's buffer (tcp_server.cc:84).
SessionEnds ==
    \A c \in Clients :
        client[c] = "accepted" ~> \/ pc[c] \in {"closed", "spin"} \/ ~IoFree
                                  \/ [](pc[c] = "blocked")

=============================================================================
