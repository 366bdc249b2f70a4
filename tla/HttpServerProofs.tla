--------------------------- MODULE HttpServerProofs ---------------------------
(***************************************************************************)
(* Proofs about HttpServer: whatever requests the clients send, in         *)
(* whatever segments they arrive, what a session hands to the dispatch are *)
(* requests its client has sent.  The invariant says for each place in     *)
(* recvRequest how the units that are read, what the parser has reported   *)
(* and what is left of the body belong to one request of the client, and   *)
(* that those handled are before it.                                       *)
(***************************************************************************)
EXTENDS HttpServer, TcpServerProofs

HttpSpec == Init /\ [][Next]_hvars

-----------------------------------------------------------------------------
(* What a client sends                                                     *)

Headers == {"length", "keep-alive", "other"}

LEMMA RequestFacts ==
    ASSUME NEW c \in Clients, NEW i \in DOMAIN Script[c]
    PROVE  /\ i \in Nat /\ i >= 1 /\ i <= Len(Script[c]) /\ Len(Script[c]) \in Nat
           /\ DOMAIN Script[c] = 1 .. Len(Script[c])
           /\ Script[c][i].at \in Nat /\ Script[c][i].body \in Nat
           /\ Script[c][i].headers \in Seq(Headers) /\ Len(Script[c][i].headers) \in Nat
           /\ HeadEnd(Script[c][i]) = Script[c][i].at + 2 * Len(Script[c][i].headers) + 6
           /\ End(Script[c][i]) = HeadEnd(Script[c][i]) + Script[c][i].body
           /\ HeadEnd(Script[c][i]) \in Nat /\ End(Script[c][i]) \in Nat
           /\ HeadEnd(Script[c][i]) >= Script[c][i].at + 6
           /\ End(Script[c][i]) >= HeadEnd(Script[c][i])
<1> DEFINE r == Script[c][i]
<1>1. Script[c] \in Seq(Requests)
  BY HttpAssumption
<1>2. Len(Script[c]) \in Nat /\ DOMAIN Script[c] = 1 .. Len(Script[c])
  BY <1>1, LenProperties
<1>3. r \in Requests
  BY <1>1, <1>2, ElementOfSeq
<1>4. r.at \in Nat /\ r.body \in Nat /\ r.headers \in Seq(Headers)
  BY <1>3 DEF Requests, Headers
<1>5. Len(r.headers) \in Nat
  BY <1>4, LenProperties
<1>6. HeadEnd(r) = r.at + 2 * Len(r.headers) + 6 /\ End(r) = HeadEnd(r) + r.body
  BY DEF HeadEnd, End
<1>7. /\ HeadEnd(r) \in Nat /\ End(r) \in Nat
      /\ HeadEnd(r) >= r.at + 6 /\ End(r) >= HeadEnd(r)
  <2> DEFINE a == r.at
             b == r.body
             n == Len(r.headers)
             h == HeadEnd(r)
             e == End(r)
  <2>1. a \in Nat /\ b \in Nat /\ n \in Nat
    BY <1>4, <1>5
  <2>2. h = a + 2 * n + 6 /\ e = h + b
    BY <1>6
  <2> HIDE DEF a, b, n, h, e
  <2>3. h \in Nat /\ e \in Nat /\ h >= a + 6 /\ e >= h
    BY <2>1, <2>2
  <2>4. QED
    BY <2>3 DEF a, h, e
<1>8. i \in Nat /\ i >= 1 /\ i <= Len(Script[c])
  BY <1>2
<1>9. QED
  BY <1>2, <1>4, <1>5, <1>6, <1>7, <1>8, Zenon DEF r

\* A client's requests do not overlap.
LEMMA Ordered ==
    ASSUME NEW c \in Clients, NEW i \in DOMAIN Script[c], NEW j \in DOMAIN Script[c], i < j
    PROVE  End(Script[c][i]) <= Script[c][j].at
<1> DEFINE N == Len(Script[c])
           At(k) == Script[c][k].at
           LastOf(k) == End(Script[c][k])
           T == {k \in 1 .. N : \E l \in 1 .. N : l < k /\ LastOf(l) > At(k)}
<1>1. N \in Nat /\ DOMAIN Script[c] = 1 .. N
  BY RequestFacts
<1>2. \A k \in 1 .. N : At(k) \in Nat /\ LastOf(k) \in Nat /\ At(k) <= LastOf(k)
  <2> SUFFICES ASSUME NEW k \in 1 .. N
               PROVE  At(k) \in Nat /\ LastOf(k) \in Nat /\ At(k) <= LastOf(k)
    OBVIOUS
  <2> QED
    BY <1>1, RequestFacts
<1>3. \A k \in 1 .. N : k # 1 => At(k) = LastOf(k - 1)
  BY <1>1, HttpAssumption
<1> HIDE DEF N, At, LastOf
<1>4. ASSUME T # {} PROVE FALSE
  <2>1. PICK k \in T : \A m \in T : k <= m
    <3>1. T \subseteq Nat
      BY <1>1
    <3> HIDE DEF T
    <3>2. QED
      BY <1>4, <3>1, LeastOf
  <2>2. PICK l \in 1 .. N : l < k /\ LastOf(l) > At(k)
    BY <2>1
  <2>3. k - 1 \in 1 .. N /\ At(k) = LastOf(k - 1)
    BY <1>1, <1>3, <2>1, <2>2
  <2>4. CASE l = k - 1
    BY <2>2, <2>3, <2>4, <1>2
  <2>5. CASE l # k - 1
    <3>1. l < k - 1 /\ LastOf(l) > At(k - 1)
      BY <1>1, <1>2, <2>1, <2>2, <2>3, <2>5
    <3>2. k - 1 \in T
      BY <2>3, <3>1
    <3>3. QED
      BY <1>1, <2>1, <3>2
  <2>6. QED
    BY <2>4, <2>5
<1>5. j \notin T
  BY <1>4
<1>6. LastOf(i) <= At(j)
  BY <1>1, <1>2, <1>5
<1>7. QED
  BY <1>6 DEF LastOf, At

LEMMA Adjacent ==
    ASSUME NEW c \in Clients, NEW n \in Nat, n # 0, n + 1 \in DOMAIN Script[c]
    PROVE  Script[c][n + 1].at = End(Script[c][n])
<1>1. PICK k : k = n + 1
  OBVIOUS
<1>2. k # 1 /\ k - 1 = n /\ k \in DOMAIN Script[c]
  BY <1>1
<1>3. Script[c][k].at = End(Script[c][k - 1])
  BY <1>2, HttpAssumption
<1>4. QED
  BY <1>1, <1>2, <1>3

\* A unit is of one request.
LEMMA OneRequest ==
    ASSUME NEW c \in Clients, NEW i \in DOMAIN Script[c], NEW j \in DOMAIN Script[c],
           NEW u \in Nat,
           Script[c][i].at <= u, u < End(Script[c][i]),
           Script[c][j].at <= u, u < End(Script[c][j])
    PROVE  i = j
<1>1. CASE i < j
  BY <1>1, Ordered, RequestFacts
<1>2. CASE j < i
  BY <1>2, Ordered, RequestFacts
<1>3. QED
  BY <1>1, <1>2, RequestFacts

-----------------------------------------------------------------------------
(* What the parser reports                                                 *)

Parsers == [first : BOOLEAN, path : Nat, headers : Seq(Headers), error : BOOLEAN]

LEMMA Halves ==
    ASSUME NEW d \in Nat
    PROVE  d \div 2 \in Nat /\ 2 * (d \div 2) <= d /\ d <= 2 * (d \div 2) + 1
OBVIOUS

\* The first header is reported by the call that takes the whole of it.
LEMMA ReportedFacts ==
    ASSUME NEW c \in Clients, NEW i \in DOMAIN Script[c], NEW from \in Nat, NEW to \in Nat,
           Script[c][i].at <= from, Script[c][i].at <= to
    PROVE  LET r == Script[c][i] IN
           /\ Reported(r, from, to) \in Seq(Headers)
           /\ to < r.at + 6 => Reported(r, from, to) = <<>>
           /\ from <= r.at + 4 /\ to >= r.at + 6 /\ r.headers # <<>>
                => Reported(r, from, to) # <<>> /\ Reported(r, from, to)[1] = r.headers[1]
<1> DEFINE hs == Script[c][i].headers
           a == Script[c][i].at
           N == Len(hs)
           begun == (from - a + 1) \div 2
           ended == (to - a) \div 2
           lo == IF begun < 2 THEN 1 ELSE begun - 1
           hi == IF ended < N + 2 THEN ended - 2 ELSE N
<1>1. a \in Nat /\ hs \in Seq(Headers) /\ N \in Nat
  BY RequestFacts
<1>2. Reported(Script[c][i], from, to) = SubSeq(hs, lo, hi)
  BY DEF Reported
<1>3. /\ \A k \in 1 .. N : hs[k] \in Headers
      /\ hs # <<>> => N >= 1
  BY <1>1, ElementOfSeq, EmptySeq, LenProperties
<1>4. /\ begun \in Nat /\ ended \in Nat
      /\ from <= a + 4 => begun <= 2
      /\ to < a + 6 => ended < 3
      /\ to >= a + 6 => ended >= 3
  <2>1. from - a + 1 \in Nat /\ to - a \in Nat
    BY <1>1
  <2>2. /\ begun \in Nat /\ 2 * begun <= from - a + 1 /\ from - a + 1 <= 2 * begun + 1
        /\ ended \in Nat /\ 2 * ended <= to - a /\ to - a <= 2 * ended + 1
    BY <2>1, Halves
  <2> HIDE DEF begun, ended, a
  <2>3. QED
    BY <1>1, <2>2
<1> HIDE DEF begun, ended, hs, N, a
<1>5. /\ lo \in Nat /\ lo >= 1 /\ hi \in Int /\ hi <= N
      /\ from <= a + 4 => lo = 1
      /\ to < a + 6 => hi < lo
      /\ to >= a + 6 /\ N >= 1 => hi >= 1
  BY <1>1, <1>4
<1> HIDE DEF lo, hi
<1>6. \A k \in lo .. hi : hs[k] \in Headers
  BY <1>1, <1>3, <1>5
<1>7. /\ SubSeq(hs, lo, hi) \in Seq(Headers)
      /\ Len(SubSeq(hs, lo, hi)) = IF lo <= hi THEN hi - lo + 1 ELSE 0
      /\ \A k \in 1 .. hi - lo + 1 : SubSeq(hs, lo, hi)[k] = hs[lo + k - 1]
  BY <1>5, <1>6, SubSeqProperties
<1>8. ASSUME to < a + 6 PROVE SubSeq(hs, lo, hi) = <<>>
  BY <1>5, <1>8, SubSeqEmpty
<1>9. ASSUME from <= a + 4, to >= a + 6, hs # <<>>
      PROVE  SubSeq(hs, lo, hi) # <<>> /\ SubSeq(hs, lo, hi)[1] = hs[1]
  <2>1. lo = 1 /\ hi >= 1
    BY <1>3, <1>5, <1>9
  <2>2. Len(SubSeq(hs, lo, hi)) = hi /\ SubSeq(hs, lo, hi)[1] = hs[1]
    <3>1. Len(SubSeq(hs, lo, hi)) = hi
      BY <1>5, <1>7, <2>1
    <3>2. 1 \in 1 .. hi - lo + 1 /\ lo + 1 - 1 = 1
      BY <1>5, <2>1
    <3>3. SubSeq(hs, lo, hi)[1] = hs[1]
      BY <1>7, <3>2
    <3>4. QED
      BY <3>1, <3>3
  <2>3. SubSeq(hs, lo, hi) # <<>>
    <3> DEFINE q == SubSeq(hs, lo, hi)
    <3>1. Len(q) # 0
      BY <1>5, <2>1, <2>2
    <3> HIDE DEF q
    <3>2. q # <<>>
      BY <3>1
    <3>3. QED
      BY <3>2 DEF q
  <2>4. QED
    BY <2>2, <2>3
<1>10. QED
  BY <1>2, <1>7, <1>8, <1>9, Zenon DEF a, hs

LEMMA ExecuteFacts ==
    ASSUME NEW c \in Clients, NEW i \in DOMAIN Script[c], NEW from \in Nat, NEW to \in Nat,
           Script[c][i].at <= from, Script[c][i].at <= to, NEW p \in Parsers
    PROVE  LET r == Script[c][i]
               q == Execute(r, p, from, to)
           IN
           /\ q \in Parsers /\ q.first = FALSE
           /\ q.path = IF from <= r.at + 2 /\ to >= r.at + 4 THEN r.at + 4 ELSE p.path
           /\ q.headers = p.headers \o Reported(r, from, to)
           /\ q.error <=> from = r.at + 1
<1> DEFINE r == Script[c][i]
<1>1. r.at \in Nat /\ Reported(r, from, to) \in Seq(Headers)
  BY RequestFacts, ReportedFacts
<1>2. p.first \in BOOLEAN /\ p.path \in Nat /\ p.headers \in Seq(Headers)
  BY DEF Parsers
<1> DEFINE path == IF from <= r.at + 2 /\ to >= r.at + 4 THEN r.at + 4 ELSE p.path
           headers == p.headers \o Reported(r, from, to)
           error == from = r.at + 1
<1>3. path \in Nat
  BY <1>1, <1>2
<1>4. headers \in Seq(Headers)
  BY <1>1, <1>2, ConcatProperties
<1>5. error \in BOOLEAN
  BY <1>2
<1>6. Execute(r, p, from, to) =
        [first |-> FALSE, path |-> path, headers |-> headers, error |-> error]
  BY DEF Execute
<1> HIDE DEF path, headers, error
<1>7. /\ Execute(r, p, from, to) \in Parsers
      /\ Execute(r, p, from, to).first = FALSE /\ Execute(r, p, from, to).path = path
      /\ Execute(r, p, from, to).headers = headers /\ Execute(r, p, from, to).error = error
  BY <1>3, <1>4, <1>5, <1>6 DEF Parsers
<1>8. QED
  BY <1>7, Zenon DEF path, headers, error, r

-----------------------------------------------------------------------------
(* Type correctness                                                        *)

Stages == {"none", "head", "astray", "body", "spin", "handle", "blocked", "close", "closed"}
Found == [path : Nat, body : Nat, length : Nat, keep : BOOLEAN]
Answers == [path : Nat, body : Seq(Nat)]

WireTypes ==
    /\ pc \in [Clients -> Stages]
    /\ sent \in [Clients -> Nat] /\ got \in [Clients -> Nat]
    /\ eof \subseteq Clients /\ cut \subseteq Clients
    /\ astray \subseteq Clients /\ ahead \subseteq Clients
    /\ answered \in [Clients -> Nat]
ParserTypes ==
    /\ parser \in [Clients -> Parsers]
    /\ request \in [Clients -> Found]
    /\ left \in [Clients -> Nat]
    /\ handled \in [Clients -> Seq(Answers)]
Sent(c) == sent[c] = 0 \/ \E i \in DOMAIN Script[c] : sent[c] <= End(Script[c][i])
\* Only readFixSize, when it fails, leaves something to read.
Done(c) == pc[c] \in {"none", "head", "astray", "handle", "blocked"} => left[c] = 0
Fits(c) == got[c] <= sent[c] /\ left[c] <= request[c].length /\ Sent(c) /\ Done(c)
Bounds == \A c \in Clients : Fits(c)

LEMMA HttpTypeParts == TcpTypeOK /\ WireTypes /\ ParserTypes /\ Bounds => HttpTypeOK
BY Zenon DEF HttpTypeOK, WireTypes, ParserTypes, Bounds, Fits, Sent, Stages, Found, Answers,
             Parsers, Headers

\* A session is a step of one client; what the others have is unchanged.
Others(c) ==
    \A d \in Clients : d # c =>
        /\ pc'[d] = pc[d] /\ sent'[d] = sent[d] /\ got'[d] = got[d]
        /\ (d \in eof' <=> d \in eof) /\ (d \in ahead' <=> d \in ahead)
        /\ (d \in cut' <=> d \in cut) /\ (d \in astray' <=> d \in astray)
        /\ parser'[d] = parser[d] /\ request'[d] = request[d] /\ left'[d] = left[d]
        /\ handled'[d] = handled[d] /\ answered'[d] = answered[d]

Step(c) ==
    \/ Session(c) \/ Drain(c) \/ Send(c)
    \/ \E n \in got[c] .. sent[c] : Shutdown(c, n)

LEMMA OthersStay ==
    ASSUME WireTypes, ParserTypes, NEW c \in Clients, Step(c)
    PROVE  Others(c)
<1> USE DEF WireTypes, ParserTypes, Others, wirevars, svars
<1>1. CASE Send(c)
  BY <1>1 DEF Send
<1>2. CASE \E n \in got[c] .. sent[c] : Shutdown(c, n)
  BY <1>2 DEF Shutdown
<1>3. CASE Begin(c)
  BY <1>3 DEF Begin
<1>4. CASE ReadEnds(c)
  BY <1>4 DEF ReadEnds
<1>5. CASE Handle(c) \/ Drain(c)
  <2>1. /\ sent' = sent /\ eof' = eof /\ ahead' = ahead /\ got' = got /\ parser' = parser
        /\ left' = left /\ cut' = cut /\ astray' = astray
    BY <1>5 DEF Handle, Drain
  <2>2. \A d \in Clients : d # c =>
            pc'[d] = pc[d] /\ request'[d] = request[d] /\ answered'[d] = answered[d]
    BY <1>5 DEF Handle, Drain, Answer
  <2>3. \A d \in Clients : d # c => handled'[d] = handled[d]
    BY <1>5 DEF Handle, Drain
  <2>4. QED
    BY <2>1, <2>2, <2>3
<1>6. CASE Spin(c)
  BY <1>6 DEF Spin
<1>7. CASE CloseSession(c)
  BY <1>7 DEF CloseSession
<1>8. CASE \E n \in 1 .. Avail(c) : \E i \in DOMAIN Script[c] : ReadHead(c, i, n)
  <2>1. PICK n \in 1 .. Avail(c), i \in DOMAIN Script[c] : ReadHead(c, i, n)
    BY <1>8
  <2>2. UNCHANGED <<sent, eof, ahead, handled, answered, astray>>
    BY <2>1 DEF ReadHead
  <2>3. \A d \in Clients : d # c => got'[d] = got[d] /\ (d \in cut' <=> d \in cut)
    BY <2>1 DEF ReadHead
  <2>4. \A d \in Clients : d # c => parser'[d] = parser[d]
    <3> HIDE DEF Execute, Fresh
    <3> QED
      BY <2>1 DEF ReadHead
  <2>5. \A d \in Clients : d # c =>
            pc'[d] = pc[d] /\ request'[d] = request[d] /\ left'[d] = left[d]
    BY <2>1 DEF ReadHead
  <2>6. QED
    BY <2>2, <2>3, <2>4, <2>5
<1>9. CASE \E n \in 1 .. Avail(c) : ReadBody(c, n)
  BY <1>9 DEF ReadBody
<1>10. CASE \E n \in 1 .. Avail(c) : ReadAstray(c, n)
  BY <1>10 DEF ReadAstray
<1>11. QED
  BY <1>1, <1>2, <1>3, <1>4, <1>5, <1>6, <1>7, <1>8, <1>9, <1>10 DEF Step, Session

\* What ReadHead's names stand for.
LEMMA HeadFacts ==
    ASSUME WireTypes, ParserTypes, NEW c \in Clients, NEW n, NEW i \in DOMAIN Script[c],
           ReadHead(c, i, n)
    PROVE  LET r == Script[c][i]
               to == got[c] + n
               e == IF to < HeadEnd(r) THEN to ELSE HeadEnd(r)
               p == Execute(r, parser[c], got[c], e)
           IN
           /\ got[c] \in Nat /\ to \in Nat /\ got[c] < to /\ to <= sent[c]
           /\ r.at <= got[c] /\ got[c] < End(r)
           /\ e \in Nat /\ r.at <= e /\ e <= to /\ e <= HeadEnd(r)
           /\ p \in Parsers /\ Fresh \in Parsers
           /\ getContentLength(r, p) \in Nat
           /\ ToRead(getContentLength(r, p), to - e) \in Nat
           /\ ToRead(getContentLength(r, p), to - e) <= getContentLength(r, p)
<1> DEFINE r == Script[c][i]
           to == got[c] + n
           e == IF to < HeadEnd(r) THEN to ELSE HeadEnd(r)
           p == Execute(r, parser[c], got[c], e)
           length == getContentLength(r, p)
           a == r.at
           h == HeadEnd(r)
           l == End(r)
<1>1. a \in Nat /\ h \in Nat /\ l \in Nat /\ h >= a + 6 /\ l >= h /\ r.body \in Nat
  BY RequestFacts
<1>2. got[c] \in Nat /\ sent[c] \in Nat /\ parser[c] \in Parsers
  BY DEF WireTypes, ParserTypes
<1>3. n \in 1 .. buff_size /\ buff_size \in Nat /\ n <= sent[c] - got[c] /\ got[c] \in a .. l - 1
  BY HttpAssumption DEF ReadHead, Avail
<1>4. /\ to \in Nat /\ got[c] < to /\ to <= sent[c] /\ a <= got[c] /\ got[c] < l
  <2> HIDE DEF a, l
  <2> QED
    BY <1>1, <1>2, <1>3
<1>5. e = IF to < h THEN to ELSE h
  OBVIOUS
<1>6. e \in Nat /\ a <= e /\ e <= to /\ e <= h
  <2> HIDE DEF a, h, l, to, e
  <2> QED
    BY <1>1, <1>2, <1>4, <1>5
<1>7. p \in Parsers
  <2> HIDE DEF e
  <2> QED
    BY <1>1, <1>2, <1>4, <1>6, ExecuteFacts
<1>8. Fresh \in Parsers
  <2>1. <<>> \in Seq(Headers)
    BY EmptySeq
  <2>2. QED
    BY <2>1 DEF Fresh, Parsers
<1>9. length \in Nat
  <2> HIDE DEF p
  <2> QED
    BY <1>1 DEF getContentLength
<1>10. ToRead(length, to - e) \in Nat /\ ToRead(length, to - e) <= length
  <2> HIDE DEF length, to, e
  <2> QED
    BY <1>4, <1>6, <1>9 DEF ToRead
<1>11. QED
  BY <1>2, <1>4, <1>6, <1>7, <1>8, <1>9, <1>10, Zenon DEF a, h, l

LEMMA ReadHeadTypes ==
    ASSUME WireTypes, ParserTypes, NEW c \in Clients, NEW n, NEW i \in DOMAIN Script[c],
           ReadHead(c, i, n)
    PROVE  /\ WireTypes' /\ ParserTypes' /\ UNCHANGED sent /\ got'[c] <= sent'[c]
           /\ left[c] <= request[c].length => left'[c] <= request'[c].length
           /\ Done(c) => Done(c)'
<1> DEFINE r == Script[c][i]
           to == got[c] + n
           e == IF to < HeadEnd(r) THEN to ELSE HeadEnd(r)
           p == Execute(r, parser[c], got[c], e)
           length == getContentLength(r, p)
           keep == Contains(p.headers, "keep-alive")
           todo == ToRead(length, to - e)
<1>1. /\ got[c] \in Nat /\ to \in Nat /\ to <= sent[c] /\ e \in Nat
      /\ p \in Parsers /\ Fresh \in Parsers /\ length \in Nat
      /\ todo \in Nat /\ todo <= length
  BY HeadFacts
<1>2. /\ got' = [got EXCEPT ![c] = to]
      /\ cut' = (IF Splits(r, got[c]) THEN cut \cup {c} ELSE cut)
      /\ \/ /\ pc' = [pc EXCEPT ![c] = "close"]
            /\ parser' = [parser EXCEPT ![c] = Fresh]
            /\ request' = request /\ left' = left
         \/ /\ parser' = [parser EXCEPT ![c] = p]
            /\ pc' = pc /\ request' = request /\ left' = left
         \/ /\ parser' = [parser EXCEPT ![c] = Fresh]
            /\ request' = [request EXCEPT ![c] =
                  [path |-> p.path, body |-> e + 1, length |-> length, keep |-> keep]]
            /\ left' = [left EXCEPT ![c] = todo]
            /\ pc' = [pc EXCEPT ![c] = IF left'[c] > 0 THEN "body" ELSE "handle"]
  BY Zenon DEF ReadHead
<1>3. /\ sent' = sent /\ eof' = eof /\ ahead' = ahead /\ handled' = handled
      /\ answered' = answered /\ astray' = astray
  BY DEF ReadHead, wirevars
<1>4. keep \in BOOLEAN /\ p.path \in Nat
  BY <1>1 DEF Contains, Parsers
<1> HIDE DEF r, to, e, p, length, keep, todo
<1>5. WireTypes'
  <2>1. got' \in [Clients -> Nat] /\ cut' \subseteq Clients
    BY <1>1, <1>2 DEF WireTypes
  <2>2. pc' \in [Clients -> Stages]
    BY <1>2 DEF WireTypes, Stages
  <2>3. QED
    BY <1>3, <2>1, <2>2 DEF WireTypes
<1>6. parser' \in [Clients -> Parsers]
  BY <1>1, <1>2 DEF ParserTypes
<1>7. [path |-> p.path, body |-> e + 1, length |-> length, keep |-> keep] \in Found
  BY <1>1, <1>4 DEF Found
<1>8. request' \in [Clients -> Found]
  BY <1>2, <1>7 DEF ParserTypes
<1>9. left' \in [Clients -> Nat]
  BY <1>1, <1>2 DEF ParserTypes
<1>10. ASSUME left[c] <= request[c].length PROVE left'[c] <= request'[c].length
  <2>1. CASE request' = request /\ left' = left
    BY <1>10, <2>1
  <2>2. CASE /\ request' = [request EXCEPT ![c] =
                  [path |-> p.path, body |-> e + 1, length |-> length, keep |-> keep]]
             /\ left' = [left EXCEPT ![c] = todo]
    <3>1. request'[c].length = length
      BY <2>2 DEF ParserTypes
    <3>2. left'[c] = todo
      BY <2>2 DEF ParserTypes
    <3>3. QED
      BY <1>1, <3>1, <3>2
  <2>3. QED
    BY <1>2, <2>1, <2>2
<1>11. got'[c] <= sent'[c]
  BY <1>1, <1>2, <1>3 DEF WireTypes
<1>12. ASSUME Done(c) PROVE Done(c)'
  <2>1. pc[c] = "head" /\ left[c] = 0
    BY <1>12 DEF Done, ReadHead
  <2>2. CASE left' = left
    BY <2>1, <2>2 DEF Done
  <2>3. CASE /\ left' = [left EXCEPT ![c] = todo]
             /\ pc' = [pc EXCEPT ![c] = IF left'[c] > 0 THEN "body" ELSE "handle"]
    <3>1. left'[c] = todo
      BY <2>3 DEF ParserTypes
    <3>2. pc'[c] = IF todo > 0 THEN "body" ELSE "handle"
      BY <2>3, <3>1 DEF WireTypes
    <3>3. QED
      BY <1>1, <3>1, <3>2 DEF Done
  <2>4. QED
    BY <1>2, <2>2, <2>3
<1>13. QED
  BY <1>3, <1>5, <1>6, <1>8, <1>9, <1>10, <1>11, <1>12 DEF ParserTypes

LEMMA FreshTypes == Fresh \in Parsers /\ NoRequest \in Found /\ NoRequest.length = 0
<1>1. <<>> \in Seq(Headers)
  BY EmptySeq
<1>2. QED
  BY <1>1 DEF Fresh, Parsers, NoRequest, Found

LEMMA AnswerTypes ==
    ASSUME WireTypes, ParserTypes, NEW c \in Clients, Answer(c)
    PROVE  /\ pc' \in [Clients -> Stages] /\ answered' \in [Clients -> Nat]
           /\ request' \in [Clients -> Found]
           /\ pc'[c] \in {"head", "close"} /\ request'[c] = NoRequest
           /\ answered'[c] = answered[c] \/ answered'[c] = answered[c] + 1
<1>1. /\ answered' = answered \/ answered' = [answered EXCEPT ![c] = answered[c] + 1]
      /\ pc' = [pc EXCEPT ![c] = IF m_isKeepalive /\ request[c].keep THEN "head" ELSE "close"]
      /\ request' = [request EXCEPT ![c] = NoRequest]
  BY DEF Answer
<1>2. /\ answered' \in [Clients -> Nat]
      /\ answered'[c] = answered[c] \/ answered'[c] = answered[c] + 1
  BY <1>1 DEF WireTypes
<1>3. pc' \in [Clients -> Stages] /\ pc'[c] \in {"head", "close"}
  BY <1>1 DEF WireTypes, Stages
<1>4. request' \in [Clients -> Found] /\ request'[c] = NoRequest
  BY <1>1, FreshTypes DEF ParserTypes
<1>5. QED
  BY <1>2, <1>3, <1>4

LEMMA HandleTypes ==
    ASSUME WireTypes, ParserTypes, NEW c \in Clients, Handle(c)
    PROVE  WireTypes' /\ ParserTypes'
<1> DEFINE q == request[c]
           body == [u \in 1 .. q.length |-> IF u <= got[c] - q.body + 1 THEN q.body + u - 1 ELSE 0]
           answer == [path |-> q.path, body |-> body]
<1>1. q.path \in Nat /\ q.body \in Nat /\ q.length \in Nat /\ got[c] \in Nat
  BY DEF WireTypes, ParserTypes, Found
<1>2. body \in Seq(Nat)
  <2>1. \A u \in 1 .. q.length :
            (IF u <= got[c] - q.body + 1 THEN q.body + u - 1 ELSE 0) \in Nat
    <3> HIDE DEF q
    <3> QED
      BY <1>1
  <2>2. body \in [1 .. q.length -> Nat]
    <3> HIDE DEF q
    <3> QED
      BY <2>1
  <2> HIDE DEF body, q
  <2>3. QED
    BY <1>1, <2>2, SeqDef
<1>3. \/ handled' = handled
      \/ handled' = [handled EXCEPT ![c] = Append(handled[c], answer)]
  BY Zenon DEF Handle
<1> HIDE DEF body, q
<1>4. answer \in Answers
  BY <1>1, <1>2 DEF Answers
<1> HIDE DEF answer
<1>5. Append(handled[c], answer) \in Seq(Answers)
  BY <1>4, AppendProperties DEF ParserTypes
<1>6. handled' \in [Clients -> Seq(Answers)]
  BY <1>3, <1>5 DEF ParserTypes
<1>7. /\ parser' = parser /\ left' = left /\ got' = got /\ cut' = cut /\ astray' = astray
      /\ sent' = sent /\ eof' = eof /\ ahead' = ahead
  BY DEF Handle, wirevars
<1>8. \/ Answer(c)
      \/ pc' = [pc EXCEPT ![c] = "blocked"] /\ answered' = answered /\ request' = request
  BY DEF Handle
<1>9. /\ pc' \in [Clients -> Stages] /\ answered' \in [Clients -> Nat]
      /\ request' \in [Clients -> Found]
  <2>1. CASE Answer(c)
    BY <2>1, AnswerTypes
  <2>2. CASE pc' = [pc EXCEPT ![c] = "blocked"] /\ answered' = answered /\ request' = request
    BY <2>2 DEF WireTypes, ParserTypes, Stages
  <2>3. QED
    BY <1>8, <2>1, <2>2
<1>10. QED
  BY <1>6, <1>7, <1>9 DEF WireTypes, ParserTypes

LEMMA FitsStay ==
    ASSUME WireTypes, ParserTypes, Bounds, NEW c \in Clients, Step(c), Fits(c)'
    PROVE  Bounds'
<1>1. Others(c)
  BY OthersStay
<1>2. \A d \in Clients : d # c => Fits(d)'
  BY <1>1 DEF Bounds, Fits, Sent, Done, Others
<1>3. QED
  BY <1>2 DEF Bounds

LEMMA StepTypes ==
    ASSUME WireTypes, ParserTypes, Bounds, NEW c \in Clients, Step(c)
    PROVE  WireTypes' /\ ParserTypes' /\ Bounds'
<1>0. /\ got[c] \in Nat /\ sent[c] \in Nat /\ left[c] \in Nat /\ request[c].length \in Nat
      /\ got[c] <= sent[c] /\ left[c] <= request[c].length /\ Sent(c) /\ Done(c)
  BY DEF WireTypes, ParserTypes, Bounds, Fits, Found
<1>1. CASE Send(c)
  <2>1. PICK i \in DOMAIN Script[c] :
            Script[c][i].at = sent[c] /\ sent' = [sent EXCEPT ![c] = End(Script[c][i])]
    BY <1>1 DEF Send
  <2>2. End(Script[c][i]) \in Nat /\ sent[c] <= End(Script[c][i])
    BY <2>1, RequestFacts
  <2>3. sent' \in [Clients -> Nat] /\ sent'[c] = End(Script[c][i]) /\ sent[c] <= sent'[c]
    BY <2>1, <2>2 DEF WireTypes
  <2>4. /\ eof' = eof /\ pc' = pc /\ got' = got /\ parser' = parser /\ request' = request
        /\ left' = left /\ handled' = handled /\ answered' = answered /\ cut' = cut
        /\ astray' = astray /\ ahead' \subseteq ahead \cup {c}
    BY <1>1 DEF Send, svars
  <2>5. WireTypes'
    BY <2>3, <2>4 DEF WireTypes
  <2>6. Fits(c)'
    BY <1>0, <2>2, <2>3, <2>4 DEF Sent, Done, Fits
  <2>7. QED
    BY <2>4, <2>5, <2>6, FitsStay DEF ParserTypes
<1>2. CASE \E n \in got[c] .. sent[c] : Shutdown(c, n)
  <2>1. PICK n \in got[c] .. sent[c] : Shutdown(c, n)
    BY <1>2
  <2>2. n \in Nat /\ got[c] <= n /\ n <= sent[c]
    BY <1>0, <2>1
  <2>3. sent' \in [Clients -> Nat] /\ sent'[c] = n
    BY <2>1, <2>2 DEF WireTypes, Shutdown
  <2>4. /\ eof' = eof \cup {c} /\ pc' = pc /\ got' = got /\ parser' = parser /\ request' = request
        /\ left' = left /\ handled' = handled /\ answered' = answered /\ cut' = cut
        /\ astray' = astray /\ ahead' = ahead
    BY <2>1 DEF Shutdown, svars
  <2>5. WireTypes'
    BY <2>3, <2>4 DEF WireTypes
  <2>6. Sent(c)'
    <3>1. CASE sent[c] = 0
      BY <1>0, <2>2, <2>3, <3>1 DEF Sent
    <3>2. CASE \E i \in DOMAIN Script[c] : sent[c] <= End(Script[c][i])
      <4>1. PICK i \in DOMAIN Script[c] : sent[c] <= End(Script[c][i])
        BY <3>2
      <4>2. End(Script[c][i]) \in Nat
        BY RequestFacts
      <4>3. sent'[c] <= End(Script[c][i])
        BY <1>0, <2>2, <2>3, <4>1, <4>2
      <4>4. QED
        BY <4>3 DEF Sent
    <3>3. QED
      BY <1>0, <3>1, <3>2 DEF Sent
  <2>7. Fits(c)'
    BY <1>0, <2>2, <2>3, <2>4, <2>6 DEF Done, Fits
  <2>8. QED
    BY <2>4, <2>5, <2>7, FitsStay DEF ParserTypes
<1>3. CASE Session(c)
  <2>1. CASE Begin(c) \/ ReadEnds(c) \/ Spin(c)
    <3>1. /\ sent' = sent /\ eof' = eof /\ ahead' = ahead /\ got' = got /\ parser' = parser
          /\ request' = request /\ left' = left /\ handled' = handled /\ answered' = answered
          /\ cut' = cut /\ astray' = astray
          /\ \E x \in {"head", "close", "spin"} : pc' = [pc EXCEPT ![c] = x]
      BY <2>1 DEF Begin, ReadEnds, Spin, wirevars
    <3>2. WireTypes' /\ ParserTypes'
      BY <3>1 DEF WireTypes, ParserTypes, Stages
    <3>3. Begin(c) => left[c] = 0
      BY <1>0 DEF Begin, Done
    <3>4. pc'[c] \in {"head", "close", "spin"} /\ (pc'[c] = "head" => Begin(c))
      BY <2>1 DEF Begin, ReadEnds, Spin, WireTypes
    <3>5. Fits(c)'
      BY <1>0, <3>1, <3>3, <3>4 DEF Sent, Done, Fits
    <3>6. QED
      BY <3>2, <3>5, FitsStay
  <2>2. CASE Handle(c)
    <3>1. sent' = sent /\ got' = got /\ left' = left
      BY <2>2 DEF Handle, wirevars
    <3>2. WireTypes' /\ ParserTypes'
      BY <2>2, HandleTypes
    <3>3. left[c] = 0
      BY <1>0, <2>2 DEF Handle, Done
    <3>4. request'[c].length \in Nat
      BY <3>2 DEF ParserTypes, Found
    <3>5. Fits(c)'
      BY <1>0, <3>1, <3>3, <3>4 DEF Sent, Done, Fits
    <3>6. QED
      BY <3>2, <3>5, FitsStay
  <2>3. CASE \E n \in 1 .. Avail(c) : ReadAstray(c, n)
    <3>1. PICK n \in 1 .. Avail(c) : ReadAstray(c, n)
      BY <2>3
    <3>2. /\ n \in 1 .. buff_size /\ n <= sent[c] - got[c] /\ buff_size \in Nat
          /\ got' = [got EXCEPT ![c] = got[c] + n] /\ astray' = astray \cup {c}
          /\ sent' = sent /\ eof' = eof /\ ahead' = ahead /\ parser' = parser
          /\ handled' = handled /\ answered' = answered /\ cut' = cut
      BY <3>1, HttpAssumption DEF ReadAstray, wirevars, Avail
    <3>3. got[c] + n \in Nat /\ got[c] + n <= sent[c]
      BY <1>0, <3>2
    <3>4. pc[c] \in {"head", "astray"} /\ left[c] = 0
      BY <1>0, <3>1 DEF ReadAstray, Done
    <3>5. /\ pc' \in [Clients -> Stages] /\ request' \in [Clients -> Found]
          /\ left' \in [Clients -> Nat] /\ left'[c] <= request'[c].length /\ Done(c)'
      <4>1. CASE \E x \in {"astray", "close"} : pc' = [pc EXCEPT ![c] = x] /\ UNCHANGED <<request, left>>
        <5>1. PICK x \in {"astray", "close"} : pc' = [pc EXCEPT ![c] = x] /\ request' = request /\ left' = left
          BY <4>1
        <5>2. pc' \in [Clients -> Stages]
          BY <5>1 DEF WireTypes, Stages
        <5>3. QED
          BY <1>0, <3>4, <5>1, <5>2 DEF ParserTypes, Done
      <4>2. CASE \E l \in 0 .. StrayLeft, keep \in BOOLEAN :
                /\ request' = [request EXCEPT ![c] =
                                [path |-> 0, body |-> 0, length |-> l, keep |-> keep]]
                /\ left' = [left EXCEPT ![c] = l]
                /\ pc' = [pc EXCEPT ![c] = IF l > 0 THEN "body" ELSE "handle"]
        <5>1. PICK l \in 0 .. StrayLeft, keep \in BOOLEAN :
                /\ request' = [request EXCEPT ![c] =
                                [path |-> 0, body |-> 0, length |-> l, keep |-> keep]]
                /\ left' = [left EXCEPT ![c] = l]
                /\ pc' = [pc EXCEPT ![c] = IF l > 0 THEN "body" ELSE "handle"]
          BY <4>2
        <5>2. l \in Nat
          BY HttpAssumption
        <5>3. [path |-> 0, body |-> 0, length |-> l, keep |-> keep] \in Found
          BY <5>2 DEF Found
        <5>4. request' \in [Clients -> Found] /\ request'[c].length = l
          BY <5>1, <5>3 DEF ParserTypes
        <5>5. left' \in [Clients -> Nat] /\ left'[c] = l
          BY <5>1, <5>2 DEF ParserTypes
        <5>6. pc' \in [Clients -> Stages] /\ pc'[c] = IF l > 0 THEN "body" ELSE "handle"
          BY <5>1 DEF WireTypes, Stages
        <5>7. QED
          BY <5>2, <5>4, <5>5, <5>6 DEF Done
      <4>3. QED
        BY <3>1, <4>1, <4>2, Zenon DEF ReadAstray
    <3>6. WireTypes'
      BY <3>2, <3>3, <3>5 DEF WireTypes
    <3>7. ParserTypes'
      BY <3>2, <3>5 DEF ParserTypes
    <3>8. got'[c] = got[c] + n
      BY <3>2 DEF WireTypes
    <3>9. Fits(c)'
      BY <1>0, <3>2, <3>3, <3>5, <3>8 DEF Sent, Fits
    <3>10. QED
      BY <3>6, <3>7, <3>9, FitsStay
  <2>4. CASE CloseSession(c)
    <3>1. /\ eof' = eof /\ ahead' = ahead /\ handled' = handled /\ cut' = cut
          /\ answered' = answered /\ astray' = astray
          /\ pc' = [pc EXCEPT ![c] = "closed"]
          /\ sent' = [sent EXCEPT ![c] = 0] /\ got' = [got EXCEPT ![c] = 0]
          /\ parser' = [parser EXCEPT ![c] = Fresh]
          /\ request' = [request EXCEPT ![c] = NoRequest] /\ left' = [left EXCEPT ![c] = 0]
      BY <2>4 DEF CloseSession
    <3>2. WireTypes'
      BY <3>1 DEF WireTypes, Stages
    <3>3. ParserTypes'
      BY <3>1, FreshTypes DEF ParserTypes
    <3>4. Fits(c)'
      BY <3>1, FreshTypes DEF WireTypes, ParserTypes, Sent, Done, Fits
    <3>5. QED
      BY <3>1, <3>2, <3>3, <3>4, FitsStay
  <2>5. CASE \E n \in 1 .. Avail(c) : ReadBody(c, n)
    <3>1. PICK n \in 1 .. Avail(c) : ReadBody(c, n)
      BY <2>5
    <3>2. /\ n \in 1 .. left[c] /\ n <= sent[c] - got[c]
          /\ got' = [got EXCEPT ![c] = got[c] + n]
          /\ left' = [left EXCEPT ![c] = left[c] - n]
          /\ pc' = [pc EXCEPT ![c] = IF left'[c] = 0 THEN "handle" ELSE "body"]
          /\ sent' = sent /\ eof' = eof /\ ahead' = ahead /\ parser' = parser
          /\ request' = request /\ handled' = handled /\ answered' = answered /\ cut' = cut
          /\ astray' = astray
      BY <3>1 DEF ReadBody, wirevars, Avail
    <3>3. got[c] + n \in Nat /\ left[c] - n \in Nat /\ got[c] + n <= sent[c]
          /\ left[c] - n <= request[c].length
      BY <1>0, <3>2
    <3>4. WireTypes'
      BY <3>2, <3>3 DEF WireTypes, Stages
    <3>5. ParserTypes'
      BY <3>2, <3>3 DEF ParserTypes
    <3>6. Fits(c)'
      BY <1>0, <3>2, <3>3 DEF WireTypes, ParserTypes, Sent, Done, Fits
    <3>7. QED
      BY <3>2, <3>4, <3>5, <3>6, FitsStay
  <2>6. CASE \E n \in 1 .. Avail(c) : \E i \in DOMAIN Script[c] : ReadHead(c, i, n)
    <3>1. WireTypes' /\ ParserTypes' /\ Fits(c)'
      BY <1>0, <2>6, ReadHeadTypes DEF Sent, Done, Fits
    <3>2. QED
      BY <3>1, FitsStay
  <2>7. QED
    BY <1>3, <2>1, <2>2, <2>3, <2>4, <2>5, <2>6 DEF Session
<1>4. CASE Drain(c)
  <2>1. /\ sent' = sent /\ eof' = eof /\ ahead' = ahead /\ got' = got /\ parser' = parser
        /\ left' = left /\ handled' = handled /\ cut' = cut /\ astray' = astray
        /\ Answer(c) /\ pc[c] = "blocked"
    BY <1>4 DEF Drain, wirevars
  <2>2. WireTypes' /\ ParserTypes'
    BY <2>1, AnswerTypes DEF WireTypes, ParserTypes
  <2>3. left[c] = 0 /\ request'[c].length = 0
    BY <1>0, <2>1, AnswerTypes, FreshTypes DEF Done
  <2>4. Fits(c)'
    BY <1>0, <2>1, <2>3 DEF Sent, Done, Fits
  <2>5. QED
    BY <2>2, <2>4, FitsStay
<1>5. QED
  BY <1>1, <1>2, <1>3, <1>4 DEF Step

LEMMA InitTypes == Init => WireTypes /\ ParserTypes /\ Bounds
<1> SUFFICES ASSUME Init PROVE WireTypes /\ ParserTypes /\ Bounds
  OBVIOUS
<1>1. WireTypes
  BY DEF Init, WireTypes, Stages
<1>2. <<>> \in Seq(Answers)
  BY EmptySeq
<1>3. ParserTypes
  BY <1>2, FreshTypes DEF Init, ParserTypes
<1>4. Bounds
  BY FreshTypes DEF Init, Bounds, Fits, Sent, Done
<1>5. QED
  BY <1>1, <1>3, <1>4

\* A step is one of the accept worker or one of a session or its client.
LEMMA StepCases ==
    [Next]_hvars => \/ [TcpNext]_tvars /\ UNCHANGED <<wirevars, svars>>
                    \/ UNCHANGED tvars /\ \E c \in Clients : Step(c)
<1> SUFFICES ASSUME [Next]_hvars
             PROVE  \/ [TcpNext]_tvars /\ UNCHANGED <<wirevars, svars>>
                    \/ UNCHANGED tvars /\ \E c \in Clients : Step(c)
  OBVIOUS
<1>1. CASE UNCHANGED hvars
  BY <1>1, Zenon DEF hvars
<1>2. CASE TcpNext /\ UNCHANGED <<wirevars, svars>>
  BY <1>2
<1>3. CASE \E c \in Clients : Step(c)
  <2>1. PICK c \in Clients : Step(c)
    BY <1>3
  <2>2. Session(c) => UNCHANGED tvars
    BY Zenon DEF Session, Begin, ReadEnds, Spin, Handle, CloseSession, ReadHead, ReadBody, ReadAstray
  <2>3. UNCHANGED tvars
    BY <2>1, <2>2, Zenon DEF Step, Drain, Send, Shutdown
  <2>4. QED
    BY <2>1, <2>3
<1>4. QED
  BY <1>1, <1>2, <1>3, Zenon DEF Next, Step

\* What the accept worker does is a behaviour of TcpServer (http_server.h derives
\* HttpServer from TcpServer).
THEOREM ServerImplemented == HttpSpec => TcpSpec
<1>1. Init => TcpInit
  BY DEF Init
<1>2. [Next]_hvars => [TcpNext]_tvars
  BY StepCases
<1>3. QED
  BY <1>1, <1>2, PTL DEF HttpSpec, TcpSpec

\* The clients' sessions leave the accept fibers alone: on any number of threads, each of
\* them waits where it is registered on an open socket, or is lost to a close() under way
\* or to another fiber (startAccept and stop(), tcp_server.cc:66-98).
THEOREM NoOrphanHere == HttpSpec => []NoOrphan
BY ServerImplemented, NoOrphanAlways, PTL

LEMMA TypesStay ==
    WireTypes /\ ParserTypes /\ Bounds /\ [Next]_hvars => WireTypes' /\ ParserTypes' /\ Bounds'
<1> SUFFICES ASSUME WireTypes, ParserTypes, Bounds, [Next]_hvars
             PROVE  WireTypes' /\ ParserTypes' /\ Bounds'
  OBVIOUS
<1>1. CASE UNCHANGED <<wirevars, svars>>
  BY <1>1 DEF wirevars, svars, WireTypes, ParserTypes, Bounds, Fits, Sent, Done
<1>2. CASE \E c \in Clients : Step(c)
  BY <1>2, StepTypes
<1>3. QED
  BY <1>1, <1>2, StepCases

\* The variables of the server and of its sessions have their types, and the counters of
\* the units agree (http_session.cc:8-70, stream.cc:4-16).
THEOREM HttpTypeCorrect == HttpSpec => []HttpTypeOK
<1>1. HttpSpec => []TcpTypeOK
  BY ServerImplemented, TcpTypeCorrect, PTL
<1>2. HttpSpec => [](WireTypes /\ ParserTypes /\ Bounds)
  BY InitTypes, TypesStay, PTL DEF HttpSpec
<1>3. QED
  BY <1>1, <1>2, HttpTypeParts, PTL

-----------------------------------------------------------------------------
(* The inductive invariant                                                 *)

Busy(c) == pc[c] \in {"body", "handle"} \/ (pc[c] = "head" /\ ~parser[c].first)

\* The session is in the client's request i, and has all of it so far.
InHead(c, r) ==
    /\ pc[c] = "head" /\ ~parser[c].first
    /\ r.at < got[c] /\ got[c] < HeadEnd(r)
    /\ got[c] >= r.at + 4 => parser[c].path = r.at + 4
    /\ got[c] < r.at + 6 => parser[c].headers = <<>>
    /\ got[c] >= r.at + 6 /\ r.headers # <<>> =>
          parser[c].headers # <<>> /\ parser[c].headers[1] = r.headers[1]
InBody(c, r) ==
    /\ pc[c] \in {"body", "handle"}
    /\ request[c].path = r.at + 4
    /\ request[c].body = HeadEnd(r) + 1
    /\ request[c].length = r.body
    /\ got[c] + left[c] >= End(r)
Reading(c, i) ==
    /\ i \in DOMAIN Script[c]
    /\ InHead(c, Script[c][i]) \/ InBody(c, Script[c][i])

\* What is handled is the client's requests f, in their order; in the head of a request,
\* all units of those are taken.
Chosen(c, f) ==
    /\ f \in [DOMAIN handled[c] -> DOMAIN Script[c]]
    /\ \A k \in DOMAIN handled[c] : handled[c][k] = Expected[c][f[k]]
    /\ \A k, l \in DOMAIN handled[c] : k < l => f[k] < f[l]
    /\ pc[c] \in {"head", "blocked"} =>
          \A k \in DOMAIN handled[c] : End(Script[c][f[k]]) <= got[c]

\* ... and the request the session is in, if any, is i, which is later.
Tells(c, f, i) ==
    /\ Chosen(c, f)
    /\ Busy(c) => Reading(c, i) /\ \A k \in DOMAIN handled[c] : f[k] < i

FreshParser(c) ==
    /\ pc[c] \notin {"head", "close"} => parser[c].first
    /\ parser[c].first => parser[c].headers = <<>>
    /\ pc[c] = "astray" => c \in astray

\* A client that waits for the answers has sent no more than the request after those.
Waits(c) ==
    /\ pc[c] = "none" => handled[c] = <<>> /\ got[c] = 0
    /\ answered[c] <= Len(handled[c])
    /\ pc[c] = "blocked" /\ c \notin cut \cup astray => answered[c] < Len(handled[c])
    /\ c \notin ahead =>
          \A i \in DOMAIN Script[c] : i > answered[c] + 1 => sent[c] <= Script[c][i].at

\* Where request N + 1 of the client begins.
NextAt(c, N) == IF N = 0 THEN 0 ELSE End(Script[c][N])

\* Between two requests, all units of those that are handled are taken, and no other.
Aligned(c) ==
    pc[c] \in {"head", "blocked"} /\ parser[c].first => got[c] = NextAt(c, Len(handled[c]))

Identity(S) == [k \in S |-> k]
GenuineInv(c) ==
    c \notin cut \cup astray =>
        \E f \in [DOMAIN handled[c] -> DOMAIN Script[c]] :
        \E i \in 0 .. Len(Script[c]) : Tells(c, f, i)
InStepInv(c) ==
    c \notin cut \cup ahead =>
        /\ c \notin astray /\ Aligned(c)
        /\ Tells(c, Identity(DOMAIN handled[c]), Len(handled[c]) + 1)

SessionInv ==
    \A c \in Clients : FreshParser(c) /\ Waits(c) /\ GenuineInv(c) /\ InStepInv(c)

\* A request with a body has its length in the first header, the one that getContentLength
\* finds (module HeaderMap).
LengthFirst ==
    \A c \in Clients : \A i \in DOMAIN Script[c] :
        LET r == Script[c][i] IN
        r.body > 0 => r.headers # <<>> /\ r.headers[1] = "length"

-----------------------------------------------------------------------------
(* What the steps of a session do to what it tells                         *)

LEMMA HandledDomain ==
    ParserTypes => \A c \in Clients : /\ handled[c] \in Seq(Answers)
                                     /\ Len(handled[c]) \in Nat
                                     /\ DOMAIN handled[c] = 1 .. Len(handled[c])
<1> SUFFICES ASSUME ParserTypes, NEW c \in Clients
             PROVE  /\ handled[c] \in Seq(Answers) /\ Len(handled[c]) \in Nat
                    /\ DOMAIN handled[c] = 1 .. Len(handled[c])
  OBVIOUS
<1>1. handled[c] \in Seq(Answers)
  BY DEF ParserTypes
<1>2. QED
  BY <1>1, LenProperties

LEMMA TellsStay ==
    ASSUME NEW c, NEW f, NEW i, Tells(c, f, i),
           pc'[c] = pc[c], got'[c] = got[c], parser'[c] = parser[c], request'[c] = request[c],
           left'[c] = left[c], handled'[c] = handled[c]
    PROVE  Tells(c, f, i)'
BY DEF Tells, Chosen, Busy, Reading, InHead, InBody

\* A session between two requests, or at its end.
LEMMA IdleTells ==
    ASSUME NEW c, NEW f, NEW i, NEW j, Tells(c, f, i), handled'[c] = handled[c], ~Busy(c)',
           \/ pc'[c] \notin {"head", "blocked"}
           \/ pc[c] \in {"head", "blocked"} /\ got'[c] = got[c]
           \/ DOMAIN handled[c] = {}
    PROVE  Tells(c, f, j)'
BY DEF Tells, Chosen

LEMMA ReadBodyTells ==
    ASSUME WireTypes, ParserTypes, NEW c \in Clients, NEW n \in 1 .. Avail(c), ReadBody(c, n),
           NEW f, NEW i, Tells(c, f, i)
    PROVE  Tells(c, f, i)'
<1>1. /\ pc[c] = "body" /\ n \in 1 .. left[c] /\ left[c] \in Nat /\ got[c] \in Nat
      /\ got'[c] = got[c] + n /\ left'[c] = left[c] - n
      /\ pc'[c] = IF left'[c] = 0 THEN "handle" ELSE "body"
      /\ request' = request /\ handled' = handled /\ parser' = parser
  BY DEF ReadBody, WireTypes, ParserTypes
<1>2. got'[c] + left'[c] = got[c] + left[c]
  BY <1>1
<1>3. Reading(c, i) /\ \A k \in DOMAIN handled[c] : f[k] < i
  BY <1>1 DEF Tells, Busy
<1>4. i \in DOMAIN Script[c] /\ InBody(c, Script[c][i])
  BY <1>1, <1>3 DEF Reading, InHead
<1>5. pc'[c] \in {"body", "handle"}
  BY <1>1
<1>6. InBody(c, Script[c][i])'
  BY <1>1, <1>2, <1>4, <1>5 DEF InBody
<1>7. Reading(c, i)'
  BY <1>4, <1>6 DEF Reading
<1>8. Chosen(c, f)'
  BY <1>1, <1>5 DEF Tells, Chosen
<1>9. QED
  BY <1>1, <1>3, <1>7, <1>8 DEF Tells

\* The requests that are handled, and the one that is handled now.
With(c, f, i) == [k \in 1 .. Len(handled[c]) + 1 |-> IF k \in DOMAIN handled[c] THEN f[k] ELSE i]

LEMMA HandleTells ==
    ASSUME WireTypes, ParserTypes, Bounds, NEW c \in Clients, Handle(c), FreshParser(c),
           c \notin cut \cup astray,
           NEW f, NEW i, NEW j, Tells(c, f, i), NEW g, g = With(c, f, i)
    PROVE  /\ Tells(c, g, j)' /\ i \in DOMAIN Script[c]
           /\ got[c] >= End(Script[c][i])
<1> DEFINE r == Script[c][i]
           q == request[c]
           N == Len(handled[c])
           body == [u \in 1 .. q.length |-> IF u <= got[c] - q.body + 1 THEN q.body + u - 1 ELSE 0]
           answer == [path |-> q.path, body |-> body]
<1>1. /\ pc[c] = "handle" /\ got' = got /\ parser' = parser
      /\ handled'[c] = Append(handled[c], answer)
  BY DEF Handle, ParserTypes
<1>2. /\ N \in Nat /\ DOMAIN handled[c] = 1 .. N /\ handled[c] \in Seq(Answers)
  BY HandledDomain
<1>3. Reading(c, i) /\ \A k \in DOMAIN handled[c] : f[k] < i
  BY <1>1 DEF Tells, Busy
<1>4. i \in DOMAIN Script[c] /\ InBody(c, r)
  BY <1>1, <1>3 DEF Reading, InHead
<1>5. /\ q.path = r.at + 4 /\ q.body = HeadEnd(r) + 1 /\ q.length = r.body
      /\ got[c] + left[c] >= End(r)
  BY <1>4 DEF InBody
<1>6. left[c] = 0 /\ got[c] \in Nat
  BY <1>1 DEF Bounds, Fits, Done, WireTypes
<1>7. /\ r.body \in Nat /\ HeadEnd(r) \in Nat /\ End(r) = HeadEnd(r) + r.body
      /\ End(r) \in Nat
  BY <1>4, RequestFacts
<1>8. got[c] >= End(r)
  BY <1>5, <1>6, <1>7
<1>9. body = [k \in 1 .. r.body |-> HeadEnd(r) + k]
  <2>1. \A u \in 1 .. r.body :
            (IF u <= got[c] - q.body + 1 THEN q.body + u - 1 ELSE 0) = HeadEnd(r) + u
    <3> HIDE DEF q
    <3> QED
      BY <1>5, <1>6, <1>7, <1>8
  <2>2. q.length = r.body
    BY <1>5
  <2> HIDE DEF q, r
  <2>3. QED
    BY <2>1, <2>2
<1>10. Expected[c][i] = [path |-> r.at + 4, body |-> [k \in 1 .. r.body |-> HeadEnd(r) + k]]
  BY <1>4 DEF Expected
<1>11. answer = Expected[c][i]
  BY <1>5, <1>9, <1>10
<1> HIDE DEF body
<1>12. answer \in Answers
  <2>1. q.path \in Nat
    BY DEF ParserTypes, Found
  <2>2. [k \in 1 .. r.body |-> HeadEnd(r) + k] \in Seq(Nat)
    <3> DEFINE w == [k \in 1 .. r.body |-> HeadEnd(r) + k]
    <3>1. w \in [1 .. r.body -> Nat]
      <4> HIDE DEF r
      <4> QED
        BY <1>7
    <3> HIDE DEF w, r
    <3>2. w \in Seq(Nat)
      BY <1>7, <3>1, SeqDef
    <3>3. QED
      BY <3>2 DEF w
  <2>3. QED
    BY <1>9, <2>1, <2>2 DEF Answers
<1> HIDE DEF answer, N
<1>13. /\ DOMAIN handled'[c] = 1 .. N + 1
       /\ \A k \in 1 .. N : handled'[c][k] = handled[c][k]
       /\ handled'[c][N + 1] = answer
  <2>1. /\ Append(handled[c], answer) \in Seq(Answers)
        /\ Len(Append(handled[c], answer)) = N + 1
        /\ \A k \in 1 .. N : Append(handled[c], answer)[k] = handled[c][k]
        /\ Append(handled[c], answer)[N + 1] = answer
    BY <1>2, <1>12, AppendProperties DEF N
  <2>2. QED
    BY <1>1, <2>1, LenProperties
<1>14. /\ f \in [1 .. N -> DOMAIN Script[c]]
       /\ \A k \in 1 .. N : handled[c][k] = Expected[c][f[k]]
       /\ \A k, l \in 1 .. N : k < l => f[k] < f[l]
  BY <1>2 DEF Tells, Chosen
<1>15. g = [k \in 1 .. N + 1 |-> IF k \in 1 .. N THEN f[k] ELSE i]
  BY <1>2 DEF With, N
<1>16. /\ g \in [1 .. N + 1 -> DOMAIN Script[c]]
       /\ \A k \in 1 .. N : g[k] = f[k]
       /\ g[N + 1] = i
  BY <1>2, <1>4, <1>14, <1>15
<1>17. \A k \in 1 .. N + 1 : k \in 1 .. N \/ k = N + 1
  BY <1>2
<1>18. \A k \in 1 .. N + 1 : handled'[c][k] = Expected[c][g[k]]
  BY <1>11, <1>13, <1>14, <1>16, <1>17
<1>19. \A k, l \in 1 .. N + 1 : k < l => g[k] < g[l]
  <2> SUFFICES ASSUME NEW k \in 1 .. N + 1, NEW l \in 1 .. N + 1, k < l PROVE g[k] < g[l]
    OBVIOUS
  <2>1. k \in 1 .. N
    BY <1>2
  <2>2. CASE l \in 1 .. N
    BY <1>14, <1>16, <2>1, <2>2
  <2>3. CASE l = N + 1
    BY <1>2, <1>3, <1>16, <2>1, <2>3
  <2>4. QED
    BY <1>17, <2>2, <2>3
<1>20. \A k \in 1 .. N + 1 : End(Script[c][g[k]]) <= got'[c]
  <2> SUFFICES ASSUME NEW k \in 1 .. N + 1 PROVE End(Script[c][g[k]]) <= got[c]
    BY <1>1
  <2>1. g[k] \in DOMAIN Script[c] /\ (g[k] < i \/ g[k] = i)
    BY <1>2, <1>3, <1>16, <1>17
  <2>2. CASE g[k] = i
    BY <1>8, <2>2
  <2>3. CASE g[k] < i
    <3>1. End(Script[c][g[k]]) <= r.at
      BY <1>4, <2>1, <2>3, Ordered
    <3>2. /\ End(Script[c][g[k]]) \in Nat /\ r.at \in Nat
          /\ HeadEnd(r) >= r.at + 6 /\ End(r) >= HeadEnd(r)
      BY <1>4, <2>1, RequestFacts
    <3> HIDE DEF r
    <3>3. QED
      BY <1>6, <1>7, <1>8, <3>1, <3>2
  <2>4. QED
    BY <2>1, <2>2, <2>3
<1>21. Chosen(c, g)'
  BY <1>13, <1>16, <1>18, <1>19, <1>20 DEF Chosen, Expected
<1>22. ~Busy(c)'
  <2>1. pc'[c] \in {"head", "close", "blocked"}
    BY AnswerTypes DEF Handle, WireTypes
  <2>2. QED
    BY <1>1, <2>1 DEF Busy, FreshParser
<1>23. QED
  BY <1>4, <1>8, <1>21, <1>22 DEF Tells

LEMMA Parity ==
    ASSUME NEW u \in Nat
    PROVE  (u + 1 - u) % 2 = 1 /\ (u + 3 - u) % 2 = 1 /\ (u + 5 - u) % 2 = 1
OBVIOUS

\* The state of the parser at unit u of the head of r.
KnownHead(c, r, u, path, headers) ==
    /\ u >= r.at + 4 => path = r.at + 4
    /\ u < r.at + 6 => headers = <<>>
    /\ u >= r.at + 6 /\ r.headers # <<>> => headers # <<>> /\ headers[1] = r.headers[1]

\* A call that does not begin in a token goes on knowing the head.
LEMMA ExecuteKnows ==
    ASSUME NEW c \in Clients, NEW i \in DOMAIN Script[c], NEW from \in Nat, NEW to \in Nat,
           NEW p \in Parsers,
           Script[c][i].at <= from, from < to, to <= HeadEnd(Script[c][i]),
           ~Splits(Script[c][i], from),
           KnownHead(c, Script[c][i], from, p.path, p.headers)
    PROVE  LET q == Execute(Script[c][i], p, from, to)
           IN  KnownHead(c, Script[c][i], to, q.path, q.headers)
<1> DEFINE r == Script[c][i]
           q == Execute(r, p, from, to)
           a == r.at
           h == HeadEnd(r)
           hs == r.headers
           ns == Reported(r, from, to)
<1>1. /\ a \in Nat /\ h \in Nat /\ h >= a + 6 /\ Len(hs) \in Nat /\ h = a + 2 * Len(hs) + 6
      /\ hs \in Seq(Headers)
  BY RequestFacts
<1>2. from \in Nat /\ to \in Nat /\ a <= from /\ from < to /\ a <= to /\ to <= h
  <2>1. a <= from /\ from < to /\ to <= h
    OBVIOUS
  <2> HIDE DEF a, h
  <2>2. QED
    BY <1>1, <2>1
<1>3. ~(from < h - 1 /\ (from - a) % 2 = 1)
  BY DEF Splits
<1>4. /\ q.path = IF from <= a + 2 /\ to >= a + 4 THEN a + 4 ELSE p.path
      /\ q.headers = p.headers \o ns
  <2> HIDE DEF a, ns
  <2>1. q = [first |-> FALSE,
             path |-> IF from <= a + 2 /\ to >= a + 4 THEN a + 4 ELSE p.path,
             headers |-> p.headers \o ns,
             error |-> from = a + 1]
    BY DEF Execute, a, ns
  <2> HIDE DEF q
  <2>2. QED
    BY <2>1
<1>5. /\ ns \in Seq(Headers)
      /\ to < a + 6 => ns = <<>>
      /\ from <= a + 4 /\ to >= a + 6 /\ hs # <<>> => ns # <<>> /\ ns[1] = hs[1]
  BY <1>2, ReportedFacts
<1>6. /\ from >= a + 4 => p.path = a + 4
      /\ from < a + 6 => p.headers = <<>>
      /\ from >= a + 6 /\ hs # <<>> => p.headers # <<>> /\ p.headers[1] = hs[1]
  BY DEF KnownHead
<1>7. p.headers \in Seq(Headers) /\ Len(p.headers) \in Nat
  <2>1. p.headers \in Seq(Headers)
    BY DEF Parsers
  <2>2. QED
    BY <2>1, LenProperties
<1>8. hs # <<>> => Len(hs) >= 1
  BY <1>1, EmptySeq, LenProperties
<1> DEFINE ph == p.headers
           qh == q.headers
           pp == p.path
           qp == q.path
<1>9. /\ qp = IF from <= a + 2 /\ to >= a + 4 THEN a + 4 ELSE pp
      /\ qh = ph \o ns /\ ph \in Seq(Headers) /\ Len(ph) \in Nat
      /\ from >= a + 4 => pp = a + 4
      /\ from < a + 6 => ph = <<>>
      /\ from >= a + 6 /\ hs # <<>> => ph # <<>> /\ ph[1] = hs[1]
  BY <1>4, <1>6, <1>7
<1> HIDE DEF a, h, hs, ns, ph, qh, pp, qp, r, q
<1>10. from # a + 3
  <2> SUFFICES ASSUME from = a + 3 PROVE FALSE
    OBVIOUS
  <2>1. (from - a) % 2 = 1
    BY <1>1, Parity
  <2>2. from < h - 1
    BY <1>1
  <2>3. QED
    BY <1>3, <2>1, <2>2
<1>11. hs # <<>> => from # a + 5
  <2> SUFFICES ASSUME hs # <<>>, from = a + 5 PROVE FALSE
    OBVIOUS
  <2>1. (from - a) % 2 = 1
    BY <1>1, Parity
  <2>2. from < h - 1
    BY <1>1, <1>8
  <2>3. QED
    BY <1>3, <2>1, <2>2
<1>12. ASSUME to >= a + 4 PROVE qp = a + 4
  <2>1. CASE from <= a + 2
    BY <1>9, <1>12, <2>1
  <2>2. CASE ~(from <= a + 2)
    <3>1. from >= a + 4
      BY <1>1, <1>2, <1>10, <2>2
    <3>2. QED
      BY <1>9, <2>2, <3>1
  <2>3. QED
    BY <2>1, <2>2
<1>13. ASSUME to < a + 6 PROVE qh = <<>>
  <2>1. from < a + 6
    BY <1>1, <1>2, <1>13
  <2>2. ph = <<>> /\ ns = <<>>
    BY <1>5, <1>9, <1>13, <2>1
  <2>3. QED
    BY <1>5, <1>9, <2>2, ConcatEmptySeq
<1>14. ASSUME to >= a + 6, hs # <<>> PROVE qh # <<>> /\ qh[1] = hs[1]
  <2>1. CASE from >= a + 6
    <3>1. ph # <<>> /\ ph[1] = hs[1]
      BY <1>9, <1>14, <2>1
    <3>2. Len(ph) >= 1
      BY <1>9, <3>1, EmptySeq
    <3>3. /\ Len(ns) \in Nat /\ Len(qh) = Len(ph) + Len(ns)
          /\ \A k \in 1 .. Len(ph) + Len(ns) :
                qh[k] = IF k <= Len(ph) THEN ph[k] ELSE ns[k - Len(ph)]
      BY <1>5, <1>9, ConcatProperties, LenProperties
    <3>4. 1 \in 1 .. Len(ph) + Len(ns) /\ Len(qh) # 0
      BY <1>9, <3>2, <3>3
    <3>5. QED
      BY <3>1, <3>2, <3>3, <3>4, EmptySeq
  <2>2. CASE from < a + 6
    <3>1. from <= a + 4
      BY <1>1, <1>2, <1>11, <1>14, <2>2
    <3>2. ns # <<>> /\ ns[1] = hs[1] /\ ph = <<>>
      BY <1>5, <1>9, <1>14, <2>2, <3>1
    <3>3. qh = ns
      BY <1>5, <1>9, <3>2, ConcatEmptySeq
    <3>4. QED
      BY <3>2, <3>3
  <2>3. QED
    BY <1>1, <1>2, <2>1, <2>2
<1>15. QED
  BY <1>12, <1>13, <1>14 DEF KnownHead, a, h, hs, qh, qp, q, r

\* A request that is handled is before one whose units are still to be taken.
LEMMA ChosenBefore ==
    ASSUME WireTypes, NEW c \in Clients, NEW f, NEW i \in DOMAIN Script[c],
           Chosen(c, f), pc[c] = "head", got[c] < End(Script[c][i])
    PROVE  \A k \in DOMAIN handled[c] : f[k] < i
<1> SUFFICES ASSUME NEW k \in DOMAIN handled[c] PROVE f[k] < i
  OBVIOUS
<1>1. f[k] \in DOMAIN Script[c] /\ End(Script[c][f[k]]) <= got[c] /\ got[c] \in Nat
  BY DEF Chosen, WireTypes
<1>2. f[k] \in Nat /\ i \in Nat
  BY <1>1, RequestFacts
<1>3. f[k] # i
  BY <1>1, RequestFacts
<1>4. ASSUME i < f[k] PROVE FALSE
  <2> DEFINE x == End(Script[c][i])
             y == Script[c][f[k]].at
             z == End(Script[c][f[k]])
             u == got[c]
  <2>1. x <= y
    BY <1>1, <1>4, Ordered
  <2>2. x \in Nat /\ y \in Nat /\ z \in Nat /\ y <= z
    <3> DEFINE w == HeadEnd(Script[c][f[k]])
    <3>1. x \in Nat /\ y \in Nat /\ z \in Nat /\ w \in Nat /\ w >= y + 6 /\ z >= w
      BY <1>1, RequestFacts
    <3> HIDE DEF w, x, y, z
    <3>2. QED
      BY <3>1
  <2>3. z <= u /\ u < x /\ u \in Nat
    BY <1>1
  <2> HIDE DEF x, y, z, u
  <2>4. QED
    BY <2>1, <2>2, <2>3
<1>5. QED
  BY <1>2, <1>3, <1>4

LEMMA HeadTells ==
    ASSUME LengthFirst, WireTypes, ParserTypes, NEW c \in Clients, NEW n,
           NEW i \in DOMAIN Script[c], ReadHead(c, i, n), FreshParser(c),
           NEW f, NEW j, Tells(c, f, j), c \notin cut'
    PROVE  /\ Tells(c, f, i)'
           /\ Busy(c)' => i = j \/ got[c] = Script[c][i].at
<1> DEFINE r == Script[c][i]
           to == got[c] + n
           e == IF to < HeadEnd(r) THEN to ELSE HeadEnd(r)
           p == Execute(r, parser[c], got[c], e)
           length == getContentLength(r, p)
           todo == ToRead(length, to - e)
           a == r.at
           h == HeadEnd(r)
           from == got[c]
<1>1. /\ from \in Nat /\ to \in Nat /\ from < to
      /\ a <= from /\ from < End(r)
      /\ e \in Nat /\ a <= e /\ e <= to /\ e <= h
      /\ p \in Parsers /\ length \in Nat /\ todo \in Nat
  BY HeadFacts
<1>2. /\ a \in Nat /\ h \in Nat /\ h >= a + 6 /\ End(r) = h + r.body /\ r.body \in Nat
      /\ End(r) \in Nat
  BY RequestFacts
<1>3. ~Splits(r, from)
  <2> HIDE DEF r
  <2>1. cut' = (IF Splits(r, from) THEN cut \cup {c} ELSE cut)
    BY Zenon DEF ReadHead, r
  <2>2. QED
    BY <2>1
<1>4. /\ got'[c] = to /\ handled'[c] = handled[c] /\ pc[c] = "head" /\ parser[c] \in Parsers
  <2> HIDE DEF to
  <2>1. got' = [got EXCEPT ![c] = to] /\ handled' = handled /\ pc[c] = "head"
    BY DEF ReadHead, to
  <2>2. QED
    BY <2>1 DEF WireTypes, ParserTypes
<1>5. \/ pc'[c] = "close"
      \/ /\ ~p.error /\ to < h
         /\ pc'[c] = "head" /\ parser'[c] = p
      \/ /\ ~p.error /\ to >= h
         /\ request'[c].path = p.path /\ request'[c].body = e + 1 /\ request'[c].length = length
         /\ left'[c] = todo /\ pc'[c] \in {"body", "handle"}
  <2>1. \/ pc' = [pc EXCEPT ![c] = "close"]
        \/ /\ ~p.error /\ to < h /\ parser' = [parser EXCEPT ![c] = p] /\ pc' = pc
        \/ /\ ~p.error /\ to >= h
           /\ request' = [request EXCEPT ![c] =
                 [path |-> p.path, body |-> e + 1, length |-> length,
                  keep |-> Contains(p.headers, "keep-alive")]]
           /\ left' = [left EXCEPT ![c] = todo]
           /\ pc' = [pc EXCEPT ![c] = IF left'[c] > 0 THEN "body" ELSE "handle"]
    BY Zenon DEF ReadHead
  <2> HIDE DEF p, to, h, length, todo, e
  <2>2. QED
    BY <1>4, <2>1 DEF WireTypes, ParserTypes
<1>6. CASE pc'[c] = "close"
  <2>1. ~Busy(c)'
    BY <1>6 DEF Busy
  <2>2. Tells(c, f, i)'
    BY <1>4, <1>6, <2>1, IdleTells
  <2>3. QED
    BY <2>1, <2>2
<1>7. CASE ~p.error
  <2>1. parser[c].first => from = a
    BY Zenon DEF ReadHead
  <2>2. /\ from < h /\ KnownHead(c, r, from, parser[c].path, parser[c].headers)
        /\ ~parser[c].first => i = j
    <3>1. CASE parser[c].first
      <4>1. from = a /\ parser[c].headers = <<>>
        BY <2>1, <3>1 DEF FreshParser
      <4>2. from < h /\ ~(from >= a + 4) /\ ~(from >= a + 6)
        <5> HIDE DEF from, a, h
        <5> QED
          BY <1>2, <4>1
      <4>3. KnownHead(c, r, from, parser[c].path, parser[c].headers)
        BY <4>1, <4>2, Zenon DEF KnownHead
      <4>4. QED
        BY <3>1, <4>2, <4>3
    <3>2. CASE ~parser[c].first
      <4>1. Reading(c, j)
        BY <1>4, <3>2 DEF Tells, Busy
      <4>2. j \in DOMAIN Script[c] /\ InHead(c, Script[c][j])
        BY <1>4, <4>1 DEF Reading, InBody
      <4>3. /\ Script[c][j].at < from /\ from < HeadEnd(Script[c][j])
            /\ KnownHead(c, Script[c][j], from, parser[c].path, parser[c].headers)
        BY <4>2, Zenon DEF InHead, KnownHead
      <4>4. Script[c][j].at <= from /\ from < End(Script[c][j])
        <5> DEFINE b == Script[c][j].at
                   g == HeadEnd(Script[c][j])
                   l == End(Script[c][j])
        <5>1. b \in Nat /\ g \in Nat /\ l \in Nat /\ l >= g /\ b < from /\ from < g
          BY <4>2, <4>3, RequestFacts
        <5>2. b <= from /\ from < l
          <6> HIDE DEF b, g, l, from
          <6> QED
            BY <1>1, <5>1
        <5>3. QED
          BY <5>2
      <4>5. i = j
        BY <1>1, <4>2, <4>4, OneRequest
      <4>6. QED
        BY <4>3, <4>5
    <3>3. QED
      BY <3>1, <3>2
  <2>3. from < e
    <3>1. e = IF to < h THEN to ELSE h
      OBVIOUS
    <3> HIDE DEF e, to, h, from
    <3>2. QED
      BY <1>1, <2>2, <3>1
  <2>4. KnownHead(c, r, e, p.path, p.headers)
    <3> HIDE DEF e
    <3>1. QED
      BY <1>1, <1>3, <1>4, <2>2, <2>3, ExecuteKnows
  <2>5. \A k \in DOMAIN handled[c] : f[k] < i
    BY <1>1, <1>4, ChosenBefore DEF Tells
  <2>6. CASE to < h /\ pc'[c] = "head" /\ parser'[c] = p
    <3>1. e = to
      BY <2>6
    <3>2. p.first = FALSE
      BY DEF Execute
    <3>3. KnownHead(c, r, to, p.path, p.headers)
      BY <2>4, <3>1
    <3>4. a < to
      <4> HIDE DEF a, to, from
      <4> QED
        BY <1>1, <1>2
    <3>5. InHead(c, r)'
      <4> HIDE DEF p, r, to, e
      <4>1. QED
        BY <1>4, <2>6, <3>2, <3>3, <3>4, Zenon DEF InHead, KnownHead, a, h
    <3>6. Reading(c, i)'
      BY <3>5 DEF Reading
    <3>7. Chosen(c, f)'
      <4>1. Chosen(c, f)
        BY DEF Tells
      <4>2. \A k \in DOMAIN handled[c] : End(Script[c][f[k]]) <= to
        <5> SUFFICES ASSUME NEW k \in DOMAIN handled[c] PROVE End(Script[c][f[k]]) <= to
          OBVIOUS
        <5>1. f[k] \in DOMAIN Script[c] /\ End(Script[c][f[k]]) <= from
          BY <1>4, <4>1 DEF Chosen
        <5> DEFINE x == End(Script[c][f[k]])
        <5>2. x \in Nat /\ x <= from
          BY <5>1, RequestFacts
        <5> HIDE DEF x, from, to
        <5>3. x <= to
          BY <1>1, <5>2
        <5>4. QED
          BY <5>3 DEF x
      <4>3. QED
        BY <1>4, <4>1, <4>2 DEF Chosen
    <3>8. QED
      BY <1>4, <2>1, <2>2, <2>5, <3>6, <3>7 DEF Tells
  <2>7. CASE /\ to >= h
             /\ request'[c].path = p.path /\ request'[c].body = e + 1 /\ request'[c].length = length
             /\ left'[c] = todo /\ pc'[c] \in {"body", "handle"}
    <3>1. e = h
      <4> HIDE DEF to, h
      <4>1. ~(to < h)
        BY <1>1, <1>2, <2>7
      <4>2. QED
        BY <4>1 DEF h
    <3>2. p.path = a + 4 /\ (r.headers # <<>> => p.headers # <<>> /\ p.headers[1] = r.headers[1])
      <4>1. e >= a + 4 /\ e >= a + 6
        <5> HIDE DEF e, a, h
        <5> QED
          BY <1>2, <3>1
      <4> HIDE DEF p, e
      <4>2. QED
        BY <2>4, <4>1, Zenon DEF KnownHead
    <3>3. length = r.body
      <4>1. CASE r.body > 0
        <5>1. r.headers # <<>> /\ r.headers[1] = "length"
          BY <4>1 DEF LengthFirst
        <5> HIDE DEF p, r
        <5>2. QED
          BY <3>2, <5>1 DEF getContentLength
      <4>2. CASE ~(r.body > 0)
        <5>1. r.body = 0
          BY <1>2, <4>2
        <5> HIDE DEF p, r
        <5>2. QED
          BY <5>1 DEF getContentLength
      <4>3. QED
        BY <4>1, <4>2
    <3>4. to + todo >= End(r)
      <4>1. todo = IF r.body > to - h THEN r.body - (to - h) ELSE 0
        <5> HIDE DEF length, e, to, h
        <5> QED
          BY <3>1, <3>3 DEF ToRead
      <4> DEFINE b == r.body
                 l == End(r)
      <4>2. todo = (IF b > to - h THEN b - (to - h) ELSE 0) /\ l = h + b /\ b \in Nat
        BY <1>2, <4>1
      <4> HIDE DEF todo, to, h, b, l
      <4>3. to + todo >= l
        BY <1>1, <1>2, <4>2
      <4>4. QED
        BY <4>3 DEF l
    <3>5. InBody(c, r)'
      <4>1. e + 1 = HeadEnd(r) + 1
        BY <3>1
      <4> HIDE DEF p, r, to, e, length, todo
      <4>2. QED
        BY <1>4, <2>7, <3>2, <3>3, <3>4, <4>1, Zenon DEF InBody, a
    <3>6. Reading(c, i)'
      BY <3>5 DEF Reading
    <3>7. Chosen(c, f)'
      <4>1. pc'[c] \notin {"head", "blocked"}
        BY <2>7
      <4>2. QED
        BY <1>4, <4>1 DEF Tells, Chosen
    <3>8. QED
      BY <1>4, <2>1, <2>2, <2>5, <3>6, <3>7 DEF Tells
  <2>8. QED
    BY <1>5, <1>6, <2>6, <2>7
<1>8. QED
  BY <1>5, <1>6, <1>7

-----------------------------------------------------------------------------
(* The invariant is inductive                                              *)

Client(c) == FreshParser(c) /\ Waits(c) /\ GenuineInv(c) /\ InStepInv(c)

\* Clients that are not part of a step.
LEMMA ClientStays ==
    ASSUME NEW c, Client(c),
           pc'[c] = pc[c], sent'[c] = sent[c], got'[c] = got[c], parser'[c] = parser[c],
           request'[c] = request[c], left'[c] = left[c], handled'[c] = handled[c],
           answered'[c] = answered[c], c \in cut' <=> c \in cut, c \in ahead' <=> c \in ahead,
           c \in astray' <=> c \in astray
    PROVE  Client(c)'
<1>1. FreshParser(c)' /\ Waits(c)'
  BY DEF Client, FreshParser, Waits
<1>2. GenuineInv(c)'
  <2> SUFFICES ASSUME c \notin cut' \cup astray'
               PROVE  \E f \in [DOMAIN handled'[c] -> DOMAIN Script[c]] :
                         \E i \in 0 .. Len(Script[c]) : Tells(c, f, i)'
    BY DEF GenuineInv
  <2>1. PICK f \in [DOMAIN handled[c] -> DOMAIN Script[c]],
             i \in 0 .. Len(Script[c]) : Tells(c, f, i)
    BY DEF Client, GenuineInv
  <2>2. Tells(c, f, i)'
    BY <2>1, TellsStay
  <2>3. QED
    BY <2>1, <2>2
<1>3. InStepInv(c)'
  <2> SUFFICES ASSUME c \notin cut' \cup ahead'
               PROVE  /\ c \notin astray' /\ Aligned(c)'
                      /\ Tells(c, Identity(DOMAIN handled[c]), Len(handled[c]) + 1)'
    BY DEF InStepInv
  <2>1. PICK f, i : f = Identity(DOMAIN handled[c]) /\ i = Len(handled[c]) + 1
    OBVIOUS
  <2>2. Tells(c, f, i) /\ c \notin astray /\ Aligned(c)
    BY <2>1 DEF Client, InStepInv
  <2>3. Tells(c, f, i)'
    BY <2>2, TellsStay
  <2>4. Aligned(c)'
    BY <2>2 DEF Aligned
  <2>5. QED
    BY <2>1, <2>2, <2>3, <2>4
<1>4. QED
  BY <1>1, <1>2, <1>3 DEF Client

\* A step that leaves what is handled, and what is told of it.
LEMMA ClientGoesOn ==
    ASSUME NEW c, Client(c), handled'[c] = handled[c],
           c \in cut => c \in cut', c \in ahead => c \in ahead', c \in astray' <=> c \in astray,
           FreshParser(c)', Waits(c)', c \notin cut' \cup ahead /\ Aligned(c) => Aligned(c)',
           \A f, i : c \notin cut' /\ Tells(c, f, i) => Tells(c, f, i)'
    PROVE  Client(c)'
<1>1. GenuineInv(c)'
  <2> SUFFICES ASSUME c \notin cut' \cup astray'
               PROVE  \E f \in [DOMAIN handled'[c] -> DOMAIN Script[c]] :
                         \E i \in 0 .. Len(Script[c]) : Tells(c, f, i)'
    BY DEF GenuineInv
  <2>1. PICK f \in [DOMAIN handled[c] -> DOMAIN Script[c]],
             i \in 0 .. Len(Script[c]) : Tells(c, f, i)
    BY DEF Client, GenuineInv
  <2>2. Tells(c, f, i)'
    BY <2>1
  <2>3. QED
    BY <2>1, <2>2
<1>2. InStepInv(c)'
  <2> SUFFICES ASSUME c \notin cut' \cup ahead'
               PROVE  /\ c \notin astray' /\ Aligned(c)'
                      /\ Tells(c, Identity(DOMAIN handled[c]), Len(handled[c]) + 1)'
    BY DEF InStepInv
  <2>1. PICK f, i : f = Identity(DOMAIN handled[c]) /\ i = Len(handled[c]) + 1
    OBVIOUS
  <2>2. Tells(c, f, i) /\ c \notin astray /\ Aligned(c)
    BY <2>1 DEF Client, InStepInv
  <2>3. Tells(c, f, i)' /\ Aligned(c)'
    BY <2>2
  <2>4. QED
    BY <2>1, <2>2, <2>3
<1>3. QED
  BY <1>1, <1>2 DEF Client

\* A client that waits for the answers has sent nothing after the request that is next.
LEMMA SentNoMore ==
    ASSUME WireTypes, ParserTypes, Bounds, NEW c \in Clients, Waits(c), c \notin ahead,
           NEW j \in DOMAIN Script[c], j > Len(handled[c])
    PROVE  sent[c] <= End(Script[c][j])
<1> DEFINE last == End(Script[c][j])
<1>1. /\ j \in Nat /\ j >= 1 /\ j <= Len(Script[c]) /\ Len(Script[c]) \in Nat /\ last \in Nat
      /\ DOMAIN Script[c] = 1 .. Len(Script[c])
  BY RequestFacts
<1>2. sent[c] \in Nat /\ answered[c] \in Nat /\ Len(handled[c]) \in Nat
  BY HandledDomain DEF WireTypes
<1>3. answered[c] < j
  BY <1>1, <1>2 DEF Waits
<1>4. CASE j + 1 \in DOMAIN Script[c]
  <2>1. Script[c][j + 1].at = last
    BY <1>1, <1>4, HttpAssumption
  <2>2. j + 1 > answered[c] + 1
    BY <1>1, <1>2, <1>3
  <2>3. QED
    BY <1>4, <2>1, <2>2 DEF Waits
<1>5. CASE j + 1 \notin DOMAIN Script[c]
  <2>1. j = Len(Script[c])
    BY <1>1, <1>5
  <2>2. CASE sent[c] = 0
    BY <1>1, <2>2
  <2>3. ASSUME NEW i \in DOMAIN Script[c], sent[c] <= End(Script[c][i])
        PROVE  sent[c] <= last
    <3> DEFINE e == End(Script[c][i])
               b == Script[c][j].at
    <3>1. i \in Nat /\ i <= j /\ e \in Nat /\ b \in Nat
      BY <1>1, <2>1, RequestFacts
    <3>2. CASE i = j
      BY <2>3, <3>2
    <3>3. CASE i < j
      <4>1. e <= b
        BY <3>3, Ordered
      <4>2. b <= last
        <5> DEFINE h == HeadEnd(Script[c][j])
        <5>1. h \in Nat /\ h >= b + 6 /\ last >= h
          BY RequestFacts
        <5> HIDE DEF h, b, last
        <5>2. QED
          BY <1>1, <3>1, <5>1
      <4>3. sent[c] <= e
        BY <2>3
      <4> HIDE DEF e, b, last
      <4>4. QED
        BY <1>1, <1>2, <3>1, <4>1, <4>2, <4>3
    <3>4. QED
      BY <1>1, <3>1, <3>2, <3>3
  <2>4. QED
    BY <2>2, <2>3 DEF Bounds, Fits, Sent
<1>6. QED
  BY <1>4, <1>5

LEMMA HandleClient ==
    ASSUME WireTypes, ParserTypes, Bounds, NEW c \in Clients, Handle(c), Client(c)
    PROVE  Client(c)'
<1> DEFINE N == Len(handled[c])
<1>0. /\ handled[c] \in Seq(Answers) /\ N \in Nat /\ DOMAIN handled[c] = 1 .. N
  BY HandledDomain
<1>1. /\ pc[c] = "handle" /\ pc'[c] \in {"head", "close", "blocked"} /\ parser' = parser
      /\ sent' = sent /\ got' = got /\ ahead' = ahead /\ cut' = cut /\ astray' = astray
      /\ answered'[c] = answered[c] \/ answered'[c] = answered[c] + 1
      /\ pc'[c] = "blocked" => answered'[c] = answered[c]
      /\ c \in cut \cup astray => answered'[c] = answered[c]
      /\ c \in cut \cup astray => handled'[c] = handled[c]
  <2>1. /\ pc[c] = "handle" /\ parser' = parser /\ sent' = sent /\ got' = got
        /\ ahead' = ahead /\ cut' = cut /\ astray' = astray
        /\ c \in cut \cup astray => handled'[c] = handled[c]
    BY DEF Handle, wirevars
  <2>2. CASE Answer(c)
    <3>1. c \in cut \cup astray => answered' = answered
      BY <2>2 DEF Answer
    <3>2. QED
      BY <2>1, <2>2, <3>1, AnswerTypes
  <2>3. CASE pc' = [pc EXCEPT ![c] = "blocked"] /\ answered' = answered
    BY <2>1, <2>3 DEF WireTypes
  <2>4. QED
    BY <2>2, <2>3 DEF Handle
<1>a. CASE c \in cut \cup astray
  <2>1. answered'[c] = answered[c] /\ handled'[c] = handled[c] /\ c \in cut' \cup astray'
    BY <1>1, <1>a
  <2>2. FreshParser(c)'
    BY <1>1 DEF Client, FreshParser
  <2>3. Waits(c)'
    BY <1>1, <2>1 DEF Client, Waits
  <2>4. GenuineInv(c)'
    BY <2>1 DEF GenuineInv
  <2>5. InStepInv(c)'
    BY <1>1, <1>a, <2>1 DEF Client, InStepInv
  <2>6. QED
    BY <2>2, <2>3, <2>4, <2>5 DEF Client
<1> SUFFICES ASSUME c \notin cut \cup astray PROVE Client(c)'
  BY <1>a
<1>2. N + 1 = Len(handled'[c]) /\ DOMAIN handled'[c] = 1 .. N + 1
  <2>1. \E x : handled'[c] = Append(handled[c], x)
    BY Zenon DEF Handle, ParserTypes
  <2>2. PICK x : handled'[c] = Append(handled[c], x)
    BY <2>1
  <2>3. QED
    <3>1. handled'[c] \in Seq(Answers)
      BY HandleTypes, HandledDomain DEF ParserTypes
    <3>2. Len(handled'[c]) = N + 1
      BY <1>0, <2>2
    <3>3. QED
      BY <3>1, <3>2, LenProperties
<1>3. FreshParser(c)' /\ Waits(c)'
  <2>1. N + 1 \in Nat /\ answered[c] \in Nat /\ answered[c] <= N
    BY <1>0 DEF Client, Waits, WireTypes
  <2>2. answered'[c] <= N + 1 /\ answered[c] < N + 1
    <3> HIDE DEF N
    <3> QED
      BY <1>0, <1>1, <2>1
  <2>3. ASSUME NEW i \in DOMAIN Script[c], i > answered'[c] + 1 PROVE i > answered[c] + 1
    <3>1. i \in Nat
      BY RequestFacts
    <3>2. QED
      BY <1>1, <2>1, <2>3, <3>1
  <2>6. Waits(c)'
    <3>1. pc'[c] # "none"
      BY <1>1
    <3>2. answered'[c] <= Len(handled'[c])
      BY <1>2, <2>2
    <3>3. pc'[c] = "blocked" => answered'[c] < Len(handled'[c])
      BY <1>1, <1>2, <2>2
    <3>4. c \notin ahead' =>
            \A i \in DOMAIN Script[c] : i > answered'[c] + 1 => sent'[c] <= Script[c][i].at
      BY <1>1, <2>3 DEF Client, Waits
    <3>5. QED
      BY <3>1, <3>2, <3>3, <3>4 DEF Waits
  <2>4. FreshParser(c)'
    BY <1>1 DEF Client, FreshParser
  <2>5. QED
    BY <2>4, <2>6
<1>4. GenuineInv(c)'
  <2> SUFFICES ASSUME c \notin cut \cup astray
               PROVE  \E f \in [DOMAIN handled'[c] -> DOMAIN Script[c]] :
                         \E i \in 0 .. Len(Script[c]) : Tells(c, f, i)'
    BY <1>1 DEF GenuineInv
  <2>1. PICK f \in [DOMAIN handled[c] -> DOMAIN Script[c]],
             i \in 0 .. Len(Script[c]) : Tells(c, f, i)
    BY DEF Client, GenuineInv
  <2>2. PICK g : g = With(c, f, i)
    OBVIOUS
  <2>3. Tells(c, g, i)'
    BY <2>1, <2>2, HandleTells DEF Client
  <2>4. g \in [DOMAIN handled'[c] -> DOMAIN Script[c]]
    BY <2>3 DEF Tells, Chosen
  <2>5. QED
    BY <2>1, <2>3, <2>4
<1>5. InStepInv(c)'
  <2> SUFFICES ASSUME c \notin cut \cup ahead
               PROVE  /\ Aligned(c)'
                      /\ Tells(c, Identity(DOMAIN handled[c]), Len(handled[c]) + 1)'
    BY <1>1 DEF InStepInv
  <2>1. PICK f, i, g, j : /\ f = Identity(DOMAIN handled[c]) /\ i = N + 1
                          /\ g = With(c, f, i) /\ j = N + 2
    OBVIOUS
  <2>2. Tells(c, f, i)
    BY <2>1 DEF Client, InStepInv
  <2>3. /\ Tells(c, g, j)' /\ i \in DOMAIN Script[c]
        /\ got[c] >= End(Script[c][i])
    BY <2>1, <2>2, HandleTells DEF Client
  <2>4. g = [k \in 1 .. N + 1 |-> k]
    <3>1. \A k \in 1 .. N + 1 : (IF k \in DOMAIN handled[c] THEN f[k] ELSE i) = k
      <4> SUFFICES ASSUME NEW k \in 1 .. N + 1
                   PROVE  (IF k \in DOMAIN handled[c] THEN f[k] ELSE i) = k
        OBVIOUS
      <4>1. CASE k \in DOMAIN handled[c]
        BY <2>1, <4>1 DEF Identity
      <4>2. CASE k \notin DOMAIN handled[c]
        <5>1. k = N + 1
          BY <1>0, <4>2
        <5>2. QED
          BY <2>1, <4>2, <5>1
      <4>3. QED
        BY <4>1, <4>2
    <3>2. g = [k \in 1 .. N + 1 |-> IF k \in DOMAIN handled[c] THEN f[k] ELSE i]
      BY <2>1 DEF With
    <3> HIDE DEF N
    <3>3. QED
      BY <3>1, <3>2
  <2>5. g = Identity(DOMAIN handled'[c])
    BY <1>2, <2>4, Zenon DEF Identity
  <2>6. j = Len(handled'[c]) + 1
    <3>1. Len(handled'[c]) = N + 1 /\ j = N + 2
      BY <1>2, <2>1
    <3> HIDE DEF N
    <3>2. QED
      BY <1>0, <3>1
  <2>7. Aligned(c)'
    <3>1. i > Len(handled[c])
      BY <1>0, <2>1
    <3>2. sent[c] <= End(Script[c][i])
      BY <2>3, <3>1, SentNoMore DEF Client
    <3>3. got[c] \in Nat /\ sent[c] \in Nat /\ got[c] <= sent[c] /\ End(Script[c][i]) \in Nat
      BY <2>3, RequestFacts DEF WireTypes, Bounds, Fits
    <3> DEFINE e == End(Script[c][i])
    <3>4. got[c] = e
      <4>1. got[c] >= e /\ sent[c] <= e /\ e \in Nat
        BY <2>3, <3>2, <3>3
      <4> HIDE DEF e
      <4>2. QED
        BY <3>3, <4>1
    <3>5. i = Len(handled'[c]) /\ i # 0
      BY <1>0, <1>2, <2>1
    <3>6. got'[c] = NextAt(c, Len(handled'[c]))
      BY <1>1, <3>4, <3>5 DEF NextAt
    <3>7. QED
      BY <3>6 DEF Aligned, NextAt
  <2>8. QED
    BY <2>3, <2>5, <2>6, <2>7
<1>6. QED
  BY <1>3, <1>4, <1>5 DEF Client

LEMMA HeadClient ==
    ASSUME LengthFirst, WireTypes, ParserTypes, NEW c \in Clients, NEW n,
           NEW i \in DOMAIN Script[c], ReadHead(c, i, n), Client(c)
    PROVE  Client(c)'
<1>1. /\ pc[c] = "head" /\ pc'[c] \in {"head", "close", "body", "handle"}
      /\ handled' = handled /\ answered' = answered /\ sent' = sent /\ ahead' = ahead
      /\ (c \in cut => c \in cut') /\ astray' = astray
      /\ parser'[c].first = FALSE \/ parser'[c] = Fresh
      /\ pc'[c] = "head" => parser'[c].first = FALSE
      /\ pc'[c] \in {"body", "handle"} => parser'[c] = Fresh
  <2> DEFINE r == Script[c][i]
             to == got[c] + n
             e == IF to < HeadEnd(r) THEN to ELSE HeadEnd(r)
             p == Execute(r, parser[c], got[c], e)
  <2>1. /\ pc[c] = "head" /\ UNCHANGED <<handled, answered, sent, ahead, astray>>
        /\ cut' = IF Splits(r, got[c]) THEN cut \cup {c} ELSE cut
        /\ \/ pc' = [pc EXCEPT ![c] = "close"] /\ parser' = [parser EXCEPT ![c] = Fresh]
           \/ pc' = pc /\ parser' = [parser EXCEPT ![c] = p]
           \/ /\ pc' = [pc EXCEPT ![c] = IF left'[c] > 0 THEN "body" ELSE "handle"]
              /\ parser' = [parser EXCEPT ![c] = Fresh]
    BY Zenon DEF ReadHead, wirevars
  <2>2. p.first = FALSE
    BY DEF Execute
  <2> HIDE DEF p
  <2>3. QED
    BY <2>1, <2>2 DEF WireTypes, ParserTypes
<1>2. FreshParser(c)' /\ Waits(c)'
  <2>1. FreshParser(c)'
    BY <1>1 DEF FreshParser, Fresh, Client
  <2>2. Waits(c)'
    BY <1>1 DEF Waits, Client
  <2>3. QED
    BY <2>1, <2>2
<1>3. GenuineInv(c)'
  <2> SUFFICES ASSUME c \notin cut' \cup astray'
               PROVE  \E f \in [DOMAIN handled'[c] -> DOMAIN Script[c]] :
                         \E k \in 0 .. Len(Script[c]) : Tells(c, f, k)'
    BY DEF GenuineInv
  <2>1. PICK f \in [DOMAIN handled[c] -> DOMAIN Script[c]],
             j \in 0 .. Len(Script[c]) : Tells(c, f, j)
    BY <1>1 DEF Client, GenuineInv
  <2>2. Tells(c, f, i)'
    BY <2>1, HeadTells DEF Client
  <2>3. i \in 0 .. Len(Script[c])
    BY RequestFacts
  <2>4. QED
    BY <1>1, <2>1, <2>2, <2>3
<1>4. InStepInv(c)'
  <2>0. Aligned(c)'
    BY <1>1 DEF Aligned
  <2> SUFFICES ASSUME c \notin cut' \cup ahead
               PROVE  Tells(c, Identity(DOMAIN handled[c]), Len(handled[c]) + 1)'
    BY <1>1, <2>0 DEF Client, InStepInv
  <2>1. PICK f, j : f = Identity(DOMAIN handled[c]) /\ j = Len(handled[c]) + 1
    OBVIOUS
  <2>2. Tells(c, f, j)
    BY <1>1, <2>1 DEF Client, InStepInv
  <2>3. /\ Tells(c, f, i)'
        /\ Busy(c)' => i = j \/ got[c] = Script[c][i].at
    BY <2>2, HeadTells DEF Client
  <2>4. CASE ~Busy(c)'
    BY <1>1, <2>1, <2>3, <2>4 DEF Tells
  <2>5. CASE Busy(c)'
    <3>1. CASE i = j
      BY <1>1, <2>1, <2>3, <3>1
    <3>2. CASE got[c] = Script[c][i].at
      <4> DEFINE N == Len(handled[c])
                 a == Script[c][i].at
      <4>1. N \in Nat /\ DOMAIN handled[c] = 1 .. N
        BY HandledDomain
      <4>2. i \in Nat /\ i >= 1 /\ a \in Nat
        BY RequestFacts
      <4>3. answered[c] \in Nat /\ answered[c] <= N
        BY DEF Client, Waits, WireTypes
      <4>4. got[c] < sent[c]
        <5>1. got[c] \in Nat /\ sent[c] \in Nat /\ got[c] < got[c] + n /\ got[c] + n <= sent[c]
              /\ got[c] + n \in Nat
          BY HeadFacts DEF WireTypes
        <5> DEFINE t == got[c] + n
        <5>2. t \in Nat /\ got[c] < t /\ t <= sent[c]
          BY <5>1
        <5> HIDE DEF t
        <5>3. QED
          BY <5>1, <5>2
      <4>5. ~(i > answered[c] + 1)
        <5> SUFFICES ASSUME i > answered[c] + 1 PROVE FALSE
          OBVIOUS
        <5>1. sent[c] <= a
          BY DEF Client, Waits
        <5> HIDE DEF a
        <5>2. a = got[c] /\ sent[c] \in Nat
          BY <3>2 DEF a, WireTypes
        <5>3. QED
          BY <4>2, <4>4, <5>1, <5>2
      <4>6. N = 0 \/ N < i
        <5> SUFFICES ASSUME N # 0 PROVE N < i
          OBVIOUS
        <5>1. N \in DOMAIN handled[c]
          BY <4>1
        <5>2. f[N] < i
          BY <1>1, <2>3, <2>5, <5>1 DEF Tells
        <5>3. f[N] = N
          BY <2>1, <5>1 DEF Identity
        <5>4. QED
          BY <5>2, <5>3
      <4>7. i = N + 1
        <5> HIDE DEF N
        <5> QED
          BY <4>1, <4>2, <4>3, <4>5, <4>6
      <4>8. QED
        BY <1>1, <2>1, <2>3, <4>7
    <3>3. QED
      BY <2>3, <2>5, <3>1, <3>2
  <2>6. QED
    BY <2>4, <2>5
<1>5. QED
  BY <1>2, <1>3, <1>4 DEF Client

LEMMA SendClient ==
    ASSUME WireTypes, ParserTypes, NEW c \in Clients, Send(c), Client(c)
    PROVE  Client(c)'
<1>1. /\ pc' = pc /\ got' = got /\ parser' = parser /\ request' = request /\ left' = left
      /\ handled' = handled /\ answered' = answered /\ cut' = cut /\ ahead \subseteq ahead'
      /\ astray' = astray
  BY DEF Send, svars
<1>2. PICK i \in DOMAIN Script[c] :
        /\ sent' = [sent EXCEPT ![c] = End(Script[c][i])]
        /\ ahead' = IF i > answered[c] + 1 THEN ahead \cup {c} ELSE ahead
  BY DEF Send
<1>3. sent'[c] = End(Script[c][i])
  BY <1>2 DEF WireTypes
<1>4. ASSUME c \notin ahead', NEW k \in DOMAIN Script[c], k > answered[c] + 1
      PROVE  sent'[c] <= Script[c][k].at
  <2>1. ~(i > answered[c] + 1)
    BY <1>2, <1>4
  <2>2. i \in Nat /\ k \in Nat /\ answered[c] \in Nat
    BY RequestFacts DEF WireTypes
  <2>3. i < k
    BY <1>4, <2>1, <2>2
  <2>4. QED
    BY <1>3, <2>3, Ordered
<1>5. Waits(c)'
  BY <1>1, <1>4 DEF Client, Waits
<1>6. FreshParser(c)'
  BY <1>1 DEF Client, FreshParser
<1>7. \A f, j : Tells(c, f, j) => Tells(c, f, j)'
  BY <1>1, TellsStay
<1>8. Aligned(c) => Aligned(c)'
  BY <1>1 DEF Aligned
<1>9. QED
  BY <1>1, <1>5, <1>6, <1>7, <1>8, ClientGoesOn

\* A client that waits for the answers is never astray.
LEMMA AstrayClient ==
    ASSUME WireTypes, ParserTypes, Bounds, NEW c \in Clients, NEW n \in 1 .. Avail(c),
           ReadAstray(c, n), Client(c)
    PROVE  Client(c)'
<1> DEFINE N == Len(handled[c])
<1>1. /\ parser' = parser /\ sent' = sent /\ handled' = handled /\ answered' = answered
      /\ cut' = cut /\ ahead' = ahead /\ c \in astray'
      /\ n <= sent[c] - got[c] /\ n \in 1 .. buff_size /\ buff_size \in Nat
      /\ pc'[c] \in {"astray", "close", "body", "handle"}
  BY HttpAssumption DEF ReadAstray, wirevars, WireTypes, Avail
<1>2. /\ sent[c] \in Nat /\ got[c] \in Nat /\ N \in Nat /\ got[c] < sent[c]
      /\ DOMAIN handled[c] = 1 .. N
  BY <1>1, HandledDomain DEF WireTypes
<1>3. parser[c].first
  BY DEF ReadAstray, Client, FreshParser
<1>4. FreshParser(c)' /\ Waits(c)'
  BY <1>1, <1>3 DEF Client, FreshParser, Waits
<1>5. GenuineInv(c)'
  BY <1>1 DEF GenuineInv
<1>6. ASSUME c \notin cut \cup ahead PROVE FALSE
  <2>1. c \notin astray /\ Aligned(c) /\ Chosen(c, Identity(DOMAIN handled[c]))
    BY <1>6 DEF Client, InStepInv, Tells
  <2>2. pc[c] = "head" /\ \A i \in DOMAIN Script[c] : Script[c][i].at # got[c]
    BY <2>1 DEF ReadAstray, Client, FreshParser
  <2>3. got[c] = NextAt(c, N)
    BY <1>3, <2>1, <2>2 DEF Aligned
  <2>4. PICK i \in DOMAIN Script[c] : sent[c] <= End(Script[c][i])
    BY <1>2 DEF Bounds, Fits, Sent
  <2>5. /\ i \in Nat /\ i >= 1 /\ i <= Len(Script[c]) /\ Len(Script[c]) \in Nat
        /\ DOMAIN Script[c] = 1 .. Len(Script[c]) /\ End(Script[c][i]) \in Nat
    BY RequestFacts
  <2>6. CASE N = 0
    <3>1. 1 \in DOMAIN Script[c] /\ got[c] = 0
      BY <2>3, <2>5, <2>6 DEF NextAt
    <3>2. Script[c][1].at = 0
      BY <3>1, HttpAssumption
    <3>3. QED
      BY <2>2, <3>1, <3>2
  <2>7. CASE N # 0
    <3>1. got[c] = End(Script[c][N])
      BY <2>3, <2>7 DEF NextAt
    <3>2. N \in DOMAIN Script[c]
      <4>1. N \in DOMAIN handled[c]
        BY <1>2, <2>7
      <4> HIDE DEF N
      <4>2. QED
        BY <2>1, <4>1 DEF Chosen, Identity
    <3>3. CASE N + 1 \in DOMAIN Script[c]
      <4>1. Script[c][N + 1].at = End(Script[c][N])
        BY <1>2, <2>7, <3>3, Adjacent
      <4>2. QED
        BY <2>2, <3>1, <3>3, <4>1
    <3>4. CASE N + 1 \notin DOMAIN Script[c]
      <4>1. i = N \/ i < N
        BY <1>2, <2>5, <3>2, <3>4
      <4>2. CASE i = N
        BY <1>2, <2>4, <2>5, <3>1, <4>2
      <4>3. CASE i < N
        <5> DEFINE x == End(Script[c][i])
                   y == Script[c][N].at
                   z == End(Script[c][N])
                   h == HeadEnd(Script[c][N])
        <5>1. x <= y
          BY <3>2, <4>3, Ordered
        <5>2. x \in Nat /\ y \in Nat /\ z \in Nat /\ h \in Nat /\ h >= y + 6 /\ z >= h
          BY <2>5, <3>2, RequestFacts
        <5>3. sent[c] <= x /\ got[c] = z
          BY <2>4, <3>1
        <5> HIDE DEF x, y, z, h
        <5>4. QED
          BY <1>2, <5>1, <5>2, <5>3
      <4>4. QED
        BY <4>1, <4>2, <4>3
    <3>5. QED
      BY <3>3, <3>4
  <2>8. QED
    BY <2>6, <2>7
<1>7. InStepInv(c)'
  BY <1>1, <1>6 DEF InStepInv
<1>8. QED
  BY <1>4, <1>5, <1>7 DEF Client

LEMMA ClientStep ==
    ASSUME LengthFirst, WireTypes, ParserTypes, Bounds, NEW c \in Clients, Step(c), Client(c)
    PROVE  Client(c)'
<1>0. /\ sent[c] \in Nat /\ got[c] \in Nat /\ answered[c] \in Nat /\ Len(handled[c]) \in Nat
      /\ DOMAIN handled[c] = 1 .. Len(handled[c])
  BY HandledDomain DEF WireTypes
<1>1. CASE Send(c)
  BY <1>1, SendClient
<1>2. CASE \E n \in got[c] .. sent[c] : Shutdown(c, n)
  <2>1. PICK n \in got[c] .. sent[c] : Shutdown(c, n)
    BY <1>2
  <2>2. /\ pc' = pc /\ got' = got /\ parser' = parser /\ request' = request /\ left' = left
        /\ handled' = handled /\ answered' = answered /\ cut' = cut /\ ahead' = ahead
        /\ astray' = astray /\ sent'[c] = n /\ n <= sent[c] /\ n \in Nat
    BY <1>0, <2>1 DEF Shutdown, svars, WireTypes
  <2>3. \A i \in DOMAIN Script[c] : sent[c] <= Script[c][i].at => sent'[c] <= Script[c][i].at
    <3> SUFFICES ASSUME NEW i \in DOMAIN Script[c], sent[c] <= Script[c][i].at
                 PROVE  n <= Script[c][i].at
      BY <2>2
    <3>1. Script[c][i].at \in Nat
      BY RequestFacts
    <3>2. QED
      BY <1>0, <2>2, <3>1
  <2>4. Waits(c)'
    BY <2>2, <2>3 DEF Client, Waits
  <2>5. FreshParser(c)'
    BY <2>2 DEF Client, FreshParser
  <2>6. \A f, j : Tells(c, f, j) => Tells(c, f, j)'
    BY <2>2, TellsStay
  <2>7. Aligned(c) => Aligned(c)'
    BY <2>2 DEF Aligned
  <2>8. QED
    BY <2>2, <2>4, <2>5, <2>6, <2>7, ClientGoesOn
<1>3. CASE Begin(c)
  <2>1. /\ got' = got /\ parser' = parser /\ sent' = sent
        /\ handled' = handled /\ answered' = answered /\ cut' = cut /\ ahead' = ahead
        /\ astray' = astray /\ pc[c] = "none" /\ pc'[c] = "head"
    BY <1>3 DEF Begin, wirevars, WireTypes
  <2>2. FreshParser(c)' /\ parser[c].first /\ Waits(c)'
    BY <2>1 DEF Client, FreshParser, Waits
  <2>3. ~Busy(c)'
    BY <2>1, <2>2 DEF Busy
  <2>4. DOMAIN handled[c] = {} /\ handled[c] = <<>> /\ got[c] = 0
    BY <2>1 DEF Client, Waits
  <2>5. \A f, j : Tells(c, f, j) => Tells(c, f, j)'
    BY <2>1, <2>3, <2>4, IdleTells
  <2>6. Aligned(c)'
    BY <2>1, <2>4 DEF Aligned, NextAt
  <2>7. QED
    BY <2>1, <2>2, <2>5, <2>6, ClientGoesOn
<1>4. CASE ReadEnds(c) \/ Spin(c)
  <2>1. /\ got' = got /\ parser' = parser /\ sent' = sent
        /\ handled' = handled /\ answered' = answered /\ cut' = cut /\ ahead' = ahead
        /\ astray' = astray /\ pc'[c] \in {"close", "spin"}
        /\ pc'[c] = "spin" => pc[c] = "body"
    BY <1>4 DEF ReadEnds, Spin, wirevars, WireTypes
  <2>2. FreshParser(c)' /\ Waits(c)'
    BY <2>1 DEF Client, FreshParser, Waits
  <2>3. ~Busy(c)'
    BY <2>1 DEF Busy
  <2>4. \A f, j : Tells(c, f, j) => Tells(c, f, j)'
    BY <2>1, <2>3, IdleTells
  <2>5. Aligned(c)'
    BY <2>1 DEF Aligned
  <2>6. QED
    BY <2>1, <2>2, <2>4, <2>5, ClientGoesOn
<1>5. CASE Handle(c)
  BY <1>5, HandleClient
<1>6. CASE Drain(c)
  <2>1. /\ got' = got /\ parser' = parser /\ sent' = sent
        /\ handled' = handled /\ cut' = cut /\ ahead' = ahead /\ astray' = astray
        /\ pc[c] = "blocked" /\ pc'[c] \in {"head", "close"}
        /\ answered'[c] = answered[c] + 1 \/ answered'[c] = answered[c]
        /\ c \in cut \cup astray => answered'[c] = answered[c]
    BY <1>6, AnswerTypes DEF Drain, Answer, wirevars
  <2>2. FreshParser(c)' /\ parser[c].first
    BY <2>1 DEF Client, FreshParser
  <2>3. answered[c] <= Len(handled[c]) /\ (c \notin cut \cup astray => answered[c] < Len(handled[c]))
    BY <2>1 DEF Client, Waits
  <2>4. answered'[c] <= Len(handled[c])
    BY <1>0, <2>1, <2>3
  <2>5. \A i \in DOMAIN Script[c] : i > answered'[c] + 1 => i > answered[c] + 1
    <3> SUFFICES ASSUME NEW i \in DOMAIN Script[c], i > answered'[c] + 1 PROVE i > answered[c] + 1
      OBVIOUS
    <3>1. i \in Nat
      BY RequestFacts
    <3>2. QED
      BY <1>0, <2>1, <3>1
  <2>6. Waits(c)'
    BY <2>1, <2>4, <2>5 DEF Client, Waits
  <2>7. ~Busy(c)'
    BY <2>1, <2>2 DEF Busy
  <2>8. \A f, j : Tells(c, f, j) => Tells(c, f, j)'
    BY <2>1, <2>7, IdleTells
  <2>9. Aligned(c) => Aligned(c)'
    BY <2>1, <2>2 DEF Aligned
  <2>10. QED
    BY <2>1, <2>2, <2>6, <2>8, <2>9, ClientGoesOn
<1>7. CASE CloseSession(c)
  <2>1. /\ parser'[c] = Fresh /\ sent'[c] = 0
        /\ handled' = handled /\ answered' = answered /\ cut' = cut /\ ahead' = ahead
        /\ astray' = astray /\ pc'[c] = "closed"
    BY <1>7 DEF CloseSession, WireTypes, ParserTypes
  <2>2. FreshParser(c)'
    BY <2>1 DEF FreshParser, Fresh
  <2>3. \A i \in DOMAIN Script[c] : sent'[c] <= Script[c][i].at
    BY <2>1, RequestFacts
  <2>4. Waits(c)'
    BY <2>1, <2>3 DEF Client, Waits
  <2>5. ~Busy(c)'
    BY <2>1 DEF Busy
  <2>6. \A f, j : Tells(c, f, j) => Tells(c, f, j)'
    BY <2>1, <2>5, IdleTells
  <2>7. Aligned(c)'
    BY <2>1 DEF Aligned
  <2>8. QED
    BY <2>1, <2>2, <2>4, <2>6, <2>7, ClientGoesOn
<1>8. CASE \E n \in 1 .. Avail(c) : ReadBody(c, n)
  <2>1. PICK n \in 1 .. Avail(c) : ReadBody(c, n)
    BY <1>8
  <2>2. /\ parser' = parser /\ sent' = sent
        /\ handled' = handled /\ answered' = answered /\ cut' = cut /\ ahead' = ahead
        /\ astray' = astray /\ pc[c] = "body" /\ pc'[c] \in {"body", "handle"}
    BY <2>1 DEF ReadBody, wirevars, WireTypes
  <2>3. FreshParser(c)' /\ Waits(c)'
    BY <2>2 DEF Client, FreshParser, Waits
  <2>4. \A f, j : Tells(c, f, j) => Tells(c, f, j)'
    BY <2>1, ReadBodyTells
  <2>5. Aligned(c)'
    BY <2>2 DEF Aligned
  <2>6. QED
    BY <2>2, <2>3, <2>4, <2>5, ClientGoesOn
<1>9. CASE \E n \in 1 .. Avail(c) : \E i \in DOMAIN Script[c] : ReadHead(c, i, n)
  BY <1>9, HeadClient
<1>10. CASE \E n \in 1 .. Avail(c) : ReadAstray(c, n)
  BY <1>10, AstrayClient
<1>11. QED
  BY <1>1, <1>2, <1>3, <1>4, <1>5, <1>6, <1>7, <1>8, <1>9, <1>10, Zenon DEF Step, Session

LEMMA SessionInvStep ==
    ASSUME LengthFirst, WireTypes, ParserTypes, Bounds, SessionInv, [Next]_hvars
    PROVE  SessionInv'
<1>1. CASE UNCHANGED <<wirevars, svars>>
  <2> SUFFICES ASSUME NEW c \in Clients PROVE Client(c)'
    BY DEF SessionInv, Client
  <2>1. Client(c)
    BY DEF SessionInv, Client
  <2>2. QED
    BY <1>1, <2>1, ClientStays DEF wirevars, svars
<1>2. ASSUME NEW c \in Clients, Step(c) PROVE SessionInv'
  <2> SUFFICES ASSUME NEW d \in Clients PROVE Client(d)'
    BY DEF SessionInv, Client
  <2>1. Client(d)
    BY DEF SessionInv, Client
  <2>2. CASE d = c
    BY <1>2, <2>1, <2>2, ClientStep
  <2>3. CASE d # c
    <3>1. Others(c)
      BY <1>2, OthersStay
    <3>2. QED
      BY <2>1, <2>3, <3>1, ClientStays DEF Others
  <2>4. QED
    BY <2>2, <2>3
<1>3. QED
  BY <1>1, <1>2, StepCases

LEMMA InitSessionInv == Init => SessionInv
<1> SUFFICES ASSUME Init, NEW c \in Clients PROVE Client(c)
  BY DEF SessionInv, Client
<1>1. /\ pc[c] = "none" /\ sent[c] = 0 /\ parser[c] = Fresh /\ handled[c] = <<>>
      /\ answered[c] = 0 /\ got[c] = 0 /\ astray = {}
  BY DEF Init
<1>2. FreshParser(c)
  BY <1>1 DEF FreshParser, Fresh
<1>3. \A i \in DOMAIN Script[c] : sent[c] <= Script[c][i].at
  BY <1>1, RequestFacts
<1>4. Waits(c)
  BY <1>1, <1>3 DEF Waits
<1>5. DOMAIN handled[c] = {} /\ ~Busy(c)
  BY <1>1 DEF Busy
<1>6. ASSUME NEW f \in [DOMAIN handled[c] -> DOMAIN Script[c]], NEW i PROVE Tells(c, f, i)
  BY <1>5 DEF Tells, Chosen
<1>7. 0 \in 0 .. Len(Script[c])
  <2>1. Len(Script[c]) \in Nat
    BY HttpAssumption, LenProperties
  <2>2. QED
    BY <2>1
<1>8. [k \in {} |-> k] \in [DOMAIN handled[c] -> DOMAIN Script[c]]
  BY <1>5
<1>9. GenuineInv(c)
  BY <1>6, <1>7, <1>8 DEF GenuineInv
<1>10. InStepInv(c)
  BY <1>1, <1>5, <1>6, <1>8 DEF InStepInv, Identity, Aligned
<1>11. QED
  BY <1>2, <1>4, <1>9, <1>10 DEF Client

\* What the session invariant says of what is handled.
LEMMA SessionInvShows ==
    WireTypes /\ ParserTypes /\ SessionInv => InStep /\ Genuine
<1> SUFFICES ASSUME WireTypes, ParserTypes, SessionInv PROVE InStep /\ Genuine
  OBVIOUS
<1>1. \A c \in Clients : DOMAIN Expected[c] = DOMAIN Script[c]
  BY DEF Expected
<1>2. Genuine
  <2> SUFFICES ASSUME NEW c \in Clients, c \notin cut \cup astray
               PROVE  \E f \in [DOMAIN handled[c] -> DOMAIN Expected[c]] :
                        /\ \A i \in DOMAIN f : handled[c][i] = Expected[c][f[i]]
                        /\ \A i, j \in DOMAIN f : i < j => f[i] < f[j]
    BY DEF Genuine
  <2>1. PICK f \in [DOMAIN handled[c] -> DOMAIN Script[c]] : \E i : Tells(c, f, i)
    BY DEF SessionInv, GenuineInv
  <2>2. DOMAIN f = DOMAIN handled[c]
    OBVIOUS
  <2>3. QED
    BY <1>1, <2>1, <2>2 DEF Tells, Chosen
<1>3. InStep
  <2> SUFFICES ASSUME NEW c \in Clients, c \notin cut \cup ahead
               PROVE  IsPrefix(handled[c], Expected[c])
    BY DEF InStep, SessionInv, InStepInv
  <2> DEFINE N == Len(handled[c])
             s == handled[c]
             t == Expected[c]
             f == Identity(DOMAIN handled[c])
  <2>1. s \in Seq(Answers) /\ N \in Nat /\ DOMAIN s = 1 .. N
    BY HandledDomain
  <2>2. Script[c] \in Seq(Requests) /\ Len(Script[c]) \in Nat /\ DOMAIN t = 1 .. Len(Script[c])
    BY <1>1, HttpAssumption, LenProperties
  <2>3. Chosen(c, f)
    BY DEF SessionInv, InStepInv, Tells
  <2>4. \A k \in 1 .. N : k \in 1 .. Len(Script[c]) /\ s[k] = t[k]
    BY <1>1, <2>1, <2>2, <2>3 DEF Chosen, Identity
  <2>5. t \in Seq({t[k] : k \in 1 .. Len(Script[c])}) /\ Len(t) = Len(Script[c])
    <3>1. t \in [1 .. Len(Script[c]) -> {t[k] : k \in 1 .. Len(Script[c])}]
      BY <1>1, <2>2 DEF Expected
    <3> HIDE DEF t
    <3>2. QED
      BY <2>2, <3>1, SeqDef, LenProperties
  <2>6. N <= Len(t)
    <3>1. N = 0 \/ N \in 1 .. N
      BY <2>1
    <3> HIDE DEF N, t
    <3>2. QED
      BY <2>1, <2>2, <2>4, <2>5, <3>1
  <2>7. SubSeq(s, 1, N) = SubSeq(t, 1, N)
    <3>1. \A k \in 1 .. N : s[k] \in Answers /\ t[k] \in Answers /\ s[k] = t[k]
      BY <2>1, <2>4, ElementOfSeq
    <3> HIDE DEF N, s, t
    <3>2. /\ SubSeq(s, 1, N) = [k \in 1 .. N |-> s[k]]
          /\ SubSeq(t, 1, N) = [k \in 1 .. N |-> t[k]]
      BY <2>1, <3>1
    <3>3. QED
      BY <3>1, <3>2
  <2>8. QED
    BY <2>6, <2>7 DEF IsPrefix
<1>4. QED
  BY <1>2, <1>3

\* The inductive invariant of the sessions.
THEOREM SessionInvariant == ASSUME LengthFirst PROVE HttpSpec => []SessionInv
<1>1. Init => WireTypes /\ ParserTypes /\ Bounds /\ SessionInv
  BY InitTypes, InitSessionInv
<1>2. WireTypes /\ ParserTypes /\ Bounds /\ SessionInv /\ [Next]_hvars
        => (WireTypes /\ ParserTypes /\ Bounds /\ SessionInv)'
  BY TypesStay, SessionInvStep
<1>3. QED
  BY <1>1, <1>2, PTL DEF HttpSpec

\* However the network cuts what the clients send into segments, between the tokens of the
\* heads: a client that waits for the answers has its requests handled one by one, each
\* with its path and its body, and no parser of its session begins inside a request
\* (recvRequest, http_session.cc:8-70).
THEOREM InStepAlways == ASSUME LengthFirst PROVE HttpSpec => []InStep
<1>1. HttpSpec => [](WireTypes /\ ParserTypes /\ Bounds)
  BY InitTypes, TypesStay, PTL DEF HttpSpec
<1>2. QED
  BY <1>1, SessionInvariant, SessionInvShows, PTL

\* And of one that does not wait, as long as what is dropped with the buffer ends where a
\* request does, nothing is handled that it has not sent, and nothing twice or out of
\* order.  After that a parser begins inside a request, and the bytes decide
\* (handleClient, http_server.cc:13-39; recvRequest, http_session.cc:50-73).
THEOREM GenuineAlways == ASSUME LengthFirst PROVE HttpSpec => []Genuine
<1>1. HttpSpec => [](WireTypes /\ ParserTypes /\ Bounds)
  BY InitTypes, TypesStay, PTL DEF HttpSpec
<1>2. QED
  BY <1>1, SessionInvariant, SessionInvShows, PTL

=============================================================================
