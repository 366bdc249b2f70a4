------------------------------ MODULE HeaderMap ------------------------------
(***************************************************************************)
(* The headers of a request or response (src/src/http.cc): a std::map      *)
(* ordered by CaseInsensitiveLess, which returns strcasecmp(lhs, rhs) as a *)
(* bool, so that of two different names each is "less" than the other.     *)
(*                                                                         *)
(* What libstdc++'s tree does with that is determined.  The first name is  *)
(* the root, and stays the rightmost node.  The walk of a search turns     *)
(* right where the names differ, and ends: every further name is not found *)
(* and is inserted by the rightmost node, to its left since it is "less",  *)
(* in place of what was there; an iteration starts at the node that came   *)
(* first to be the leftmost.                                               *)
(***************************************************************************)
EXTENDS Naturals, Sequences

CONSTANTS Names, Vals   \* header names, up to case, and values

VARIABLES
    m_headers,   \* [root, leftmost: at most one node each]
    latest       \* history: the names that were set, and their last values

hmvars == <<m_headers, latest>>

Empty == [root |-> <<>>, leftmost |-> <<>>]

\* All that is left of an order: the names differ.
CaseInsensitiveLess(lhs, rhs) == lhs # rhs

\* find: the root, or end().
Find(hs, name) == hs.root # <<>> /\ ~CaseInsensitiveLess(hs.root[1].name, name)

\* m_headers[key] = val
Assign(hs, name, val) ==
    LET node == <<[name |-> name, val |-> val]>> IN
    IF hs.root = <<>> \/ Find(hs, name) THEN [hs EXCEPT !.root = node]
    ELSE IF hs.leftmost = <<>> THEN [hs EXCEPT !.leftmost = node] ELSE hs

-----------------------------------------------------------------------------
Init == m_headers = Empty /\ latest = <<>>

setHeader(name, val) ==
    /\ m_headers' = Assign(m_headers, name, val)
    /\ latest' = [n \in DOMAIN latest \cup {name} |-> IF n = name THEN val ELSE latest[n]]

getHeader(name, def) == IF Find(m_headers, name) THEN m_headers.root[1].val ELSE def

\* What HttpRequest::dump and HttpResponse::dump write.
Dumped == m_headers.leftmost \o m_headers.root

Next == \E name \in Names, val \in Vals : setHeader(name, val)

Spec == Init /\ [][Next]_hmvars

-----------------------------------------------------------------------------
\* A header that was set is found, with the value it was last given, and dumped: the
\* default is returned only for what is not there or cannot be converted (http.h:151).
HeaderFound ==
    \A n \in DOMAIN latest : \A def \in Vals :
        /\ getHeader(n, def) = latest[n]
        /\ \E i \in DOMAIN Dumped : Dumped[i] = [name |-> n, val |-> latest[n]]

=============================================================================
