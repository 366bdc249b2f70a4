---------------------------- MODULE MCHttpServer ----------------------------
(***************************************************************************)
(* An instance of HttpServer for TLC: a client that sends a request with a *)
(* body, for which it keeps the connection, and two without headers, and   *)
(* one that sends nothing, on one thread of m_ioWorker.                    *)
(***************************************************************************)
EXTENDS HttpServer

CONSTANTS c1, c2

SomeScript ==
    c1 :> <<[at |-> 0, headers |-> <<"length", "keep-alive">>, body |-> 1],
            [at |-> 11, headers |-> <<>>, body |-> 0],
            [at |-> 17, headers |-> <<>>, body |-> 0]>>
    @@ c2 :> <<>>

=============================================================================
