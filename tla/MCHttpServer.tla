---------------------------- MODULE MCHttpServer ----------------------------
(***************************************************************************)
(* HttpServer for TLC: the totals of the buffers and the descriptors over  *)
(* the connections.                                                        *)
(***************************************************************************)
EXTENDS HttpServer, FiniteSetsExt

\* A table of descriptors has an end: only so many clients are connected.
ASSUME FiniteConns == IsFiniteSet(Conns)

\* memused is the capacity of the buffers the sessions hold, no more (a
\* leak would bring the 503 limit nearer for good) and no less.
MemAccounting == memused = MapThenSumSet(LAMBDA c : conn[c].cap, Conns)

\* nfds is the sockets and timers of the sessions.
DescriptorAccounting ==
    nfds = MapThenSumSet(LAMBDA c : IF conn[c].state = "FREE" THEN 0
                                    ELSE IF conn[c].timer THEN 2 ELSE 1, Conns)
=============================================================================
