---------------------------- MODULE MCRateLimit ----------------------------
EXTENDS RateLimit

(* Two tools share the limiter, with limits of their own, and another has
   none.  One call of "search" has to wait for a thread, the others for a
   token, unless "sandbox" came first and made it two. *)
MCToolOf == [c1 |-> "search", c2 |-> "search", c3 |-> "search",
             c4 |-> "sandbox", c5 |-> "free"]
MCRateOf == [search |-> 1, sandbox |-> 2, free |-> 1]
MCNumWorkers == [search |-> 2, sandbox |-> 1, free |-> 1]
=============================================================================
