---------------------------- MODULE MCThreadPool ----------------------------
(***************************************************************************)
(* An instance of ThreadPool: two providers of different priority with one *)
(* job each, two workers.                                                  *)
(***************************************************************************)
EXTENDS ThreadPool

CONSTANTS w1, w2, p1, p2

MCWorkers   == {w1, w2}
MCProviders == {p1, p2}
MCPriority  == [p \in Providers |-> IF p = p1 THEN 2 ELSE 1]
MCJobsOf    == [p \in Providers |-> 1]
=============================================================================
