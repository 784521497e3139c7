----------------------------- MODULE MCPipeline -----------------------------
(***************************************************************************)
(* Model-checking instances of Pipeline.                                   *)
(***************************************************************************)
EXTENDS Pipeline

\* Entries that differ in what the scheduler compares, in what it does not, in
\* being enabled, and one with an interval NewTicker refuses.
Entries ==
    {[interval |-> 0, keyword |-> "", enabled |-> TRUE],
     [interval |-> 0, keyword |-> "k", enabled |-> TRUE],
     [interval |-> 5, keyword |-> "", enabled |-> TRUE],
     [interval |-> 0, keyword |-> "", enabled |-> FALSE],
     [interval |-> -1, keyword |-> "", enabled |-> TRUE]}
=============================================================================
