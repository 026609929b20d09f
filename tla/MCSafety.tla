------------------------------ MODULE MCSafety ------------------------------
(***************************************************************************)
(* Future and Publisher side by side for TLC: a behaviour is one of the    *)
(* component that "part" names, the other stays in its initial state.      *)
(***************************************************************************)
EXTENDS Future, Publisher

VARIABLE part

\* Either component takes its names from the same sets, so these are symmetries of both.
Symmetry == Permutations(Promises) \cup Permutations(Threads)

MCInit ==
    /\ part \in {"future", "publisher"}
    /\ Init /\ PublisherInit
    /\ part = "future" =>
          /\ maxLen = minLen
          /\ mode = [s \in Subscribers |-> "all_values"]

MCNext ==
    /\ UNCHANGED part
    /\ \/ part = "future" /\ Next /\ UNCHANGED publisherVars
       \/ part = "publisher" /\ PublisherNext /\ UNCHANGED vars

MCSpec == MCInit /\ [][MCNext]_<<part, vars, publisherVars>>
=============================================================================
