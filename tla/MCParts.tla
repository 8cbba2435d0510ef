------------------------------ MODULE MCParts ------------------------------
(* An instance of Parts for TLC. *)
EXTENDS Parts, TLC

CONSTANTS m1, m2, m3

\* Two messages of one priority and one of a higher priority.
MCPriority == [m \in Messages |-> IF m = m3 THEN 2 ELSE 1]

\* Delays below and above the cap, jitters of nothing, a half and one and a half.
MCPolicies ==
    [max_attempts : 0 .. 3, initial_delay : {1, 3}, max_delay : {2, 5},
     backoff_multiplier : {1, 2}, jitter_range : {0, 1, 3},
     strategy : {"fixed", "exponential", "exponential_jitter"}]

Symmetry == Permutations(Workers) \cup Permutations(Threads)
=============================================================================
