---------------------------- MODULE RetryPolicy ----------------------------
(***************************************************************************)
(* The retry policy of brokerlite/retry.py, and an application that tries  *)
(* to process one message and asks it after each failure, as in            *)
(* examples/dead_letters.py.                                               *)
(*                                                                         *)
(* Delays are integers.  A jitter is a whole number of parts of a delay,   *)
(* each 1/Unit of it, so that jittered delays are exact in that unit.      *)
(***************************************************************************)
EXTENDS Integers, FiniteSetsExt

CONSTANTS
    Policies,    \* policies: the fields of RetryPolicy.__init__
    Unit         \* parts of a delay that a jitter counts

RetryAssumption ==
    /\ Unit \in Nat \ {0}
    /\ \A p \in Policies :
          /\ p.max_attempts \in Nat /\ p.initial_delay \in Nat /\ p.max_delay \in Nat
          /\ p.backoff_multiplier \in Nat /\ p.jitter_range \in Nat
          /\ p.strategy \in {"fixed", "exponential", "exponential_jitter"}

VARIABLES
    policy,
    attempt,     \* the attempt being made, from 1
    waited,      \* sum of the delays so far, in parts
    outcome      \* "trying", "processed" or "given up"

vars == <<policy, attempt, waited, outcome>>

Init ==
    /\ policy \in Policies
    /\ attempt = 1
    /\ waited = 0
    /\ outcome = "trying"

-----------------------------------------------------------------------------
\* b ** n.  (As a recursive function, which the provers can unfold.)
Power(b, n) ==
    LET power[i \in 0 .. n] == IF i = 0 THEN 1 ELSE b * power[i - 1]
    IN  power[n]

\* The delay of attempt n before any jitter.
Capped(p, n) ==
    LET delay == IF p.strategy = "fixed" THEN p.initial_delay
                 ELSE p.initial_delay * Power(p.backoff_multiplier, n - 1)
    IN Min({delay, p.max_delay})

Delays_JitterUncapped(p, n) ==
    IF p.strategy = "exponential_jitter"
    THEN {Max({0, p.initial_delay * Power(p.backoff_multiplier, n - 1) * (Unit + j)}) :
             j \in -p.jitter_range .. p.jitter_range}
    ELSE {Capped(p, n) * Unit}

\* What _calculate_delay may return, in parts: random.uniform is any jitter.
Delays(p, n) ==
    IF p.strategy = "exponential_jitter"
    THEN {Max({0, Capped(p, n) * (Unit + j)}) : j \in -p.jitter_range .. p.jitter_range}
    ELSE {Capped(p, n) * Unit}

ShouldRetry(p, n) == n < p.max_attempts

\* total_max_delay: total[n] is the sum of the delays before attempt n.
TotalMaxDelay(p) ==
    LET total[n \in 0 .. p.max_attempts] ==
            IF n <= 1 THEN 0 ELSE total[n - 1] + Capped(p, n - 1)
    IN  total[p.max_attempts]

Processed ==
    /\ outcome = "trying"
    /\ outcome' = "processed"
    /\ UNCHANGED <<policy, attempt, waited>>

Failed ==
    /\ outcome = "trying"
    /\ \/ /\ ShouldRetry(policy, attempt)
          /\ \E d \in Delays(policy, attempt) : waited' = waited + d
          /\ attempt' = attempt + 1
          /\ UNCHANGED outcome
       \/ /\ ~ShouldRetry(policy, attempt)
          /\ outcome' = "given up"
          /\ UNCHANGED <<attempt, waited>>
    /\ UNCHANGED policy

Next == Processed \/ Failed

Spec == Init /\ [][Next]_vars

-----------------------------------------------------------------------------
\* The share by which a jitter can lengthen a delay, in parts.
Stretch == IF policy.strategy = "exponential_jitter" THEN policy.jitter_range ELSE 0

(* A message is given up after max_attempts attempts (one at least), and   *)
(* all delays together stay within total_max_delay (retry.py 116-125),     *)
(* lengthened by the jitter, which _calculate_delay applies after the cap: *)
(* the figure the policy reports can be exceeded by that share and by no   *)
(* more.                                                                   *)
WithinWorstCase ==
    /\ attempt <= Max({1, policy.max_attempts})
    /\ outcome = "given up" => attempt = Max({1, policy.max_attempts})
    /\ waited <= TotalMaxDelay(policy) * (Unit + Stretch)
=============================================================================
