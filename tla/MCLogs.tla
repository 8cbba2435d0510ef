------------------------------- MODULE MCLogs -------------------------------
(* An instance of Logs for TLC.                                            *)
EXTENDS Logs, TLC

CONSTANTS m1, m2, m3, m4, m5, k1, k2

\* Three messages share a key, one has another key, one has none.
SharedKey == (m1 :> k1) @@ (m2 :> k1) @@ (m3 :> NoKey) @@ (m4 :> k1) @@ (m5 :> k2)
=============================================================================
