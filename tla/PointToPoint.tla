---------------------------- MODULE PointToPoint ----------------------------
(***************************************************************************)
(* What a point-to-point queue promises, without order, time or threads:   *)
(* a message that was accepted is waiting, being processed by one          *)
(* consumer, acknowledged, or purged, it is in exactly one of these places *)
(* at a time, and once acknowledged or purged it never comes back.  Both   *)
(* MessageQueue and PriorityQueue are shown to implement this.             *)
(***************************************************************************)

CONSTANT Messages

VARIABLES ready,     \* waiting to be delivered
          held,      \* delivered, not yet acknowledged
          settled,   \* acknowledged
          dropped    \* removed by a purge

vars == <<ready, held, settled, dropped>>

Accepted == ready \cup held \cup settled \cup dropped

Init == ready = {} /\ held = {} /\ settled = {} /\ dropped = {}

\* A message enters the queue at most once.
Accept(m) ==
    /\ m \notin Accepted
    /\ ready' = ready \cup {m}
    /\ UNCHANGED <<held, settled, dropped>>

Deliver(m) ==
    /\ m \in ready
    /\ ready' = ready \ {m}
    /\ held' = held \cup {m}
    /\ UNCHANGED <<settled, dropped>>

Settle(m) ==
    /\ m \in held
    /\ held' = held \ {m}
    /\ settled' = settled \cup {m}
    /\ UNCHANGED <<ready, dropped>>

\* A negative acknowledgment or a visibility timeout.
Return(m) ==
    /\ m \in held
    /\ held' = held \ {m}
    /\ ready' = ready \cup {m}
    /\ UNCHANGED <<settled, dropped>>

Purge ==
    /\ dropped' = dropped \cup ready
    /\ ready' = {}
    /\ UNCHANGED <<held, settled>>

Next ==
    \/ \E m \in Messages : Accept(m) \/ Deliver(m) \/ Settle(m) \/ Return(m)
    \/ Purge

Spec == Init /\ [][Next]_vars
=============================================================================
