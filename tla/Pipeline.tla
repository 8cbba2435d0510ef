------------------------------ MODULE Pipeline ------------------------------
(***************************************************************************)
(* The middleware pipeline of brokerlite/middleware.py, in Broker.publish  *)
(* (brokerlite/broker.py).                                                 *)
(*                                                                         *)
(* The list of middlewares has no lock.  A publish iterates over it before *)
(* it takes the broker's lock, one middleware after the other, while the   *)
(* application adds and removes middlewares: Python's iterator is an index *)
(* into the list as it is at each step.                                    *)
(***************************************************************************)
EXTENDS Integers, SequencesExt

CONSTANTS
    Threads,
    Texts,           \* messages to publish
    Unwanted,        \* those the predicate of the filter is true of
    Kinds,           \* class names of middlewares
    MaxChanges,      \* bound of the model: calls of add, remove and clear
    MaxPublishes     \* bound of the model: calls of publish

PipelineAssumption ==
    /\ Unwanted \subseteq Texts
    /\ Kinds \subseteq {"logging", "filter", "routing", "timestamp"}
    /\ MaxChanges \in Nat /\ MaxPublishes \in Nat

VARIABLES
    middleware,      \* _middleware
    pc, text,        \* where each thread is, and its message
    topic,           \* the message's topic: "original", or the router's "target"
    index,           \* of the iterator: middlewares passed
    installed,       \* kinds in the list since the thread's call began
    shifted,         \* threads during whose call a middleware they had passed was removed
    changes, publishes

vars == <<middleware, pc, text, topic, index, installed, shifted, changes, publishes>>

Init ==
    /\ middleware = <<>>
    /\ pc = [th \in Threads |-> "idle"]
    /\ text = [th \in Threads |-> CHOOSE m \in Texts : TRUE]
    /\ topic = [th \in Threads |-> "original"]
    /\ index = [th \in Threads |-> 0]
    /\ installed = [th \in Threads |-> {}]
    /\ shifted = {}
    /\ changes = 0 /\ publishes = 0

-----------------------------------------------------------------------------
(* Configuration *)

AddMiddleware(kind) ==
    /\ changes < MaxChanges
    /\ changes' = changes + 1
    /\ middleware' = Append(middleware, kind)
    /\ UNCHANGED <<pc, text, topic, index, installed, shifted, publishes>>

\* What removing positions lo to hi means for the calls under way.
Removed(lo, hi) ==
    /\ shifted' = shifted \cup {th \in Threads : pc[th] = "process" /\ lo <= index[th]}
    /\ installed' = [th \in Threads |->
                        installed[th] \ {middleware[i] : i \in lo .. hi}]

\* remove finds the first middleware of that class.
RemoveMiddleware(kind) ==
    /\ changes < MaxChanges
    /\ changes' = changes + 1
    /\ \E i \in DOMAIN middleware :
          /\ middleware[i] = kind
          /\ \A j \in 1 .. i - 1 : middleware[j] # kind
          /\ middleware' = RemoveAt(middleware, i)
          /\ Removed(i, i)
    /\ UNCHANGED <<pc, text, topic, index, publishes>>

Clear ==
    /\ changes < MaxChanges
    /\ changes' = changes + 1
    /\ middleware' = <<>>
    /\ Removed(1, Len(middleware))
    /\ UNCHANGED <<pc, text, topic, index, publishes>>

-----------------------------------------------------------------------------
(* publish *)

Publish(th, m) ==
    /\ pc[th] = "idle"
    /\ publishes < MaxPublishes
    /\ publishes' = publishes + 1
    /\ pc' = [pc EXCEPT ![th] = "process"]
    /\ text' = [text EXCEPT ![th] = m]
    /\ topic' = [topic EXCEPT ![th] = "original"]
    /\ index' = [index EXCEPT ![th] = 0]
    /\ installed' = [installed EXCEPT ![th] = ToSet(middleware)]
    /\ shifted' = shifted \ {th}
    /\ UNCHANGED <<middleware, changes>>

\* FilterMiddleware.process returns None.
Drops(kind, m) == kind = "filter" /\ m \in Unwanted

\* RoutingMiddleware.process; its route function has a target for every message.
Routed(kind, old) == IF kind = "routing" THEN "target" ELSE old

\* One iteration of the loop.  The other middlewares return the message.
Process(th) ==
    /\ pc[th] = "process"
    /\ index[th] < Len(middleware)
    /\ LET kind == middleware[index[th] + 1] IN
          /\ pc' = [pc EXCEPT ![th] = IF Drops(kind, text[th]) THEN "idle" ELSE @]
          /\ topic' = [topic EXCEPT ![th] = Routed(kind, @)]
    /\ index' = [index EXCEPT ![th] = @ + 1]
    /\ UNCHANGED <<middleware, text, installed, shifted, changes, publishes>>

ProcessDone_OffByOne(th) ==
    /\ pc[th] = "process"
    /\ index[th] >= Len(middleware) - 1
    /\ pc' = [pc EXCEPT ![th] = "publish"]
    /\ UNCHANGED <<middleware, text, topic, index, installed, shifted, changes, publishes>>

ProcessDone(th) ==
    /\ pc[th] = "process"
    /\ index[th] >= Len(middleware)
    /\ pc' = [pc EXCEPT ![th] = "publish"]
    /\ UNCHANGED <<middleware, text, topic, index, installed, shifted, changes, publishes>>

\* The message goes to the topic it has now.
Store(th) ==
    /\ pc[th] = "publish"
    /\ pc' = [pc EXCEPT ![th] = "idle"]
    /\ UNCHANGED <<middleware, text, topic, index, installed, shifted, changes, publishes>>

Next ==
    \/ \E kind \in Kinds : AddMiddleware(kind) \/ RemoveMiddleware(kind)
    \/ Clear
    \/ \E th \in Threads : (\E m \in Texts : Publish(th, m))
                           \/ Process(th) \/ ProcessDone(th) \/ Store(th)

Spec == Init /\ [][Next]_vars

-----------------------------------------------------------------------------
(* No message gets round a middleware that was there during its whole      *)
(* call, wherever the list grew or shrank meanwhile: it is not published   *)
(* if the filter objects, and it goes where the router sends it (43 and    *)
(* 60-70).  The exception is a call during which a middleware it had       *)
(* passed was removed: the rest moves down by one and the iterator skips   *)
(* the next.                                                               *)
NoneBypassed ==
    \A th \in Threads : pc[th] = "publish" /\ th \notin shifted =>
        /\ "filter" \in installed[th] => text[th] \notin Unwanted
        /\ "routing" \in installed[th] => topic[th] = "target"
=============================================================================
