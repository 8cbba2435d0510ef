----------------------------- MODULE QueueServer -----------------------------
(***************************************************************************)
(* Clients that use a MessageQueue through the TCP server (server.py): the *)
(* workers of MessageQueue are the connection-handler threads.  A handler  *)
(* first looks the queue up and tests it, then calls it.  The test is      *)
(* "if not q" / "if q", and a queue has a __len__, so it asks whether      *)
(* messages are waiting, not whether the queue exists.  The server offers  *)
(* no nack and no purge.                                                   *)
(***************************************************************************)
EXTENDS MessageQueue

VARIABLES
    request,   \* what a handler is calling: "none", "dequeue", or the id to ack
    reply      \* the error code of the last response on a connection

serverVars == <<vars, request, reply>>

\* Types of the queue and of the handlers' requests and replies.
ServerTypeOK ==
    /\ TypeOK
    /\ request \in [Workers -> {"none", "dequeue"} \cup Messages]
    /\ reply \in [Workers -> {"NONE", "QUEUE_NOT_FOUND"}]

ServerInit ==
    /\ Init
    /\ request = [w \in Workers |-> "none"]
    /\ reply = [w \in Workers |-> "NONE"]

\* "if not q": the truth value of the queue object is its depth, under its lock.
TestQueue(w, call) ==
    /\ lock = NoWorker
    /\ request[w] = "none"
    /\ \/ /\ queue = <<>>
          /\ reply' = [reply EXCEPT ![w] = "QUEUE_NOT_FOUND"]
          /\ UNCHANGED request
       \/ /\ queue # <<>>
          /\ request' = [request EXCEPT ![w] = call]
          /\ UNCHANGED reply
    /\ UNCHANGED vars

\* The call has returned and its response is sent.
Respond(w) ==
    /\ request' = [request EXCEPT ![w] = "none"]
    /\ reply' = [reply EXCEPT ![w] = "NONE"]

\* _handle_enqueue, from any connection.
HandleEnqueue(m) == Enqueue(m) /\ UNCHANGED <<request, reply>>

HandleDequeue(w) ==
    \/ TestQueue(w, "dequeue")
    \/ /\ request[w] = "dequeue"
       /\ Dequeue(w)
       /\ IF pc'[w] = "idle" THEN Respond(w) ELSE UNCHANGED <<request, reply>>

HandleAck(w, m) ==
    \/ m \in held[w] /\ TestQueue(w, m)
    \/ request[w] = m /\ Acknowledge(w, m) /\ Respond(w)

\* The connection breaks: whoever was given messages will not answer for them.
Cleanup(w) ==
    /\ request[w] = "none"
    /\ held[w] # {}
    /\ held' = [held EXCEPT ![w] = {}]
    /\ UNCHANGED <<queue, inFlight, left, lock, pc, due, acked, purged, delivered,
                   number, totalEnqueued, request, reply>>

ServerNext ==
    \/ \E m \in Messages : HandleEnqueue(m)
    \/ \E w \in Workers : HandleDequeue(w) \/ Cleanup(w)
    \/ \E w \in Workers, m \in Messages : HandleAck(w, m)
    \/ Tick /\ UNCHANGED <<request, reply>>

ServerSpec == ServerInit /\ [][ServerNext]_serverVars

\* Some client keeps asking for a message, and time passes.
FairServerSpec ==
    /\ ServerSpec
    /\ WF_serverVars(\E w \in Workers : HandleDequeue(w))
    /\ WF_serverVars(Tick /\ UNCHANGED <<request, reply>>)

=============================================================================
