----------------------------- MODULE Connection -----------------------------
(***************************************************************************)
(* One BrokerClient that several threads use (brokerlite/client.py), the   *)
(* frames of the wire protocol (brokerlite/protocol.py) and the handler of *)
(* its connection (brokerlite/server.py).                                  *)
(*                                                                         *)
(* A frame is two pieces, the length field and all that follows, since a   *)
(* reader asks for them one after the other; TCP delivers any prefix of    *)
(* what was sent.  A request and its response are told by their            *)
(* correlation id.  What the requests do to the broker is the subject of   *)
(* QueueServer and Broker.                                                 *)
(***************************************************************************)
EXTENDS Integers, Sequences, SequencesExt

CONSTANTS
    Threads,          \* threads that share the client
    NoThread,
    MaxCalls,         \* bound of the model: requests
    MaxConnections    \* bound of the model: connections after the first

ASSUME ConnectionAssumption ==
    /\ NoThread \notin Threads
    /\ MaxCalls \in Nat /\ MaxConnections \in Nat

VARIABLES
    correlationId,    \* _correlation_id
    pc,               \* where each thread is in _send_request
    cid,              \* the id of its request
    lock,             \* the holder of the client's _lock
    connected,        \* _connected
    serving,          \* the handler of the connection is in its loop
    up, down,         \* pieces on their way to the server and to the client
    buffer,           \* the handler's _buffer
    sent, handled,    \* ids sent, and dispatched, on this connection
    answer,           \* <<id of a request, id of the response its call returned>>
    late,             \* a call has timed out on this connection
    connections       \* counts up to MaxConnections

clientVars == <<correlationId, pc, cid, lock, connected>>
serverVars == <<serving, buffer, handled>>
vars == <<clientVars, serverVars, up, down, sent, answer, late, connections>>

Cids == 0 .. MaxCalls
Pieces == [cid : Cids, part : {"length", "rest"}]

\* Frame.to_bytes
Frame(n) == <<[cid |-> n, part |-> "length"], [cid |-> n, part |-> "rest"]>>

\* Types: who is where in a call, and what the streams and buffers hold.
TypeOK ==
    /\ correlationId \in Cids
    /\ pc \in [Threads -> {"idle", "numbered", "length", "rest", "garbled"}]
    /\ cid \in [Threads -> Cids]
    /\ lock \in Threads \cup {NoThread}
    /\ \A th \in Threads : (lock = th) <=> (pc[th] \in {"length", "rest", "garbled"})
    /\ connected \in BOOLEAN /\ serving \in BOOLEAN
    /\ up \in Seq(Pieces) /\ down \in Seq(Pieces) /\ buffer \in Seq(Pieces)
    /\ sent \in Seq(Cids) /\ handled \in Seq(Cids)
    /\ answer \in Cids \X Cids
    /\ late \in BOOLEAN /\ connections \in 0 .. MaxConnections

Init ==
    /\ correlationId = 0
    /\ pc = [th \in Threads |-> "idle"]
    /\ cid = [th \in Threads |-> 0]
    /\ lock = NoThread
    /\ connected = TRUE /\ serving = TRUE
    /\ up = <<>> /\ down = <<>> /\ buffer = <<>>
    /\ sent = <<>> /\ handled = <<>>
    /\ answer = <<0, 0>>
    /\ late = FALSE /\ connections = 0

-----------------------------------------------------------------------------
(* The client *)

\* _send_request tests the connection and takes an id.
Number(th) ==
    /\ pc[th] = "idle" /\ connected
    /\ correlationId < MaxCalls
    /\ correlationId' = correlationId + 1
    /\ cid' = [cid EXCEPT ![th] = correlationId + 1]
    /\ pc' = [pc EXCEPT ![th] = "numbered"]
    /\ UNCHANGED <<lock, connected, serverVars, up, down, sent, answer, late, connections>>

Send_Unlocked(th) ==
    /\ pc[th] = "numbered" /\ connected
    /\ up' = up \o Frame(cid[th])
    /\ sent' = Append(sent, cid[th])
    /\ pc' = [pc EXCEPT ![th] = "length"]
    /\ UNCHANGED <<correlationId, cid, lock, connected, serverVars, down, answer, late,
                   connections>>

\* The request is sent under the client's lock, which is held until the answer.
Send(th) ==
    /\ pc[th] = "numbered" /\ connected
    /\ lock = NoThread
    /\ lock' = th
    /\ up' = up \o Frame(cid[th])
    /\ sent' = Append(sent, cid[th])
    /\ pc' = [pc EXCEPT ![th] = "length"]
    /\ UNCHANGED <<correlationId, cid, connected, serverVars, down, answer, late, connections>>

\* The call of th ends, with or without a response.
Return(th) ==
    /\ pc' = [pc EXCEPT ![th] = "idle"]
    /\ lock' = IF lock = th THEN NoThread ELSE lock

\* _read_response: four bytes are taken for the length, whatever they are.
ReceiveLength(th) ==
    /\ pc[th] = "length" /\ connected
    /\ down # <<>>
    /\ down' = Tail(down)
    /\ pc' = [pc EXCEPT ![th] = IF Head(down).part = "length" THEN "rest" ELSE "garbled"]
    /\ UNCHANGED <<correlationId, cid, lock, connected, serverVars, up, sent, answer,
                   late, connections>>

Decode_Unlocked(th) ==
    /\ answer' = <<cid[th], Head(down).cid>>
    /\ pc' = [pc EXCEPT ![th] = "idle"]
    /\ UNCHANGED lock

\* decode_response: the correlation id of the response is not looked at.
Decode(th) ==
    /\ answer' = <<cid[th], Head(down).cid>>
    /\ Return(th)

ReceiveRest(th) ==
    /\ pc[th] = "rest" /\ connected
    /\ down # <<>>
    /\ down' = Tail(down)
    /\ Decode(th)
    /\ UNCHANGED <<correlationId, cid, connected, serverVars, up, sent, late, connections>>

\* With a wrong length any number of the following bytes is taken, and the
\* result is no frame.
ReceiveGarbage(th) ==
    /\ pc[th] = "garbled"
    /\ \E n \in 0 .. Len(down) : down' = SubSeq(down, n + 1, Len(down))
    /\ Return(th)
    /\ UNCHANGED <<correlationId, cid, connected, serverVars, up, sent, answer, late,
                   connections>>

\* recv raises socket.timeout; the connection stays as it is.
Timeout(th) ==
    /\ pc[th] \in {"length", "rest", "garbled"}
    /\ late' = TRUE
    /\ Return(th)
    /\ UNCHANGED <<correlationId, cid, connected, serverVars, up, down, sent, answer,
                   connections>>

\* The socket is closed, or there is nothing left to read from it.
Fail(th) ==
    /\ pc[th] # "idle"
    /\ ~connected \/ (~serving /\ down = <<>>)
    /\ Return(th)
    /\ UNCHANGED <<correlationId, cid, connected, serverVars, up, down, sent, answer, late,
                   connections>>

\* close takes no lock.
Close ==
    /\ connected
    /\ connected' = FALSE
    /\ down' = <<>>
    /\ UNCHANGED <<correlationId, pc, cid, lock, serverVars, up, sent, answer, late,
                   connections>>

\* connect, after a close: a new socket and, at the server, a new handler.
Connect ==
    /\ ~connected
    /\ connections < MaxConnections
    /\ connections' = connections + 1
    /\ connected' = TRUE /\ serving' = TRUE
    /\ up' = <<>> /\ down' = <<>> /\ buffer' = <<>>
    /\ sent' = <<>> /\ handled' = <<>>
    /\ late' = FALSE
    /\ UNCHANGED <<correlationId, pc, cid, lock, answer>>

-----------------------------------------------------------------------------
(* The connection's handler *)

Remaining_Dropped(b) == <<>>

\* Frame.read_from_buffer, until it finds no complete frame: the frames in b
\* and what remains.
Frames(b) == [i \in 1 .. Len(b) \div 2 |-> b[2 * i].cid]
Remaining(b) == SubSeq(b, 2 * (Len(b) \div 2) + 1, Len(b))

\* Handle: recv returns the first n pieces, _process_buffer dispatches every
\* complete frame, and each handler sends one response with the id of its
\* request.  If the client has closed, sendall fails and ends the loop.
Handle(n) ==
    /\ serving
    /\ LET b == buffer \o SubSeq(up, 1, n)
       IN  /\ up' = SubSeq(up, n + 1, Len(up))
           /\ buffer' = Remaining(b)
           /\ handled' = handled \o Frames(b)
           /\ down' = IF connected
                         THEN down \o FlattenSeq([i \in DOMAIN Frames(b) |-> Frame(Frames(b)[i])])
                         ELSE down
    /\ UNCHANGED <<clientVars, serving, sent, answer, late, connections>>

\* The loop ends: the client has closed, the server is stopped, or an
\* exception; _cleanup closes the connection.
Cleanup ==
    /\ serving
    /\ serving' = FALSE
    /\ UNCHANGED <<clientVars, buffer, handled, up, down, sent, answer, late, connections>>

Next ==
    \/ \E th \in Threads : \/ Number(th) \/ Send(th) \/ ReceiveLength(th) \/ ReceiveRest(th)
                           \/ ReceiveGarbage(th) \/ Timeout(th) \/ Fail(th)
    \/ \E n \in 1 .. Len(up) : Handle(n)
    \/ Close \/ Connect \/ Cleanup

\* A thread that waits for the lock gets it, every receive ends after `timeout`
\* seconds at the latest, and one on a closed socket fails.  Nothing is assumed
\* of the server.
Fairness ==
    \A th \in Threads : SF_vars(Send(th)) /\ WF_vars(Timeout(th)) /\ WF_vars(Fail(th))

Spec == Init /\ [][Next]_vars /\ Fairness

-----------------------------------------------------------------------------
(* Properties *)

\* However TCP cuts the stream, and although calls time out while their request
\* is on its way, the handler dispatches what was sent in the order it was
\* sent: what it has not dispatched yet is in its buffer or on the wire.
HandledInOrder ==
    sent = handled \o [i \in 1 .. Len(buffer \o up) \div 2 |-> (buffer \o up)[2 * i].cid]

\* A call returns the response to its own request although the client never
\* compares correlation ids, with several threads on one client, losses of the
\* connection and reconnects, as long as no call has timed out on the connection.
PatientMatches == [][late \/ answer' = answer \/ answer'[1] = answer'[2]]_vars

\* What client.py:81 says, "Send a request and wait for the response", for every
\* call.
ResponseMatches == answer[1] = answer[2]

\* A call returns, also if the connection is closed, lost or replaced while it
\* waits for the lock or for its response, or another call has timed out in the
\* middle of a response.
CallsReturn == \A th \in Threads : pc[th] # "idle" ~> pc[th] = "idle"
=============================================================================
