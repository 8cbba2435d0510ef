--------------------------- MODULE ServiceProofs ---------------------------
(***************************************************************************)
(* For any number of clients, threads, middlewares and versions: the       *)
(* server's connections, the middleware pipeline, flow control, the schema *)
(* registry and the retry policy keep their promises, as parts of the      *)
(* composition.                                                            *)
(***************************************************************************)
EXTENDS Parts, FiniteSetTheorems, WellFoundedInduction, TLAPS

-----------------------------------------------------------------------------
(* ServerLifecycle.  A handler's thread is serving from its start until it *)
(* takes the handler out of the list.                                      *)
Serving == {"test", "recv", "blocked", "cleanup", "remove"}

(* Why stop misses no connection: until it has gone through the list, each *)
(* serving thread is in it, and the connection being added too; after      *)
(* that, whoever calls recv or waits in it has lost its socket to stop and *)
(* its place in the list.                                                  *)
NoneMissed ==
    /\ stopping # "no" => running = FALSE
    /\ loop = "added" /\ stopping # "done" => conn \in handlers
    /\ \A c \in Clients : thread[c] \in Serving /\ stopping # "done" => c \in handlers
    /\ \A c \in Clients : stopping = "done" /\ thread[c] \in {"recv", "blocked"} =>
          c \in closed /\ c \notin handlers
    /\ conn # None => thread[conn] = "none"
    /\ loop \in {"accepted", "admitted"} => conn \notin handlers
    /\ \A c \in open : c = conn \/ thread[c] \in {"test", "recv", "blocked", "cleanup"}

(* The instance's finite sets are the sets that the theorems are about.    *)
LEMMA LifecycleSets ==
    \A S : SL!Cardinality(S) = Cardinality(S) /\ (SL!IsFiniteSet(S) <=> IsFiniteSet(S))
BY Zenon DEF Cardinality, SL!Cardinality, IsFiniteSet, SL!IsFiniteSet

(* Why the limit holds although the lock is released in between: only the  *)
(* accept loop adds handlers, so that a place it has seen stays free.      *)
PlaceKept ==
    /\ Cardinality(handlers) <= MaxConnections
    /\ loop = "admitted" => Cardinality(handlers) < MaxConnections

(* The sets of handlers are finite, and what one more or fewer does.       *)
LEMMA HandlerCount ==
    ASSUME SL!TypeOK
    PROVE  /\ IsFiniteSet(handlers) /\ Cardinality(handlers) \in Nat
           /\ \A c : Cardinality(handlers \cup {c}) <= Cardinality(handlers) + 1
           /\ \A T : T \subseteq handlers => Cardinality(T) <= Cardinality(handlers)
           /\ MaxConnections \in Nat
<1>1. IsFiniteSet(Clients) /\ handlers \subseteq Clients /\ MaxConnections \in Nat
  BY PartsAssumption, LifecycleSets DEF SL!LifecycleAssumption, SL!TypeOK
<1>2. IsFiniteSet(handlers)
  BY <1>1, FS_Subset
<1>3. Cardinality(handlers) \in Nat
  BY <1>2, FS_CardinalityType
<1>4. ASSUME NEW c PROVE Cardinality(handlers \cup {c}) <= Cardinality(handlers) + 1
  BY <1>2, <1>3, FS_AddElement
<1>5. ASSUME NEW T, T \subseteq handlers PROVE Cardinality(T) <= Cardinality(handlers)
  BY <1>2, <1>5, FS_Subset
<1> QED BY <1>1, <1>2, <1>3, <1>4, <1>5

(* The initial state of the server.                                        *)
LEMMA LifecycleInit ==
    ASSUME SL!Init
    PROVE  SL!TypeOK /\ NoneMissed /\ PlaceKept
<1>1. Cardinality({}) = 0 /\ MaxConnections \in Nat /\ None \notin Clients
  BY FS_EmptySet, PartsAssumption DEF SL!LifecycleAssumption
<1> QED BY <1>1 DEF SL!Init, SL!TypeOK, NoneMissed, PlaceKept, Serving

(* Every step of every thread of the server keeps the types and keeps stop *)
(* from missing a connection.                                              *)
LEMMA NoneMissedStep ==
    ASSUME SL!TypeOK, NoneMissed, [SL!Next]_(SL!vars)
    PROVE  SL!TypeOK' /\ NoneMissed'
<1> USE DEF SL!TypeOK, NoneMissed, Serving
<1>0. None \notin Clients
  BY PartsAssumption DEF SL!LifecycleAssumption
<1>1. CASE SL!TestRunning
  BY <1>0, <1>1 DEF SL!TestRunning
<1>2. CASE SL!AcceptNothing
  BY <1>0, <1>2 DEF SL!AcceptNothing
<1>3. CASE SL!Admit
  <2>1. CASE loop' = "admitted" /\ UNCHANGED <<open, closed, conn>>
    BY <1>0, <1>3, <2>1 DEF SL!Admit
  <2>2. CASE /\ open' = open \ {conn} /\ closed' = closed \cup {conn}
             /\ conn' = None /\ loop' = "test"
    BY <1>0, <1>3, <2>2 DEF SL!Admit
  <2> QED BY <1>3, <2>1, <2>2 DEF SL!Admit
<1>4. CASE SL!AddHandler
  BY <1>0, <1>4 DEF SL!AddHandler
<1>5. CASE SL!StartThread
  BY <1>0, <1>5 DEF SL!StartThread
<1>6. ASSUME NEW c \in Clients, SL!Accept(c) PROVE SL!TypeOK' /\ NoneMissed'
  BY <1>0, <1>6 DEF SL!Accept
<1>7. ASSUME NEW c \in Clients, SL!HandlerTest(c) PROVE SL!TypeOK' /\ NoneMissed'
  BY <1>0, <1>7 DEF SL!HandlerTest
<1>8. ASSUME NEW c \in Clients, SL!Receive(c) PROVE SL!TypeOK' /\ NoneMissed'
  BY <1>0, <1>8 DEF SL!Receive, SL!RecvReturns
<1>9. ASSUME NEW c \in Clients, SL!Disconnected(c) PROVE SL!TypeOK' /\ NoneMissed'
  BY <1>0, <1>9 DEF SL!Disconnected, SL!RecvReturns
<1>10. ASSUME NEW c \in Clients, SL!Cleanup(c) PROVE SL!TypeOK' /\ NoneMissed'
  BY <1>0, <1>10 DEF SL!Cleanup
<1>11. ASSUME NEW c \in Clients, SL!RemoveHandler(c) PROVE SL!TypeOK' /\ NoneMissed'
  BY <1>0, <1>11 DEF SL!RemoveHandler
<1>12. CASE SL!Stop
  BY <1>0, <1>12 DEF SL!Stop
<1>13. CASE SL!CloseSocket
  BY <1>0, <1>13 DEF SL!CloseSocket
<1>14. CASE SL!CloseConnections
  BY <1>0, <1>14 DEF SL!CloseConnections
<1>15. ASSUME NEW c \in Clients, SL!CallRecv(c) PROVE SL!TypeOK' /\ NoneMissed'
  BY <1>0, <1>15 DEF SL!CallRecv
<1>16. CASE UNCHANGED SL!vars
  BY <1>0, <1>16 DEF SL!vars
<1> QED
  BY <1>1, <1>2, <1>3, <1>4, <1>5, <1>6, <1>7, <1>8, <1>9, <1>10, <1>11, <1>12, <1>13,
     <1>14, <1>15, <1>16 DEF SL!Next

(* Every step keeps the limit.                                             *)
LEMMA PlaceKeptStep ==
    ASSUME SL!TypeOK, PlaceKept, [SL!Next]_(SL!vars)
    PROVE  PlaceKept'
<1>0. /\ Cardinality(handlers) \in Nat /\ MaxConnections \in Nat
      /\ \A c : Cardinality(handlers \cup {c}) <= Cardinality(handlers) + 1
      /\ \A T : T \subseteq handlers => Cardinality(T) <= Cardinality(handlers)
      /\ \A c : Cardinality(handlers \cup {c}) \in Nat
      /\ \A T : T \subseteq handlers => Cardinality(T) \in Nat
  BY HandlerCount, FS_AddElement, FS_Subset, FS_CardinalityType
<1>1. CASE SL!Admit
  <2>1. handlers' = handlers
        /\ (loop' = "admitted" => Cardinality(handlers) < MaxConnections)
    BY <1>0, <1>1, LifecycleSets DEF SL!Admit, SL!Full
  <2> QED BY <2>1 DEF PlaceKept
<1>2. CASE SL!AddHandler
  <2>1. handlers' = handlers \cup {conn} /\ loop = "admitted" /\ loop' = "added"
    BY <1>2 DEF SL!AddHandler
  <2> DEFINE n == Cardinality(handlers)
             k == Cardinality(handlers \cup {conn})
  <2>2. n \in Nat /\ k \in Nat /\ k <= n + 1 /\ n < MaxConnections
    BY <1>0, <2>1, Zenon DEF PlaceKept
  <2>3. k <= MaxConnections
    <3> HIDE DEF n, k
    <3> QED BY <1>0, <2>2
  <2> QED BY <2>1, <2>3 DEF PlaceKept
<1>3. CASE /\ handlers' \subseteq handlers
           /\ loop' = "admitted" => loop = "admitted"
  <2>1. Cardinality(handlers') <= Cardinality(handlers) /\ Cardinality(handlers') \in Nat
    BY <1>0, <1>3
  <2> QED BY <1>0, <1>3, <2>1 DEF PlaceKept
<1>4. \/ SL!Admit \/ SL!AddHandler
      \/ handlers' \subseteq handlers /\ (loop' = "admitted" => loop = "admitted")
  BY DEF SL!Next, SL!vars, SL!TestRunning, SL!AcceptNothing, SL!StartThread, SL!Accept,
         SL!HandlerTest, SL!CallRecv, SL!Receive, SL!Disconnected, SL!Cleanup, SL!RemoveHandler,
         SL!Stop, SL!CloseSocket, SL!CloseConnections
<1> QED BY <1>1, <1>2, <1>3, <1>4

(* The other parts' steps do not touch the server.                         *)
LEMMA OnlyLifecycle ==
    ASSUME [Next]_vars
    PROVE  [SL!Next]_(SL!vars)
BY DEF Next, vars, NextPriority, NextBackpressure, NextDeduplication, NextRedelivery,
       NextLifecycle, NextPipeline, NextSchemas, NextRetry, slVars, SL!vars

(* max_connections (server.py 388-396): the number of handlers never       *)
(* exceeds it, with any number of clients, although the test and the       *)
(* addition are two acquisitions of the lock.                              *)
THEOREM ConnectionLimit == Spec => []ConnectionsBounded
<1>1. Init => SL!TypeOK /\ NoneMissed /\ PlaceKept
  BY LifecycleInit DEF Init
<1>2. SL!TypeOK /\ NoneMissed /\ PlaceKept /\ [Next]_vars
        => (SL!TypeOK /\ NoneMissed /\ PlaceKept)'
  BY OnlyLifecycle, NoneMissedStep, PlaceKeptStep
<1>3. PlaceKept => ConnectionsBounded
  BY LifecycleSets DEF PlaceKept, ConnectionsBounded, SL!ConnectionsBounded
<1> QED BY <1>1, <1>2, <1>3, PTL DEF Spec

(* stop (server.py 411-429) reaches every connection, with any number of   *)
(* clients and for every moment at which it meets the accept loop and the  *)
(* handlers: whoever still calls or waits in recv has lost its socket, and *)
(* at rest the only open connections are those whose recv had begun.       *)
THEOREM StopMissesNone == Spec => []StopReachesAll
<1>1. Init => SL!TypeOK /\ NoneMissed
  BY LifecycleInit DEF Init
<1>2. SL!TypeOK /\ NoneMissed /\ [Next]_vars => (SL!TypeOK /\ NoneMissed)'
  BY OnlyLifecycle, NoneMissedStep
<1>3. SL!TypeOK /\ NoneMissed => StopReachesAll
  <2> SUFFICES ASSUME SL!TypeOK, NoneMissed, stopping = "done"
               PROVE  SL!Quiescent => /\ handlers = {}
                                      /\ \A c \in open : thread[c] = "blocked" /\ c \in closed
    BY DEF StopReachesAll, SL!StopReachesAll, NoneMissed
  <2> SUFFICES ASSUME SL!Quiescent
               PROVE  handlers = {} /\ \A c \in open : thread[c] = "blocked" /\ c \in closed
    OBVIOUS
  <2>1. conn \notin Clients /\ conn = None
    BY PartsAssumption DEF SL!TypeOK, SL!Quiescent, SL!LifecycleAssumption
  <2>2. \A c \in Clients : thread[c] \in {"none", "blocked", "done"}
    BY DEF SL!Quiescent
  <2>3. ASSUME NEW c \in open PROVE thread[c] = "blocked" /\ c \in closed
    BY <2>1, <2>2 DEF SL!TypeOK, NoneMissed
  <2>4. \A c \in Clients : c \notin handlers
    BY <2>1, <2>2 DEF SL!TypeOK, NoneMissed
  <2> QED BY <2>3, <2>4 DEF SL!TypeOK
<1> QED BY <1>1, <1>2, <1>3, PTL DEF Spec

-----------------------------------------------------------------------------
(* Pipeline.  What a call has behind it when no middleware it had passed   *)
(* was removed: the middlewares up to its index have been applied.         *)
Applied(th, kinds) ==
    /\ "filter" \in kinds => text[th] \notin Unwanted
    /\ "routing" \in kinds => topic[th] = "target"

(* A thread's message before its first call is any one.                    *)
AnyText == Texts \cup {CHOOSE m \in Texts : TRUE}

PassedKinds(th) == {middleware[i] : i \in 1 .. index[th]}

PipelineInv ==
    /\ middleware \in Seq(Kinds)
    /\ plPc \in [Producers -> {"idle", "process", "publish"}]
    /\ index \in [Producers -> Nat]
    /\ topic \in [Producers -> {"original", "target"}]
    /\ text \in [Producers -> AnyText]
    /\ installed \in [Producers -> SUBSET Kinds]
    /\ \A th \in Producers : plPc[th] = "process" => installed[th] \subseteq PL!ToSet(middleware)
    /\ \A th \in Producers : plPc[th] = "process" /\ th \notin shifted =>
          index[th] <= Len(middleware) /\ Applied(th, PassedKinds(th))
    /\ PL!NoneBypassed

(* The list without one element.                                           *)
LEMMA RemoveAtEffect ==
    ASSUME NEW S, NEW s \in Seq(S), NEW i \in 1 .. Len(s)
    PROVE  /\ PL!RemoveAt(s, i) \in Seq(S)
           /\ Len(PL!RemoveAt(s, i)) = Len(s) - 1
           /\ \A j \in 1 .. i - 1 : PL!RemoveAt(s, i)[j] = s[j]
           /\ \A j \in i .. Len(s) - 1 : PL!RemoveAt(s, i)[j] = s[j + 1]
           /\ PL!ToSet(s) \ {s[i]} \subseteq PL!ToSet(PL!RemoveAt(s, i))
<1> DEFINE a == SubSeq(s, 1, i - 1)
           b == SubSeq(s, i + 1, Len(s))
           r == PL!RemoveAt(s, i)
<1>1. /\ a \in Seq(S) /\ Len(a) = i - 1 /\ b \in Seq(S) /\ Len(b) = Len(s) - i
      /\ \A j \in 1 .. i - 1 : a[j] = s[j]
      /\ \A j \in 1 .. Len(s) - i : b[j] = s[i + j]
  OBVIOUS
<1>2. r = a \o b
  BY DEF PL!RemoveAt
<1> HIDE DEF a, b, r
<1>3. r \in Seq(S) /\ Len(r) = Len(s) - 1
  BY <1>1, <1>2
<1>4. \A j \in 1 .. i - 1 : r[j] = s[j]
  BY <1>1, <1>2
<1>5. ASSUME NEW j \in i .. Len(s) - 1 PROVE r[j] = s[j + 1]
  <2>1. r[j] = b[j - (i - 1)]
    BY SMTT(40), <1>1, <1>2
  <2>2. j - (i - 1) \in 1 .. Len(s) - i /\ i + (j - (i - 1)) = j + 1
    OBVIOUS
  <2> QED BY <1>1, <2>1, <2>2
<1>6. ASSUME NEW x \in PL!ToSet(s), x # s[i] PROVE x \in PL!ToSet(r)
  <2>1. PICK j \in 1 .. Len(s) : s[j] = x
    BY DEF PL!ToSet
  <2>2. CASE j < i
    <3>1. j \in 1 .. Len(r) /\ r[j] = x
      BY <1>3, <1>4, <2>1, <2>2
    <3> QED BY <1>3, <3>1 DEF PL!ToSet
  <2>3. CASE j > i
    <3>1. j - 1 \in i .. Len(s) - 1 /\ j - 1 \in 1 .. Len(r) /\ (j - 1) + 1 = j
      BY <1>3, <2>3
    <3>2. r[j - 1] = x
      BY <1>5, <2>1, <3>1
    <3> QED BY <1>3, <3>1, <3>2 DEF PL!ToSet
  <2> QED BY <1>6, <2>1, <2>2, <2>3
<1> QED BY <1>3, <1>4, <1>5, <1>6 DEF r

(* Growing the list does not change what a call has passed.                *)
LEMMA AppendKind ==
    ASSUME NEW S, NEW s \in Seq(S), NEW k \in S
    PROVE  /\ Append(s, k) \in Seq(S) /\ Len(Append(s, k)) = Len(s) + 1
           /\ \A i \in 1 .. Len(s) : Append(s, k)[i] = s[i]
           /\ PL!ToSet(s) \subseteq PL!ToSet(Append(s, k))
<1>1. /\ Append(s, k) \in Seq(S) /\ Len(Append(s, k)) = Len(s) + 1
      /\ \A i \in 1 .. Len(s) : Append(s, k)[i] = s[i]
      /\ DOMAIN s = 1 .. Len(s) /\ DOMAIN Append(s, k) = 1 .. Len(s) + 1
      /\ Len(s) \in Nat
  OBVIOUS
<1>2. ASSUME NEW x \in PL!ToSet(s) PROVE x \in PL!ToSet(Append(s, k))
  <2>1. PICK i \in 1 .. Len(s) : s[i] = x
    BY <1>1 DEF PL!ToSet
  <2>2. i \in 1 .. Len(s) + 1 /\ Append(s, k)[i] = x
    BY <1>1, <2>1
  <2> QED BY <1>1, <2>2 DEF PL!ToSet
<1> QED BY <1>1, <1>2

(* A shorter list keeps PipelineInv when the calls that had passed what    *)
(* was removed are counted as shifted.                                     *)
LEMMA RemovalStep ==
    ASSUME PipelineInv, NEW lo \in Nat, NEW hi \in Nat, PL!Removed(lo, hi),
           middleware' \in Seq(Kinds),
           PL!ToSet(middleware) \ {middleware[i] : i \in lo .. hi}
               \subseteq PL!ToSet(middleware'),
           \A n \in Nat : n <= Len(middleware) /\ n < lo =>
               n <= Len(middleware') /\ \A j \in 1 .. n : middleware'[j] = middleware[j],
           UNCHANGED <<plPc, text, topic, index>>
    PROVE  PipelineInv'
<1>0. /\ middleware \in Seq(Kinds) /\ index \in [Producers -> Nat]
      /\ installed \in [Producers -> SUBSET Kinds]
  BY DEF PipelineInv
<1>1. \A th \in Producers : /\ installed'[th] = installed[th] \ {middleware[i] : i \in lo .. hi}
                            /\ th \notin shifted' => th \notin shifted
                            /\ plPc[th] = "process" /\ th \notin shifted' => index[th] < lo
  BY <1>0 DEF PL!Removed
<1>2. installed' \in [Producers -> SUBSET Kinds]
  BY <1>0 DEF PL!Removed
<1>3. \A th \in Producers : plPc'[th] = "process" => installed'[th] \subseteq PL!ToSet(middleware')
  BY <1>1 DEF PipelineInv
<1>4. ASSUME NEW th \in Producers, plPc[th] = "process", th \notin shifted'
      PROVE  index[th] <= Len(middleware') /\ Applied(th, PassedKinds(th))'
  <2>1. th \notin shifted /\ index[th] < lo /\ index[th] \in Nat /\ index[th] <= Len(middleware)
    BY <1>0, <1>1, <1>4 DEF PipelineInv
  <2>2. index[th] <= Len(middleware') /\ \A j \in 1 .. index[th] : middleware'[j] = middleware[j]
    BY <2>1
  <2>3. PassedKinds(th)' = PassedKinds(th)
    BY <2>2 DEF PassedKinds
  <2>4. Applied(th, PassedKinds(th))
    BY <1>4, <2>1 DEF PipelineInv
  <2> QED BY <2>2, <2>3, <2>4 DEF Applied
<1>5. PL!NoneBypassed'
  BY <1>1 DEF PipelineInv, PL!NoneBypassed
<1> QED BY <1>2, <1>3, <1>4, <1>5 DEF PipelineInv

(* Each statement of process and each change of the list keeps the         *)
(* invariant of the pipeline.                                              *)
LEMMA PipelineStep ==
    ASSUME PipelineInv, [PL!Next]_(PL!vars)
    PROVE  PipelineInv'
<1>0. /\ middleware \in Seq(Kinds) /\ index \in [Producers -> Nat]
      /\ plPc \in [Producers -> {"idle", "process", "publish"}]
      /\ topic \in [Producers -> {"original", "target"}]
      /\ text \in [Producers -> AnyText] /\ Texts \subseteq AnyText
      /\ installed \in [Producers -> SUBSET Kinds]
      /\ Len(middleware) \in Nat /\ DOMAIN middleware = 1 .. Len(middleware)
  BY DEF PipelineInv, AnyText
<1>1. ASSUME NEW kind \in Kinds, PL!AddMiddleware(kind) PROVE PipelineInv'
  <2>1. /\ middleware' = Append(middleware, kind)
        /\ UNCHANGED <<plPc, text, topic, index, installed, shifted>>
    BY <1>1 DEF PL!AddMiddleware
  <2>2. /\ middleware' \in Seq(Kinds) /\ Len(middleware') = Len(middleware) + 1
        /\ \A i \in 1 .. Len(middleware) : middleware'[i] = middleware[i]
        /\ PL!ToSet(middleware) \subseteq PL!ToSet(middleware')
    BY <1>0, <2>1, AppendKind
  <2>3. ASSUME NEW th \in Producers, plPc[th] = "process", th \notin shifted
        PROVE  index[th] <= Len(middleware') /\ Applied(th, PassedKinds(th))'
    <3>1. index[th] <= Len(middleware) /\ index[th] \in Nat /\ Applied(th, PassedKinds(th))
      BY <1>0, <2>3 DEF PipelineInv
    <3>2. \A j \in 1 .. index[th] : middleware'[j] = middleware[j]
      BY <1>0, <2>2, <3>1
    <3>3. PassedKinds(th)' = PassedKinds(th)
      BY <2>1, <3>2 DEF PassedKinds
    <3> QED BY <1>0, <2>1, <2>2, <3>1, <3>3 DEF Applied
  <2>4. PL!NoneBypassed'
    BY <2>1 DEF PipelineInv, PL!NoneBypassed
  <2>5. \A th \in Producers : plPc'[th] = "process" => installed'[th] \subseteq PL!ToSet(middleware')
    BY <2>1, <2>2 DEF PipelineInv
  <2> QED BY <1>0, <2>1, <2>2, <2>3, <2>4, <2>5 DEF PipelineInv
<1>2. ASSUME NEW kind \in Kinds, PL!RemoveMiddleware(kind) PROVE PipelineInv'
  <2>1. PICK i \in 1 .. Len(middleware) :
            middleware' = PL!RemoveAt(middleware, i) /\ PL!Removed(i, i)
    BY <1>0, <1>2 DEF PL!RemoveMiddleware
  <2>2. UNCHANGED <<plPc, text, topic, index>>
    BY <1>2 DEF PL!RemoveMiddleware
  <2>3. /\ middleware' \in Seq(Kinds) /\ Len(middleware') = Len(middleware) - 1
        /\ \A j \in 1 .. i - 1 : middleware'[j] = middleware[j]
        /\ PL!ToSet(middleware) \ {middleware[i]} \subseteq PL!ToSet(middleware')
    BY <1>0, <2>1, RemoveAtEffect
  <2>4. {middleware[j] : j \in i .. i} = {middleware[i]}
    <3>1. \A j : j \in i .. i <=> j = i
      BY <1>0
    <3> QED BY <3>1
  <2>5. ASSUME NEW n \in Nat, n <= Len(middleware), n < i
        PROVE  n <= Len(middleware') /\ \A j \in 1 .. n : middleware'[j] = middleware[j]
    BY <1>0, <2>3, <2>5
  <2>6. i \in Nat
    BY <1>0
  <2> QED BY <2>1, <2>2, <2>3, <2>4, <2>5, <2>6, RemovalStep
<1>3. ASSUME PL!Clear PROVE PipelineInv'
  <2>1. /\ middleware' = <<>> /\ PL!Removed(1, Len(middleware))
        /\ UNCHANGED <<plPc, text, topic, index>>
    BY <1>3 DEF PL!Clear
  <2>2. PL!ToSet(middleware) \ {middleware[i] : i \in 1 .. Len(middleware)} = {}
    BY <1>0 DEF PL!ToSet
  <2>3. middleware' \in Seq(Kinds) /\ Len(middleware') = 0
    BY <2>1
  <2>4. ASSUME NEW n \in Nat, n <= Len(middleware), n < 1
        PROVE  n <= Len(middleware') /\ \A j \in 1 .. n : middleware'[j] = middleware[j]
    BY <2>3, <2>4
  <2>5. PL!ToSet(middleware) \ {middleware[i] : i \in 1 .. Len(middleware)}
            \subseteq PL!ToSet(middleware')
    BY <2>2
  <2> QED BY <1>0, <2>1, <2>3, <2>4, <2>5, RemovalStep
<1>4. ASSUME NEW th \in Producers, NEW m \in Texts, PL!Publish(th, m) PROVE PipelineInv'
  <2>1. /\ plPc' = [plPc EXCEPT ![th] = "process"] /\ text' = [text EXCEPT ![th] = m]
        /\ topic' = [topic EXCEPT ![th] = "original"] /\ index' = [index EXCEPT ![th] = 0]
        /\ installed' = [installed EXCEPT ![th] = PL!ToSet(middleware)]
        /\ shifted' = shifted \ {th} /\ middleware' = middleware
    BY <1>4 DEF PL!Publish
  <2>2. PL!ToSet(middleware) \subseteq Kinds
    BY <1>0 DEF PL!ToSet
  <2>3. /\ plPc' \in [Producers -> {"idle", "process", "publish"}]
        /\ index' \in [Producers -> Nat] /\ topic' \in [Producers -> {"original", "target"}]
        /\ text' \in [Producers -> AnyText] /\ installed' \in [Producers -> SUBSET Kinds]
    BY <1>0, <2>1, <2>2
  <2>4. PassedKinds(th)' = {}
    BY <1>0, <2>1 DEF PassedKinds
  <2>5. \A u \in Producers : u # th =>
            /\ PassedKinds(u)' = PassedKinds(u)
            /\ plPc'[u] = plPc[u] /\ text'[u] = text[u] /\ topic'[u] = topic[u]
            /\ index'[u] = index[u] /\ installed'[u] = installed[u]
            /\ u \notin shifted' => u \notin shifted
    BY <1>0, <2>1 DEF PassedKinds
  <2>6. plPc'[th] = "process" /\ index'[th] = 0 /\ installed'[th] = PL!ToSet(middleware)
    BY <1>0, <2>1
  <2>7. ASSUME NEW u \in Producers, plPc'[u] = "process", u \notin shifted'
        PROVE  index'[u] <= Len(middleware') /\ Applied(u, PassedKinds(u))'
    <3>1. CASE u = th
      BY <1>0, <2>1, <2>4, <2>6, <3>1 DEF Applied
    <3>2. CASE u # th
      <4>1. index[u] <= Len(middleware) /\ Applied(u, PassedKinds(u))
        BY <2>5, <2>7, <3>2 DEF PipelineInv
      <4> QED BY <2>1, <2>5, <3>2, <4>1 DEF Applied
    <3> QED BY <3>1, <3>2
  <2>8. PL!NoneBypassed'
    BY <2>5, <2>6 DEF PipelineInv, PL!NoneBypassed
  <2>9. \A u \in Producers : plPc'[u] = "process" => installed'[u] \subseteq PL!ToSet(middleware')
    BY <2>1, <2>5, <2>6 DEF PipelineInv
  <2> QED BY <1>0, <2>1, <2>3, <2>7, <2>8, <2>9 DEF PipelineInv
<1>5. ASSUME NEW th \in Producers, PL!Process(th) PROVE PipelineInv'
  <2> DEFINE kind == middleware[index[th] + 1]
  <2>1. /\ plPc[th] = "process" /\ index[th] < Len(middleware)
        /\ plPc' = [plPc EXCEPT ![th] = IF PL!Drops(kind, text[th]) THEN "idle" ELSE @]
        /\ topic' = [topic EXCEPT ![th] = PL!Routed(kind, @)]
        /\ index' = [index EXCEPT ![th] = @ + 1]
        /\ UNCHANGED <<middleware, text, installed, shifted>>
    BY <1>5 DEF PL!Process
  <2> HIDE DEF kind
  <2>2. /\ plPc' \in [Producers -> {"idle", "process", "publish"}]
        /\ index' \in [Producers -> Nat] /\ topic' \in [Producers -> {"original", "target"}]
    BY <1>0, <2>1 DEF PL!Routed
  <2>3. \A u \in Producers : u # th =>
            /\ PassedKinds(u)' = PassedKinds(u)
            /\ plPc'[u] = plPc[u] /\ topic'[u] = topic[u] /\ index'[u] = index[u]
    BY <1>0, <2>1 DEF PassedKinds
  <2>4. index'[th] = index[th] + 1 /\ index[th] \in Nat
    BY <1>0, <2>1
  <2>5. PassedKinds(th)' = PassedKinds(th) \cup {kind}
    <3>1. \A j : j \in 1 .. index[th] + 1 <=> (j \in 1 .. index[th] \/ j = index[th] + 1)
      BY <2>4
    <3> QED BY <2>1, <2>4, <3>1 DEF PassedKinds, kind
  <2>6. ASSUME NEW u \in Producers, plPc'[u] = "process", u \notin shifted'
        PROVE  index'[u] <= Len(middleware') /\ Applied(u, PassedKinds(u))'
    <3>1. CASE u = th
      <4>1. Applied(th, PassedKinds(th))
        BY <2>1, <2>6, <3>1 DEF PipelineInv
      <4>2. ~PL!Drops(kind, text[th]) /\ topic'[th] = PL!Routed(kind, topic[th])
        BY <1>0, <2>1, <2>6, <3>1
      <4>3. Applied(th, PassedKinds(th))'
        BY <2>1, <2>5, <4>1, <4>2 DEF Applied, PL!Drops, PL!Routed
      <4> QED BY <1>0, <2>1, <2>4, <3>1, <4>3
    <3>2. CASE u # th
      <4>1. index[u] <= Len(middleware) /\ Applied(u, PassedKinds(u))
        BY <2>1, <2>3, <2>6, <3>2 DEF PipelineInv
      <4> QED BY <2>1, <2>3, <3>2, <4>1 DEF Applied
    <3> QED BY <3>1, <3>2
  <2>7. PL!NoneBypassed'
    <3>1. plPc'[th] # "publish"
      BY <1>0, <2>1
    <3> QED BY <2>1, <2>3, <3>1 DEF PipelineInv, PL!NoneBypassed
  <2>8. \A u \in Producers : plPc'[u] = "process" => installed'[u] \subseteq PL!ToSet(middleware')
    BY <2>1, <2>3 DEF PipelineInv
  <2> QED BY <1>0, <2>1, <2>2, <2>6, <2>7, <2>8 DEF PipelineInv
<1>6. ASSUME NEW th \in Producers, PL!ProcessDone(th) PROVE PipelineInv'
  <2>1. /\ plPc[th] = "process" /\ index[th] >= Len(middleware)
        /\ plPc' = [plPc EXCEPT ![th] = "publish"]
        /\ UNCHANGED <<middleware, text, topic, index, installed, shifted>>
    BY <1>6 DEF PL!ProcessDone
  <2>2. \A u \in Producers : PassedKinds(u)' = PassedKinds(u)
    BY <2>1 DEF PassedKinds
  <2>3. ASSUME th \notin shifted PROVE Applied(th, installed[th])
    <3>1. index[th] = Len(middleware) /\ Applied(th, PassedKinds(th))
      BY <1>0, <2>1, <2>3 DEF PipelineInv
    <3>2. installed[th] \subseteq PassedKinds(th)
      BY <1>0, <2>1, <3>1 DEF PipelineInv, PassedKinds, PL!ToSet
    <3> QED BY <3>1, <3>2 DEF Applied
  <2>4. PL!NoneBypassed'
    BY <1>0, <2>1, <2>3 DEF PipelineInv, PL!NoneBypassed, Applied
  <2>5. \A u \in Producers : plPc'[u] = "process" => plPc[u] = "process"
    BY <1>0, <2>1
  <2>6. plPc' \in [Producers -> {"idle", "process", "publish"}]
    BY <1>0, <2>1
  <2>7. \A u \in Producers : plPc'[u] = "process" /\ u \notin shifted' =>
           index'[u] <= Len(middleware') /\ Applied(u, PassedKinds(u))'
    BY <2>1, <2>2, <2>5 DEF PipelineInv, Applied
  <2> QED BY <1>0, <2>1, <2>4, <2>5, <2>6, <2>7 DEF PipelineInv
<1>7. ASSUME NEW th \in Producers, PL!Store(th) PROVE PipelineInv'
  <2>1. /\ plPc' = [plPc EXCEPT ![th] = "idle"]
        /\ UNCHANGED <<middleware, text, topic, index, installed, shifted>>
    BY <1>7 DEF PL!Store
  <2>2. /\ plPc' \in [Producers -> {"idle", "process", "publish"}]
        /\ \A u \in Producers : plPc'[u] # "idle" => plPc'[u] = plPc[u]
        /\ \A u \in Producers : PassedKinds(u)' = PassedKinds(u)
    BY <1>0, <2>1 DEF PassedKinds
  <2>3. \A u \in Producers : plPc'[u] = "process" /\ u \notin shifted' =>
           index'[u] <= Len(middleware') /\ Applied(u, PassedKinds(u))'
    BY <2>1, <2>2 DEF PipelineInv, Applied
  <2>4. PL!NoneBypassed'
    BY <2>1, <2>2 DEF PipelineInv, PL!NoneBypassed
  <2> QED BY <1>0, <2>1, <2>2, <2>3, <2>4 DEF PipelineInv
<1>8. CASE UNCHANGED PL!vars
  <2>1. UNCHANGED <<middleware, plPc, text, topic, index, installed, shifted>>
    BY <1>8 DEF PL!vars
  <2>2. PL!NoneBypassed'
    BY <2>1 DEF PipelineInv, PL!NoneBypassed
  <2>3. \A u \in Producers : PassedKinds(u)' = PassedKinds(u)
    BY <2>1 DEF PassedKinds
  <2> QED BY <1>0, <2>1, <2>2, <2>3 DEF PipelineInv, Applied
<1> QED BY <1>1, <1>2, <1>3, <1>4, <1>5, <1>6, <1>7, <1>8 DEF PL!Next

(* Steps of the other parts leave the pipeline alone.                      *)
LEMMA OnlyPipeline ==
    ASSUME [Next]_vars
    PROVE  [PL!Next]_(PL!vars)
BY DEF Next, vars, NextPriority, NextBackpressure, NextDeduplication, NextRedelivery,
       NextLifecycle, NextPipeline, NextSchemas, NextRetry, plVars, PL!vars

(* No message gets round a middleware (middleware.py 60-70), with any      *)
(* number of threads and middlewares and for every moment at which the     *)
(* list changes.                                                           *)
THEOREM PipelineComplete == Spec => []NoneBypassed
<1>1. Init => PipelineInv
  <2> SUFFICES ASSUME PL!Init PROVE PipelineInv
    BY DEF Init
  <2>1. /\ middleware = <<>> /\ plPc = [th \in Producers |-> "idle"]
        /\ text = [th \in Producers |-> CHOOSE m \in Texts : TRUE]
        /\ topic = [th \in Producers |-> "original"] /\ index = [th \in Producers |-> 0]
        /\ installed = [th \in Producers |-> {}]
    BY DEF PL!Init
  <2>2. middleware \in Seq(Kinds)
    BY <2>1
  <2>3. text \in [Producers -> AnyText]
    BY <2>1 DEF AnyText
  <2>4. PL!NoneBypassed
    BY <2>1 DEF PL!NoneBypassed
  <2> QED BY <2>1, <2>2, <2>3, <2>4 DEF PipelineInv
<1>2. PipelineInv /\ [Next]_vars => PipelineInv'
  BY OnlyPipeline, PipelineStep
<1>3. PipelineInv => NoneBypassed
  BY DEF PipelineInv, NoneBypassed
<1> QED BY <1>1, <1>2, <1>3, PTL DEF Spec

-----------------------------------------------------------------------------
(* SchemaRegistry.  Every set of numbers has a least one: the form in      *)
(* which the chain of versions is followed.                                *)
LEMMA LeastNumber ==
    ASSUME NEW T, T \subseteq Nat, T # {}
    PROVE  \E x \in T : \A y \in T : x <= y
<1> DEFINE R == {ss \in Nat \X Nat : ss[1] < ss[2]}
<1>1. IsWellFoundedOn(R, Nat)
  BY NatLessThanWellFounded DEF OpToRel
<1>2. PICK x \in T : \A y \in T : ~ (<<y, x>> \in R)
  <2> HIDE DEF R
  <2> QED BY <1>1, WFMin
<1>3. \A y \in T : ~ (y < x)
  BY <1>2
<1> QED BY <1>3

(* The latest version is registered and none is later.                     *)
LEMMA LatestVersion ==
    ASSUME NEW V, NEW n \in Nat, V \subseteq 1 .. n, V # {}
    PROVE  SR!Max(V) \in V /\ \A v \in V : v <= SR!Max(V)
<1> DEFINE D == {n - v : v \in V}
<1>1. D \subseteq Nat /\ D # {}
  <2>1. \A v \in V : n - v \in Nat
    OBVIOUS
  <2>2. PICK v \in V : TRUE
    OBVIOUS
  <2>3. n - v \in D
    BY <2>2
  <2> QED BY <2>1, <2>3
<1>2. PICK d \in D : \A e \in D : d <= e
  <2> HIDE DEF D
  <2> QED BY <1>1, LeastNumber
<1>3. PICK m \in V : d = n - m
  BY <1>2
<1>4. \A v \in V : m >= v
  <2> SUFFICES ASSUME NEW v \in V PROVE m >= v
    OBVIOUS
  <2>1. n - m <= n - v
    BY <1>2, <1>3
  <2>2. m \in Int /\ v \in Int
    OBVIOUS
  <2> QED BY <2>1, <2>2
<1>5. \E x \in V : \A y \in V : x >= y
  BY <1>4
<1>6. SR!Max(V) \in V /\ \A y \in V : SR!Max(V) >= y
  BY <1>5 DEF SR!Max
<1> QED BY <1>6

(* What one compatible change of version leaves readable.                  *)
LEMMA OneChange ==
    ASSUME NEW older, NEW newer, NEW doc \in SR!Documents,
           newer.required \subseteq older.required, SR!Widens(older, newer),
           SR!Validate(older, doc)
    PROVE  SR!Validate(newer, doc)
<1>1. PICK S \in SUBSET FieldNames : doc \in [S -> ValueTypes]
  BY DEF SR!Documents, SR!Partial
<1>2. newer.required \subseteq DOMAIN doc
  BY DEF SR!Validate
<1>3. ASSUME NEW f \in DOMAIN doc \cap DOMAIN newer.fields
      PROVE  SR!Accepts(newer.fields[f], doc[f])
  <2>1. doc[f] \in ValueTypes
    BY <1>1
  <2>2. f \in DOMAIN older.fields
        /\ (SR!Accepts(older.fields[f], doc[f]) => SR!Accepts(newer.fields[f], doc[f]))
    BY <2>1 DEF SR!Widens
  <2>3. SR!Accepts(older.fields[f], doc[f])
    BY <2>2 DEF SR!Validate
  <2> QED BY <2>2, <2>3
<1> QED BY <1>2, <1>3 DEF SR!Validate

(* A chain of compatible versions, of any length, has no first one that    *)
(* the document cannot be read with.                                       *)
LEMMA ChainReadable ==
    ASSUME SR!Versions \subseteq 1 .. MaxVersion, MaxVersion \in Nat
    PROVE  SR!StillReadable
<1> DEFINE top == SR!Max(SR!Versions)
<1> SUFFICES ASSUME NEW v \in SR!Versions, NEW doc \in SR!Documents,
                    v + 1 .. top \subseteq SR!Versions,
                    \A n \in v + 1 .. top :
                        /\ SR!IsBackwardCompatible(n)
                        /\ SR!Widens(schemas[n - 1], schemas[n]),
                    SR!Validate(schemas[v], doc)
             PROVE  SR!Validate(SR!Latest, doc)
  BY Zenon DEF SR!StillReadable
<1>1. top \in SR!Versions /\ v <= top /\ v \in Nat /\ top \in Nat
  <2>1. top \in SR!Versions /\ \A u \in SR!Versions : u <= top
    BY LatestVersion
  <2>2. \A u \in 1 .. MaxVersion : u \in Nat
    OBVIOUS
  <2> HIDE DEF top
  <2> QED BY <2>1, <2>2
<1> HIDE DEF top
<1> DEFINE Bad == {n \in Nat : v <= n /\ n <= top /\ ~SR!Validate(schemas[n], doc)}
<1>2. ASSUME Bad # {} PROVE FALSE
  <2>1. PICK x \in Bad : \A y \in Bad : x <= y
    <3>1. Bad \subseteq Nat
      OBVIOUS
    <3> HIDE DEF Bad
    <3> QED BY <1>2, <3>1, LeastNumber
  <2>2. x \in Nat /\ v <= x /\ x <= top /\ ~SR!Validate(schemas[x], doc) /\ x # v
    BY <2>1
  <2>3. x \in v + 1 .. top /\ x - 1 \in Nat /\ v <= x - 1 /\ x - 1 <= top /\ ~(x <= x - 1)
    BY <1>1, <2>2
  <2>4. SR!Validate(schemas[x - 1], doc)
    BY <2>1, <2>3
  <2>5. x - 1 \in SR!Versions
    <3>1. x - 1 = v \/ x - 1 \in v + 1 .. top
      BY <1>1, <2>3
    <3> QED BY <3>1
  <2>6. schemas[x].required \subseteq schemas[x - 1].required
    BY <2>3, <2>5 DEF SR!IsBackwardCompatible
  <2>7. SR!Widens(schemas[x - 1], schemas[x])
    BY <2>3
  <2> QED BY <2>2, <2>4, <2>6, <2>7, OneChange
<1>3. SR!Validate(schemas[top], doc)
  BY <1>1, <1>2
<1> QED BY <1>3 DEF SR!Latest, top

(* The other parts' steps do not touch the registry.                       *)
LEMMA OnlySchemas ==
    ASSUME [Next]_vars
    PROVE  [SR!Next]_(SR!vars)
BY DEF Next, vars, NextPriority, NextBackpressure, NextDeduplication, NextRedelivery,
       NextLifecycle, NextPipeline, NextSchemas, NextRetry, srVars, SR!vars

(* is_backward_compatible (serializer.py 269-294) is sound along a chain   *)
(* of any number of versions, with any fields and types: a document        *)
(* accepted under a version is accepted under the latest.                  *)
THEOREM CompatibleChain == Spec => []StillReadable
<1> DEFINE I == SR!Versions \subseteq 1 .. MaxVersion
<1>1. Init => I
  BY DEF Init, SR!Init, SR!Versions
<1>2. I /\ [Next]_vars => I'
  <2> SUFFICES ASSUME I, [SR!Next]_(SR!vars) PROVE I'
    BY OnlySchemas
  <2>1. CASE SR!Next
    BY <2>1 DEF SR!Next, SR!Register, SR!Versions
  <2>2. CASE UNCHANGED SR!vars
    BY <2>2 DEF SR!vars, SR!Versions
  <2> QED BY <2>1, <2>2
<1>3. I => StillReadable
  <2>1. MaxVersion \in Nat
    BY PartsAssumption DEF SR!SchemaRegistryAssumption
  <2> QED BY <2>1, ChainReadable DEF StillReadable
<1> HIDE DEF I
<1> QED BY <1>1, <1>2, <1>3, PTL DEF Spec

-----------------------------------------------------------------------------
(* Backpressure.  The instance's finite sets.                              *)
LEMMA FlowSets ==
    \A S : BP!Cardinality(S) = Cardinality(S) /\ (BP!IsFiniteSet(S) <=> IsFiniteSet(S))
BY Zenon DEF Cardinality, BP!Cardinality, IsFiniteSet, BP!IsFiniteSet

(* Threads that have read a depth below the limit and have not published   *)
(* yet: each of them can still add a message.                              *)
Underway == {th \in Threads : bpPc[th] # "idle" /\ saw[th] < MaxQueueDepth}

OvershootInv ==
    /\ bpPc \in [Threads -> {"idle", "read", "asking", "allowed"}]
    /\ saw \in [Threads -> Nat]
    /\ depth \in Nat
    /\ \A th \in Threads : bpPc[th] \in {"asking", "allowed"} => saw[th] < MaxQueueDepth
    /\ depth + Cardinality(Underway) <= MaxQueueDepth + Cardinality(Threads) - 1

(* How many threads are under way.                                         *)
LEMMA UnderwayCount ==
    /\ IsFiniteSet(Threads) /\ Cardinality(Threads) \in Nat /\ MaxQueueDepth \in Nat
    /\ \A S : S \subseteq Threads =>
          /\ Cardinality(S) \in Nat /\ Cardinality(S) <= Cardinality(Threads)
          /\ \A th \in S : Cardinality(S \ {th}) = Cardinality(S) - 1
          /\ \A T : T \subseteq S => Cardinality(T) <= Cardinality(S)
<1>1. IsFiniteSet(Threads) /\ MaxQueueDepth \in Nat
  BY PartsAssumption, FlowSets DEF BP!BackpressureAssumption
<1>2. ASSUME NEW S, S \subseteq Threads
      PROVE  /\ Cardinality(S) \in Nat /\ Cardinality(S) <= Cardinality(Threads)
             /\ \A th \in S : Cardinality(S \ {th}) = Cardinality(S) - 1
             /\ \A T : T \subseteq S => Cardinality(T) <= Cardinality(S)
  <2>1. IsFiniteSet(S) /\ Cardinality(S) <= Cardinality(Threads)
    BY <1>1, <1>2, FS_Subset
  <2>2. ASSUME NEW th \in S PROVE Cardinality(S \ {th}) = Cardinality(S) - 1
    BY <2>1, FS_RemoveElement
  <2>3. ASSUME NEW T, T \subseteq S PROVE Cardinality(T) <= Cardinality(S)
    BY <2>1, <2>3, FS_Subset
  <2> QED BY <2>1, <2>2, <2>3, FS_CardinalityType
<1> QED BY <1>1, <1>2, FS_CardinalityType

(* Each step of a publisher and each message that leaves the topic keeps   *)
(* the bound on the depth and the publishes under way.                     *)
LEMMA OvershootStep ==
    ASSUME OvershootInv, [BP!Next]_(BP!vars)
    PROVE  OvershootInv'
<1> DEFINE U == Underway
           D == MaxQueueDepth
           N == Cardinality(Threads)
           Count(S) == Cardinality(S)
<1>0. /\ bpPc \in [Threads -> {"idle", "read", "asking", "allowed"}]
      /\ saw \in [Threads -> Nat] /\ depth \in Nat
      /\ \A th \in Threads : bpPc[th] \in {"asking", "allowed"} => saw[th] < D
      /\ depth + Count(U) <= D + N - 1
      /\ U \subseteq Threads
  BY DEF OvershootInv, Underway
<1>1. /\ N \in Nat /\ D \in Nat
      /\ \A S : S \subseteq Threads =>
          /\ Count(S) \in Nat /\ Count(S) <= N
          /\ \A th \in S : Count(S \ {th}) = Count(S) - 1
          /\ \A T : T \subseteq S => Count(T) <= Count(S)
  BY UnderwayCount, Zenon
<1>2. U' \subseteq Threads
  BY DEF Underway
<1> HIDE DEF Count, N, D
<1>3. ASSUME /\ bpPc' \in [Threads -> {"idle", "read", "asking", "allowed"}]
             /\ saw' \in [Threads -> Nat]
             /\ \A th \in Threads : bpPc'[th] \in {"asking", "allowed"} => saw'[th] < D,
             U' \subseteq U, depth' = depth
      PROVE  OvershootInv'
  <2>1. Count(U') <= Count(U) /\ Count(U') \in Nat /\ Count(U) \in Nat
    BY <1>0, <1>1, <1>2, <1>3
  <2>2. depth' + Count(U') <= D + N - 1
    <3> HIDE DEF U
    <3> QED BY <1>0, <1>1, <1>3, <2>1
  <2> QED BY <1>0, <1>3, <2>2 DEF OvershootInv, Count, N, D
<1>4. ASSUME NEW th \in Threads, NEW p \in Producers, BP!ReadDepth(th, p)
      PROVE  OvershootInv'
  <2>1. /\ bpPc[th] = "idle" /\ bpPc' = [bpPc EXCEPT ![th] = "read"]
        /\ saw' = [saw EXCEPT ![th] = depth] /\ depth' = depth
    BY <1>4 DEF BP!ReadDepth
  <2>2. /\ bpPc' \in [Threads -> {"idle", "read", "asking", "allowed"}]
        /\ saw' \in [Threads -> Nat]
        /\ \A u \in Threads : bpPc'[u] \in {"asking", "allowed"} => saw'[u] < D
    BY <1>0, <2>1
  <2>3. CASE depth < D
    <3>1. Count(U') \in Nat /\ Count(U') <= N
      BY <1>1, <1>2
    <3>2. depth' + Count(U') <= D + N - 1
      <4> HIDE DEF U
      <4> QED BY <1>0, <1>1, <2>1, <2>3, <3>1
    <3> QED BY <1>0, <2>1, <2>2, <3>2 DEF OvershootInv, Count, N, D
  <2>4. CASE ~(depth < D)
    <3>1. U' \subseteq U
      BY <1>0, <2>1, <2>4 DEF Underway, D
    <3> QED BY <1>3, <2>1, <2>2, <3>1
  <2> QED BY <2>3, <2>4
<1>5. ASSUME NEW th \in Threads, BP!Check(th) PROVE OvershootInv'
  <2>1. /\ bpPc[th] = "read" /\ depth' = depth
        /\ \/ bpPc' = [bpPc EXCEPT ![th] = "idle"] /\ saw' = [saw EXCEPT ![th] = 0]
           \/ bpPc' = [bpPc EXCEPT ![th] = "asking"] /\ saw' = saw /\ ~(saw[th] >= D)
    BY <1>5 DEF BP!Check, BP!TooDeep, D
  <2>2. saw[th] \in Nat
    BY <1>0
  <2>3. U' \subseteq U
    BY <1>0, <2>1 DEF Underway
  <2>4. /\ bpPc' \in [Threads -> {"idle", "read", "asking", "allowed"}]
        /\ saw' \in [Threads -> Nat]
        /\ \A u \in Threads : bpPc'[u] \in {"asking", "allowed"} => saw'[u] < D
    BY <1>0, <1>1, <2>1, <2>2
  <2> QED BY <1>3, <2>1, <2>3, <2>4
<1>6. ASSUME NEW th \in Threads, BP!Acquire(th) PROVE OvershootInv'
  <2>1. /\ bpPc[th] = "asking" /\ depth' = depth
        /\ \/ bpPc' = [bpPc EXCEPT ![th] = "idle"] /\ saw' = [saw EXCEPT ![th] = 0]
           \/ bpPc' = [bpPc EXCEPT ![th] = "allowed"] /\ saw' = saw
    BY <1>6 DEF BP!Acquire
  <2>3. U' \subseteq U
    BY <1>0, <2>1 DEF Underway
  <2>4. /\ bpPc' \in [Threads -> {"idle", "read", "asking", "allowed"}]
        /\ saw' \in [Threads -> Nat]
        /\ \A u \in Threads : bpPc'[u] \in {"asking", "allowed"} => saw'[u] < D
    BY <1>0, <1>1, <2>1
  <2> QED BY <1>3, <2>1, <2>3, <2>4
<1>7. ASSUME NEW th \in Threads, BP!PublishOne(th) PROVE OvershootInv'
  <2>1. /\ bpPc[th] = "allowed" /\ bpPc' = [bpPc EXCEPT ![th] = "idle"]
        /\ saw' = [saw EXCEPT ![th] = 0] /\ depth' = depth + 1
    BY <1>7 DEF BP!PublishOne
  <2>2. th \in U /\ U' \subseteq U \ {th}
    BY <1>0, <2>1 DEF Underway, D
  <2>3. /\ bpPc' \in [Threads -> {"idle", "read", "asking", "allowed"}]
        /\ saw' \in [Threads -> Nat]
        /\ \A u \in Threads : bpPc'[u] \in {"asking", "allowed"} => saw'[u] < D
    BY <1>0, <1>1, <2>1
  <2>4. /\ Count(U \ {th}) = Count(U) - 1 /\ Count(U') <= Count(U \ {th})
        /\ Count(U) \in Nat /\ Count(U') \in Nat
    BY <1>0, <1>1, <1>2, <2>2
  <2>5. depth' + Count(U') <= D + N - 1
    <3> HIDE DEF U
    <3> QED BY <1>0, <1>1, <2>1, <2>4
  <2> QED BY <1>0, <2>1, <2>3, <2>5 DEF OvershootInv, Count, N, D
<1>8. CASE BP!Drain
  <2>1. depth > 0 /\ depth' = depth - 1 /\ UNCHANGED <<bpPc, saw>>
    BY <1>8 DEF BP!Drain, BP!callVars
  <2>2. U' = U /\ Count(U) \in Nat
    BY <1>0, <1>1, <2>1 DEF Underway
  <2>3. depth' \in Nat /\ depth' + Count(U') <= D + N - 1
    <3> HIDE DEF U
    <3> QED BY <1>0, <1>1, <2>1, <2>2
  <2> QED BY <1>0, <2>1, <2>3 DEF OvershootInv, Count, N, D
<1>9. CASE UNCHANGED <<bpPc, saw, depth>>
  <2>1. U' \subseteq U
    BY <1>9 DEF Underway
  <2> QED BY <1>0, <1>3, <1>9, <2>1
<1>10. \/ \E th \in Threads : \/ \E p \in Producers : BP!ReadDepth(th, p)
                              \/ BP!Check(th) \/ BP!Acquire(th) \/ BP!PublishOne(th)
       \/ BP!Drain \/ UNCHANGED <<bpPc, saw, depth>>
  BY DEF BP!Next, BP!vars, BP!callVars, BP!Tick, BP!AvailableTokens, BP!RemoveProducer
<1> QED BY <1>4, <1>5, <1>6, <1>7, <1>8, <1>9, <1>10

(* Steps of the other parts leave flow control alone.                      *)
LEMMA OnlyBackpressure ==
    ASSUME [Next]_vars
    PROVE  [BP!Next]_(BP!vars)
BY DEF Next, vars, NextPriority, NextBackpressure, NextDeduplication, NextRedelivery,
       NextLifecycle, NextPipeline, NextSchemas, NextRetry, bpVars, BP!vars, BP!callVars,
       BP!limiterVars, BP!ghostVars

(* The depth limit (backpressure.py 152-158) is exceeded by less than the  *)
(* number of threads, whatever that number and whichever messages leave    *)
(* the topic meanwhile: a stale depth lets each thread add one message.    *)
THEOREM OvershootLimited == Spec => []OvershootBounded
<1>1. ASSUME MaxQueueDepth > 0 PROVE Init => OvershootInv
  <2> SUFFICES ASSUME BP!Init PROVE OvershootInv
    BY DEF Init
  <2>1. bpPc = [th \in Threads |-> "idle"] /\ saw = [th \in Threads |-> 0] /\ depth = 0
    BY DEF BP!Init
  <2>2. Underway = {} /\ Cardinality({}) = 0
    BY <2>1, FS_EmptySet DEF Underway
  <2>3. depth + Cardinality(Underway) <= MaxQueueDepth + Cardinality(Threads) - 1
    <3>1. Cardinality(Threads) \in Nat /\ MaxQueueDepth \in Nat
      BY UnderwayCount
    <3> QED BY <1>1, <2>1, <2>2, <3>1
  <2> QED BY <2>1, <2>3 DEF OvershootInv
<1>2. OvershootInv /\ [Next]_vars => OvershootInv'
  BY OnlyBackpressure, OvershootStep
<1>3. OvershootInv => OvershootBounded
  <2> SUFFICES ASSUME OvershootInv PROVE depth <= MaxQueueDepth + Cardinality(Threads) - 1
    BY FlowSets DEF OvershootBounded, BP!OvershootBounded
  <2>1. Cardinality(Threads) \in Nat /\ MaxQueueDepth \in Nat /\ Cardinality(Underway) \in Nat
    BY UnderwayCount DEF Underway
  <2> QED BY <2>1 DEF OvershootInv
<1>4. ASSUME ~(MaxQueueDepth > 0) PROVE OvershootBounded
  BY <1>4 DEF OvershootBounded, BP!OvershootBounded
<1>5. CASE MaxQueueDepth > 0
  <2>1. Init => OvershootInv
    BY <1>1, <1>5
  <2> QED BY <2>1, <1>2, <1>3, PTL DEF Spec
<1>6. CASE ~(MaxQueueDepth > 0)
  <2>1. OvershootBounded
    BY <1>4, <1>6
  <2> QED BY <2>1, PTL
<1> QED BY <1>5, <1>6

(* The limiters.  Whoever has been given limiter l for epoch e of producer *)
(* p: the manager itself, or a thread that has asked it.                   *)
Uses(l, p, e) ==
    \/ limiterOf[p] = l /\ epoch[p] = e
    \/ \E th \in Threads : /\ bpPc[th] = "asking" /\ bpHeld[th] = l
                           /\ producer[th] = p /\ asked[th] = e

(* Epochs that have had a limiter.                                         *)
Opened == {a \in BP!Accounts : \/ a[2] < epoch[a[1]]
                               \/ a[2] = epoch[a[1]] /\ limiterOf[a[1]] # 0}

AnyProducer == Producers \cup {CHOOSE p \in Producers : TRUE}

FlowTypes ==
    /\ now \in BP!Times
    /\ bpPc \in [Threads -> {"idle", "read", "asking", "allowed"}]
    /\ producer \in [Threads -> AnyProducer]
    /\ bpHeld \in [Threads -> Nat]
    /\ limiterOf \in [Producers -> Nat]
    /\ made \in Nat
    /\ tokens \in [BP!Limiters -> 0 .. BP!Burst]
    /\ refilled \in [BP!Limiters -> Int]
    /\ epoch \in [Producers -> BP!Epochs]
    /\ asked \in [Threads -> BP!Epochs]
    /\ granted \in [BP!Accounts -> Nat]
    /\ before \in [BP!Accounts -> [BP!Times -> Nat]]

(* One limiter for each epoch of a producer, and no limiter for two.  The  *)
(* limiters made are counted by the epochs, so that there is always one    *)
(* for the next.                                                           *)
OneLimiter ==
    /\ \A th \in Threads : bpPc[th] # "idle" => producer[th] \in Producers
    /\ \A p \in Producers : limiterOf[p] <= made
    /\ \A th \in Threads : bpPc[th] = "asking" =>
          /\ bpHeld[th] \in 1 .. made
          /\ asked[th] <= epoch[producer[th]]
          /\ asked[th] = epoch[producer[th]] => limiterOf[producer[th]] = bpHeld[th]
    /\ \A l \in 1 .. made : \A p, q \in Producers : \A e, f \in BP!Epochs :
          Uses(l, p, e) /\ Uses(l, q, f) => p = q /\ e = f
    /\ \A l, k \in 1 .. made : \A p \in Producers : \A e \in BP!Epochs :
          Uses(l, p, e) /\ Uses(k, p, e) => l = k
    /\ Cardinality(Opened) = made

(* The bucket: what has been granted since time s and what it still holds  *)
(* is covered by the burst and the time up to its last refill.             *)
Covered(l, a, s) ==
    /\ s <= refilled[l] => granted[a] - before[a][s] + tokens[l]
                             <= BP!Burst + Rate * (refilled[l] - s)
    /\ s > refilled[l] => granted[a] = before[a][s]

Buckets ==
    /\ \A l \in BP!Limiters : refilled[l] <= now /\ (l > made => tokens[l] = BP!Burst)
    /\ \A a \in BP!Accounts : a \notin Opened => granted[a] = 0
    /\ \A l \in 1 .. made : \A a \in BP!Accounts :
          Uses(l, a[1], a[2]) => \A s \in 0 .. now : Covered(l, a, s)
    /\ BP!RateHeld

RateInv == FlowTypes /\ OneLimiter /\ Buckets

(* The constants of flow control.                                          *)
LEMMA FlowConstants ==
    /\ Rate \in Nat /\ Scale \in Nat \ {0} /\ MaxTime \in Nat /\ MaxRemovals \in Nat
    /\ BP!Burst \in Nat
    /\ IsFiniteSet(BP!Accounts)
    /\ BP!Limiters = 1 .. Cardinality(BP!Accounts) /\ Cardinality(BP!Accounts) \in Nat
<1>1. /\ Rate \in Nat /\ Scale \in Nat \ {0} /\ MaxTime \in Nat /\ MaxRemovals \in Nat
      /\ IsFiniteSet(Producers)
  BY PartsAssumption, FlowSets DEF BP!BackpressureAssumption
<1>2. BP!Burst \in Nat
  <2>1. \A x \in Nat : (x \div Scale) \in Nat
    BY <1>1
  <2>2. \A x \in Nat : (x \div Scale) * Scale \in Nat
    BY <1>1, <2>1
  <2>3. 2 * Rate \in Nat
    BY <1>1
  <2> QED BY <1>1, <2>2, <2>3 DEF BP!Burst
<1>3. IsFiniteSet(0 .. MaxRemovals)
  BY <1>1, FS_Interval
<1>4. IsFiniteSet(BP!Accounts)
  BY <1>1, <1>3, FS_Product DEF BP!Accounts, BP!Epochs
<1> QED BY <1>1, <1>2, <1>4, FS_CardinalityType, FlowSets DEF BP!Limiters

(* Arithmetic of the rate.                                                 *)
LEMMA RateArithmetic ==
    /\ \A x \in Int : Rate * x \in Int
    /\ \A x \in Nat : Rate * x \in Nat
    /\ \A x, y \in Int : Rate * x + Rate * y = Rate * (x + y)
<1>1. Rate \in Nat
  BY FlowConstants
<1> QED BY <1>1

(* Accounts are pairs.                                                     *)
LEMMA AccountPairs ==
    /\ \A a \in BP!Accounts : a[1] \in Producers /\ a[2] \in BP!Epochs /\ a = <<a[1], a[2]>>
    /\ \A p \in Producers : \A e \in BP!Epochs :
          <<p, e>> \in BP!Accounts /\ <<p, e>>[1] = p /\ <<p, e>>[2] = e
    /\ \A e \in BP!Epochs : e \in Nat
<1>1. \A e \in BP!Epochs : e \in Nat
  BY FlowConstants DEF BP!Epochs
<1> QED BY <1>1 DEF BP!Accounts

(* The values that flow control computes with.                             *)
LEMMA FlowValues ==
    ASSUME FlowTypes
    PROVE  /\ now \in Nat /\ now <= MaxTime
           /\ \A s \in 0 .. now : s \in Nat /\ s <= now /\ s \in BP!Times /\ Rate * (now - s) \in Nat
           /\ \A a \in BP!Accounts : granted[a] \in Nat
           /\ \A a \in BP!Accounts : \A s \in 0 .. now : before[a][s] \in Nat
<1>1. now \in 0 .. MaxTime /\ MaxTime \in Nat
  BY FlowConstants DEF FlowTypes, BP!Times
<1>2. now \in Nat /\ now <= MaxTime
  BY <1>1
<1>3. ASSUME NEW s \in 0 .. now
      PROVE  s \in Nat /\ s <= now /\ s \in BP!Times /\ Rate * (now - s) \in Nat
  <2>1. s \in Nat /\ s <= now /\ s \in BP!Times /\ now - s \in Nat
    BY <1>1, <1>2 DEF BP!Times
  <2> QED BY <2>1, RateArithmetic
<1>4. \A a \in BP!Accounts : granted[a] \in Nat /\ before[a] \in [BP!Times -> Nat]
  BY DEF FlowTypes
<1>5. ASSUME NEW a \in BP!Accounts, NEW s \in 0 .. now PROVE before[a][s] \in Nat
  BY <1>3, <1>4
<1> QED BY <1>2, <1>3, <1>4, <1>5

(* What a refill yields (_refill), and what a grant takes out of it.       *)
LEMMA RefillCovers ==
    ASSUME RateInv, NEW l \in 1 .. made, l \in BP!Limiters, NEW a \in BP!Accounts,
           Uses(l, a[1], a[2]), NEW s \in 0 .. now
    PROVE  /\ BP!Refill(l) \in 0 .. BP!Burst
           /\ granted[a] - before[a][s] + BP!Refill(l) <= BP!Burst + Rate * (now - s)
<1> DEFINE t == tokens[l]
           r == refilled[l]
           g == granted[a]
           b == before[a][s]
           B == BP!Burst
           x == t + Rate * (now - r)
<1>1. t \in 0 .. B /\ r \in Int /\ r <= now /\ g \in Nat /\ b \in Nat /\ B \in Nat
      /\ now \in Nat /\ s \in Int /\ s <= now /\ Rate \in Nat
  <2>0. now \in Nat /\ g \in Nat /\ b \in Nat /\ s \in Nat /\ s <= now
    BY FlowValues DEF RateInv
  <2>1. t \in 0 .. B /\ r \in Int
    BY DEF RateInv, FlowTypes
  <2>4. r <= now
    BY DEF RateInv, Buckets
  <2> HIDE DEF t, r, g, b, B
  <2> QED BY <2>0, <2>1, <2>4, FlowConstants DEF B
<1>2. BP!Refill(l) = IF x < B THEN x ELSE B
  BY DEF BP!Refill
<1>3. /\ s <= r => g - b + t <= B + Rate * (r - s)
      /\ s > r => g = b
  BY DEF RateInv, Buckets, Covered
<1> HIDE DEF t, r, g, b, B
<1>4. /\ Rate * (now - r) \in Nat /\ Rate * (now - s) \in Nat /\ Rate * (r - s) \in Int
      /\ Rate * (r - s) + Rate * (now - r) = Rate * (now - s)
  <2>1. now - r \in Nat /\ now - s \in Nat /\ r - s \in Int /\ (r - s) + (now - r) = now - s
    BY <1>1
  <2> QED BY <1>1, <2>1, RateArithmetic
<1> DEFINE u == Rate * (now - r)
           v == Rate * (now - s)
           w == Rate * (r - s)
<1>5. x = t + u /\ u \in Nat /\ v \in Nat /\ w \in Int /\ w + u = v
      /\ (s <= r => g - b + t <= B + w)
  BY <1>3, <1>4
<1> HIDE DEF u, v, w, x
<1>6. (IF x < B THEN x ELSE B) \in 0 .. B
  BY <1>1, <1>5
<1>7. g - b + (IF x < B THEN x ELSE B) <= B + v
  <2>1. CASE s <= r
    BY <1>1, <1>5, <2>1
  <2>2. CASE s > r
    BY <1>1, <1>3, <1>5, <2>2
  <2> QED BY <1>1, <2>1, <2>2
<1> QED BY <1>2, <1>6, <1>7 DEF v, g, b, B

(* The limiters made so far are limiters, and each account has been        *)
(* opened that uses one.                                                   *)
LEMMA MadeLimiters ==
    ASSUME RateInv
    PROVE  /\ made \in Nat /\ made <= Cardinality(BP!Accounts)
           /\ 1 .. made \subseteq BP!Limiters
           /\ IsFiniteSet(Opened) /\ Opened \subseteq BP!Accounts
           /\ \A p \in Producers : \A e \in BP!Epochs : \A l \in 1 .. made :
                 Uses(l, p, e) => <<p, e>> \in Opened
<1>1. Opened \subseteq BP!Accounts
  BY DEF Opened
<1>2. IsFiniteSet(Opened) /\ Cardinality(Opened) <= Cardinality(BP!Accounts)
  BY <1>1, FlowConstants, FS_Subset
<1>3. made \in Nat /\ made <= Cardinality(BP!Accounts)
  BY <1>2 DEF RateInv, FlowTypes, OneLimiter
<1>4. 1 .. made \subseteq BP!Limiters
  <2> DEFINE n == Cardinality(BP!Accounts)
  <2>1. BP!Limiters = 1 .. n /\ n \in Nat /\ made <= n
    BY <1>3, FlowConstants
  <2> HIDE DEF n
  <2> QED BY <1>3, <2>1
<1>5. ASSUME NEW p \in Producers, NEW e \in BP!Epochs, NEW l \in 1 .. made, Uses(l, p, e)
      PROVE  <<p, e>> \in Opened
  <2>1. <<p, e>> \in BP!Accounts /\ <<p, e>>[1] = p /\ <<p, e>>[2] = e
    BY DEF BP!Accounts
  <2>2. e \in Nat /\ epoch[p] \in Nat
    BY FlowConstants DEF RateInv, FlowTypes, BP!Epochs
  <2>3. e < epoch[p] \/ (e = epoch[p] /\ limiterOf[p] # 0)
    <3>1. CASE limiterOf[p] = l /\ epoch[p] = e
      BY <1>3, <3>1
    <3>2. CASE \E th \in Threads : /\ bpPc[th] = "asking" /\ bpHeld[th] = l
                                   /\ producer[th] = p /\ asked[th] = e
      <4>1. PICK th \in Threads : /\ bpPc[th] = "asking" /\ bpHeld[th] = l
                                  /\ producer[th] = p /\ asked[th] = e
        BY <3>2
      <4>2. e <= epoch[p] /\ (e = epoch[p] => limiterOf[p] = l)
        BY <4>1 DEF RateInv, OneLimiter
      <4> QED BY <1>3, <2>2, <4>2
    <3> QED BY <1>5, <3>1, <3>2 DEF Uses
  <2> QED BY <2>1, <2>3 DEF Opened
<1> QED BY <1>1, <1>2, <1>3, <1>4, <1>5

(* A step that leaves the limiters alone and gives none to anybody.        *)
LEMMA QuietFlow ==
    ASSUME RateInv, FlowTypes',
           UNCHANGED <<now, limiterOf, made, tokens, refilled, epoch, granted, before>>,
           \A l \in 1 .. made : \A p \in Producers : \A e \in BP!Epochs :
               Uses(l, p, e)' => Uses(l, p, e),
           \A th \in Threads : bpPc'[th] # "idle" => producer'[th] \in Producers,
           \A th \in Threads : bpPc'[th] = "asking" =>
               /\ bpHeld'[th] \in 1 .. made
               /\ asked'[th] <= epoch[producer'[th]]
               /\ asked'[th] = epoch[producer'[th]]
                    => limiterOf[producer'[th]] = bpHeld'[th]
    PROVE  RateInv'
<1>1. Opened' = Opened
  BY DEF Opened
<1>2. OneLimiter'
  BY <1>1 DEF RateInv, OneLimiter
<1>3. \A a \in BP!Accounts : a[1] \in Producers /\ a[2] \in BP!Epochs
  BY DEF BP!Accounts
<1>4. \A l \in 1 .. made : \A a \in BP!Accounts : \A s : Covered(l, a, s) => Covered(l, a, s)'
  BY DEF Covered
<1>5. BP!RateHeld'
  BY DEF RateInv, Buckets, BP!RateHeld
<1>6. Buckets'
  BY <1>1, <1>3, <1>4, <1>5 DEF RateInv, Buckets
<1> QED BY <1>2, <1>6 DEF RateInv

(* A step that refills the bucket of limiter l, in use for the account a,  *)
(* and perhaps takes a grant out of it.                                    *)
LEMMA RefillStep ==
    ASSUME RateInv, NEW l \in 1 .. made, NEW p \in Producers, NEW e \in BP!Epochs,
           Uses(l, p, e), NEW x \in 0 .. BP!Burst,
           UNCHANGED <<now, made, before>>,
           tokens' = [tokens EXCEPT ![l] = x], refilled' = [refilled EXCEPT ![l] = now],
           granted' \in [BP!Accounts -> Nat],
           granted'[<<p, e>>] + x = granted[<<p, e>>] + BP!Refill(l),
           \A a \in BP!Accounts : a # <<p, e>> => granted'[a] = granted[a],
           Opened' = Opened,
           \A k \in 1 .. made : \A q \in Producers : \A f \in BP!Epochs :
               Uses(k, q, f)' => Uses(k, q, f)
    PROVE  /\ tokens' \in [BP!Limiters -> 0 .. BP!Burst]
           /\ refilled' \in [BP!Limiters -> Int]
           /\ Buckets'
<1> DEFINE a == <<p, e>>
<1>0. /\ a \in BP!Accounts /\ a[1] = p /\ a[2] = e /\ l \in BP!Limiters /\ a \in Opened
      /\ made \in Nat /\ now \in Nat
      /\ tokens \in [BP!Limiters -> 0 .. BP!Burst] /\ refilled \in [BP!Limiters -> Int]
      /\ \A b \in BP!Accounts : b[1] \in Producers /\ b[2] \in BP!Epochs /\ b = <<b[1], b[2]>>
  <2>1. now \in Nat
    BY FlowValues DEF RateInv
  <2>2. l \in BP!Limiters /\ a \in Opened /\ made \in Nat
    BY MadeLimiters
  <2>3. tokens \in [BP!Limiters -> 0 .. BP!Burst] /\ refilled \in [BP!Limiters -> Int]
    BY DEF RateInv, FlowTypes
  <2> QED BY <2>1, <2>2, <2>3, AccountPairs
<1>1. /\ tokens' \in [BP!Limiters -> 0 .. BP!Burst]
      /\ refilled' \in [BP!Limiters -> Int]
      /\ tokens'[l] = x /\ refilled'[l] = now
      /\ \A k \in BP!Limiters : k # l => tokens'[k] = tokens[k] /\ refilled'[k] = refilled[k]
  BY <1>0
<1>2. \A s \in 0 .. now : granted'[a] - before[a][s] + x <= BP!Burst + Rate * (now - s)
  <2> SUFFICES ASSUME NEW s \in 0 .. now
               PROVE  granted'[a] - before[a][s] + x <= BP!Burst + Rate * (now - s)
    OBVIOUS
  <2>1. /\ BP!Refill(l) \in 0 .. BP!Burst
        /\ granted[a] - before[a][s] + BP!Refill(l) <= BP!Burst + Rate * (now - s)
    BY <1>0, RefillCovers
  <2>2. granted[a] \in Nat /\ granted'[a] \in Nat /\ before[a][s] \in Nat
    BY <1>0, FlowValues DEF RateInv
  <2> DEFINE y == BP!Refill(l)
             g == granted[a]
             h == granted'[a]
             b == before[a][s]
             z == BP!Burst + Rate * (now - s)
  <2>3. h + x = g + y /\ g - b + y <= z /\ g \in Nat /\ h \in Nat /\ b \in Nat
        /\ y \in Int /\ x \in Int /\ z \in Int
    <3>1. Rate * (now - s) \in Int /\ BP!Burst \in Int
      BY <1>0, FlowValues, FlowConstants DEF RateInv
    <3> QED BY <2>1, <2>2, <3>1, FlowConstants
  <2> HIDE DEF y, g, h, b, z
  <2>4. h - b + x <= z
    BY <2>3
  <2> QED BY <2>4 DEF h, b, z
<1>3. \A s \in 0 .. now : /\ before[a][s] \in Nat /\ granted'[a] \in Nat
                          /\ Rate * (now - s) \in Int
  BY <1>0, FlowValues DEF RateInv
<1>4. BP!RateHeld'
  <2> SUFFICES ASSUME NEW b \in BP!Accounts, NEW s \in 0 .. now
               PROVE  granted'[b] - before[b][s] <= BP!Burst + Rate * (now - s)
    BY DEF BP!RateHeld
  <2>1. CASE b = a
    <3>1. BP!Burst \in Nat
      BY FlowConstants
    <3> QED BY <1>2, <1>3, <2>1, <3>1
  <2>2. CASE b # a
    BY <2>2 DEF RateInv, Buckets, BP!RateHeld
  <2> QED BY <2>1, <2>2
<1>5. ASSUME NEW k \in 1 .. made, NEW b \in BP!Accounts, Uses(k, b[1], b[2])', NEW s \in 0 .. now
      PROVE  Covered(k, b, s)'
  <2>1. Uses(k, b[1], b[2])
    BY <1>0, <1>5
  <2>2. (k = l) <=> (b = a)
    BY <1>0, <2>1 DEF RateInv, OneLimiter
  <2>3. CASE k = l
    BY <1>0, <1>1, <1>2, <2>2, <2>3 DEF Covered
  <2>4. CASE k # l
    <3>1. Covered(k, b, s)
      BY <2>1 DEF RateInv, Buckets
    <3>2. k \in BP!Limiters
      BY MadeLimiters
    <3> QED BY <1>1, <2>2, <2>4, <3>1, <3>2 DEF Covered
  <2> QED BY <2>3, <2>4
<1>6. \A b \in BP!Accounts : b \notin Opened' => granted'[b] = 0
  BY <1>0 DEF RateInv, Buckets
<1>7. \A k \in BP!Limiters : refilled'[k] <= now' /\ (k > made' => tokens'[k] = BP!Burst)
  BY <1>0, <1>1 DEF RateInv, Buckets
<1>8. Buckets'
  BY <1>4, <1>5, <1>6, <1>7 DEF Buckets
<1> QED BY <1>1, <1>8

(* get_producer_limiter makes the first limiter of an epoch, for thread    *)
(* th: nobody uses it, nothing has been granted in the epoch, and the      *)
(* bucket is full.                                                         *)
LEMMA NewLimiter ==
    ASSUME RateInv, NEW th \in Threads, NEW p \in Producers, p = producer[th],
           limiterOf[p] = 0,
           bpPc' = [bpPc EXCEPT ![th] = "asking"],
           bpHeld' = [bpHeld EXCEPT ![th] = made + 1],
           asked' = [asked EXCEPT ![th] = epoch[p]],
           made' = made + 1,
           limiterOf' = [limiterOf EXCEPT ![p] = made + 1],
           refilled' = [refilled EXCEPT ![made + 1] = now],
           UNCHANGED <<now, producer, epoch, tokens, granted, before>>
    PROVE  RateInv'
<1> DEFINE n == made + 1
           e == epoch[p]
           a == <<p, e>>
<1>0. /\ now \in BP!Times /\ now \in Nat
      /\ bpPc \in [Threads -> {"idle", "read", "asking", "allowed"}]
      /\ producer \in [Threads -> AnyProducer] /\ bpHeld \in [Threads -> Nat]
      /\ limiterOf \in [Producers -> Nat] /\ made \in Nat
      /\ tokens \in [BP!Limiters -> 0 .. BP!Burst] /\ refilled \in [BP!Limiters -> Int]
      /\ epoch \in [Producers -> BP!Epochs] /\ asked \in [Threads -> BP!Epochs]
      /\ granted \in [BP!Accounts -> Nat]
      /\ before \in [BP!Accounts -> [BP!Times -> Nat]]
  BY FlowValues DEF RateInv, FlowTypes
<1>1. e \in BP!Epochs /\ e \in Nat /\ a \in BP!Accounts /\ a[1] = p /\ a[2] = e
  BY <1>0, AccountPairs
<1>2. a \notin Opened
  BY <1>1 DEF Opened
<1>3. Opened' = Opened \cup {a}
  <2>1. ASSUME NEW b \in BP!Accounts
        PROVE  b \in Opened' <=> (b \in Opened \/ b = a)
    <3>1. b[1] \in Producers /\ b[2] \in BP!Epochs /\ b = <<b[1], b[2]>> /\ b[2] \in Nat
      BY AccountPairs
    <3>2. CASE b[1] = p
      <4>1. limiterOf'[b[1]] # 0 /\ epoch'[b[1]] = e
        BY <1>0, <3>2
      <4>2. b \in Opened' <=> (b[2] < e \/ b[2] = e)
        BY <4>1 DEF Opened
      <4>3. b \in Opened <=> b[2] < e
        BY <1>0, <3>2 DEF Opened
      <4> QED BY <3>1, <3>2, <4>2, <4>3
    <3>3. CASE b[1] # p
      <4>1. limiterOf'[b[1]] = limiterOf[b[1]] /\ epoch'[b[1]] = epoch[b[1]]
        BY <1>0, <3>1, <3>3
      <4>2. b \in Opened' <=> b \in Opened
        BY <4>1 DEF Opened
      <4> QED BY <1>1, <3>3, <4>2
    <3> QED BY <3>2, <3>3
  <2>2. Opened \subseteq BP!Accounts /\ Opened' \subseteq BP!Accounts
    BY DEF Opened
  <2> QED BY <1>1, <2>1, <2>2
<1>4. Cardinality(Opened') = n /\ n <= Cardinality(BP!Accounts)
  <2>1. IsFiniteSet(Opened) /\ Cardinality(Opened) = made
    BY MadeLimiters DEF RateInv, OneLimiter
  <2>2. Cardinality(Opened \cup {a}) = n
    BY <1>2, <2>1, FS_AddElement
  <2>3. Opened' \subseteq BP!Accounts
    BY DEF Opened
  <2> QED BY <1>3, <2>2, <2>3, FlowConstants, FS_Subset
<1>5. n \in BP!Limiters /\ n \in Nat
  <2> DEFINE c == Cardinality(BP!Accounts)
  <2>1. BP!Limiters = 1 .. c /\ c \in Nat /\ n <= c
    BY <1>4, FlowConstants
  <2> HIDE DEF c
  <2> QED BY <1>0, <2>1
<1>6. /\ bpPc' \in [Threads -> {"idle", "read", "asking", "allowed"}]
      /\ bpHeld' \in [Threads -> Nat] /\ asked' \in [Threads -> BP!Epochs]
      /\ limiterOf' \in [Producers -> Nat] /\ refilled' \in [BP!Limiters -> Int]
  BY <1>0, <1>1, <1>5
<1>7. FlowTypes'
  BY <1>0, <1>5, <1>6 DEF FlowTypes
<1>8. /\ \A q \in Producers : limiterOf[q] <= made /\ limiterOf[q] \in Nat
      /\ \A u \in Threads : bpPc[u] = "asking" =>
            /\ bpHeld[u] \in 1 .. made /\ producer[u] \in Producers
            /\ asked[u] <= epoch[producer[u]]
            /\ asked[u] = epoch[producer[u]] => limiterOf[producer[u]] = bpHeld[u]
  BY <1>0 DEF RateInv, OneLimiter
<1>9. ASSUME NEW l \in 1 .. n, NEW q \in Producers, NEW f \in BP!Epochs, Uses(l, q, f)'
      PROVE  \/ l \in 1 .. made /\ Uses(l, q, f) /\ <<q, f>> # a
             \/ l = n /\ q = p /\ f = e
  <2>1. CASE limiterOf'[q] = l /\ epoch'[q] = f
    <3>1. CASE q = p
      BY <1>0, <2>1, <3>1
    <3>2. CASE q # p
      <4>1. limiterOf[q] = l /\ epoch[q] = f /\ l \in 1 .. made
        BY <1>0, <1>8, <2>1, <3>2
      <4> QED BY <3>2, <4>1 DEF Uses
    <3> QED BY <3>1, <3>2
  <2>2. ASSUME NEW u \in Threads, bpPc'[u] = "asking", bpHeld'[u] = l, producer'[u] = q,
               asked'[u] = f
        PROVE  \/ l \in 1 .. made /\ Uses(l, q, f) /\ <<q, f>> # a
               \/ l = n /\ q = p /\ f = e
    <3>1. CASE u = th
      BY <1>0, <2>2, <3>1
    <3>2. CASE u # th
      <4>1. bpPc[u] = "asking" /\ bpHeld[u] = l /\ producer[u] = q /\ asked[u] = f
        BY <1>0, <2>2, <3>2
      <4>2. Uses(l, q, f) /\ l \in 1 .. made
        BY <1>8, <4>1 DEF Uses
      <4>3. ~(q = p /\ f = e)
        BY <1>0, <1>8, <4>1
      <4> QED BY <4>2, <4>3
    <3> QED BY <3>1, <3>2
  <2> QED BY <1>9, <2>1, <2>2 DEF Uses
<1>10. ASSUME NEW k \in 1 .. made, NEW q \in Producers, NEW f \in BP!Epochs, Uses(k, q, f)
       PROVE  <<q, f>> # a
  BY <1>2, <1>10, MadeLimiters
<1> HIDE DEF n, e, a
<1>11. OneLimiter'
  <2>1. \A u \in Threads : bpPc'[u] # "idle" => producer'[u] \in Producers
    BY <1>0 DEF RateInv, OneLimiter
  <2>2. \A q \in Producers : limiterOf'[q] <= n
    BY <1>0, <1>8 DEF n
  <2>3. ASSUME NEW u \in Threads, bpPc'[u] = "asking"
        PROVE  /\ bpHeld'[u] \in 1 .. n
               /\ asked'[u] <= epoch[producer[u]]
               /\ asked'[u] = epoch[producer[u]] => limiterOf'[producer[u]] = bpHeld'[u]
    <3>1. CASE u = th
      BY <1>0, <1>1, <3>1 DEF n, e
    <3>2. CASE u # th
      <4>1. bpPc[u] = "asking" /\ bpHeld'[u] = bpHeld[u] /\ asked'[u] = asked[u]
        BY <1>0, <2>3, <3>2
      <4>2. bpHeld[u] \in 1 .. n
        BY <1>0, <1>8, <4>1 DEF n
      <4>3. asked[u] = epoch[producer[u]] => producer[u] # p
        BY <1>0, <1>8, <4>1
      <4> QED BY <1>0, <1>8, <4>1, <4>2, <4>3
    <3> QED BY <3>1, <3>2
  <2>4. \A l \in 1 .. n : \A q, r \in Producers : \A f, g \in BP!Epochs :
           Uses(l, q, f)' /\ Uses(l, r, g)' => q = r /\ f = g
    <3> SUFFICES ASSUME NEW l \in 1 .. n, NEW q \in Producers, NEW r \in Producers,
                        NEW f \in BP!Epochs, NEW g \in BP!Epochs,
                        Uses(l, q, f)', Uses(l, r, g)'
                 PROVE  q = r /\ f = g
      OBVIOUS
    <3>1. n \notin 1 .. made
      BY <1>0 DEF n
    <3>2. CASE l = n
      BY <1>9, <3>1, <3>2
    <3>3. CASE l # n
      BY <1>9, <3>3 DEF RateInv, OneLimiter
    <3> QED BY <3>2, <3>3
  <2>5. \A l, k \in 1 .. n : \A q \in Producers : \A f \in BP!Epochs :
           Uses(l, q, f)' /\ Uses(k, q, f)' => l = k
    <3> SUFFICES ASSUME NEW l \in 1 .. n, NEW k \in 1 .. n, NEW q \in Producers,
                        NEW f \in BP!Epochs, Uses(l, q, f)', Uses(k, q, f)'
                 PROVE  l = k
      OBVIOUS
    <3>1. CASE q = p /\ f = e
      BY <1>9, <3>1 DEF a
    <3>2. CASE ~(q = p /\ f = e)
      BY <1>9, <3>2 DEF RateInv, OneLimiter
    <3> QED BY <3>1, <3>2
  <2> QED BY <1>4, <2>1, <2>2, <2>3, <2>4, <2>5 DEF OneLimiter, n
<1>12. Buckets'
  <2>1. \A l \in BP!Limiters : refilled'[l] <= now' /\ (l > made' => tokens'[l] = BP!Burst)
    <3> SUFFICES ASSUME NEW l \in BP!Limiters
                 PROVE  refilled'[l] <= now /\ (l > made + 1 => tokens[l] = BP!Burst)
      OBVIOUS
    <3>1. l \in Nat /\ refilled[l] <= now /\ (l > made => tokens[l] = BP!Burst)
      BY FlowConstants DEF RateInv, Buckets
    <3>2. refilled'[l] = IF l = n THEN now ELSE refilled[l]
      BY <1>0 DEF n
    <3> QED BY <1>0, <3>1, <3>2
  <2>2. \A b \in BP!Accounts : b \notin Opened' => granted'[b] = 0
    BY <1>3 DEF RateInv, Buckets
  <2>3. ASSUME NEW l \in 1 .. n, NEW b \in BP!Accounts, Uses(l, b[1], b[2])', NEW s \in 0 .. now
        PROVE  Covered(l, b, s)'
    <3>0. b[1] \in Producers /\ b[2] \in BP!Epochs /\ b = <<b[1], b[2]>>
      BY AccountPairs
    <3>1. CASE l \in 1 .. made /\ Uses(l, b[1], b[2])
      <4>1. Covered(l, b, s)
        BY <3>1 DEF RateInv, Buckets
      <4>2. l # n /\ l \in BP!Limiters
        BY <1>0, <3>1, MadeLimiters DEF n
      <4>3. refilled'[l] = refilled[l]
        BY <1>0, <4>2 DEF n
      <4> QED BY <4>1, <4>3 DEF Covered
    <3>2. CASE l = n /\ b = a
      <4>1. granted[b] = 0 /\ tokens[l] = BP!Burst /\ refilled'[l] = now
        BY <1>0, <1>2, <1>5, <3>2 DEF RateInv, Buckets, n
      <4>2. /\ before[b][s] \in Nat /\ Rate * (now - s) \in Nat /\ BP!Burst \in Nat
            /\ s \in Nat /\ s <= now
        BY FlowValues, FlowConstants DEF RateInv
      <4>3. granted[b] - before[b][s] + tokens[l] <= BP!Burst + Rate * (now - s)
        BY <4>1, <4>2
      <4> QED BY <1>0, <4>1, <4>2, <4>3 DEF Covered
    <3> QED BY <1>9, <2>3, <3>0, <3>1, <3>2 DEF a
  <2>4. BP!RateHeld'
    BY DEF RateInv, Buckets, BP!RateHeld
  <2> QED BY <2>1, <2>2, <2>3, <2>4 DEF Buckets, n
<1> QED BY <1>7, <1>11, <1>12 DEF RateInv

(* Every step of every thread keeps the accounts of the limiters.          *)
LEMMA RateStep ==
    ASSUME RateInv, [BP!Next]_(BP!vars)
    PROVE  RateInv'
<1>0. /\ now \in BP!Times /\ now \in Nat
      /\ bpPc \in [Threads -> {"idle", "read", "asking", "allowed"}]
      /\ producer \in [Threads -> AnyProducer] /\ bpHeld \in [Threads -> Nat]
      /\ limiterOf \in [Producers -> Nat] /\ made \in Nat
      /\ tokens \in [BP!Limiters -> 0 .. BP!Burst] /\ refilled \in [BP!Limiters -> Int]
      /\ epoch \in [Producers -> BP!Epochs] /\ asked \in [Threads -> BP!Epochs]
      /\ granted \in [BP!Accounts -> Nat]
      /\ before \in [BP!Accounts -> [BP!Times -> Nat]]
      /\ \A e \in BP!Epochs : e \in Nat
      /\ 0 \in BP!Epochs
  BY FlowValues, FlowConstants DEF RateInv, FlowTypes, BP!Epochs
<1>1. /\ \A u \in Threads : bpPc[u] # "idle" => producer[u] \in Producers
      /\ \A q \in Producers : limiterOf[q] <= made
      /\ \A u \in Threads : bpPc[u] = "asking" =>
            /\ bpHeld[u] \in 1 .. made
            /\ asked[u] <= epoch[producer[u]]
            /\ asked[u] = epoch[producer[u]] => limiterOf[producer[u]] = bpHeld[u]
  BY DEF RateInv, OneLimiter
<1>2. ASSUME NEW th \in Threads,
             bpPc' \in [Threads -> {"idle", "read", "asking", "allowed"}],
             bpPc'[th] # "asking",
             \A u \in Threads : u # th => bpPc'[u] = bpPc[u] /\ producer'[u] = producer[u],
             producer' \in [Threads -> AnyProducer],
             bpPc'[th] # "idle" => producer'[th] \in Producers,
             UNCHANGED <<bpHeld, asked>>,
             UNCHANGED <<now, limiterOf, made, tokens, refilled, epoch, granted, before>>
      PROVE  RateInv'
  <2>1. FlowTypes'
    BY <1>0, <1>2 DEF FlowTypes
  <2>2. \A l \in 1 .. made : \A p \in Producers : \A e \in BP!Epochs :
            Uses(l, p, e)' => Uses(l, p, e)
    BY <1>2 DEF Uses
  <2> QED BY <1>1, <1>2, <2>1, <2>2, QuietFlow
<1>3. ASSUME NEW th \in Threads, NEW p \in Producers, BP!ReadDepth(th, p) PROVE RateInv'
  <2>1. /\ bpPc' = [bpPc EXCEPT ![th] = "read"] /\ producer' = [producer EXCEPT ![th] = p]
        /\ UNCHANGED <<bpHeld, asked>>
        /\ UNCHANGED <<now, limiterOf, made, tokens, refilled, epoch, granted, before>>
    BY <1>3 DEF BP!ReadDepth, BP!limiterVars, BP!ghostVars
  <2>2. p \in AnyProducer
    BY DEF AnyProducer
  <2>3. /\ bpPc' \in [Threads -> {"idle", "read", "asking", "allowed"}]
        /\ producer' \in [Threads -> AnyProducer]
        /\ bpPc'[th] = "read" /\ producer'[th] = p
        /\ \A u \in Threads : u # th => bpPc'[u] = bpPc[u] /\ producer'[u] = producer[u]
    BY <1>0, <2>1, <2>2
  <2> QED BY <1>2, <2>1, <2>3
<1>4. ASSUME NEW th \in Threads, BP!PublishOne(th) PROVE RateInv'
  <2>1. /\ bpPc' = [bpPc EXCEPT ![th] = "idle"]
        /\ UNCHANGED <<producer, bpHeld, asked>>
        /\ UNCHANGED <<now, limiterOf, made, tokens, refilled, epoch, granted, before>>
    BY <1>4 DEF BP!PublishOne, BP!limiterVars, BP!ghostVars
  <2>2. /\ bpPc' \in [Threads -> {"idle", "read", "asking", "allowed"}]
        /\ bpPc'[th] = "idle" /\ \A u \in Threads : u # th => bpPc'[u] = bpPc[u]
    BY <1>0, <2>1
  <2> QED BY <1>0, <1>2, <2>1, <2>2
<1>5. ASSUME NEW th \in Threads, BP!Check(th) PROVE RateInv'
  <2> DEFINE p == producer[th]
  <2>0. bpPc[th] = "read" /\ p \in Producers
    BY <1>1, <1>5 DEF BP!Check
  <2>1. CASE BP!TooDeep(th)
    <3>1. /\ bpPc' = [bpPc EXCEPT ![th] = "idle"]
          /\ UNCHANGED <<producer, bpHeld, asked>>
          /\ UNCHANGED <<now, limiterOf, made, tokens, refilled, epoch, granted, before>>
      BY <1>5, <2>1 DEF BP!Check, BP!limiterVars
    <3>2. /\ bpPc' \in [Threads -> {"idle", "read", "asking", "allowed"}]
          /\ bpPc'[th] = "idle" /\ \A u \in Threads : u # th => bpPc'[u] = bpPc[u]
      BY <1>0, <3>1
    <3> QED BY <1>0, <1>2, <3>1, <3>2
  <2>2. CASE ~BP!TooDeep(th) /\ limiterOf[p] # 0
    <3>1. /\ bpPc' = [bpPc EXCEPT ![th] = "asking"]
          /\ bpHeld' = [bpHeld EXCEPT ![th] = limiterOf[p]]
          /\ asked' = [asked EXCEPT ![th] = epoch[p]]
          /\ UNCHANGED <<now, producer, limiterOf, made, tokens, refilled, epoch, granted, before>>
      BY <1>5, <2>2 DEF BP!Check, BP!GetLimiter, BP!limiterVars
    <3>2. limiterOf[p] \in 1 .. made /\ epoch[p] \in BP!Epochs
      BY <1>0, <1>1, <2>0, <2>2
    <3>3. FlowTypes'
      BY <1>0, <3>1, <3>2 DEF FlowTypes
    <3>4. /\ bpPc'[th] = "asking" /\ bpHeld'[th] = limiterOf[p] /\ asked'[th] = epoch[p]
          /\ \A u \in Threads : u # th =>
                bpPc'[u] = bpPc[u] /\ bpHeld'[u] = bpHeld[u] /\ asked'[u] = asked[u]
      BY <1>0, <3>1
    <3>5. ASSUME NEW l \in 1 .. made, NEW q \in Producers, NEW e \in BP!Epochs, Uses(l, q, e)'
          PROVE  Uses(l, q, e)
      BY <3>1, <3>4, <3>5 DEF Uses
    <3>6. \A u \in Threads : bpPc'[u] = "asking" =>
               /\ bpHeld'[u] \in 1 .. made
               /\ asked'[u] <= epoch[producer'[u]]
               /\ asked'[u] = epoch[producer'[u]] => limiterOf[producer'[u]] = bpHeld'[u]
      <4>1. epoch[p] \in Nat
        BY <1>0, <3>2
      <4> QED BY <1>1, <3>1, <3>2, <3>4, <4>1
    <3>7. \A u \in Threads : bpPc'[u] # "idle" => producer'[u] \in Producers
      BY <1>1, <2>0, <3>1, <3>4
    <3> QED BY <3>1, <3>3, <3>5, <3>6, <3>7, QuietFlow
  <2>3. CASE ~BP!TooDeep(th) /\ limiterOf[p] = 0
    <3>1. /\ bpPc' = [bpPc EXCEPT ![th] = "asking"]
          /\ made' = made + 1
          /\ limiterOf' = [limiterOf EXCEPT ![p] = made + 1]
          /\ refilled' = [refilled EXCEPT ![made + 1] = now]
          /\ bpHeld' = [bpHeld EXCEPT ![th] = limiterOf'[p]]
          /\ asked' = [asked EXCEPT ![th] = epoch[p]]
          /\ UNCHANGED <<now, producer, tokens, epoch, granted, before>>
      BY <1>5, <2>3 DEF BP!Check, BP!GetLimiter
    <3>2. limiterOf'[p] = made + 1
      BY <1>0, <2>0, <3>1
    <3> QED BY <2>0, <2>3, <3>1, <3>2, NewLimiter
  <2> QED BY <2>1, <2>2, <2>3
<1>6. ASSUME NEW th \in Threads, BP!Acquire(th) PROVE RateInv'
  <2> DEFINE l == bpHeld[th]
             p == producer[th]
             e == asked[th]
             a == <<p, e>>
             x == BP!Spent(l)
  <2>1. /\ bpPc[th] = "asking"
        /\ bpPc' = [bpPc EXCEPT ![th] = IF BP!Refill(l) >= Scale THEN "allowed" ELSE "idle"]
        /\ tokens' = [tokens EXCEPT ![l] = x] /\ refilled' = [refilled EXCEPT ![l] = now]
        /\ granted' = IF BP!Refill(l) >= Scale THEN [granted EXCEPT ![a] = @ + Scale] ELSE granted
        /\ bpHeld' = [bpHeld EXCEPT ![th] = 0] /\ asked' = [asked EXCEPT ![th] = 0]
        /\ UNCHANGED <<now, epoch, producer, limiterOf, made, before>>
    BY <1>6 DEF BP!Acquire
  <2>2. l \in 1 .. made /\ p \in Producers /\ e \in BP!Epochs /\ Uses(l, p, e)
    BY <1>0, <1>1, <2>1 DEF Uses
  <2>3. a \in BP!Accounts /\ a[1] = p /\ a[2] = e
    BY <2>2, AccountPairs
  <2>4. BP!Refill(l) \in 0 .. BP!Burst /\ BP!Burst \in Nat /\ Scale \in Nat
    <3>1. 0 \in 0 .. now /\ l \in BP!Limiters
      BY <1>0, <2>2, MadeLimiters
    <3> QED BY <2>2, <2>3, <3>1, RefillCovers, FlowConstants
  <2>5. /\ x \in 0 .. BP!Burst
        /\ granted' \in [BP!Accounts -> Nat]
        /\ granted'[a] + x = granted[a] + BP!Refill(l)
        /\ \A b \in BP!Accounts : b # a => granted'[b] = granted[b]
    <3>1. granted[a] \in Nat
      BY <1>0, <2>3
    <3>2. CASE BP!Refill(l) >= Scale
      <4>1. x = BP!Refill(l) - Scale /\ granted' = [granted EXCEPT ![a] = granted[a] + Scale]
        BY <2>1, <3>2 DEF BP!Spent
      <4>2. granted'[a] = granted[a] + Scale
        BY <1>0, <2>3, <4>1
      <4>3. granted[a] + Scale \in Nat
        BY <2>4, <3>1
      <4>4. x \in 0 .. BP!Burst /\ granted'[a] + x = granted[a] + BP!Refill(l)
        <5> HIDE DEF x, a
        <5> QED BY <2>4, <3>1, <3>2, <4>1, <4>2
      <4> HIDE DEF x, a
      <4>5. /\ granted' \in [BP!Accounts -> Nat]
            /\ \A b \in BP!Accounts : b # a => granted'[b] = granted[b]
        BY <1>0, <4>1, <4>3
      <4> QED BY <4>4, <4>5
    <3>3. CASE ~(BP!Refill(l) >= Scale)
      <4>1. x = BP!Refill(l) /\ granted' = granted
        BY <2>1, <3>3 DEF BP!Spent
      <4> HIDE DEF x, a
      <4> QED BY <1>0, <2>4, <4>1
    <3> QED BY <3>2, <3>3
  <2>6. /\ bpPc' \in [Threads -> {"idle", "read", "asking", "allowed"}]
        /\ bpPc'[th] # "asking"
        /\ bpHeld' \in [Threads -> Nat] /\ asked' \in [Threads -> BP!Epochs]
        /\ \A u \in Threads : u # th =>
              bpPc'[u] = bpPc[u] /\ bpHeld'[u] = bpHeld[u] /\ asked'[u] = asked[u]
    BY <1>0, <2>1
  <2>7. \A k \in 1 .. made : \A q \in Producers : \A f \in BP!Epochs :
            Uses(k, q, f)' => Uses(k, q, f)
    BY <2>1, <2>6 DEF Uses
  <2>8. Opened' = Opened
    BY <2>1 DEF Opened
  <2> HIDE DEF x
  <2>9. /\ tokens' \in [BP!Limiters -> 0 .. BP!Burst] /\ refilled' \in [BP!Limiters -> Int]
        /\ Buckets'
    BY <2>1, <2>2, <2>5, <2>7, <2>8, RefillStep
  <2>10. FlowTypes'
    BY <1>0, <2>1, <2>5, <2>6, <2>9 DEF FlowTypes
  <2>11. OneLimiter'
    <3>1. \A u \in Threads : bpPc'[u] # "idle" => producer'[u] \in Producers
      BY <1>1, <2>1, <2>2, <2>6
    <3>2. \A u \in Threads : bpPc'[u] = "asking" =>
            /\ bpHeld'[u] \in 1 .. made'
            /\ asked'[u] <= epoch'[producer'[u]]
            /\ asked'[u] = epoch'[producer'[u]] => limiterOf'[producer'[u]] = bpHeld'[u]
      BY <1>1, <2>1, <2>6
    <3> QED BY <2>1, <2>7, <2>8, <3>1, <3>2 DEF RateInv, OneLimiter
  <2> QED BY <2>9, <2>10, <2>11 DEF RateInv
<1>7. ASSUME NEW p \in Producers, BP!AvailableTokens(p) PROVE RateInv'
  <2> DEFINE l == limiterOf[p]
             e == epoch[p]
             x == BP!Refill(l)
  <2>1. /\ l # 0
        /\ tokens' = [tokens EXCEPT ![l] = x] /\ refilled' = [refilled EXCEPT ![l] = now]
        /\ UNCHANGED <<now, epoch, bpPc, producer, bpHeld, asked, limiterOf, made, granted, before>>
    BY <1>7 DEF BP!AvailableTokens, BP!callVars, BP!ghostVars
  <2>2. l \in 1 .. made /\ e \in BP!Epochs /\ Uses(l, p, e)
    BY <1>0, <1>1, <2>1 DEF Uses
  <2>3. <<p, e>> \in BP!Accounts /\ <<p, e>>[1] = p /\ <<p, e>>[2] = e
    BY <2>2, AccountPairs
  <2>4. x \in 0 .. BP!Burst
    <3>1. 0 \in 0 .. now /\ l \in BP!Limiters
      BY <1>0, <2>2, MadeLimiters
    <3> QED BY <2>2, <2>3, <3>1, RefillCovers
  <2>5. \A k \in 1 .. made : \A q \in Producers : \A f \in BP!Epochs :
            Uses(k, q, f)' => Uses(k, q, f)
    BY <2>1 DEF Uses
  <2>6. Opened' = Opened
    BY <2>1 DEF Opened
  <2>7. /\ granted' \in [BP!Accounts -> Nat]
        /\ granted'[<<p, e>>] + x = granted[<<p, e>>] + BP!Refill(l)
        /\ \A b \in BP!Accounts : b # <<p, e>> => granted'[b] = granted[b]
    BY <1>0, <2>1
  <2> HIDE DEF x
  <2>8. /\ tokens' \in [BP!Limiters -> 0 .. BP!Burst] /\ refilled' \in [BP!Limiters -> Int]
        /\ Buckets'
    BY <2>1, <2>2, <2>4, <2>5, <2>6, <2>7, RefillStep
  <2>9. FlowTypes'
    BY <1>0, <2>1, <2>8 DEF FlowTypes
  <2>10. OneLimiter'
    BY <2>1, <2>5, <2>6 DEF RateInv, OneLimiter
  <2> QED BY <2>8, <2>9, <2>10 DEF RateInv
<1>8. ASSUME NEW p \in Producers, BP!RemoveProducer(p) PROVE RateInv'
  <2>1. /\ limiterOf[p] # 0 /\ epoch[p] < MaxRemovals
        /\ epoch' = [epoch EXCEPT ![p] = epoch[p] + 1]
        /\ limiterOf' = [limiterOf EXCEPT ![p] = 0]
        /\ UNCHANGED <<now, bpPc, producer, bpHeld, asked, made, tokens, refilled, granted, before>>
    BY <1>8 DEF BP!RemoveProducer, BP!callVars, BP!ghostVars
  <2>2. epoch[p] \in Nat /\ epoch[p] + 1 \in BP!Epochs
    BY <1>0, <2>1, FlowConstants DEF BP!Epochs
  <2>3. /\ epoch' \in [Producers -> BP!Epochs] /\ limiterOf' \in [Producers -> Nat]
        /\ epoch'[p] = epoch[p] + 1 /\ limiterOf'[p] = 0
        /\ \A q \in Producers : q # p => epoch'[q] = epoch[q] /\ limiterOf'[q] = limiterOf[q]
    BY <1>0, <2>1, <2>2
  <2>4. FlowTypes'
    BY <1>0, <2>1, <2>3 DEF FlowTypes
  <2>5. ASSUME NEW k \in 1 .. made, NEW q \in Producers, NEW f \in BP!Epochs, Uses(k, q, f)'
        PROVE  Uses(k, q, f)
    <3>1. CASE limiterOf'[q] = k /\ epoch'[q] = f
      <4>1. q # p
        BY <2>3, <3>1
      <4> QED BY <2>3, <3>1, <4>1 DEF Uses
    <3> QED BY <2>1, <2>5, <3>1 DEF Uses
  <2>6. Opened' = Opened
    <3>1. ASSUME NEW b \in BP!Accounts PROVE b \in Opened' <=> b \in Opened
      <4>1. b[1] \in Producers /\ b[2] \in Nat
        BY <1>0, AccountPairs
      <4>2. CASE b[1] = p
        <5>1. b \in Opened' <=> (b[2] < epoch[p] + 1 \/ (b[2] = epoch[p] + 1 /\ 0 # 0))
          BY <2>3, <4>2 DEF Opened
        <5>2. b \in Opened <=> (b[2] < epoch[p] \/ b[2] = epoch[p])
          BY <2>1, <4>2 DEF Opened
        <5> QED BY <2>2, <4>1, <5>1, <5>2
      <4>3. CASE b[1] # p
        BY <2>3, <4>1, <4>3 DEF Opened
      <4> QED BY <4>2, <4>3
    <3>2. Opened \subseteq BP!Accounts /\ Opened' \subseteq BP!Accounts
      BY DEF Opened
    <3> QED BY <3>1, <3>2
  <2>7. OneLimiter'
    <3>1. \A q \in Producers : limiterOf'[q] <= made'
      BY <1>0, <1>1, <2>1, <2>3
    <3>2. ASSUME NEW u \in Threads, bpPc[u] = "asking"
          PROVE  /\ asked[u] <= epoch'[producer[u]]
                 /\ asked[u] = epoch'[producer[u]] => limiterOf'[producer[u]] = bpHeld[u]
      <4>1. producer[u] \in Producers /\ asked[u] \in Nat /\ asked[u] <= epoch[producer[u]]
        BY <1>0, <1>1, <3>2
      <4>2. CASE producer[u] = p
        BY <2>2, <2>3, <4>1, <4>2
      <4>3. CASE producer[u] # p
        BY <1>1, <2>3, <3>2, <4>1, <4>3
      <4> QED BY <4>2, <4>3
    <3> QED BY <1>1, <2>1, <2>5, <2>6, <3>1, <3>2 DEF RateInv, OneLimiter
  <2>8. Buckets'
    <3>1. \A b \in BP!Accounts : b[1] \in Producers /\ b[2] \in BP!Epochs
      BY AccountPairs
    <3>2. \A l \in 1 .. made : \A b \in BP!Accounts : \A s : Covered(l, b, s) => Covered(l, b, s)'
      BY <2>1 DEF Covered
    <3>3. BP!RateHeld'
      BY <2>1 DEF RateInv, Buckets, BP!RateHeld
    <3> QED BY <2>1, <2>5, <2>6, <3>1, <3>2, <3>3 DEF RateInv, Buckets
  <2> QED BY <2>4, <2>7, <2>8 DEF RateInv
<1>9. ASSUME BP!Tick PROVE RateInv'
  <2> DEFINE t == now + 1
  <2>1. /\ now < MaxTime /\ now' = t
        /\ before' = [a \in BP!Accounts |-> [before[a] EXCEPT ![t] = granted[a]]]
        /\ UNCHANGED <<epoch, bpPc, producer, bpHeld, asked, limiterOf, made, tokens, refilled, granted>>
    BY <1>9 DEF BP!Tick, BP!callVars, BP!limiterVars
  <2>2. t \in BP!Times /\ t \in Nat
    BY <1>0, <2>1, FlowConstants DEF BP!Times
  <2>3. \A a \in BP!Accounts : /\ before'[a] \in [BP!Times -> Nat]
                               /\ before'[a][t] = granted[a]
                               /\ \A s \in 0 .. now : before'[a][s] = before[a][s]
    <3> SUFFICES ASSUME NEW a \in BP!Accounts
                 PROVE  /\ before'[a] \in [BP!Times -> Nat]
                        /\ before'[a][t] = granted[a]
                        /\ \A s \in 0 .. now : before'[a][s] = before[a][s]
      OBVIOUS
    <3>1. before[a] \in [BP!Times -> Nat] /\ granted[a] \in Nat
      BY <1>0
    <3>2. before'[a] = [before[a] EXCEPT ![t] = granted[a]]
      BY <2>1
    <3>3. \A s \in 0 .. now : s # t /\ s \in BP!Times
      BY <1>0, FlowConstants DEF BP!Times
    <3> HIDE DEF t
    <3> QED BY <2>2, <3>1, <3>2, <3>3
  <2>4. before' \in [BP!Accounts -> [BP!Times -> Nat]]
    <3>1. DOMAIN before' = BP!Accounts /\ before' = [a \in BP!Accounts |-> before'[a]]
      BY <2>1
    <3> QED BY <2>3, <3>1
  <2>5. FlowTypes'
    BY <1>0, <2>1, <2>2, <2>4 DEF FlowTypes
  <2>6. Opened' = Opened /\ \A l, p, e : Uses(l, p, e)' <=> Uses(l, p, e)
    BY <2>1 DEF Opened, Uses
  <2>7. OneLimiter'
    BY <2>1, <2>6 DEF RateInv, OneLimiter
  <2>8. \A s \in 0 .. t : s \in 0 .. now \/ s = t
    BY <1>0
  <2>9. \A l \in BP!Limiters : refilled[l] \in Int /\ refilled[l] <= now
    BY <1>0 DEF RateInv, Buckets
  <2>10. ASSUME NEW l \in 1 .. made, NEW a \in BP!Accounts, Uses(l, a[1], a[2]),
                NEW s \in 0 .. t
         PROVE  Covered(l, a, s)'
    <3>1. l \in BP!Limiters
      BY MadeLimiters
    <3>2. CASE s \in 0 .. now
      <4>1. Covered(l, a, s)
        BY <2>10, <3>2 DEF RateInv, Buckets
      <4> QED BY <2>1, <2>3, <3>2, <4>1 DEF Covered
    <3>3. CASE s = t
      <4>1. s > refilled[l] /\ ~(s <= refilled[l])
        BY <1>0, <2>9, <3>1, <3>3
      <4> QED BY <2>1, <2>3, <3>3, <4>1 DEF Covered
    <3> QED BY <2>8, <3>2, <3>3
  <2>11. BP!RateHeld'
    <3> SUFFICES ASSUME NEW a \in BP!Accounts, NEW s \in 0 .. t
                 PROVE  granted[a] - before'[a][s] <= BP!Burst + Rate * (t - s)
      BY <2>1 DEF BP!RateHeld
    <3>1. CASE s \in 0 .. now
      <4>1. granted[a] - before[a][s] <= BP!Burst + Rate * (now - s)
        BY <3>1 DEF RateInv, Buckets, BP!RateHeld
      <4>2. /\ before[a][s] \in Nat /\ granted[a] \in Nat /\ BP!Burst \in Nat
            /\ Rate * (now - s) \in Nat /\ s \in Nat /\ Rate \in Nat
        BY <3>1, FlowValues, FlowConstants DEF RateInv
      <4>3. Rate * (t - s) = Rate * (now - s) + Rate
        BY <1>0, <4>2
      <4>4. before'[a][s] = before[a][s]
        BY <2>3, <3>1
      <4> HIDE DEF t
      <4> QED BY <4>1, <4>2, <4>3, <4>4
    <3>2. CASE s = t
      <4>1. before'[a][s] = granted[a] /\ granted[a] \in Nat /\ BP!Burst \in Nat /\ Rate \in Nat
        BY <1>0, <2>3, <3>2, FlowConstants
      <4>2. Rate * (t - s) = 0
        BY <1>0, <3>2, <4>1
      <4> QED BY <4>1, <4>2
    <3> QED BY <2>8, <3>1, <3>2
  <2>12. Buckets'
    <3>1. \A l \in BP!Limiters : refilled'[l] <= now' /\ (l > made' => tokens'[l] = BP!Burst)
      <4>1. \A l \in BP!Limiters : l > made => tokens[l] = BP!Burst
        BY DEF RateInv, Buckets
      <4> QED BY <1>0, <2>1, <2>9, <4>1
    <3>2. \A a \in BP!Accounts : a \notin Opened' => granted'[a] = 0
      BY <2>1, <2>6 DEF RateInv, Buckets
    <3>3. \A l \in 1 .. made' : \A a \in BP!Accounts :
             Uses(l, a[1], a[2])' => \A s \in 0 .. now' : Covered(l, a, s)'
      BY <2>1, <2>6, <2>10
    <3> QED BY <2>11, <3>1, <3>2, <3>3 DEF Buckets
  <2> QED BY <2>5, <2>7, <2>12 DEF RateInv
<1>10. CASE UNCHANGED <<now, bpPc, producer, bpHeld, asked, limiterOf, made, tokens, refilled,
                        epoch, granted, before>>
  <2>1. FlowTypes'
    BY <1>0, <1>10 DEF FlowTypes
  <2>2. \A l \in 1 .. made : \A p \in Producers : \A e \in BP!Epochs :
            Uses(l, p, e)' => Uses(l, p, e)
    BY <1>10 DEF Uses
  <2> QED BY <1>1, <1>10, <2>1, <2>2, QuietFlow
<1>11. BP!Drain \/ UNCHANGED BP!vars =>
          UNCHANGED <<now, bpPc, producer, bpHeld, asked, limiterOf, made, tokens, refilled,
                      epoch, granted, before>>
  BY DEF BP!Drain, BP!vars, BP!callVars, BP!limiterVars, BP!ghostVars
<1> QED BY <1>3, <1>4, <1>5, <1>6, <1>7, <1>8, <1>9, <1>10, <1>11 DEF BP!Next

(* The initial state of flow control.                                      *)
LEMMA RateInit ==
    ASSUME BP!Init
    PROVE  RateInv
<1>1. /\ now = 0 /\ bpPc = [th \in Threads |-> "idle"]
      /\ producer = [th \in Threads |-> CHOOSE p \in Producers : TRUE]
      /\ bpHeld = [th \in Threads |-> 0] /\ limiterOf = [p \in Producers |-> 0]
      /\ made = 0 /\ tokens = [l \in BP!Limiters |-> BP!Burst]
      /\ refilled = [l \in BP!Limiters |-> 0] /\ epoch = [p \in Producers |-> 0]
      /\ asked = [th \in Threads |-> 0] /\ granted = [a \in BP!Accounts |-> 0]
      /\ before = [a \in BP!Accounts |-> [t \in BP!Times |-> 0]]
  BY DEF BP!Init
<1>2. 0 \in BP!Times /\ 0 \in BP!Epochs /\ BP!Burst \in Nat /\ Rate \in Nat
  BY FlowConstants DEF BP!Times, BP!Epochs
<1>3. FlowTypes
  BY <1>1, <1>2 DEF FlowTypes, AnyProducer
<1>4. Opened = {} /\ Cardinality({}) = 0
  <2>1. \A a \in BP!Accounts : limiterOf[a[1]] = 0 /\ ~(a[2] < epoch[a[1]])
    BY <1>1, AccountPairs
  <2> QED BY <2>1, FS_EmptySet DEF Opened
<1>5. OneLimiter
  BY <1>1, <1>4 DEF OneLimiter
<1>6. BP!RateHeld
  <2> SUFFICES ASSUME NEW a \in BP!Accounts, NEW s \in 0 .. 0
               PROVE  granted[a] - before[a][s] <= BP!Burst + Rate * (0 - s)
    BY <1>1 DEF BP!RateHeld
  <2>1. s = 0 /\ granted[a] = 0 /\ before[a][s] = 0 /\ Rate * (0 - s) = 0
    BY <1>1, <1>2
  <2> QED BY <1>2, <2>1
<1>7. Buckets
  <2>1. \A l \in BP!Limiters : refilled[l] <= now /\ tokens[l] = BP!Burst
    BY <1>1
  <2>2. \A a \in BP!Accounts : granted[a] = 0
    BY <1>1
  <2> QED BY <1>1, <1>6, <2>1, <2>2 DEF Buckets
<1> QED BY <1>3, <1>5, <1>7 DEF RateInv

(* The token bucket's promise (backpressure.py 37-49, 64-72), with any     *)
(* number of threads and producers and at any rate: in no interval is a    *)
(* producer granted more than the burst and what the rate yields.          *)
THEOREM RateLimited == Spec => []RateHeld
<1>1. Init => RateInv
  BY RateInit DEF Init
<1>2. RateInv /\ [Next]_vars => RateInv'
  BY OnlyBackpressure, RateStep
<1>3. RateInv => RateHeld
  BY DEF RateInv, Buckets, RateHeld
<1> QED BY <1>1, <1>2, <1>3, PTL DEF Spec

(* What a bucket has at least: all of the burst, or what the rate has      *)
(* yielded since the last grant.                                           *)
Filled(t, r, z) == z <= r /\ (t = BP!Burst \/ t >= Rate * (r - z))

SustainInv ==
    /\ last \in [BP!Accounts -> Int]
    /\ \A p \in Producers : limiterOf[p] # 0 =>
          Filled(tokens[limiterOf[p]], refilled[limiterOf[p]], last[<<p, epoch[p]>>])

(* A refill keeps what the rate has yielded.                               *)
LEMMA RefillKeeps ==
    ASSUME RateInv, SustainInv, NEW p \in Producers, limiterOf[p] # 0
    PROVE  LET l == limiterOf[p]
               a == <<p, epoch[p]>>
           IN  /\ l \in 1 .. made /\ l \in BP!Limiters /\ a \in BP!Accounts
               /\ last[a] <= now /\ last[a] \in Int /\ now \in Nat
               /\ Uses(l, p, epoch[p]) /\ epoch[p] \in BP!Epochs
               /\ BP!Refill(l) = BP!Burst \/ BP!Refill(l) >= Rate * (now - last[a])
<1> DEFINE l == limiterOf[p]
           e == epoch[p]
           a == <<p, e>>
           t == tokens[l]
           r == refilled[l]
           z == last[a]
           B == BP!Burst
           x == t + Rate * (now - r)
<1>1. l \in 1 .. made /\ e \in BP!Epochs
  BY DEF RateInv, FlowTypes, OneLimiter
<1>2. l \in BP!Limiters /\ a \in BP!Accounts /\ Uses(l, p, e)
  BY <1>1, MadeLimiters, AccountPairs DEF Uses
<1>3. /\ now \in Nat /\ t \in 0 .. B /\ r \in Int /\ r <= now /\ z \in Int /\ B \in Nat
      /\ Rate \in Nat /\ z <= r /\ (t = B \/ t >= Rate * (r - z))
  <2>1. now \in Nat
    BY FlowValues DEF RateInv
  <2>2. t \in 0 .. B /\ r \in Int
    BY <1>2 DEF RateInv, FlowTypes
  <2>3. r <= now
    BY <1>2 DEF RateInv, Buckets
  <2>4. z \in Int /\ z <= r /\ (t = B \/ t >= Rate * (r - z))
    BY <1>2 DEF SustainInv, Filled
  <2> HIDE DEF t, r, z, B
  <2> QED BY <2>1, <2>2, <2>3, <2>4, FlowConstants DEF B
<1>4. BP!Refill(l) = IF x < B THEN x ELSE B
  BY DEF BP!Refill
<1> HIDE DEF t, r, z, B
<1>5. /\ Rate * (now - r) \in Nat /\ Rate * (r - z) \in Nat
      /\ Rate * (r - z) + Rate * (now - r) = Rate * (now - z)
  <2>1. now - r \in Nat /\ r - z \in Nat /\ (r - z) + (now - r) = now - z
    BY <1>3
  <2> QED BY <2>1, <1>3, RateArithmetic
<1> DEFINE u == Rate * (now - r)
           w == Rate * (r - z)
           v == Rate * (now - z)
<1>6. x = t + u /\ u \in Nat /\ w \in Nat /\ w + u = v /\ (t = B \/ t >= w)
  BY <1>3, <1>5
<1> HIDE DEF u, v, w, x
<1>7. LET f == IF x < B THEN x ELSE B IN f = B \/ f >= v
  BY <1>3, <1>6
<1>8. z <= now
  BY <1>3
<1> QED BY <1>1, <1>2, <1>3, <1>4, <1>7, <1>8 DEF v, B, z

(* Every step keeps the buckets filled as far.                             *)
LEMMA SustainStep ==
    ASSUME RateInv, SustainInv, [BP!Next]_(BP!vars)
    PROVE  SustainInv'
<1>0. /\ limiterOf \in [Producers -> Nat] /\ made \in Nat /\ now \in Nat
      /\ tokens \in [BP!Limiters -> 0 .. BP!Burst] /\ refilled \in [BP!Limiters -> Int]
      /\ epoch \in [Producers -> BP!Epochs] /\ asked \in [Threads -> BP!Epochs]
      /\ last \in [BP!Accounts -> Int] /\ Rate \in Nat /\ BP!Burst \in Nat /\ Rate * 0 = 0
  BY FlowValues, FlowConstants DEF RateInv, FlowTypes, SustainInv
<1>1. \A q \in Producers : limiterOf[q] # 0 =>
          /\ limiterOf[q] \in 1 .. made /\ limiterOf[q] \in BP!Limiters
          /\ <<q, epoch[q]>> \in BP!Accounts /\ epoch[q] \in BP!Epochs
          /\ Uses(limiterOf[q], q, epoch[q])
          /\ Filled(tokens[limiterOf[q]], refilled[limiterOf[q]], last[<<q, epoch[q]>>])
  BY RefillKeeps DEF SustainInv
<1>3. CASE UNCHANGED <<limiterOf, epoch, tokens, refilled, last>>
  BY <1>3 DEF SustainInv
<1>4. ASSUME NEW th \in Threads, BP!Check(th) PROVE SustainInv'
  <2> DEFINE p == producer[th]
             n == made + 1
             a == <<p, epoch[p]>>
  <2>0. p \in Producers
    BY <1>4 DEF RateInv, OneLimiter, BP!Check
  <2>1. CASE limiterOf[p] # 0 \/ BP!TooDeep(th)
    BY <1>3, <1>4, <2>1 DEF BP!Check, BP!GetLimiter, BP!limiterVars
  <2>2. CASE limiterOf[p] = 0 /\ ~BP!TooDeep(th)
    <3>1. /\ made' = n /\ limiterOf' = [limiterOf EXCEPT ![p] = n]
          /\ refilled' = [refilled EXCEPT ![n] = now] /\ last' = [last EXCEPT ![a] = now]
          /\ UNCHANGED <<tokens, epoch>>
      BY <1>4, <2>2 DEF BP!Check, BP!GetLimiter
    <3>2. RateInv'
      BY RateStep
    <3>3. n \in BP!Limiters /\ a \in BP!Accounts
      <4>1. 1 .. made' \subseteq BP!Limiters
        <5>1. made' \in Nat /\ made' <= Cardinality(BP!Accounts)
          <6>1. Opened' \subseteq BP!Accounts /\ Cardinality(Opened') = made'
            BY <3>2 DEF Opened, RateInv, OneLimiter
          <6> QED BY <1>0, <3>1, <6>1, FlowConstants, FS_Subset
        <5> DEFINE c == Cardinality(BP!Accounts)
        <5>2. BP!Limiters = 1 .. c /\ c \in Nat /\ made' \in Nat /\ made' <= c
          BY <5>1, FlowConstants
        <5> HIDE DEF c
        <5> QED BY <5>2
      <4> QED BY SMTT(40), <1>0, <2>0, <3>1, <4>1, AccountPairs
    <3>4. last' \in [BP!Accounts -> Int]
      BY <1>0, <3>1, <3>3
    <3>5. ASSUME NEW q \in Producers, limiterOf'[q] # 0
          PROVE  Filled(tokens'[limiterOf'[q]], refilled'[limiterOf'[q]], last'[<<q, epoch'[q]>>])
      <4>1. CASE q = p
        <5>1. /\ limiterOf'[q] = n /\ <<q, epoch'[q]>> = a /\ last'[a] = now
              /\ refilled'[n] = now /\ tokens'[n] = tokens[n]
          BY <1>0, <2>0, <3>1, <3>3, <4>1
        <5>2. tokens[n] = BP!Burst
          BY <1>0, <3>3 DEF RateInv, Buckets
        <5> QED BY <1>0, <5>1, <5>2 DEF Filled
      <4>2. CASE q # p
        <5>1. limiterOf'[q] = limiterOf[q] /\ limiterOf[q] # 0 /\ epoch'[q] = epoch[q]
          BY <1>0, <3>1, <3>5, <4>2
        <5>2. limiterOf[q] # n /\ limiterOf[q] \in BP!Limiters
          <6>1. limiterOf[q] \in 1 .. made /\ limiterOf[q] \in BP!Limiters
            BY <1>1, <5>1
          <6> QED BY <1>0, <6>1
        <5>3. refilled'[limiterOf[q]] = refilled[limiterOf[q]]
          BY <1>0, <3>1, <5>2
        <5>4. last'[<<q, epoch[q]>>] = last[<<q, epoch[q]>>]
          BY <1>0, <1>1, <3>1, <4>2, <5>1
        <5> QED BY <1>1, <3>1, <5>1, <5>3, <5>4
      <4> QED BY <4>1, <4>2
    <3> QED BY <3>4, <3>5 DEF SustainInv
  <2> QED BY <2>1, <2>2
<1>5. ASSUME NEW th \in Threads, BP!Acquire(th) PROVE SustainInv'
  <2> DEFINE l == bpHeld[th]
             p == producer[th]
             e == asked[th]
             a == <<p, e>>
             ok == BP!Refill(l) >= Scale
  <2>1. /\ bpPc[th] = "asking"
        /\ tokens' = [tokens EXCEPT ![l] = BP!Spent(l)]
        /\ refilled' = [refilled EXCEPT ![l] = now]
        /\ last' = IF ok THEN [last EXCEPT ![a] = now] ELSE last
        /\ UNCHANGED <<epoch, limiterOf, made, now>>
    BY <1>5 DEF BP!Acquire
  <2>2. l \in 1 .. made /\ p \in Producers /\ e \in BP!Epochs /\ Uses(l, p, e)
    BY <1>0, <2>1 DEF Uses, RateInv, OneLimiter
  <2>3. l \in BP!Limiters /\ a \in BP!Accounts
    BY <2>2, MadeLimiters, AccountPairs
  <2>4. last' \in [BP!Accounts -> Int]
    BY <1>0, <2>1, <2>3
  <2>5. ASSUME NEW q \in Producers, limiterOf'[q] # 0
        PROVE  Filled(tokens'[limiterOf'[q]], refilled'[limiterOf'[q]], last'[<<q, epoch'[q]>>])
    <3> DEFINE k == limiterOf[q]
               b == <<q, epoch[q]>>
    <3>0. limiterOf'[q] = k /\ k # 0 /\ <<q, epoch'[q]>> = b
      BY <2>1, <2>5
    <3>1. k \in 1 .. made /\ k \in BP!Limiters /\ b \in BP!Accounts /\ Uses(k, q, epoch[q])
          /\ epoch[q] \in BP!Epochs /\ Filled(tokens[k], refilled[k], last[b])
      BY <1>1, <3>0
    <3>2. CASE k = l
      <4>1. b = a
        BY <2>2, <3>1, <3>2 DEF RateInv, OneLimiter
      <4>2. refilled'[k] = now /\ tokens'[k] = BP!Spent(k)
        BY <1>0, <2>1, <2>3, <3>2
      <4>3. tokens'[k] \in 0 .. BP!Burst
        <5>1. RateInv'
          BY RateStep
        <5> QED BY <3>1, <5>1 DEF RateInv, FlowTypes
      <4>4. CASE ok
        <5>1. last'[b] = now
          BY <1>0, <2>1, <2>3, <4>1, <4>4
        <5> QED BY <1>0, <3>0, <4>2, <4>3, <5>1 DEF Filled
      <4>5. CASE ~ok
        <5>1. last'[b] = last[b] /\ tokens'[k] = BP!Refill(k)
          BY <2>1, <3>2, <4>2, <4>5 DEF BP!Spent
        <5>2. last[b] <= now /\ (BP!Refill(k) = BP!Burst \/ BP!Refill(k) >= Rate * (now - last[b]))
          BY <3>0, RefillKeeps
        <5> QED BY <3>0, <4>2, <5>1, <5>2 DEF Filled
      <4> QED BY <4>4, <4>5
    <3>3. CASE k # l
      <4>1. b # a
        BY <2>2, <3>1, <3>3 DEF RateInv, OneLimiter
      <4>2. refilled'[k] = refilled[k] /\ tokens'[k] = tokens[k] /\ last'[b] = last[b]
        BY <1>0, <2>1, <3>1, <3>3, <4>1
      <4> QED BY <3>0, <3>1, <4>2
    <3> QED BY <3>2, <3>3
  <2> QED BY <2>4, <2>5 DEF SustainInv
<1>6. ASSUME NEW p \in Producers, BP!AvailableTokens(p) PROVE SustainInv'
  <2> DEFINE l == limiterOf[p]
  <2>1. /\ l # 0 /\ tokens' = [tokens EXCEPT ![l] = BP!Refill(l)]
        /\ refilled' = [refilled EXCEPT ![l] = now]
        /\ UNCHANGED <<limiterOf, epoch, last, now>>
    BY <1>6 DEF BP!AvailableTokens, BP!ghostVars
  <2>2. ASSUME NEW q \in Producers, limiterOf'[q] # 0
        PROVE  Filled(tokens'[limiterOf'[q]], refilled'[limiterOf'[q]], last'[<<q, epoch'[q]>>])
    <3> DEFINE k == limiterOf[q]
               b == <<q, epoch[q]>>
    <3>0. limiterOf'[q] = k /\ k # 0 /\ <<q, epoch'[q]>> = b
      BY <2>1, <2>2
    <3>1. k \in 1 .. made /\ k \in BP!Limiters /\ Filled(tokens[k], refilled[k], last[b])
      BY <1>1, <3>0
    <3>2. CASE k = l
      <4>1. refilled'[k] = now /\ tokens'[k] = BP!Refill(k) /\ last'[b] = last[b]
        BY <1>0, <2>1, <3>1, <3>2
      <4>2. last[b] <= now /\ (BP!Refill(k) = BP!Burst \/ BP!Refill(k) >= Rate * (now - last[b]))
        BY <3>0, RefillKeeps
      <4> QED BY <3>0, <4>1, <4>2 DEF Filled
    <3>3. CASE k # l
      <4>1. refilled'[k] = refilled[k] /\ tokens'[k] = tokens[k] /\ last'[b] = last[b]
        BY <1>0, <2>1, <3>1, <3>3
      <4> QED BY <3>0, <3>1, <4>1
    <3> QED BY <3>2, <3>3
  <2> QED BY <1>0, <2>1, <2>2 DEF SustainInv
<1>7. ASSUME NEW p \in Producers, BP!RemoveProducer(p) PROVE SustainInv'
  <2>1. /\ epoch' = [epoch EXCEPT ![p] = @ + 1] /\ limiterOf' = [limiterOf EXCEPT ![p] = 0]
        /\ UNCHANGED <<tokens, refilled, last>>
    BY <1>7 DEF BP!RemoveProducer, BP!ghostVars
  <2>2. \A q \in Producers : limiterOf'[q] # 0 => limiterOf'[q] = limiterOf[q] /\ epoch'[q] = epoch[q]
    BY <1>0, <2>1
  <2> QED BY <1>0, <1>1, <2>1, <2>2 DEF SustainInv
<1>8. \/ \E th \in Threads : BP!Check(th) \/ BP!Acquire(th)
      \/ \E p \in Producers : BP!AvailableTokens(p) \/ BP!RemoveProducer(p)
      \/ UNCHANGED <<limiterOf, epoch, tokens, refilled, last>>
  BY DEF BP!Next, BP!vars, BP!limiterVars, BP!ghostVars, BP!callVars, BP!ReadDepth,
         BP!PublishOne, BP!Drain, BP!Tick
<1> QED BY <1>3, <1>4, <1>5, <1>6, <1>7, <1>8

(* What backpressure.py:26 says of rate, where the burst is not rounded    *)
(* down to nothing: a producer that has waited for the time of one token   *)
(* is not refused, with any number of threads that ask for it.             *)
THEOREM RateSustained ==
    ASSUME 2 * Rate >= Scale
    PROVE  Spec => []Sustained
<1>1. Init => RateInv /\ SustainInv
  <2> SUFFICES ASSUME BP!Init PROVE SustainInv
    BY RateInit DEF Init
  <2>1. last = [a \in BP!Accounts |-> 0] /\ limiterOf = [p \in Producers |-> 0]
    BY DEF BP!Init
  <2> QED BY <2>1 DEF SustainInv
<1>2. RateInv /\ SustainInv /\ [Next]_vars => (RateInv /\ SustainInv)'
  BY OnlyBackpressure, RateStep, SustainStep
<1>3. RateInv /\ SustainInv => Sustained
  <2>1. BP!Burst >= Scale
    <3>1. Rate \in Nat /\ Scale \in Nat \ {0}
      BY FlowConstants
    <3> DEFINE d == (2 * Rate) \div Scale
    <3>2. d \in Nat /\ d >= 1
      BY <3>1
    <3>3. d * Scale >= Scale
      <4> HIDE DEF d
      <4> QED BY <3>1, <3>2
    <3> QED BY <3>1, <3>3 DEF BP!Burst
  <2> SUFFICES ASSUME RateInv, SustainInv, NEW p \in Producers, limiterOf[p] # 0,
                      Rate * (now - last[<<p, epoch[p]>>]) >= Scale
               PROVE  BP!Refill(limiterOf[p]) >= Scale
    BY DEF Sustained, BP!Sustained
  <2> DEFINE f == BP!Refill(limiterOf[p])
             v == Rate * (now - last[<<p, epoch[p]>>])
  <2>2. f = BP!Burst \/ f >= v
    BY RefillKeeps
  <2>3. v \in Int /\ f \in Int /\ Scale \in Int
    <3> DEFINE l == limiterOf[p]
               a == <<p, epoch[p]>>
    <3>1. /\ l \in 1 .. made /\ l \in BP!Limiters /\ a \in BP!Accounts
          /\ last[a] \in Int /\ now \in Nat /\ Uses(l, p, epoch[p]) /\ epoch[p] \in BP!Epochs
      BY RefillKeeps
    <3>2. a[1] = p /\ a[2] = epoch[p] /\ 0 \in 0 .. now
      BY <3>1
    <3>3. f \in 0 .. BP!Burst
      BY <3>1, <3>2, RefillCovers
    <3>4. BP!Burst \in Nat /\ Scale \in Int
      BY FlowConstants
    <3>5. now - last[a] \in Int
      BY <3>1
    <3>6. v \in Int
      BY <3>5, RateArithmetic
    <3> QED BY <3>3, <3>4, <3>6
  <2>4. v >= Scale
    OBVIOUS
  <2> HIDE DEF f, v
  <2>5. f >= Scale
    BY <2>1, <2>2, <2>3, <2>4
  <2> QED BY <2>5 DEF f
<1> QED BY <1>1, <1>2, <1>3, PTL DEF Spec

-----------------------------------------------------------------------------
(* RetryPolicy.  A set of numbers that holds 0 and with each number the    *)
(* next holds all.                                                         *)
LEMMA AllNumbers ==
    ASSUME NEW G, 0 \in G, \A n \in Nat : n \in G => n + 1 \in G
    PROVE  Nat \subseteq G
<1> DEFINE Bad == Nat \ G
<1> SUFFICES ASSUME Bad # {} PROVE FALSE
  OBVIOUS
<1>1. PICK x \in Bad : \A y \in Bad : x <= y
  <2>1. Bad \subseteq Nat
    OBVIOUS
  <2> HIDE DEF Bad
  <2> QED BY <2>1, LeastNumber
<1>2. x \in Nat /\ x # 0 /\ x \notin G
  OBVIOUS
<1>3. x - 1 \in Nat /\ ~(x <= x - 1) /\ (x - 1) + 1 = x
  BY <1>2
<1>4. x - 1 \in G
  BY <1>1, <1>3
<1> QED BY <1>2, <1>3, <1>4

(* A function that each of whose values, up to n, is computed from the one *)
(* before it.                                                              *)
PowerBy(f, b, n) == f = [i \in 0 .. n |-> IF i = 0 THEN 1 ELSE b * f[i - 1]]

(* There is one for the powers.                                            *)
LEMMA PowerExists ==
    ASSUME NEW b, NEW n \in Nat
    PROVE  \E f : PowerBy(f, b, n)
<1> DEFINE G == {k \in Nat : \E f : PowerBy(f, b, k)}
<1>1. 0 \in G
  <2> DEFINE f == [i \in 0 .. 0 |-> 1]
  <2>1. PowerBy(f, b, 0)
    BY DEF PowerBy
  <2> QED BY <2>1
<1>2. ASSUME NEW k \in Nat, k \in G
      PROVE  k + 1 \in G
  <2>1. PICK g : PowerBy(g, b, k)
    BY <1>2
  <2> DEFINE e == b * g[k]
             f == [i \in 0 .. k + 1 |-> IF i = k + 1 THEN e ELSE g[i]]
  <2>2. \A i \in 0 .. k : g[i] = IF i = 0 THEN 1 ELSE b * g[i - 1]
    BY <2>1 DEF PowerBy
  <2>3. ASSUME NEW i \in 0 .. k + 1
        PROVE  f[i] = IF i = 0 THEN 1 ELSE b * f[i - 1]
    <3>1. CASE i = k + 1
      <4>1. i # 0 /\ i - 1 = k /\ k \in 0 .. k + 1 /\ k # k + 1
        BY <3>1
      <4>2. f[i] = e /\ f[i - 1] = g[k]
        BY <3>1, <4>1
      <4> HIDE DEF f
      <4> QED BY <3>1, <4>1, <4>2
    <3>2. CASE i # k + 1
      <4>1. i \in 0 .. k /\ (i # 0 => i - 1 \in 0 .. k + 1 /\ i - 1 # k + 1)
        BY <3>2
      <4>2. f[i] = g[i] /\ (i # 0 => f[i - 1] = g[i - 1])
        BY <3>2, <4>1
      <4> HIDE DEF f
      <4> QED BY <2>2, <4>1, <4>2
    <3> QED BY <3>1, <3>2
  <2>4. f = [i \in 0 .. k + 1 |-> f[i]]
    OBVIOUS
  <2> HIDE DEF f
  <2>5. PowerBy(f, b, k + 1)
    BY <2>3, <2>4 DEF PowerBy
  <2> QED BY <2>5
<1> HIDE DEF G
<1>3. n \in G
  BY <1>1, <1>2, AllNumbers
<1> QED BY <1>3 DEF G

(* A power of a natural number is one.                                     *)
LEMMA PowerType ==
    ASSUME NEW b \in Nat, NEW n \in Nat
    PROVE  RP!Power(b, n) \in Nat
<1> DEFINE f == CHOOSE power : PowerBy(power, b, n)
<1>1. RP!Power(b, n) = f[n]
  BY DEF RP!Power, PowerBy
<1>2. PowerBy(f, b, n)
  BY PowerExists
<1> HIDE DEF f
<1>3. \A i \in 0 .. n : f[i] = IF i = 0 THEN 1 ELSE b * f[i - 1]
  BY <1>2 DEF PowerBy
<1> DEFINE G == {k \in Nat : k <= n => f[k] \in Nat}
<1>4. 0 \in G
  BY <1>3
<1>5. ASSUME NEW k \in Nat, k \in G
      PROVE  k + 1 \in G
  <2> SUFFICES ASSUME k + 1 <= n PROVE f[k + 1] \in Nat
    OBVIOUS
  <2>1. k + 1 \in 0 .. n /\ k + 1 # 0 /\ (k + 1) - 1 = k /\ f[k] \in Nat
    BY <1>5
  <2>2. f[k + 1] = b * f[k]
    BY <1>3, <2>1
  <2> QED BY <2>1, <2>2
<1>6. n \in G
  <2> HIDE DEF G
  <2> QED BY <1>4, <1>5, AllNumbers
<1> QED BY <1>1, <1>6

(* Of two numbers, the less and the greater.                               *)
LEMMA LessOfTwo ==
    ASSUME NEW a \in Int, NEW b \in Int
    PROVE  RP!Min({a, b}) = IF a < b THEN a ELSE b
<1> DEFINE x == IF a < b THEN a ELSE b
<1>1. x \in {a, b} /\ \A y \in {a, b} : x <= y
  OBVIOUS
<1>2. ASSUME NEW z \in {a, b}, \A y \in {a, b} : z <= y PROVE z = x
  BY <1>2
<1> HIDE DEF x
<1>3. RP!Min({a, b}) = x
  BY <1>1, <1>2 DEF RP!Min
<1> QED BY <1>3 DEF x

(* The other of the two.                                                   *)
LEMMA MoreOfTwo ==
    ASSUME NEW a \in Int, NEW b \in Int
    PROVE  RP!Max({a, b}) = IF a < b THEN b ELSE a
<1> DEFINE x == IF a < b THEN b ELSE a
<1>1. x \in {a, b} /\ \A y \in {a, b} : x >= y
  OBVIOUS
<1>2. ASSUME NEW z \in {a, b}, \A y \in {a, b} : z >= y PROVE z = x
  BY <1>2
<1> HIDE DEF x
<1>3. RP!Max({a, b}) = x
  BY <1>1, <1>2 DEF RP!Max
<1> QED BY <1>3 DEF x

(* What the constructor of a policy is given.                              *)
LEMMA PolicyFields ==
    ASSUME NEW p \in Policies
    PROVE  /\ Unit \in Nat \ {0}
           /\ p.max_attempts \in Nat /\ p.initial_delay \in Nat /\ p.max_delay \in Nat
           /\ p.backoff_multiplier \in Nat /\ p.jitter_range \in Nat
BY PartsAssumption DEF RP!RetryAssumption

(* The delay before the jitter is a number within the cap.                 *)
LEMMA CappedType ==
    ASSUME NEW p \in Policies, NEW n \in Nat \ {0}
    PROVE  RP!Capped(p, n) \in Nat /\ RP!Capped(p, n) <= p.max_delay
<1>1. RP!Power(p.backoff_multiplier, n - 1) \in Nat
  <2>1. n - 1 \in Nat /\ p.backoff_multiplier \in Nat
    BY PolicyFields
  <2> QED BY <2>1, PowerType
<1> DEFINE w == RP!Power(p.backoff_multiplier, n - 1)
           delay == IF p.strategy = "fixed" THEN p.initial_delay ELSE p.initial_delay * w
<1>2. delay \in Nat
  <2> HIDE DEF w
  <2>1. p.initial_delay * w \in Nat
    BY <1>1, PolicyFields DEF w
  <2> QED BY <2>1, PolicyFields
<1>3. RP!Capped(p, n) = RP!Min({delay, p.max_delay})
  BY DEF RP!Capped
<1> HIDE DEF delay
<1> QED BY <1>2, <1>3, LessOfTwo, PolicyFields

(* The longest a policy's jitter can make the delay.                       *)
StretchOf(p) == IF p.strategy = "exponential_jitter" THEN p.jitter_range ELSE 0

(* No jitter makes a delay longer than the stretch, or less than nothing.  *)
LEMMA DelayStretched ==
    ASSUME NEW p \in Policies, NEW n \in Nat \ {0}, NEW d \in RP!Delays(p, n)
    PROVE  d \in Nat /\ d <= RP!Capped(p, n) * (Unit + StretchOf(p))
<1> DEFINE c == RP!Capped(p, n)
<1>1. c \in Nat
  BY CappedType
<1>2. Unit \in Nat /\ p.jitter_range \in Nat
  BY PolicyFields
<1>3. CASE p.strategy = "exponential_jitter"
  <2>1. PICK j \in -p.jitter_range .. p.jitter_range : d = RP!Max({0, c * (Unit + j)})
    BY <1>3 DEF RP!Delays
  <2>2. j \in Int /\ j <= p.jitter_range
    BY <1>2
  <2> HIDE DEF c
  <2> DEFINE x == c * (Unit + j)
             y == c * (Unit + p.jitter_range)
  <2>3. x \in Int /\ y \in Nat /\ x <= y
    <3>1. c * (p.jitter_range - j) \in Nat
      BY <1>1, <1>2, <2>2
    <3>2. x \in Int /\ y \in Nat
      BY <1>1, <1>2, <2>2
    <3>3. y - x = c * (p.jitter_range - j)
      BY <1>1, <1>2, <2>2
    <3> QED BY <3>1, <3>2, <3>3
  <2>4. d = IF 0 < x THEN x ELSE 0
    <3> HIDE DEF x
    <3> QED BY <2>1, <2>3, MoreOfTwo DEF x
  <2>5. StretchOf(p) = p.jitter_range
    BY <1>3 DEF StretchOf
  <2> HIDE DEF x
  <2>6. d \in Nat /\ d <= y
    <3> HIDE DEF y
    <3> QED BY <2>3, <2>4
  <2> QED BY <2>5, <2>6 DEF c
<1>4. CASE p.strategy # "exponential_jitter"
  <2>1. d = c * Unit /\ StretchOf(p) = 0
    BY <1>4 DEF RP!Delays, StretchOf
  <2> HIDE DEF c
  <2>2. d = c * (Unit + 0) /\ d \in Nat
    BY <1>1, <1>2, <2>1
  <2> QED BY <2>1, <2>2 DEF c
<1> QED BY <1>3, <1>4

(* f is the function that TotalMaxDelay computes, up to n attempts.        *)
TotalBy(f, p, n) ==
    f = [i \in 0 .. n |-> IF i <= 1 THEN 0 ELSE f[i - 1] + RP!Capped(p, i - 1)]

(* There is such a function.                                               *)
LEMMA TotalExists ==
    ASSUME NEW p, NEW n \in Nat
    PROVE  \E f : TotalBy(f, p, n)
<1> DEFINE G == {k \in Nat : \E f : TotalBy(f, p, k)}
<1>1. 0 \in G
  <2> DEFINE f == [i \in 0 .. 0 |-> 0]
  <2>1. TotalBy(f, p, 0)
    BY DEF TotalBy
  <2> QED BY <2>1
<1>2. ASSUME NEW k \in Nat, k \in G
      PROVE  k + 1 \in G
  <2>1. PICK g : TotalBy(g, p, k)
    BY <1>2
  <2> DEFINE e == IF k = 0 THEN 0 ELSE g[k] + RP!Capped(p, k)
             f == [i \in 0 .. k + 1 |-> IF i = k + 1 THEN e ELSE g[i]]
  <2>2. \A i \in 0 .. k : g[i] = IF i <= 1 THEN 0 ELSE g[i - 1] + RP!Capped(p, i - 1)
    BY <2>1 DEF TotalBy
  <2>3. ASSUME NEW i \in 0 .. k + 1
        PROVE  f[i] = IF i <= 1 THEN 0 ELSE f[i - 1] + RP!Capped(p, i - 1)
    <3>1. CASE i = k + 1
      <4>1. (i <= 1 <=> k = 0) /\ i - 1 = k /\ k \in 0 .. k + 1 /\ k # k + 1
        BY <3>1
      <4>2. f[i] = e /\ f[i - 1] = g[k]
        BY <3>1, <4>1
      <4> HIDE DEF f
      <4> QED BY <3>1, <4>1, <4>2
    <3>2. CASE i # k + 1
      <4>1. i \in 0 .. k /\ (~(i <= 1) => i - 1 \in 0 .. k + 1 /\ i - 1 # k + 1)
        BY <3>2
      <4>2. f[i] = g[i] /\ (~(i <= 1) => f[i - 1] = g[i - 1])
        BY <3>2, <4>1
      <4> HIDE DEF f
      <4> QED BY <2>2, <4>1, <4>2
    <3> QED BY <3>1, <3>2
  <2>4. f = [i \in 0 .. k + 1 |-> f[i]]
    OBVIOUS
  <2> HIDE DEF f
  <2>5. TotalBy(f, p, k + 1)
    BY <2>3, <2>4 DEF TotalBy
  <2> QED BY <2>5
<1> HIDE DEF G
<1>3. n \in G
  BY <1>1, <1>2, AllNumbers
<1> QED BY <1>3 DEF G

(* The sums that total_max_delay goes through: Totals(p)[n] is the one of  *)
(* the delays before attempt n.                                            *)
Totals(p) == CHOOSE f : TotalBy(f, p, p.max_attempts)

(* The sums start at nothing, grow by the delay of each attempt and never  *)
(* exceed the last, which total_max_delay returns.                         *)
LEMMA TotalsGrow ==
    ASSUME NEW p \in Policies
    PROVE  /\ RP!TotalMaxDelay(p) = Totals(p)[p.max_attempts]
           /\ \A n \in 0 .. p.max_attempts :
                 /\ Totals(p)[n] \in Nat
                 /\ n <= 1 => Totals(p)[n] = 0
                 /\ n > 1 => Totals(p)[n] = Totals(p)[n - 1] + RP!Capped(p, n - 1)
                 /\ Totals(p)[n] <= Totals(p)[p.max_attempts]
<1> DEFINE M == p.max_attempts
           f == Totals(p)
<1>0. M \in Nat
  BY PolicyFields
<1>1. TotalBy(f, p, M)
  BY <1>0, TotalExists DEF Totals
<1>2. RP!TotalMaxDelay(p) = f[M]
  BY DEF RP!TotalMaxDelay, Totals, TotalBy
<1> HIDE DEF f
<1>3. \A n \in 0 .. M : f[n] = IF n <= 1 THEN 0 ELSE f[n - 1] + RP!Capped(p, n - 1)
  BY <1>1 DEF TotalBy
<1>4. \A n \in Nat \ {0} : RP!Capped(p, n) \in Nat
  BY CappedType
<1> HIDE DEF M
<1> DEFINE Up(n) == \A i \in 0 .. n : f[i] \in Nat /\ f[i] <= f[n]
           G == {n \in Nat : n <= M => Up(n)}
<1>5. 0 \in G
  BY <1>0, <1>3
<1>6. ASSUME NEW n \in Nat, n \in G
      PROVE  n + 1 \in G
  <2> SUFFICES ASSUME n + 1 <= M PROVE Up(n + 1)
    OBVIOUS
  <2>1. n + 1 \in 0 .. M /\ (n + 1) - 1 = n /\ n \in 0 .. M /\ Up(n)
    BY <1>0, <1>6
  <2>2. f[n + 1] \in Nat /\ f[n + 1] >= f[n]
    <3>1. CASE n = 0
      BY <1>3, <2>1, <3>1
    <3>2. CASE n # 0
      <4>1. f[n + 1] = f[n] + RP!Capped(p, n) /\ RP!Capped(p, n) \in Nat
        BY <1>3, <1>4, <2>1, <3>2
      <4>2. f[n] \in Nat
        <5>1. n \in 0 .. n
          OBVIOUS
        <5> QED BY <2>1, <5>1
      <4> QED BY <4>1, <4>2
    <3> QED BY <3>1, <3>2
  <2>3. ASSUME NEW i \in 0 .. n + 1
        PROVE  f[i] \in Nat /\ f[i] <= f[n + 1]
    <3>1. CASE i = n + 1
      BY <2>2, <3>1
    <3>2. CASE i # n + 1
      <4>1. i \in 0 .. n /\ n \in 0 .. n
        BY <3>2
      <4>2. f[i] \in Nat /\ f[i] <= f[n] /\ f[n] \in Nat
        BY <2>1, <4>1
      <4> QED BY <2>2, <4>2
    <3> QED BY <3>1, <3>2
  <2> QED BY <2>3
<1>7. \A n \in 0 .. M : Up(n)
  <2> HIDE DEF G
  <2>1. Nat \subseteq G
    BY <1>5, <1>6, AllNumbers
  <2> QED BY <1>0, <2>1 DEF G
<1>8. ASSUME NEW n \in 0 .. M
      PROVE  /\ f[n] \in Nat
             /\ n <= 1 => f[n] = 0
             /\ n > 1 => f[n] = f[n - 1] + RP!Capped(p, n - 1)
             /\ f[n] <= f[M]
  <2>1. M \in 0 .. M /\ n \in Int /\ n \in 0 .. n
    BY <1>0
  <2>2. f[n] \in Nat /\ f[n] <= f[M]
    BY <1>7, <2>1
  <2> QED BY <1>3, <2>1, <2>2
<1> QED BY <1>2, <1>8 DEF f, M

(* What the application has waited is within the sums of the attempts it   *)
(* has made.                                                               *)
RetryInv ==
    /\ policy \in Policies
    /\ attempt \in Nat \ {0} /\ attempt <= RP!Max({1, policy.max_attempts})
    /\ waited \in Nat
    /\ outcome = "given up" => ~RP!ShouldRetry(policy, attempt)
    /\ IF attempt = 1 THEN waited = 0
       ELSE waited <= Totals(policy)[attempt] * (Unit + StretchOf(policy))

(* The policy's limit on the attempts.                                     *)
LEMMA AttemptLimit ==
    ASSUME NEW p \in Policies
    PROVE  RP!Max({1, p.max_attempts}) = IF 1 < p.max_attempts THEN p.max_attempts ELSE 1
BY MoreOfTwo, PolicyFields

(* The numbers of the policy in use.                                       *)
LEMMA RetryNumbers ==
    ASSUME RetryInv
    PROVE  /\ policy \in Policies /\ policy.max_attempts \in Nat
           /\ Unit + StretchOf(policy) \in Nat
           /\ attempt \in Nat \ {0} /\ waited \in Nat
           /\ attempt = 1 => waited = 0
<1>1. policy \in Policies /\ attempt \in Nat \ {0} /\ waited \in Nat
  BY DEF RetryInv
<1>2. Unit \in Nat /\ policy.max_attempts \in Nat /\ policy.jitter_range \in Nat
  BY <1>1, PolicyFields
<1>3. StretchOf(policy) \in Nat
  BY <1>2 DEF StretchOf
<1>4. attempt = 1 => waited = 0
  BY DEF RetryInv
<1> QED BY <1>1, <1>2, <1>3, <1>4

(* Each attempt keeps it.                                                  *)
LEMMA RetryStep ==
    ASSUME RetryInv, [RP!Next]_(RP!vars)
    PROVE  RetryInv'
<1> DEFINE M == policy.max_attempts
           U == Unit + StretchOf(policy)
<1>0. policy \in Policies /\ M \in Nat /\ U \in Nat
  BY RetryNumbers
<1>1. RP!Max({1, M}) = IF 1 < M THEN M ELSE 1
  BY <1>0, AttemptLimit
<1>2. CASE RP!Processed
  BY <1>2 DEF RP!Processed, RetryInv
<1>3. CASE RP!Failed /\ ~RP!ShouldRetry(policy, attempt)
  BY <1>3 DEF RP!Failed, RetryInv
<1>4. CASE RP!Failed /\ RP!ShouldRetry(policy, attempt)
  <2>1. PICK d \in RP!Delays(policy, attempt) : waited' = waited + d
    BY <1>4 DEF RP!Failed
  <2>2. /\ outcome = "trying" /\ attempt < M /\ attempt' = attempt + 1
        /\ outcome' = outcome /\ policy' = policy
    BY <1>4 DEF RP!Failed, RP!ShouldRetry
  <2>3. attempt \in Nat \ {0} /\ waited \in Nat
    BY DEF RetryInv
  <2> DEFINE c == RP!Capped(policy, attempt)
             t == Totals(policy)
  <2>4. c \in Nat /\ d \in Nat /\ d <= c * U
    BY <1>0, <2>3, CappedType, DelayStretched
  <2>5. /\ attempt + 1 \in 0 .. M /\ attempt \in 0 .. M /\ (attempt + 1) - 1 = attempt
        /\ attempt + 1 > 1 /\ attempt + 1 # 1
    BY <1>0, <2>2, <2>3
  <2>6. t[attempt + 1] = t[attempt] + c /\ t[attempt] \in Nat /\ t[attempt + 1] \in Nat
    BY <1>0, <2>5, TotalsGrow
  <2>7. waited <= t[attempt] * U
    <3>1. CASE attempt = 1
      <4>1. t[attempt] = 0 /\ waited = 0
        <5>1. 1 \in 0 .. M /\ 1 <= 1
          BY <2>5, <3>1
        <5>2. t[1] = 0
          BY <1>0, <5>1, TotalsGrow
        <5> QED BY <3>1, <5>2, RetryNumbers
      <4> QED BY <1>0, <4>1
    <3>2. CASE attempt # 1
      BY <3>2 DEF RetryInv
    <3> QED BY <3>1, <3>2
  <2> HIDE DEF c, t, U
  <2>8. waited' <= t[attempt + 1] * U
    <3>1. (t[attempt] + c) * U = t[attempt] * U + c * U
      BY <1>0, <2>4, <2>6
    <3>2. t[attempt] * U \in Nat /\ c * U \in Nat
      BY <1>0, <2>4, <2>6
    <3> QED BY <2>1, <2>3, <2>4, <2>6, <2>7, <3>1, <3>2
  <2>9. attempt' <= RP!Max({1, M}) /\ attempt' \in Nat \ {0} /\ attempt' # 1
    BY <1>0, <1>1, <2>2, <2>3
  <2>10. waited' \in Nat
    BY <2>1, <2>3, <2>4
  <2> QED BY <1>0, <2>2, <2>8, <2>9, <2>10 DEF RetryInv, U, t, RP!Max
<1>5. CASE UNCHANGED RP!vars
  BY <1>5 DEF RP!vars, RetryInv
<1> QED BY <1>2, <1>3, <1>4, <1>5 DEF RP!Next

(* The other parts' steps do not touch the retries.                        *)
LEMMA OnlyRetry ==
    ASSUME [Next]_vars
    PROVE  [RP!Next]_(RP!vars)
BY DEF Next, vars, NextPriority, NextBackpressure, NextDeduplication, NextRedelivery,
       NextLifecycle, NextPipeline, NextSchemas, NextRetry, rpVars, RP!vars

(* For every policy and every jitter: a message is tried at most           *)
(* max_attempts times (or once), is given up after the last of them only,  *)
(* and the waits together stay within total_max_delay (retry.py 116-125)   *)
(* lengthened by the jitter's share, which is applied after the cap.       *)
THEOREM RetriesBounded == Spec => []WithinWorstCase
<1>1. Init => RetryInv
  <2> SUFFICES ASSUME RP!Init PROVE RetryInv
    BY DEF Init
  <2>1. policy \in Policies /\ attempt = 1 /\ waited = 0 /\ outcome = "trying"
    BY DEF RP!Init
  <2>2. attempt <= RP!Max({1, policy.max_attempts})
    BY <2>1, AttemptLimit, PolicyFields
  <2> QED BY <2>1, <2>2 DEF RetryInv
<1>2. RetryInv /\ [Next]_vars => RetryInv'
  BY OnlyRetry, RetryStep
<1>3. RetryInv => WithinWorstCase
  <2> SUFFICES ASSUME RetryInv PROVE RP!WithinWorstCase
    BY DEF WithinWorstCase
  <2> DEFINE M == policy.max_attempts
             U == Unit + StretchOf(policy)
             t == Totals(policy)
             L == RP!Max({1, M})
  <2>1. policy \in Policies /\ M \in Nat /\ U \in Nat /\ attempt \in Nat \ {0}
    BY RetryNumbers
  <2>2. L = IF 1 < M THEN M ELSE 1
    BY <2>1, AttemptLimit
  <2>3. attempt <= L /\ (outcome = "given up" => ~(attempt < M))
    BY DEF RetryInv, RP!ShouldRetry
  <2>4. outcome = "given up" => attempt = L
    <3> SUFFICES ASSUME outcome = "given up" PROVE attempt = L
      OBVIOUS
    <3>1. M \in Nat /\ attempt \in Nat \ {0} /\ attempt <= L /\ ~(attempt < M)
      BY <2>1, <2>3
    <3> HIDE DEF L, M
    <3> QED BY ONLY <2>2, <3>1
  <2>5. RP!TotalMaxDelay(policy) = t[M] /\ t[M] \in Nat
    BY <2>1, TotalsGrow
  <2>6. waited <= t[M] * U
    <3>1. CASE attempt = 1
      <4>1. waited = 0 /\ t[M] * U \in Nat
        <5>1. waited = 0
          BY <3>1, RetryNumbers
        <5> HIDE DEF U, t, M
        <5> QED BY <2>1, <2>5, <5>1
      <4> QED BY <4>1
    <3>2. CASE attempt # 1
      <4>1. attempt \in 0 .. M
        <5>1. M \in Nat /\ attempt \in Nat \ {0} /\ attempt <= L
          BY <2>1, <2>3
        <5> HIDE DEF L, M
        <5> QED BY ONLY <2>2, <5>1, <3>2
      <4>2. t[attempt] \in Nat /\ t[attempt] <= t[M]
        BY <2>1, <4>1, TotalsGrow
      <4>3. waited <= t[attempt] * U /\ waited \in Nat
        BY <3>2 DEF RetryInv
      <4> HIDE DEF t, U, M
      <4>4. (t[M] - t[attempt]) * U \in Nat
        BY <2>1, <2>5, <4>2
      <4>5. t[M] * U - t[attempt] * U = (t[M] - t[attempt]) * U
        BY <2>1, <2>5, <4>2
      <4>6. t[M] * U \in Nat /\ t[attempt] * U \in Nat
        BY <2>1, <2>5, <4>2
      <4> QED BY <4>3, <4>4, <4>5, <4>6
    <3> QED BY <3>1, <3>2
  <2>7. RP!Stretch = StretchOf(policy)
    BY DEF RP!Stretch, StretchOf
  <2> QED BY <2>3, <2>4, <2>5, <2>6, <2>7 DEF RP!WithinWorstCase
<1> QED BY <1>1, <1>2, <1>3, PTL DEF Spec
=============================================================================
