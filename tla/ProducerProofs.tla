--------------------------- MODULE ProducerProofs ---------------------------
(***************************************************************************)
(* For any number of threads and messages, any batch size and callbacks    *)
(* that send, flush, close and raise: a producer publishes every message   *)
(* it takes at most once, in order unless a callback has overtaken, and    *)
(* drops none but in the rest of a batch that a raising on_error has left. *)
(***************************************************************************)
EXTENDS Producer, SequenceTheorems, TLAPS

-----------------------------------------------------------------------------
(* Calls within calls.  The parts of flushing that belong to a thread's    *)
(* calls lie within one another: each call's part begins where the part of *)
(* the call inside it ends.                                                *)
Chain(s, n) ==
    /\ \A i \in 1 .. Len(s) : s[i].outer <= n
    /\ \A i, j \in 1 .. Len(s) : i < j => s[j].outer <= s[i].outer
    /\ s # <<>> => s[Len(s)].outer = 0

(* The lock is held exactly by the thread whose calls flush; without       *)
(* batching nothing is buffered and the lock is never kept.                *)
Nesting ==
    /\ batchSize = 1 => batch = <<>> /\ flushing = <<>> /\ lock = NoThread
    /\ lock = NoThread => flushing = <<>>
    /\ lock # NoThread => stack[lock] # <<>>
    /\ \A t \in Threads : /\ stack[t] # <<>> => batchSize = 1 \/ lock = t
                          /\ pc[t] = "loop" => stack[t] # <<>>
                          /\ Chain(stack[t], Len(flushing))

(* What the sender of a message knows of it: no other thread has it, and   *)
(* it has not been taken; a thread that is not in send has left its        *)
(* message to the producer.                                                *)
OwnMessage ==
    \A t \in Threads :
        /\ pc[t] \in {"number", "send"} => /\ msg[t] \in Messages \ Taken
                                           /\ \A u \in Threads : msg[u] = msg[t] => u = t
        /\ pc[t] \notin {"number", "send"} => msg[t] \in Taken \cup {NoMessage}

Calls == TypeOK /\ Nesting /\ OwnMessage

(* The part of a call begins at some number.                               *)
LEMMA OuterNumber ==
    ASSUME NEW s \in Seq(Frames), NEW i \in 1 .. Len(s)
    PROVE  s[i] \in Frames /\ s[i].outer \in Nat
<1>1. s[i] \in Frames
  OBVIOUS
<1> QED BY <1>1 DEF Frames

(* A call inside the others.                                               *)
LEMMA ChainPush ==
    ASSUME NEW s \in Seq(Frames), NEW f \in Frames, NEW n \in Nat, NEW k \in Nat,
           Chain(s, n), f.outer = n, n <= k, s = <<>> => n = 0
    PROVE  <<f>> \o s \in Seq(Frames) /\ <<f>> \o s # <<>> /\ Chain(<<f>> \o s, k)
<1> DEFINE r == <<f>> \o s
<1>1. r \in Seq(Frames) /\ Len(r) = Len(s) + 1 /\ Len(s) \in Nat /\ r[1] = f
  OBVIOUS
<1>2. \A i \in 2 .. Len(r) : r[i] = s[i - 1] /\ i - 1 \in 1 .. Len(s)
  BY <1>1
<1>3. \A i \in 1 .. Len(s) : s[i].outer \in Nat /\ s[i].outer <= n
  BY OuterNumber DEF Chain
<1> HIDE DEF r
<1>4. \A i \in 1 .. Len(r) : r[i].outer <= k
  <2> SUFFICES ASSUME NEW i \in 1 .. Len(r) PROVE r[i].outer <= k
    OBVIOUS
  <2>1. CASE i = 1
    BY <1>1, <2>1
  <2>2. CASE i # 1
    <3>1. i \in 2 .. Len(r)
      BY <1>1, <2>2
    <3>2. r[i] = s[i - 1] /\ s[i - 1].outer \in Nat /\ s[i - 1].outer <= n
      BY <1>2, <1>3, <3>1
    <3> QED BY <3>2
  <2> QED BY <2>1, <2>2
<1>5. \A i, j \in 1 .. Len(r) : i < j => r[j].outer <= r[i].outer
  <2> SUFFICES ASSUME NEW i \in 1 .. Len(r), NEW j \in 1 .. Len(r), i < j
               PROVE  r[j].outer <= r[i].outer
    OBVIOUS
  <2>1. j \in 2 .. Len(r) /\ r[j] = s[j - 1] /\ j - 1 \in 1 .. Len(s)
    BY <1>1, <1>2
  <2>2. CASE i = 1
    BY <1>1, <1>3, <2>1, <2>2
  <2>3. CASE i # 1
    <3>1. i \in 2 .. Len(r) /\ i - 1 < j - 1
      BY <1>1, <2>3
    <3>2. r[i] = s[i - 1] /\ i - 1 \in 1 .. Len(s)
      BY <1>2, <3>1
    <3> QED BY <2>1, <3>1, <3>2 DEF Chain
  <2> QED BY <2>2, <2>3
<1>6. r[Len(r)].outer = 0
  <2>1. CASE s = <<>>
    BY <1>1, <2>1
  <2>2. CASE s # <<>>
    <3>1. Len(r) \in 2 .. Len(r) /\ Len(r) - 1 = Len(s)
      BY <1>1, <2>2
    <3> QED BY <1>2, <2>2, <3>1 DEF Chain
  <2> QED BY <2>1, <2>2
<1>7. r # <<>>
  BY <1>1
<1> QED BY <1>1, <1>4, <1>5, <1>6, <1>7 DEF Chain, r

(* The calls that are left when the innermost has ended.                   *)
LEMMA ChainTail ==
    ASSUME NEW s \in Seq(Frames), NEW n \in Nat, s # <<>>, Chain(s, n)
    PROVE  /\ Head(s) \in Frames /\ Head(s).outer \in Nat /\ Head(s).outer <= n
           /\ Tail(s) \in Seq(Frames)
           /\ Tail(s) = <<>> => Head(s).outer = 0
           /\ Chain(Tail(s), Head(s).outer)
<1> DEFINE r == Tail(s)
<1>1. /\ r \in Seq(Frames) /\ Len(r) = Len(s) - 1 /\ Len(s) \in Nat \ {0}
      /\ Head(s) = s[1] /\ s[1] \in Frames
      /\ \A i \in 1 .. Len(r) : r[i] = s[i + 1]
  OBVIOUS
<1> HIDE DEF r
<1>2. s[1].outer \in Nat
  BY <1>1 DEF Frames
<1>3. s[1].outer <= n
  BY <1>1 DEF Chain
<1>4. r = <<>> => s[1].outer = 0
  <2> SUFFICES ASSUME r = <<>> PROVE s[1].outer = 0
    OBVIOUS
  <2>1. Len(s) = 1
    BY <1>1
  <2> QED BY <2>1 DEF Chain
<1>5. ASSUME NEW i \in 1 .. Len(r) PROVE r[i].outer <= s[1].outer
  <2>1. r[i] = s[i + 1] /\ i + 1 \in 1 .. Len(s) /\ 1 \in 1 .. Len(s) /\ 1 < i + 1
    BY <1>1
  <2> QED BY <2>1 DEF Chain
<1>6. ASSUME NEW i \in 1 .. Len(r), NEW j \in 1 .. Len(r), i < j
      PROVE  r[j].outer <= r[i].outer
  <2>1. /\ r[i] = s[i + 1] /\ i + 1 \in 1 .. Len(s)
        /\ r[j] = s[j + 1] /\ j + 1 \in 1 .. Len(s) /\ i + 1 < j + 1
    BY <1>1, <1>6
  <2> QED BY <2>1 DEF Chain
<1>7. r # <<>> => r[Len(r)].outer = 0
  <2> SUFFICES ASSUME r # <<>> PROVE r[Len(r)].outer = 0
    OBVIOUS
  <2>1. Len(r) \in 1 .. Len(r) /\ Len(r) + 1 = Len(s)
    BY <1>1
  <2> QED BY <1>1, <2>1 DEF Chain
<1> QED BY <1>1, <1>2, <1>3, <1>4, <1>5, <1>6, <1>7 DEF Chain, r

(* The innermost call replaced by one with the same part of flushing.      *)
LEMMA ChainTop ==
    ASSUME NEW s \in Seq(Frames), NEW n \in Nat, NEW k \in Nat, s # <<>>, Chain(s, n),
           NEW f \in Frames, f.outer = Head(s).outer, f.outer <= k
    PROVE  /\ <<f>> \o Tail(s) \in Seq(Frames) /\ <<f>> \o Tail(s) # <<>>
           /\ Chain(<<f>> \o Tail(s), k)
BY ChainTail, ChainPush

(* More to flush does not matter to the calls.                             *)
LEMMA ChainGrows ==
    ASSUME NEW s \in Seq(Frames), NEW n \in Nat, NEW k \in Nat, Chain(s, n), n <= k
    PROVE  Chain(s, k)
<1>1. \A i \in 1 .. Len(s) : s[i].outer \in Nat /\ s[i].outer <= n
  BY OuterNumber DEF Chain
<1> QED BY <1>1 DEF Chain

(* The steps of a thread that leave its calls and the messages in place.   *)
LEMMA NestingQuiet ==
    ASSUME Nesting, UNCHANGED <<batchSize, batch, flushing, lock, stack>>,
           \A t \in Threads : pc'[t] = "loop" => stack[t] # <<>>
    PROVE  Nesting'
BY DEF Nesting, Chain

(* The steps of a thread that has the lock, or needs none, and changes its *)
(* calls.                                                                  *)
LEMMA NestingStep ==
    ASSUME TypeOK, Nesting, NEW t \in Threads, NEW r \in Seq(Frames), NEW p,
           stack' = [stack EXCEPT ![t] = r], pc' = [pc EXCEPT ![t] = p],
           p = "loop" => r # <<>>, batchSize' = batchSize, flushing' \in Seq(Messages),
           batchSize = 1 => batch' = <<>> /\ flushing' = <<>>,
           batchSize = 1 \/ lock \in {NoThread, t},
           lock' = IF batchSize = 1 \/ r = <<>> THEN NoThread ELSE t,
           r = <<>> => flushing' = <<>>,
           Chain(r, Len(flushing'))
    PROVE  Nesting'
<1>1. stack \in [Threads -> Seq(Frames)] /\ pc \in [Threads -> PCs] /\ t # NoThread
      /\ flushing \in Seq(Messages)
  BY ProducerAssumption DEF TypeOK
<1>2. batchSize' = 1 => batch' = <<>> /\ flushing' = <<>> /\ lock' = NoThread
  OBVIOUS
<1>3. lock' = NoThread => flushing' = <<>>
  BY <1>1
<1>4. lock' # NoThread => stack'[lock'] # <<>>
  BY <1>1
<1>5. ASSUME NEW u \in Threads
      PROVE  /\ stack'[u] # <<>> => batchSize' = 1 \/ lock' = u
             /\ pc'[u] = "loop" => stack'[u] # <<>>
             /\ Chain(stack'[u], Len(flushing'))
  <2>1. CASE u = t
    BY <1>1, <2>1
  <2>2. CASE u # t
    <3>1. stack'[u] = stack[u] /\ pc'[u] = pc[u]
      BY <1>1, <2>2
    <3>2. CASE batchSize = 1
      <4>1. flushing' = flushing
        BY <3>2 DEF Nesting
      <4> QED BY <3>1, <3>2, <4>1 DEF Nesting
    <3>3. CASE batchSize # 1
      <4>1. stack[u] = <<>>
        BY <2>2, <3>3, ProducerAssumption DEF Nesting
      <4>2. Chain(<<>>, Len(flushing'))
        BY DEF Chain
      <4> QED BY <3>1, <4>1, <4>2 DEF Nesting
    <3> QED BY <3>2, <3>3
  <2> QED BY <2>1, <2>2
<1> QED BY <1>2, <1>3, <1>4, <1>5 DEF Nesting

(* Who may use the producer's lock, and what a thread outside of all calls *)
(* finds when it gets the lock.                                            *)
LEMMA LockOfCalls ==
    ASSUME TypeOK, Nesting, NEW t \in Threads
    PROVE  /\ stack[t] # <<>> => batchSize = 1 \/ lock = t
           /\ LockFree(t) /\ stack[t] = <<>> => lock = NoThread /\ flushing = <<>>
           /\ stack[t] \in Seq(Frames) /\ Chain(stack[t], Len(flushing))
           /\ Len(flushing) \in Nat /\ batchSize \in Nat \ {0} /\ t # NoThread
BY ProducerAssumption DEF TypeOK, Nesting, LockFree

(* Taking a message, which is the last one then.                           *)
LEMMA TakeEffect ==
    ASSUME TypeOK, NEW m \in Messages, Take(m)
    PROVE  /\ taken' \in Nat /\ order' \in [Messages -> Nat] /\ taken' = taken + 1
           /\ \A o \in Messages : order'[o] = IF o = m THEN taken + 1 ELSE order[o]
           /\ Taken' = Taken \cup {m}
<1>1. taken \in Nat /\ order \in [Messages -> Nat]
  BY DEF TypeOK
<1>2. \A o \in Messages : order'[o] = IF o = m THEN taken + 1 ELSE order[o]
  BY <1>1 DEF Take
<1>3. Taken' = Taken \cup {m}
  BY <1>1, <1>2 DEF Taken
<1> QED BY <1>1, <1>2, <1>3 DEF Take

(* Steps that take no message and begin no send.                           *)
LEMMA OwnQuiet ==
    ASSUME OwnMessage, UNCHANGED <<msg, order>>,
           \A t \in Threads : \/ pc'[t] = pc[t]
                              \/ pc[t] = "number" /\ pc'[t] = "send"
                              \/ /\ pc[t] \notin {"number", "send"}
                                 /\ pc'[t] \notin {"number", "send"}
    PROVE  OwnMessage'
BY DEF OwnMessage, Taken

(* A send's message is taken.                                              *)
LEMMA OwnTaken ==
    ASSUME TypeOK, OwnMessage, NEW t \in Threads, pc[t] = "send", Take(msg[t]),
           NEW p \in PCs, pc' = [pc EXCEPT ![t] = p], p \notin {"number", "send"},
           UNCHANGED msg
    PROVE  OwnMessage'
<1>1. msg[t] \in Messages /\ \A u \in Threads : msg[u] = msg[t] => u = t
  BY DEF OwnMessage
<1>2. Taken' = Taken \cup {msg[t]}
  BY <1>1, TakeEffect
<1>3. /\ pc'[t] = p
      /\ \A u \in Threads : u # t => pc'[u] = pc[u]
  BY DEF TypeOK
<1> QED BY <1>1, <1>2, <1>3 DEF OwnMessage

(* A new producer.                                                         *)
LEMMA InitCalls == Init => Calls
<1> SUFFICES ASSUME Init PROVE Calls
  OBVIOUS
<1>1. TypeOK
  <2>1. <<>> \in Seq(Messages) /\ <<>> \in Seq(Frames)
    OBVIOUS
  <2>2. /\ pc \in [Threads -> PCs] /\ stack \in [Threads -> Seq(Frames)]
        /\ msg \in [Threads -> Messages \cup {NoMessage}]
    BY <2>1 DEF Init, PCs
  <2>3. number \in [Messages -> Nat \cup {-1}] /\ order \in [Messages -> Nat]
    BY DEF Init
  <2> QED BY <2>1, <2>2, <2>3 DEF Init, TypeOK
<1>2. Nesting
  BY DEF Init, Nesting, Chain
<1>3. OwnMessage
  BY DEF Init, OwnMessage
<1> QED BY <1>1, <1>2, <1>3 DEF Calls

(* The batch is moved to the innermost of the loops.                       *)
LEMMA MoveType ==
    ASSUME TypeOK, NEW t \in Threads, NEW b \in Seq(Messages), NEW nested \in BOOLEAN,
           TakeBatch(t, b, nested)
    PROVE  /\ batch' = <<>> /\ batch' \in Seq(Messages)
           /\ flushing' = b \o flushing /\ flushing' \in Seq(Messages)
           /\ Len(flushing') \in Nat /\ Len(flushing) <= Len(flushing')
           /\ overtaking' = IF nested THEN overtaking \cup (ToSet(b) \X ToSet(flushing))
                            ELSE overtaking
           /\ overtaking' \subseteq Messages \X Messages
           /\ lock' = t /\ pc' = [pc EXCEPT ![t] = "loop"]
<1>1. flushing \in Seq(Messages) /\ overtaking \subseteq Messages \X Messages
  BY DEF TypeOK
<1>2. flushing' = b \o flushing /\ batch' = <<>>
  BY DEF TakeBatch, MoveBatch
<1>3. /\ flushing' \in Seq(Messages) /\ Len(flushing') = Len(b) + Len(flushing)
      /\ Len(b) \in Nat /\ Len(flushing) \in Nat /\ batch' \in Seq(Messages)
  BY <1>1, <1>2
<1>4. ToSet(b) \subseteq Messages /\ ToSet(flushing) \subseteq Messages
  BY <1>1 DEF ToSet
<1>5. overtaking' = IF nested THEN overtaking \cup (ToSet(b) \X ToSet(flushing))
                    ELSE overtaking
  BY DEF TakeBatch
<1>6. overtaking' \subseteq Messages \X Messages
  <2>1. ToSet(b) \X ToSet(flushing) \subseteq Messages \X Messages
    BY <1>4
  <2> QED BY <1>1, <1>5, <2>1
<1> QED BY <1>2, <1>3, <1>5, <1>6 DEF TakeBatch

(* Entering _flush_batch from send, flush or close.                        *)
LEMMA StartFlushNests ==
    ASSUME TypeOK, Nesting, NEW t \in Threads, NEW b \in Seq(Messages), batchSize # 1,
           NEW call \in {"send", "flush", "close"}, LockFree(t), StartFlush(t, call, b),
           UNCHANGED batchSize
    PROVE  /\ batch' \in Seq(Messages) /\ flushing' \in Seq(Messages)
           /\ overtaking' \subseteq Messages \X Messages
           /\ lock' \in Threads /\ pc' = [pc EXCEPT ![t] = "loop"]
           /\ stack' \in [Threads -> Seq(Frames)]
           /\ Nesting'
<1> DEFINE f == Frame(call, "none")
           r == <<f>> \o stack[t]
<1>1. /\ stack[t] \in Seq(Frames) /\ Chain(stack[t], Len(flushing))
      /\ Len(flushing) \in Nat /\ (stack[t] = <<>> => Len(flushing) = 0)
      /\ stack \in [Threads -> Seq(Frames)]
  <2>1. stack[t] = <<>> => Len(flushing) = 0
    BY LockOfCalls
  <2> QED BY <2>1, LockOfCalls DEF TypeOK
<1>2. f \in Frames /\ f.outer = Len(flushing)
  BY <1>1 DEF Frame, Frames
<1>3. /\ stack' = [stack EXCEPT ![t] = r] /\ TakeBatch(t, b, stack[t] # <<>>)
  BY DEF StartFlush
<1>4. /\ flushing' \in Seq(Messages) /\ Len(flushing') \in Nat
      /\ Len(flushing) <= Len(flushing') /\ lock' = t
      /\ pc' = [pc EXCEPT ![t] = "loop"] /\ batch' \in Seq(Messages)
      /\ overtaking' \subseteq Messages \X Messages
  BY <1>3, MoveType
<1> HIDE DEF f
<1>5. r \in Seq(Frames) /\ r # <<>> /\ Chain(r, Len(flushing'))
  BY <1>1, <1>2, <1>4, ChainPush
<1> HIDE DEF r
<1>6. Nesting'
  BY <1>3, <1>4, <1>5, NestingStep DEF LockFree
<1>7. stack' \in [Threads -> Seq(Frames)]
  BY <1>1, <1>3, <1>5
<1> QED BY <1>4, <1>6, <1>7

(* The end of a call whose part of flushing is empty.                      *)
LEMMA PopNests ==
    ASSUME TypeOK, Nesting, NEW t \in Threads, stack[t] # <<>>, Pop(t), NEW p,
           pc' = [pc EXCEPT ![t] = p], p # "loop", UNCHANGED <<batchSize, batch>>,
           flushing' \in Seq(Messages), Len(flushing') = Head(stack[t]).outer
    PROVE  /\ lock' \in Threads \cup {NoThread} /\ stack' \in [Threads -> Seq(Frames)]
           /\ Nesting'
<1> DEFINE s == stack[t]
           r == Tail(s)
<1>1. /\ s \in Seq(Frames) /\ Chain(s, Len(flushing)) /\ Len(flushing) \in Nat
      /\ (batchSize = 1 \/ lock = t) /\ stack \in [Threads -> Seq(Frames)]
      /\ lock \in Threads \cup {NoThread}
  BY LockOfCalls DEF TypeOK
<1>2. /\ r \in Seq(Frames) /\ Chain(r, Head(s).outer) /\ Head(s).outer \in Nat
      /\ (r = <<>> => Head(s).outer = 0) /\ Head(s).outer <= Len(flushing)
  BY <1>1, ChainTail
<1>3. stack' = [stack EXCEPT ![t] = r] /\ lock' = IF r = <<>> THEN NoThread ELSE lock
  BY DEF Pop
<1> HIDE DEF r, s
<1>4. r = <<>> => flushing' = <<>>
  BY <1>2 DEF s
<1>5. batchSize = 1 => batch' = <<>> /\ flushing' = <<>> /\ lock = NoThread
  <2> SUFFICES ASSUME batchSize = 1 PROVE batch' = <<>> /\ flushing' = <<>> /\ lock = NoThread
    OBVIOUS
  <2>1. batch = <<>> /\ Len(flushing) = 0 /\ lock = NoThread
    BY DEF Nesting
  <2> QED BY <1>2, <2>1 DEF s
<1>6. lock' = IF batchSize = 1 \/ r = <<>> THEN NoThread ELSE t
  BY <1>1, <1>3, <1>5
<1>7. Nesting'
  BY <1>1, <1>2, <1>3, <1>4, <1>5, <1>6, NestingStep DEF s
<1>8. stack' \in [Threads -> Seq(Frames)]
  BY <1>1, <1>2, <1>3
<1> QED BY <1>1, <1>3, <1>7, <1>8

(* A callback begins, fails or ends.                                       *)
LEMMA CallbackNests ==
    ASSUME TypeOK, Nesting, NEW t \in Threads, stack[t] # <<>>,
           NEW c \in {"none", "onSuccess", "onError"}, SetCallback(t, c), NEW p,
           pc' = [pc EXCEPT ![t] = p], UNCHANGED <<batchSize, batch, lock>>,
           flushing' \in Seq(Messages), Head(stack[t]).outer <= Len(flushing'),
           Len(flushing') <= Len(flushing)
    PROVE  stack' \in [Threads -> Seq(Frames)] /\ Nesting'
<1> DEFINE s == stack[t]
           f == [Head(s) EXCEPT !.callback = c]
           r == <<f>> \o Tail(s)
<1>1. /\ s \in Seq(Frames) /\ Chain(s, Len(flushing)) /\ Len(flushing) \in Nat
      /\ (batchSize = 1 \/ lock = t) /\ stack \in [Threads -> Seq(Frames)]
      /\ t # NoThread /\ Len(flushing') \in Nat
  BY LockOfCalls DEF TypeOK
<1>2. Head(s) \in Frames
  BY <1>1, ChainTail
<1>3. f \in Frames /\ f.outer = Head(s).outer
  BY <1>2 DEF Frames
<1>4. stack' = [stack EXCEPT ![t] = r]
  BY DEF SetCallback
<1> HIDE DEF f
<1>5. r \in Seq(Frames) /\ r # <<>> /\ Chain(r, Len(flushing'))
  <2> HIDE DEF s
  <2> QED BY <1>1, <1>3, ChainTop DEF s
<1> HIDE DEF r, s
<1>6. batchSize = 1 => batch' = <<>> /\ flushing' = <<>> /\ lock = NoThread
  <2> SUFFICES ASSUME batchSize = 1 PROVE batch' = <<>> /\ flushing' = <<>> /\ lock = NoThread
    OBVIOUS
  <2>1. batch = <<>> /\ Len(flushing) = 0 /\ lock = NoThread
    BY DEF Nesting
  <2> QED BY <1>1, <2>1
<1>7. lock' = IF batchSize = 1 \/ r = <<>> THEN NoThread ELSE t
  BY <1>1, <1>5, <1>6
<1>8. Nesting'
  BY <1>1, <1>4, <1>5, <1>6, <1>7, NestingStep
<1>9. stack' \in [Threads -> Seq(Frames)]
  BY <1>1, <1>4, <1>5
<1> QED BY <1>8, <1>9

(* Every step of every thread and of a snapshot keeps the types and the    *)
(* nesting of the calls.                                                   *)
LEMMA CallsStep == Calls /\ [Next]_vars => TypeOK' /\ Nesting'
<1> SUFFICES ASSUME Calls, [Next]_vars PROVE TypeOK' /\ Nesting'
  OBVIOUS
<1> USE ProducerAssumption
<1> USE DEF sendVars, lineVars
<1>0. TypeOK /\ Nesting /\ OwnMessage
  BY DEF Calls
<1>1. ASSUME NEW t \in Threads, NEW m \in Messages, CallSend(t, m) PROVE TypeOK' /\ Nesting'
  <2>1. TypeOK'
    BY <1>0, <1>1 DEF CallSend, TypeOK, PCs
  <2>2. \A u \in Threads : pc'[u] = "loop" => stack[u] # <<>>
    BY <1>0, <1>1 DEF CallSend, TypeOK, Nesting
  <2> QED BY <1>0, <1>1, <2>1, <2>2, NestingQuiet DEF CallSend
<1>2. ASSUME NEW t \in Threads, Number(t) PROVE TypeOK' /\ Nesting'
  <2>0. msg[t] \in Messages
    BY <1>0, <1>2 DEF Number, OwnMessage
  <2>1. TypeOK'
    BY <1>0, <1>2, <2>0 DEF Number, NextNumber, TypeOK, PCs
  <2>2. \A u \in Threads : pc'[u] = "loop" => stack[u] # <<>>
    BY <1>0, <1>2 DEF Number, TypeOK, Nesting
  <2> QED BY <1>0, <1>2, <2>1, <2>2, NestingQuiet DEF Number
<1>3. ASSUME NEW t \in Threads, SendNow(t) PROVE TypeOK' /\ Nesting'
  <2> DEFINE f == Frame("now", CallbackOf(msg[t]))
             r == <<f>> \o stack[t]
  <2>1. /\ msg[t] \in Messages /\ batchSize = 1 /\ Take(msg[t])
        /\ stack' = [stack EXCEPT ![t] = r] /\ done' = Append(done, msg[t])
        /\ pc' = [pc EXCEPT ![t] = "application"]
        /\ UNCHANGED <<batchSize, closed, lock, msg, sequence, number, snapshot, batch,
                       flushing, lost, overtaking>>
    BY <1>0, <1>3 DEF SendNow, OwnMessage
  <2>2. /\ batch = <<>> /\ flushing = <<>> /\ lock = NoThread /\ Len(flushing) = 0
        /\ stack[t] \in Seq(Frames) /\ Chain(stack[t], Len(flushing))
        /\ stack \in [Threads -> Seq(Frames)]
    BY <1>0, <2>1, LockOfCalls DEF Nesting, TypeOK
  <2>3. f \in Frames /\ f.outer = Len(flushing)
    BY <2>2 DEF Frame, Frames, CallbackOf
  <2> HIDE DEF f
  <2>4. r \in Seq(Frames) /\ r # <<>> /\ Chain(r, Len(flushing))
    BY <2>2, <2>3, ChainPush
  <2> HIDE DEF r
  <2>5. Nesting'
    BY <1>0, <2>1, <2>2, <2>4, NestingStep DEF TypeOK
  <2>6. /\ taken' \in Nat /\ order' \in [Messages -> Nat]
        /\ done' \in Seq(Messages) /\ stack' \in [Threads -> Seq(Frames)]
    BY <1>0, <2>1, <2>2, <2>4, TakeEffect DEF TypeOK
  <2>7. TypeOK'
    BY <1>0, <2>1, <2>6 DEF TypeOK, PCs
  <2> QED BY <2>5, <2>7
<1>4. ASSUME NEW t \in Threads, Buffer(t) PROVE TypeOK' /\ Nesting'
  <2> DEFINE b == Append(batch, msg[t])
  <2>1. /\ msg[t] \in Messages /\ batchSize # 1 /\ LockFree(t) /\ Take(msg[t])
        /\ UNCHANGED <<batchSize, closed, msg, sequence, number, snapshot, done, lost>>
    BY <1>0, <1>4 DEF Buffer, OwnMessage, TypeOK
  <2>2. b \in Seq(Messages)
    BY <1>0, <2>1 DEF TypeOK
  <2>3. taken' \in Nat /\ order' \in [Messages -> Nat]
    BY <1>0, <2>1, TakeEffect
  <2>4. CASE /\ batch' = b /\ pc' = [pc EXCEPT ![t] = "application"]
             /\ UNCHANGED <<lock, stack, flushing, overtaking>>
    <3>1. TypeOK'
      BY <1>0, <2>1, <2>2, <2>3, <2>4 DEF TypeOK, PCs
    <3>2. Nesting'
      BY <1>0, <2>1, <2>4 DEF Nesting, TypeOK, Chain
    <3> QED BY <3>1, <3>2
  <2>5. CASE StartFlush(t, "send", b)
    <3>1. /\ batch' \in Seq(Messages) /\ flushing' \in Seq(Messages)
          /\ overtaking' \subseteq Messages \X Messages
          /\ lock' \in Threads /\ pc' = [pc EXCEPT ![t] = "loop"]
          /\ stack' \in [Threads -> Seq(Frames)] /\ Nesting'
      BY <1>0, <2>1, <2>2, <2>5, StartFlushNests
    <3>2. TypeOK'
      BY <1>0, <2>1, <2>3, <3>1 DEF TypeOK, PCs
    <3> QED BY <3>1, <3>2
  <2> QED BY <1>4, <2>4, <2>5 DEF Buffer
<1>5. ASSUME NEW t \in Threads, CallFlush(t) \/ CallClose(t) PROVE TypeOK' /\ Nesting'
  <2>1. /\ LockFree(t)
        /\ UNCHANGED <<batchSize, closed, msg, sequence, number, snapshot, done, lost,
                       taken, order>>
    BY <1>5 DEF CallFlush, CallClose
  <2>2. CASE /\ pc' = [pc EXCEPT ![t] = "close"]
             /\ UNCHANGED <<lock, stack, batch, flushing, overtaking>>
    <3>1. TypeOK'
      BY <1>0, <2>1, <2>2 DEF TypeOK, PCs
    <3>2. \A u \in Threads : pc'[u] = "loop" => stack[u] # <<>>
      BY <1>0, <2>2 DEF TypeOK, Nesting
    <3> QED BY <1>0, <2>1, <2>2, <3>1, <3>2, NestingQuiet
  <2>3. ASSUME NEW call \in {"send", "flush", "close"}, batch # <<>>, StartFlush(t, call, batch)
        PROVE  TypeOK' /\ Nesting'
    <3>0. batchSize # 1 /\ batch \in Seq(Messages)
      BY <1>0, <2>3 DEF Nesting, TypeOK
    <3>1. /\ batch' \in Seq(Messages) /\ flushing' \in Seq(Messages)
          /\ overtaking' \subseteq Messages \X Messages
          /\ lock' \in Threads /\ pc' = [pc EXCEPT ![t] = "loop"]
          /\ stack' \in [Threads -> Seq(Frames)] /\ Nesting'
      BY <1>0, <2>1, <2>3, <3>0, StartFlushNests
    <3>2. TypeOK'
      BY <1>0, <2>1, <3>1 DEF TypeOK, PCs
    <3> QED BY <3>1, <3>2
  <2> QED BY <1>5, <2>2, <2>3 DEF CallFlush, CallClose
<1>6. ASSUME NEW t \in Threads, SetClosed(t) PROVE TypeOK' /\ Nesting'
  <2>1. TypeOK'
    BY <1>0, <1>6 DEF SetClosed, TypeOK, PCs
  <2>2. \A u \in Threads : pc'[u] = "loop" => stack[u] # <<>>
    BY <1>0, <1>6 DEF SetClosed, TypeOK, Nesting
  <2> QED BY <1>0, <1>6, <2>1, <2>2, NestingQuiet DEF SetClosed
<1>7. ASSUME NEW t \in Threads, PublishOne(t) PROVE TypeOK' /\ Nesting'
  <2>1. /\ pc[t] = "loop" /\ MoreToDo(t) /\ flushing' = Tail(flushing)
        /\ done' = Append(done, Head(flushing))
        /\ SetCallback(t, CallbackOf(Head(flushing)))
        /\ pc' = [pc EXCEPT ![t] = "application"]
        /\ UNCHANGED <<batchSize, closed, lock, msg, sequence, number, snapshot, batch,
                       lost, taken, order, overtaking>>
    BY <1>7 DEF PublishOne
  <2>2. stack[t] # <<>> /\ stack[t] \in Seq(Frames)
    BY <1>0, <2>1, LockOfCalls DEF Nesting
  <2>3. Head(stack[t]).outer \in Nat /\ Head(stack[t]).outer < Len(flushing)
    <3>1. Head(stack[t]).outer \in Nat
      BY <1>0, <2>2, LockOfCalls, ChainTail
    <3> QED BY <2>1, <3>1 DEF MoreToDo
  <2>4. /\ flushing \in Seq(Messages) /\ flushing # <<>>
        /\ Head(flushing) \in Messages /\ flushing' \in Seq(Messages)
        /\ Len(flushing') = Len(flushing) - 1 /\ Len(flushing) \in Nat
    BY <1>0, <2>1, <2>3 DEF TypeOK
  <2>5. /\ CallbackOf(Head(flushing)) \in {"none", "onSuccess", "onError"}
        /\ Head(stack[t]).outer <= Len(flushing') /\ Len(flushing') <= Len(flushing)
    BY <2>3, <2>4 DEF CallbackOf
  <2>6. stack' \in [Threads -> Seq(Frames)] /\ Nesting'
    BY <1>0, <2>1, <2>2, <2>3, <2>4, <2>5, CallbackNests
  <2>7. done' \in Seq(Messages)
    BY <1>0, <2>1, <2>4 DEF TypeOK
  <2>8. TypeOK'
    BY <1>0, <2>1, <2>4, <2>6, <2>7 DEF TypeOK, PCs
  <2> QED BY <2>6, <2>8
<1>8. ASSUME NEW t \in Threads, CallbackReturns(t) \/ SuccessRaises(t)
      PROVE  TypeOK' /\ Nesting'
  <2>1. /\ stack[t] # <<>> /\ \E c \in {"none", "onError"} : SetCallback(t, c)
        /\ pc[t] = "application"
        /\ \E p \in {"loop", "application"} : pc' = [pc EXCEPT ![t] = p]
        /\ UNCHANGED <<batchSize, closed, lock, msg, sequence, number, snapshot, batch,
                       flushing, done, lost, taken, order, overtaking>>
    <3>1. pc[t] = "application" => pc = [pc EXCEPT ![t] = "application"]
      BY <1>0 DEF TypeOK
    <3>2. CASE CallbackReturns(t)
      BY <3>2 DEF CallbackReturns, InCallback
    <3>3. CASE SuccessRaises(t)
      BY <3>1, <3>3 DEF SuccessRaises, InCallback
    <3> QED BY <1>8, <3>2, <3>3
  <2>2. /\ Head(stack[t]).outer <= Len(flushing) /\ flushing' = flushing
        /\ flushing \in Seq(Messages) /\ Len(flushing) <= Len(flushing)
    BY <1>0, <2>1, LockOfCalls, ChainTail DEF TypeOK
  <2>3. stack' \in [Threads -> Seq(Frames)] /\ Nesting'
    <3>1. PICK c \in {"none", "onError"} : SetCallback(t, c)
      BY <2>1
    <3>2. PICK p \in {"loop", "application"} : pc' = [pc EXCEPT ![t] = p]
      BY <2>1
    <3>3. c \in {"none", "onSuccess", "onError"}
      OBVIOUS
    <3> QED BY <1>0, <2>1, <2>2, <3>1, <3>2, <3>3, CallbackNests
  <2>4. TypeOK'
    BY <1>0, <2>1, <2>3 DEF TypeOK, PCs
  <2> QED BY <2>3, <2>4
<1>9. ASSUME NEW t \in Threads, ErrorRaises(t) PROVE TypeOK' /\ Nesting'
  <2> DEFINE outer == Head(stack[t]).outer
             rest  == Len(flushing) - outer
  <2>1. /\ stack[t] # <<>> /\ pc[t] = "application" /\ Pop(t)
        /\ lost' = lost \cup {flushing[i] : i \in 1 .. rest}
        /\ flushing' = SubSeq(flushing, rest + 1, Len(flushing))
        /\ UNCHANGED <<batchSize, closed, pc, msg, sequence, number, snapshot, batch,
                       done, taken, order, overtaking>>
    BY <1>9 DEF ErrorRaises, InCallback
  <2>2. /\ outer \in Nat /\ outer <= Len(flushing) /\ flushing \in Seq(Messages)
        /\ Len(flushing) \in Nat
    BY <1>0, <2>1, LockOfCalls, ChainTail DEF TypeOK
  <2> HIDE DEF outer
  <2>3. flushing' \in Seq(Messages) /\ Len(flushing') = outer
    BY <2>1, <2>2
  <2>4. {flushing[i] : i \in 1 .. rest} \subseteq Messages
    BY <2>2
  <2>5. pc' = [pc EXCEPT ![t] = "application"]
    BY <1>0, <2>1 DEF TypeOK
  <2>6. /\ lock' \in Threads \cup {NoThread} /\ stack' \in [Threads -> Seq(Frames)]
        /\ Nesting'
    BY <1>0, <2>1, <2>3, <2>5, PopNests DEF outer
  <2>7. TypeOK'
    BY <1>0, <2>1, <2>3, <2>4, <2>6 DEF TypeOK
  <2> QED BY <2>6, <2>7
<1>10. ASSUME NEW t \in Threads, FlushAgain(t) PROVE TypeOK' /\ Nesting'
  <2>1. /\ pc[t] = "loop" /\ batch # <<>> /\ TakeBatch(t, batch, Len(stack[t]) > 1)
        /\ UNCHANGED <<batchSize, closed, stack, msg, sequence, number, snapshot, done,
                       lost, taken, order>>
    BY <1>10 DEF FlushAgain
  <2>2. /\ stack[t] # <<>> /\ batchSize # 1 /\ batch \in Seq(Messages)
        /\ stack[t] \in Seq(Frames) /\ Chain(stack[t], Len(flushing))
        /\ Len(flushing) \in Nat /\ lock = t /\ (Len(stack[t]) > 1) \in BOOLEAN
    BY <1>0, <2>1, LockOfCalls DEF Nesting, TypeOK
  <2>3. /\ batch' \in Seq(Messages) /\ flushing' \in Seq(Messages)
        /\ Len(flushing') \in Nat /\ Len(flushing) <= Len(flushing')
        /\ overtaking' \subseteq Messages \X Messages
        /\ lock' = t /\ pc' = [pc EXCEPT ![t] = "loop"]
    BY <1>0, <2>1, <2>2, MoveType
  <2>4. Chain(stack[t], Len(flushing'))
    BY <2>2, <2>3, ChainGrows
  <2>5. stack' = [stack EXCEPT ![t] = stack[t]] /\ stack \in [Threads -> Seq(Frames)]
    BY <1>0, <2>1 DEF TypeOK
  <2>6. Nesting'
    BY <1>0, <2>1, <2>2, <2>3, <2>4, <2>5, NestingStep
  <2>7. TypeOK'
    BY <1>0, <2>1, <2>3, <2>5 DEF TypeOK, PCs
  <2> QED BY <2>6, <2>7
<1>11. ASSUME NEW t \in Threads, FlushDone(t) PROVE TypeOK' /\ Nesting'
  <2>1. /\ pc[t] = "loop" /\ ~MoreToDo(t) /\ Pop(t)
        /\ UNCHANGED <<batchSize, closed, msg, sequence, number, snapshot, batch,
                       flushing, done, lost, taken, order, overtaking>>
    BY <1>11 DEF FlushDone
  <2>2. PICK p \in {"close", "application"} : pc' = [pc EXCEPT ![t] = p]
    BY <1>11 DEF FlushDone
  <2>3. stack[t] # <<>> /\ flushing \in Seq(Messages)
    BY <1>0, <2>1 DEF Nesting, TypeOK
  <2>4. Len(flushing) = Head(stack[t]).outer
    <3>1. /\ Head(stack[t]).outer \in Nat /\ Head(stack[t]).outer <= Len(flushing)
          /\ Len(flushing) \in Nat
      BY <1>0, <2>3, LockOfCalls, ChainTail
    <3> QED BY <2>1, <3>1 DEF MoreToDo
  <2>5. /\ lock' \in Threads \cup {NoThread} /\ stack' \in [Threads -> Seq(Frames)]
        /\ Nesting'
    BY <1>0, <2>1, <2>2, <2>3, <2>4, PopNests
  <2>6. TypeOK'
    BY <1>0, <2>1, <2>2, <2>5 DEF TypeOK, PCs
  <2> QED BY <2>5, <2>6
<1>12. CASE TakeSnapshot \/ ReadProducer \/ UNCHANGED vars
  <2>1. TypeOK'
    BY <1>0, <1>12 DEF TakeSnapshot, ReadProducer, vars, TypeOK
  <2>2. Nesting'
    BY <1>0, <1>12, NestingQuiet DEF TakeSnapshot, ReadProducer, vars, Nesting
  <2> QED BY <2>1, <2>2
<1> QED
  BY <1>1, <1>2, <1>3, <1>4, <1>5, <1>6, <1>7, <1>8, <1>9, <1>10, <1>11, <1>12
  DEF Next, Step, CallbackEnds

(* Every step keeps the messages of the senders apart.                     *)
LEMMA OwnStep == Calls /\ [Next]_vars => OwnMessage'
<1> SUFFICES ASSUME Calls, [Next]_vars PROVE OwnMessage'
  OBVIOUS
<1> USE DEF sendVars, lineVars
<1>0. TypeOK /\ OwnMessage /\ pc \in [Threads -> PCs]
  BY DEF Calls, TypeOK
<1>1. ASSUME NEW t \in Threads, NEW m \in Messages, CallSend(t, m) PROVE OwnMessage'
  <2>1. /\ pc[t] = "application" /\ m \notin Sent /\ msg' = [msg EXCEPT ![t] = m]
        /\ Taken' = Taken
        /\ \A u \in Threads : u # t => pc'[u] = pc[u]
        /\ pc'[t] \in {"number", "send"}
    BY <1>0, <1>1 DEF CallSend, Taken
  <2>2. \A u \in Threads : msg'[u] = IF u = t THEN m ELSE msg[u]
    BY <1>0, <2>1 DEF TypeOK
  <2>3. m \in Messages \ Taken /\ \A u \in Threads : msg[u] # m
    BY <2>1 DEF Sent
  <2> QED BY <1>0, <2>1, <2>2, <2>3 DEF OwnMessage
<1>2. ASSUME NEW t \in Threads, SendNow(t) \/ Buffer(t) PROVE OwnMessage'
  <2>1. /\ pc[t] = "send" /\ Take(msg[t]) /\ UNCHANGED msg
        /\ \E p \in {"application", "loop"} : pc' = [pc EXCEPT ![t] = p]
    BY <1>2 DEF SendNow, Buffer, StartFlush, TakeBatch
  <2>2. {"application", "loop"} \subseteq PCs
    BY DEF PCs
  <2> QED BY <1>0, <2>1, <2>2, OwnTaken
<1>3. ASSUME NEW t \in Threads,
             \/ Number(t) \/ CallFlush(t) \/ CallClose(t) \/ SetClosed(t) \/ PublishOne(t)
             \/ CallbackEnds(t) \/ FlushAgain(t) \/ FlushDone(t)
      PROVE  OwnMessage'
  <2>1. CASE Number(t)
    <3>1. UNCHANGED <<msg, order>> /\ pc[t] = "number" /\ pc' = [pc EXCEPT ![t] = "send"]
      BY <2>1 DEF Number
    <3>2. \A u \in Threads : pc'[u] = pc[u] \/ (pc[u] = "number" /\ pc'[u] = "send")
      BY <1>0, <3>1
    <3> QED BY <1>0, <3>1, <3>2, OwnQuiet
  <2>2. CASE ~Number(t)
    <3>1. /\ UNCHANGED <<msg, order>> /\ pc[t] \notin {"number", "send"}
          /\ \/ pc' = pc
             \/ \E p \in {"application", "loop", "close"} : pc' = [pc EXCEPT ![t] = p]
      BY <1>3, <2>2
      DEF CallFlush, CallClose, StartFlush, TakeBatch, SetClosed, PublishOne, CallbackEnds,
          CallbackReturns, SuccessRaises, ErrorRaises, InCallback, FlushAgain, FlushDone
    <3>2. \A u \in Threads : \/ pc'[u] = pc[u]
                             \/ /\ pc[u] \notin {"number", "send"}
                                /\ pc'[u] \notin {"number", "send"}
      BY <1>0, <3>1
    <3> QED BY <1>0, <3>1, <3>2, OwnQuiet
  <2> QED BY <2>1, <2>2
<1>4. CASE TakeSnapshot \/ ReadProducer \/ UNCHANGED vars
  BY <1>0, <1>4, OwnQuiet DEF TakeSnapshot, ReadProducer, vars
<1> QED BY <1>1, <1>2, <1>3, <1>4 DEF Next, Step

(* Types, nesting and the senders' messages together.                      *)
LEMMA NextCalls == Calls /\ [Next]_vars => Calls'
BY CallsStep, OwnStep DEF Calls

(* The state of the producer keeps its type.                               *)
THEOREM ProducerTyped == Spec => []TypeOK
<1>1. Calls => TypeOK
  BY DEF Calls
<1> QED BY InitCalls, NextCalls, <1>1, PTL DEF Spec

-----------------------------------------------------------------------------
(* The line of the messages.  InOrder and PublishedOnce, said of any       *)
(* sequence, places, pairs and lost messages.                              *)
Lined(L, place, pairs, gone) ==
    /\ \A i, j \in 1 .. Len(L) :
          i < j => place[L[i]] < place[L[j]] \/ <<L[i], L[j]>> \in pairs
    /\ \A i, j \in 1 .. Len(L) : L[i] = L[j] => i = j
    /\ \A i \in 1 .. Len(L) : L[i] \notin gone
    /\ \A m \in Messages : place[m] > 0 <=> m \in gone \/ \E i \in 1 .. Len(L) : L[i] = m

LineInv ==
    /\ Lined(Line, order, overtaking, lost)
    /\ \A m \in Messages : order[m] <= taken

(* Moving the first of the messages being flushed to the published ones    *)
(* does not change the whole.                                              *)
LEMMA MoveHead ==
    ASSUME NEW S, NEW a \in Seq(S), NEW b \in Seq(S), b # <<>>
    PROVE  Append(a, Head(b)) \o Tail(b) = a \o b
<1>1. /\ Head(b) \in S /\ Tail(b) \in Seq(S)
      /\ Len(Tail(b)) = Len(b) - 1 /\ Len(b) \in Nat \ {0}
  BY SMT
<1>2. \A i \in 1 .. Len(b) - 1 : Tail(b)[i] = b[i + 1]
  BY <1>1, SMT
<1> DEFINE x == Append(a, Head(b)) \o Tail(b)
           y == a \o b
<1>3. x \in Seq(S) /\ y \in Seq(S) /\ Len(x) = Len(y) /\ Len(x) = Len(a) + Len(b)
  BY <1>1, SMT
<1>4. ASSUME NEW i \in 1 .. Len(x) PROVE x[i] = y[i]
  <2>1. CASE i <= Len(a)
    BY <1>1, <1>3, <2>1, SMT
  <2>2. CASE i = Len(a) + 1
    BY <1>1, <1>3, <2>2, SMT
  <2>3. CASE i > Len(a) + 1
    BY <1>1, <1>2, <1>3, <2>3, SMT
  <2> QED BY <2>1, <2>2, <2>3, <1>3, SMT
<1> HIDE DEF x, y
<1>5. x = y
  BY <1>3, <1>4, SeqEqual
<1> QED BY <1>5 DEF x, y

(* A message appended to the last of two sequences is appended to their    *)
(* concatenation.                                                          *)
LEMMA AppendLast ==
    ASSUME NEW S, NEW a \in Seq(S), NEW b \in Seq(S), NEW e \in S
    PROVE  a \o Append(b, e) = Append(a \o b, e)
<1>1. Append(b, e) = b \o <<e>> /\ <<e>> \in Seq(S)
  BY AppendIsConcat, SMT
<1>2. a \o b \in Seq(S)
  BY SMT
<1>3. Append(a \o b, e) = (a \o b) \o <<e>>
  BY <1>2, AppendIsConcat
<1>4. (a \o b) \o <<e>> = a \o (b \o <<e>>)
  BY <1>1, ConcatAssociative
<1> QED BY <1>1, <1>3, <1>4

(* A new message, with a place after all others, at the end.               *)
LEMMA LinedAppend ==
    ASSUME NEW L \in Seq(Messages), NEW place \in [Messages -> Nat],
           NEW later \in [Messages -> Nat], NEW pairs, NEW gone, NEW m \in Messages,
           NEW n \in Nat, Lined(L, place, pairs, gone), place[m] = 0,
           \A o \in Messages : place[o] <= n,
           \A o \in Messages : later[o] = IF o = m THEN n + 1 ELSE place[o]
    PROVE  Lined(Append(L, m), later, pairs, gone) /\ \A o \in Messages : later[o] <= n + 1
<1> DEFINE r == Append(L, m)
<1>1. /\ Len(r) = Len(L) + 1 /\ Len(L) \in Nat /\ r[Len(L) + 1] = m
      /\ \A i \in 1 .. Len(L) : r[i] = L[i] /\ L[i] \in Messages
  OBVIOUS
<1> HIDE DEF r
<1>2. m \notin gone /\ \A i \in 1 .. Len(L) : L[i] # m
  BY DEF Lined
<1>3. \A i \in 1 .. Len(r) : i \in 1 .. Len(L) \/ i = Len(L) + 1
  BY <1>1
<1>4. ASSUME NEW i \in 1 .. Len(r), NEW j \in 1 .. Len(r), i < j
      PROVE  later[r[i]] < later[r[j]] \/ <<r[i], r[j]>> \in pairs
  <2>1. i \in 1 .. Len(L) /\ r[i] = L[i] /\ L[i] \in Messages /\ L[i] # m
    BY <1>1, <1>2, <1>3, <1>4
  <2>2. CASE j = Len(L) + 1
    <3>1. later[r[j]] = n + 1 /\ later[r[i]] = place[L[i]] /\ place[L[i]] <= n
      BY <1>1, <2>1, <2>2
    <3> QED BY <2>1, <3>1
  <2>3. CASE j \in 1 .. Len(L)
    <3>1. r[j] = L[j] /\ L[j] \in Messages /\ L[j] # m
      BY <1>1, <1>2, <2>3
    <3>2. later[r[i]] = place[L[i]] /\ later[r[j]] = place[L[j]]
      BY <2>1, <3>1
    <3>3. place[L[i]] < place[L[j]] \/ <<L[i], L[j]>> \in pairs
      BY <1>4, <2>1, <2>3 DEF Lined
    <3> QED BY <2>1, <3>1, <3>2, <3>3
  <2> QED BY <1>3, <2>2, <2>3
<1>5. \A i, j \in 1 .. Len(r) : r[i] = r[j] => i = j
  BY SMTT(40), <1>1, <1>2, <1>3 DEF Lined
<1>6. \A i \in 1 .. Len(r) : r[i] \notin gone
  BY <1>1, <1>2, <1>3 DEF Lined
<1>7. ASSUME NEW o \in Messages
      PROVE  later[o] > 0 <=> o \in gone \/ \E i \in 1 .. Len(r) : r[i] = o
  <2>1. CASE o = m
    <3>1. later[o] > 0 /\ Len(L) + 1 \in 1 .. Len(r)
      BY <1>1, <2>1
    <3> QED BY <1>1, <2>1, <3>1
  <2>2. CASE o # m
    <3>1. later[o] = place[o]
      BY <2>2
    <3>2. (\E i \in 1 .. Len(r) : r[i] = o) <=> \E i \in 1 .. Len(L) : L[i] = o
      <4>1. ASSUME NEW i \in 1 .. Len(r), r[i] = o PROVE i \in 1 .. Len(L) /\ L[i] = o
        BY <1>1, <1>3, <2>2, <4>1
      <4>2. ASSUME NEW i \in 1 .. Len(L), L[i] = o PROVE i \in 1 .. Len(r) /\ r[i] = o
        BY <1>1, <4>2
      <4> QED BY <4>1, <4>2
    <3> QED BY <3>1, <3>2 DEF Lined
  <2> QED BY <2>1, <2>2
<1>8. \A o \in Messages : later[o] <= n + 1
  OBVIOUS
<1> QED BY <1>4, <1>5, <1>6, <1>7, <1>8 DEF Lined, r

(* The elements of the line y are, one to one, those of the line x but for *)
(* the ones left out.  Where two of them have changed places, the pair is  *)
(* known.                                                                  *)
Moved(x, y, from, left, pairs) ==
    /\ from \in [1 .. Len(y) -> 1 .. Len(x)]
    /\ \A i, j \in 1 .. Len(y) : from[i] = from[j] => i = j
    /\ \A i \in 1 .. Len(y) : y[i] = x[from[i]]
    /\ \A i, j \in 1 .. Len(y) : i < j => from[i] < from[j] \/ <<y[i], y[j]>> \in pairs
    /\ \A k \in 1 .. Len(x) : x[k] \in left <=> ~ \E i \in 1 .. Len(y) : from[i] = k
    /\ left \subseteq {x[k] : k \in 1 .. Len(x)}

(* Such a line is as good as the other.                                    *)
LEMMA LinedMoved ==
    ASSUME NEW x \in Seq(Messages), NEW y \in Seq(Messages), NEW place, NEW gone,
           NEW pairs, NEW more, pairs \subseteq more, NEW left, NEW from,
           Lined(x, place, pairs, gone), Moved(x, y, from, left, more)
    PROVE  Lined(y, place, more, gone \cup left)
<1> USE DEF Moved
<1>1. \A i \in 1 .. Len(y) : from[i] \in 1 .. Len(x)
  OBVIOUS
<1>2. ASSUME NEW i \in 1 .. Len(y), NEW j \in 1 .. Len(y), i < j
      PROVE  place[y[i]] < place[y[j]] \/ <<y[i], y[j]>> \in more
  <2>1. CASE from[i] < from[j]
    <3>1. \/ place[x[from[i]]] < place[x[from[j]]]
          \/ <<x[from[i]], x[from[j]]>> \in pairs
      BY <1>1, <2>1 DEF Lined
    <3>2. y[i] = x[from[i]] /\ y[j] = x[from[j]]
      OBVIOUS
    <3> QED BY <3>1, <3>2
  <2> QED BY <1>2, <2>1
<1>3. ASSUME NEW i \in 1 .. Len(y), NEW j \in 1 .. Len(y), y[i] = y[j]
      PROVE  i = j
  <2>1. from[i] = from[j]
    BY <1>1, <1>3 DEF Lined
  <2> QED BY <2>1
<1>4. ASSUME NEW i \in 1 .. Len(y)
      PROVE  y[i] \notin gone \cup left
  BY <1>1 DEF Lined
<1>5. ASSUME NEW m \in Messages
      PROVE  place[m] > 0 <=> m \in gone \cup left \/ \E i \in 1 .. Len(y) : y[i] = m
  <2>1. (\E k \in 1 .. Len(x) : x[k] = m) <=> m \in left \/ \E i \in 1 .. Len(y) : y[i] = m
    <3>1. ASSUME NEW k \in 1 .. Len(x), x[k] = m, m \notin left
          PROVE  \E i \in 1 .. Len(y) : y[i] = m
      <4>1. PICK i \in 1 .. Len(y) : from[i] = k
        BY <3>1
      <4> QED BY <3>1, <4>1
    <3>2. ASSUME NEW i \in 1 .. Len(y), y[i] = m PROVE \E k \in 1 .. Len(x) : x[k] = m
      BY <1>1, <3>2
    <3> QED BY <3>1, <3>2
  <2> QED BY <2>1 DEF Lined
<1> QED BY <1>2, <1>3, <1>4, <1>5 DEF Lined

(* The elements of two sequences put together.                             *)
LEMMA TwoParts ==
    ASSUME NEW a \in Seq(Messages), NEW b \in Seq(Messages)
    PROVE  /\ a \o b \in Seq(Messages) /\ Len(a) \in Nat /\ Len(b) \in Nat
           /\ Len(a \o b) = Len(a) + Len(b)
           /\ \A i \in 1 .. Len(a) + Len(b) :
                 (a \o b)[i] = IF i <= Len(a) THEN a[i] ELSE b[i - Len(a)]
OBVIOUS

(* The elements of three sequences put together.                           *)
LEMMA ThreeParts ==
    ASSUME NEW a \in Seq(Messages), NEW b \in Seq(Messages), NEW c \in Seq(Messages)
    PROVE  /\ a \o b \o c \in Seq(Messages)
           /\ Len(a) \in Nat /\ Len(b) \in Nat /\ Len(c) \in Nat
           /\ Len(a \o b \o c) = Len(a) + Len(b) + Len(c)
           /\ \A i \in 1 .. Len(a) + Len(b) + Len(c) :
                 (a \o b \o c)[i] = IF i <= Len(a) THEN a[i]
                                    ELSE IF i <= Len(a) + Len(b) THEN b[i - Len(a)]
                                    ELSE c[i - (Len(a) + Len(b))]
<1> DEFINE d == a \o b
           r == d \o c
<1>1. /\ d \in Seq(Messages) /\ Len(d) = Len(a) + Len(b)
      /\ Len(a) \in Nat /\ Len(b) \in Nat /\ Len(c) \in Nat
      /\ \A i \in 1 .. Len(a) + Len(b) : d[i] = IF i <= Len(a) THEN a[i] ELSE b[i - Len(a)]
  BY TwoParts
<1> HIDE DEF d
<1>2. /\ r \in Seq(Messages) /\ Len(r) = Len(d) + Len(c)
      /\ \A i \in 1 .. Len(d) + Len(c) : r[i] = IF i <= Len(d) THEN d[i] ELSE c[i - Len(d)]
  BY <1>1, TwoParts
<1> HIDE DEF r
<1>3. ASSUME NEW i \in 1 .. Len(a) + Len(b) + Len(c)
      PROVE  r[i] = IF i <= Len(a) THEN a[i]
                    ELSE IF i <= Len(a) + Len(b) THEN b[i - Len(a)]
                    ELSE c[i - (Len(a) + Len(b))]
  <2>1. CASE i <= Len(a) + Len(b)
    <3>1. r[i] = d[i] /\ i \in 1 .. Len(a) + Len(b)
      BY <1>1, <1>2, <2>1
    <3> QED BY <1>1, <2>1, <3>1
  <2>2. CASE ~(i <= Len(a) + Len(b))
    <3>1. r[i] = c[i - (Len(a) + Len(b))] /\ ~(i <= Len(a))
      BY <1>1, <1>2, <2>2
    <3> QED BY <2>2, <3>1
  <2> QED BY <2>1, <2>2
<1> QED BY <1>1, <1>2, <1>3 DEF r, d

(* The last part goes before the middle one.                               *)
LEMMA LinedSwap ==
    ASSUME NEW a \in Seq(Messages), NEW b \in Seq(Messages), NEW c \in Seq(Messages),
           NEW place, NEW gone, NEW pairs, NEW more, pairs \subseteq more,
           Lined(a \o b \o c, place, pairs, gone),
           \A i \in 1 .. Len(c), j \in 1 .. Len(b) : <<c[i], b[j]>> \in more
    PROVE  Lined(a \o c \o b, place, more, gone)
<1> DEFINE x == a \o b \o c
           y == a \o c \o b
           n == Len(a) + Len(b) + Len(c)
           F(i) == IF i <= Len(a) THEN i
                   ELSE IF i <= Len(a) + Len(c) THEN i + Len(b) ELSE i - Len(c)
           from == [i \in 1 .. n |-> F(i)]
<1>1. /\ x \in Seq(Messages) /\ y \in Seq(Messages) /\ Len(x) = n /\ Len(y) = n
      /\ Len(a) \in Nat /\ Len(b) \in Nat /\ Len(c) \in Nat /\ n \in Nat
      /\ \A i \in 1 .. n : x[i] = IF i <= Len(a) THEN a[i]
                                  ELSE IF i <= Len(a) + Len(b) THEN b[i - Len(a)]
                                  ELSE c[i - (Len(a) + Len(b))]
      /\ \A i \in 1 .. n : y[i] = IF i <= Len(a) THEN a[i]
                                  ELSE IF i <= Len(a) + Len(c) THEN c[i - Len(a)]
                                  ELSE b[i - (Len(a) + Len(c))]
  BY ThreeParts
<1> HIDE DEF x, y
<1>2. /\ from \in [1 .. Len(y) -> 1 .. Len(x)]
      /\ \A i \in 1 .. n : from[i] = F(i)
  BY <1>1
<1>3. \A i, j \in 1 .. n : F(i) = F(j) => i = j
  BY SMTT(40), <1>1
<1>4. \A i \in 1 .. n : y[i] = x[F(i)]
  <2> SUFFICES ASSUME NEW i \in 1 .. n PROVE y[i] = x[F(i)]
    OBVIOUS
  <2>1. CASE i <= Len(a)
    BY <1>1, <2>1
  <2>2. CASE i > Len(a) /\ i <= Len(a) + Len(c)
    <3>1. /\ y[i] = c[i - Len(a)] /\ F(i) = i + Len(b) /\ i + Len(b) \in 1 .. n
          /\ ~(i + Len(b) <= Len(a)) /\ ~(i + Len(b) <= Len(a) + Len(b))
          /\ (i + Len(b)) - (Len(a) + Len(b)) = i - Len(a)
      BY <1>1, <2>2
    <3>2. x[i + Len(b)] = c[(i + Len(b)) - (Len(a) + Len(b))]
      BY <1>1, <3>1
    <3> QED BY <3>1, <3>2
  <2>3. CASE i > Len(a) + Len(c)
    <3>1. /\ y[i] = b[i - (Len(a) + Len(c))] /\ F(i) = i - Len(c) /\ i - Len(c) \in 1 .. n
          /\ ~(i - Len(c) <= Len(a)) /\ i - Len(c) <= Len(a) + Len(b)
          /\ (i - Len(c)) - Len(a) = i - (Len(a) + Len(c))
      BY <1>1, <2>3
    <3>2. x[i - Len(c)] = b[(i - Len(c)) - Len(a)]
      BY <1>1, <3>1
    <3> QED BY <3>1, <3>2
  <2> QED BY <1>1, <2>1, <2>2, <2>3
<1>5. ASSUME NEW i \in 1 .. n, NEW j \in 1 .. n, i < j
      PROVE  F(i) < F(j) \/ <<y[i], y[j]>> \in more
  <2>1. CASE i > Len(a) /\ i <= Len(a) + Len(c) /\ j > Len(a) + Len(c)
    <3>1. /\ y[i] = c[i - Len(a)] /\ i - Len(a) \in 1 .. Len(c)
          /\ y[j] = b[j - (Len(a) + Len(c))] /\ j - (Len(a) + Len(c)) \in 1 .. Len(b)
      BY <1>1, <2>1
    <3> QED BY <3>1
  <2>2. CASE ~(i > Len(a) /\ i <= Len(a) + Len(c) /\ j > Len(a) + Len(c))
    BY SMTT(40), <1>1, <1>5, <2>2
  <2> QED BY <2>1, <2>2
<1>6. ASSUME NEW k \in 1 .. n PROVE \E i \in 1 .. n : F(i) = k
  <2>1. CASE k <= Len(a)
    BY <1>1, <2>1
  <2>2. CASE k > Len(a) /\ k <= Len(a) + Len(b)
    <3>1. k + Len(c) \in 1 .. n /\ F(k + Len(c)) = k
      BY <1>1, <2>2
    <3> QED BY <3>1
  <2>3. CASE k > Len(a) + Len(b)
    <3>1. k - Len(b) \in 1 .. n /\ F(k - Len(b)) = k
      BY <1>1, <2>3
    <3> QED BY <3>1
  <2> QED BY <1>1, <2>1, <2>2, <2>3
<1> HIDE DEF F
<1>7. Moved(x, y, from, {}, more)
  <2>0. Len(x) = n /\ Len(y) = n
    BY <1>1
  <2> HIDE DEF from, n
  <2>1. /\ \A i, j \in 1 .. Len(y) : from[i] = from[j] => i = j
        /\ \A i \in 1 .. Len(y) : y[i] = x[from[i]]
    BY <1>2, <1>3, <1>4, <2>0
  <2>2. \A i, j \in 1 .. Len(y) : i < j => from[i] < from[j] \/ <<y[i], y[j]>> \in more
    BY <1>2, <1>5, <2>0
  <2>3. \A k \in 1 .. Len(x) : x[k] \in {} <=> ~ \E i \in 1 .. Len(y) : from[i] = k
    BY <1>2, <1>6, <2>0
  <2> QED BY <1>2, <2>1, <2>2, <2>3 DEF Moved
<1>8. Lined(x, place, pairs, gone)
  BY DEF x
<1> HIDE DEF from, n
<1>9. Lined(y, place, more, gone \cup {})
  BY <1>1, <1>2, <1>7, <1>8, LinedMoved
<1>10. gone \cup {} = gone
  OBVIOUS
<1> QED BY <1>9, <1>10 DEF y

(* The beginning of the middle part is dropped.                            *)
LEMMA LinedDrop ==
    ASSUME NEW a \in Seq(Messages), NEW b \in Seq(Messages), NEW c \in Seq(Messages),
           NEW k \in Nat, k <= Len(b), NEW place, NEW gone, NEW pairs,
           Lined(a \o b \o c, place, pairs, gone)
    PROVE  Lined(a \o SubSeq(b, k + 1, Len(b)) \o c, place, pairs,
                 gone \cup {b[i] : i \in 1 .. k})
<1> DEFINE e == SubSeq(b, k + 1, Len(b))
           x == a \o b \o c
           y == a \o e \o c
           n == Len(a) + Len(b) + Len(c)
           h == n - k
           left == {b[i] : i \in 1 .. k}
           F(i) == IF i <= Len(a) THEN i ELSE i + k
           from == [i \in 1 .. h |-> F(i)]
<1>0. /\ e \in Seq(Messages) /\ Len(e) = Len(b) - k /\ Len(b) \in Nat
      /\ \A i \in 1 .. Len(b) - k : e[i] = b[i + k]
  OBVIOUS
<1> HIDE DEF e
<1>1. /\ x \in Seq(Messages) /\ Len(x) = n
      /\ Len(a) \in Nat /\ Len(b) \in Nat /\ Len(c) \in Nat /\ n \in Nat
      /\ \A i \in 1 .. n : x[i] = IF i <= Len(a) THEN a[i]
                                  ELSE IF i <= Len(a) + Len(b) THEN b[i - Len(a)]
                                  ELSE c[i - (Len(a) + Len(b))]
  BY ThreeParts
<1>2. /\ y \in Seq(Messages) /\ Len(y) = Len(a) + Len(e) + Len(c)
      /\ \A i \in 1 .. Len(a) + Len(e) + Len(c) :
             y[i] = IF i <= Len(a) THEN a[i]
                    ELSE IF i <= Len(a) + Len(e) THEN e[i - Len(a)]
                    ELSE c[i - (Len(a) + Len(e))]
  <2>1. a \in Seq(Messages) /\ e \in Seq(Messages) /\ c \in Seq(Messages)
    BY <1>0
  <2> QED BY ONLY <2>1, ThreeParts
<1>3. h \in Nat /\ h = Len(a) + Len(e) + Len(c) /\ Len(y) = h
  BY <1>0, <1>1, <1>2
<1> HIDE DEF x, y
<1>4. \A i \in 1 .. h : F(i) \in 1 .. n
  BY <1>1
<1>5. /\ \A i, j \in 1 .. h : F(i) = F(j) => i = j
      /\ \A i, j \in 1 .. h : i < j => F(i) < F(j)
  BY <1>1
<1>6. ASSUME NEW i \in 1 .. h PROVE y[i] = x[F(i)]
  <2>0. i \in 1 .. Len(a) + Len(e) + Len(c) /\ Len(e) = Len(b) - k
    BY <1>0, <1>3
  <2>1. CASE i <= Len(a)
    <3>1. F(i) = i /\ i \in 1 .. n
      BY <1>1, <2>1
    <3>2. y[i] = a[i]
      BY <1>2, <2>0, <2>1
    <3>3. x[i] = a[i]
      BY <1>1, <2>1, <3>1
    <3> QED BY <3>1, <3>2, <3>3
  <2>2. CASE i > Len(a) /\ i <= Len(a) + (Len(b) - k)
    <3>1. /\ y[i] = e[i - Len(a)] /\ i - Len(a) \in 1 .. Len(b) - k
      BY <1>1, <1>2, <2>0, <2>2
    <3>2. e[i - Len(a)] = b[(i - Len(a)) + k] /\ (i - Len(a)) + k = (i + k) - Len(a)
      <4>1. e[i - Len(a)] = b[(i - Len(a)) + k]
        BY ONLY <1>0, <3>1
      <4>2. Len(a) \in Int /\ i \in Int /\ k \in Int
        BY <1>1
      <4> QED BY ONLY <4>1, <4>2
    <3>3. /\ F(i) = i + k /\ i + k \in 1 .. n /\ ~(i + k <= Len(a))
          /\ i + k <= Len(a) + Len(b)
      BY <1>1, <2>2
    <3>4. x[i + k] = b[(i + k) - Len(a)]
      BY <1>1, <3>3
    <3> QED BY <3>1, <3>2, <3>3, <3>4
  <2>3. CASE i > Len(a) + (Len(b) - k)
    <3>1. /\ y[i] = c[i - (Len(a) + (Len(b) - k))]
          /\ F(i) = i + k /\ i + k \in 1 .. n /\ ~(i + k <= Len(a))
          /\ ~(i + k <= Len(a) + Len(b))
          /\ i - (Len(a) + (Len(b) - k)) = (i + k) - (Len(a) + Len(b))
      BY <1>1, <1>2, <2>0, <2>3
    <3>2. x[i + k] = c[(i + k) - (Len(a) + Len(b))]
      BY <1>1, <3>1
    <3> QED BY <3>1, <3>2
  <2> QED BY <1>1, <2>1, <2>2, <2>3
<1>7. ASSUME NEW j \in 1 .. n
      PROVE  /\ x[j] \in left <=> j \in Len(a) + 1 .. Len(a) + k
             /\ j \in Len(a) + 1 .. Len(a) + k <=> ~ \E i \in 1 .. h : F(i) = j
  <2>1. \A i \in 1 .. k : Len(a) + i \in 1 .. n /\ x[Len(a) + i] = b[i]
    <3> SUFFICES ASSUME NEW i \in 1 .. k PROVE Len(a) + i \in 1 .. n /\ x[Len(a) + i] = b[i]
      OBVIOUS
    <3>1. /\ Len(a) + i \in 1 .. n /\ ~(Len(a) + i <= Len(a))
          /\ Len(a) + i <= Len(a) + Len(b) /\ (Len(a) + i) - Len(a) = i
      BY <1>1
    <3>2. x[Len(a) + i] = b[(Len(a) + i) - Len(a)]
      BY <1>1, <3>1
    <3> QED BY <3>1, <3>2
  <2>2. \A u, v \in 1 .. n : x[u] = x[v] => u = v
    BY <1>1 DEF Lined, x
  <2>3. ASSUME x[j] \in left PROVE j \in Len(a) + 1 .. Len(a) + k
    <3>1. PICK i \in 1 .. k : x[j] = b[i]
      BY <2>3
    <3>2. j = Len(a) + i
      BY <2>1, <2>2, <3>1
    <3> QED BY <1>1, <3>2
  <2>4. ASSUME j \in Len(a) + 1 .. Len(a) + k PROVE x[j] \in left
    <3>1. j - Len(a) \in 1 .. k /\ Len(a) + (j - Len(a)) = j
      BY <1>1, <2>4
    <3>2. x[j] = b[j - Len(a)]
      BY <2>1, <3>1
    <3> QED BY <3>1, <3>2
  <2>5. ASSUME NEW i \in 1 .. h, F(i) = j PROVE j \notin Len(a) + 1 .. Len(a) + k
    BY <1>1, <2>5
  <2>6. ASSUME j \notin Len(a) + 1 .. Len(a) + k PROVE \E i \in 1 .. h : F(i) = j
    <3>1. CASE j <= Len(a)
      <4>1. j \in 1 .. h /\ F(j) = j
        BY <1>1, <3>1
      <4> QED BY <4>1
    <3>2. CASE ~(j <= Len(a))
      <4>1. j - k \in 1 .. h /\ F(j - k) = j
        BY <1>1, <2>6, <3>2
      <4> QED BY <4>1
    <3> QED BY <3>1, <3>2
  <2> QED BY <2>3, <2>4, <2>5, <2>6
<1>8. left \subseteq {x[j] : j \in 1 .. n}
  <2> SUFFICES ASSUME NEW i \in 1 .. k PROVE \E j \in 1 .. n : x[j] = b[i]
    OBVIOUS
  <2>1. /\ Len(a) + i \in 1 .. n /\ ~(Len(a) + i <= Len(a))
        /\ Len(a) + i <= Len(a) + Len(b) /\ (Len(a) + i) - Len(a) = i
    BY <1>1
  <2>2. x[Len(a) + i] = b[(Len(a) + i) - Len(a)]
    BY <1>1, <2>1
  <2> QED BY <2>1, <2>2
<1>9. \A i \in 1 .. h : from[i] = F(i)
  OBVIOUS
<1>10. from \in [1 .. h -> 1 .. n]
  BY <1>4
<1>11. Moved(x, y, from, left, pairs)
  <2>0. Len(x) = n /\ Len(y) = h
    BY <1>1, <1>3
  <2> HIDE DEF from, n, h, F, left
  <2>1. /\ \A i, j \in 1 .. Len(y) : from[i] = from[j] => i = j
        /\ \A i \in 1 .. Len(y) : y[i] = x[from[i]]
    BY <1>5, <1>6, <1>9, <2>0
  <2>2. \A i, j \in 1 .. Len(y) : i < j => from[i] < from[j] \/ <<y[i], y[j]>> \in pairs
    BY <1>5, <1>9, <2>0
  <2>3. \A u \in 1 .. Len(x) : x[u] \in left <=> ~ \E i \in 1 .. Len(y) : from[i] = u
    BY <1>7, <1>9, <2>0
  <2> QED BY <1>8, <1>10, <2>0, <2>1, <2>2, <2>3 DEF Moved
<1>12. Lined(x, place, pairs, gone) /\ pairs \subseteq pairs
  BY DEF x
<1> HIDE DEF from, n, h, left
<1>13. Lined(y, place, pairs, gone \cup left)
  BY <1>1, <1>2, <1>11, <1>12, LinedMoved
<1> QED BY <1>13 DEF y, e, left

(* The batch goes before what is being flushed.                            *)
LEMMA TakeBatchLine ==
    ASSUME TypeOK, NEW t \in Threads, NEW b \in Seq(Messages), NEW nested \in BOOLEAN,
           TakeBatch(t, b, nested), UNCHANGED done, NEW place,
           Lined(done \o flushing \o b, place, overtaking, lost),
           nested \/ flushing = <<>>
    PROVE  Lined(Line', place, overtaking', lost)
<1>1. /\ done \in Seq(Messages) /\ flushing \in Seq(Messages)
      /\ flushing' = b \o flushing /\ batch' = <<>>
      /\ overtaking' = IF nested THEN overtaking \cup (ToSet(b) \X ToSet(flushing))
                       ELSE overtaking
  BY MoveType DEF TypeOK
<1>2. overtaking \subseteq overtaking'
  BY <1>1
<1>3. \A i \in 1 .. Len(b), j \in 1 .. Len(flushing) : <<b[i], flushing[j]>> \in overtaking'
  <2>1. CASE flushing = <<>>
    BY <2>1
  <2>2. CASE nested
    <3>1. /\ \A i \in 1 .. Len(b) : b[i] \in ToSet(b)
          /\ \A j \in 1 .. Len(flushing) : flushing[j] \in ToSet(flushing)
      BY <1>1 DEF ToSet
    <3> QED BY <1>1, <2>2, <3>1
  <2> QED BY <2>1, <2>2
<1>4. Lined(done \o b \o flushing, place, overtaking', lost)
  BY <1>1, <1>2, <1>3, LinedSwap
<1>5. Line' = done \o b \o flushing
  <2>1. Line' = (done \o (b \o flushing)) \o <<>>
    BY <1>1 DEF Line
  <2>2. done \o (b \o flushing) = done \o b \o flushing
    <3>1. done \in Seq(Messages) /\ flushing \in Seq(Messages)
      BY <1>1
    <3> QED BY ONLY SMTT(40), <3>1, b \in Seq(Messages), ConcatAssociative
  <2>3. done \o b \o flushing \in Seq(Messages)
    BY <1>1, ThreeParts
  <2> QED BY <2>1, <2>2, <2>3, ConcatEmptySeq
<1> QED BY <1>4, <1>5

(* A sequence with one element.                                            *)
LEMMA OneElement ==
    ASSUME NEW S, NEW s \in Seq(S), s # <<>>, ~(Len(s) > 1)
    PROVE  Len(s) = 1 /\ Head(s) = s[1]
<1>1. Len(s) \in Nat /\ Len(s) # 0
  BY EmptySeq
<1>2. Head(s) = s[1]
  BY SMT
<1>3. ASSUME NEW n \in Nat, n # 0, ~(n > 1) PROVE n = 1
  BY ONLY <1>3
<1>4. Len(s) = 1
  BY <1>1, <1>3
<1> QED BY <1>2, <1>4

(* A flush that begins while another is going on is a callback's: whoever  *)
(* gets the lock from outside finds nothing being flushed.                 *)
LEMMA OutsideNothing ==
    ASSUME TypeOK, Nesting, NEW t \in Threads
    PROVE  /\ LockFree(t) => stack[t] # <<>> \/ flushing = <<>>
           /\ pc[t] = "loop" /\ ~MoreToDo(t) => Len(stack[t]) > 1 \/ flushing = <<>>
<1>1. LockFree(t) => stack[t] # <<>> \/ flushing = <<>>
  BY LockOfCalls
<1>2. ASSUME pc[t] = "loop", ~MoreToDo(t), ~(Len(stack[t]) > 1) PROVE flushing = <<>>
  <2>1. /\ stack[t] \in Seq(Frames) /\ stack[t] # <<>> /\ Chain(stack[t], Len(flushing))
        /\ Len(flushing) \in Nat /\ flushing \in Seq(Messages)
    BY <1>2, LockOfCalls DEF Nesting, TypeOK
  <2>2. Len(stack[t]) = 1 /\ Head(stack[t]) = stack[t][1]
    BY <1>2, <2>1, OneElement
  <2>3. Head(stack[t]).outer = 0
    BY <2>1, <2>2 DEF Chain
  <2> QED BY <1>2, <2>1, <2>3 DEF MoreToDo
<1> QED BY <1>1, <1>2

(* Every step keeps the line.                                              *)
LEMMA LineStep == Calls /\ LineInv /\ [Next]_vars => LineInv'
<1> SUFFICES ASSUME Calls, LineInv, [Next]_vars PROVE LineInv'
  OBVIOUS
<1>0. /\ TypeOK /\ Nesting /\ OwnMessage
      /\ done \in Seq(Messages) /\ flushing \in Seq(Messages) /\ batch \in Seq(Messages)
      /\ Line \in Seq(Messages) /\ Line = done \o flushing \o batch
      /\ taken \in Nat /\ order \in [Messages -> Nat]
      /\ Lined(Line, order, overtaking, lost) /\ \A m \in Messages : order[m] <= taken
  <2>1. done \in Seq(Messages) /\ flushing \in Seq(Messages) /\ batch \in Seq(Messages)
    BY DEF Calls, TypeOK
  <2>2. Line \in Seq(Messages)
    BY <2>1, ThreeParts DEF Line
  <2> QED BY <2>1, <2>2 DEF Calls, LineInv, TypeOK, Line
<1>1. ASSUME UNCHANGED <<order, taken, overtaking, lost>>, Line' = Line PROVE LineInv'
  <2>1. Lined(Line', order', overtaking', lost')
    BY <1>0, <1>1
  <2> QED BY <1>0, <1>1, <2>1 DEF LineInv
<1>2. ASSUME NEW t \in Threads, pc[t] = "send", Take(msg[t])
      PROVE  /\ msg[t] \in Messages
             /\ Lined(Append(Line, msg[t]), order', overtaking, lost)
             /\ \A o \in Messages : order'[o] <= taken'
  <2>1. msg[t] \in Messages /\ order[msg[t]] = 0
    BY <1>0, <1>2 DEF OwnMessage, Taken
  <2>2. /\ order' \in [Messages -> Nat] /\ taken' = taken + 1
        /\ \A o \in Messages : order'[o] = IF o = msg[t] THEN taken + 1 ELSE order[o]
    BY <1>0, <1>2, <2>1, TakeEffect
  <2>3. /\ Lined(Append(Line, msg[t]), order', overtaking, lost)
        /\ \A o \in Messages : order'[o] <= taken + 1
    <3>1. /\ Line \in Seq(Messages) /\ taken \in Nat /\ order \in [Messages -> Nat]
          /\ Lined(Line, order, overtaking, lost) /\ \A o \in Messages : order[o] <= taken
      BY <1>0
    <3> HIDE DEF Line
    <3> QED BY ONLY <2>1, <2>2, <3>1, LinedAppend
  <2> QED BY <2>1, <2>2, <2>3
<1>3. ASSUME NEW t \in Threads, SendNow(t) PROVE LineInv'
  <2>1. /\ pc[t] = "send" /\ batchSize = 1 /\ Take(msg[t]) /\ done' = Append(done, msg[t])
        /\ UNCHANGED <<batch, flushing, lost, overtaking>>
    BY <1>3 DEF SendNow
  <2>2. flushing = <<>> /\ batch = <<>>
    BY <1>0, <2>1 DEF Nesting
  <2>3. Line = done
    BY <1>0, <2>2, ConcatEmptySeq
  <2>4. done' \in Seq(Messages) /\ Line' = done'
    <3>1. done' \in Seq(Messages)
      BY <1>0, <1>2, <2>1
    <3>2. Line' = done' \o <<>> \o <<>>
      BY <2>1, <2>2 DEF Line
    <3> QED BY <3>1, <3>2, ConcatEmptySeq
  <2>5. /\ Lined(Append(Line, msg[t]), order', overtaking, lost)
        /\ \A o \in Messages : order'[o] <= taken'
    BY <1>2, <2>1
  <2> QED BY <2>1, <2>3, <2>4, <2>5 DEF LineInv
<1>4. ASSUME NEW t \in Threads, Buffer(t) PROVE LineInv'
  <2> DEFINE b == Append(batch, msg[t])
  <2>1. /\ pc[t] = "send" /\ LockFree(t) /\ Take(msg[t]) /\ UNCHANGED <<done, lost>>
        /\ \/ batch' = b /\ UNCHANGED <<flushing, overtaking>>
           \/ StartFlush(t, "send", b)
    BY <1>4 DEF Buffer
  <2>2. /\ msg[t] \in Messages
        /\ Lined(Append(Line, msg[t]), order', overtaking, lost)
        /\ \A o \in Messages : order'[o] <= taken'
    BY <1>2, <2>1
  <2>3. b \in Seq(Messages) /\ done \o flushing \o b = Append(Line, msg[t])
    <3>1. batch \in Seq(Messages) /\ msg[t] \in Messages /\ Line = done \o flushing \o batch
      BY <1>0, <2>2
    <3>2. done \o flushing \in Seq(Messages)
      BY <1>0, TwoParts
    <3>3. done \o flushing \o b = Append(done \o flushing \o batch, msg[t])
      BY ONLY <3>1, <3>2, AppendLast
    <3> QED BY <3>1, <3>3
  <2>4. CASE batch' = b /\ UNCHANGED <<flushing, overtaking>>
    <3>1. Line' = done \o flushing \o b
      BY <2>1, <2>4 DEF Line
    <3> QED BY <2>1, <2>2, <2>3, <2>4, <3>1 DEF LineInv
  <2>5. CASE StartFlush(t, "send", b)
    <3>1. TakeBatch(t, b, stack[t] # <<>>)
      BY <2>5 DEF StartFlush
    <3>2. (stack[t] # <<>>) \in BOOLEAN /\ (stack[t] # <<>> \/ flushing = <<>>)
      BY <1>0, <2>1, OutsideNothing
    <3>3. Lined(done \o flushing \o b, order', overtaking, lost)
      BY <2>2, <2>3
    <3>4. Lined(Line', order', overtaking', lost)
      BY <1>0, <2>1, <2>3, <3>1, <3>2, <3>3, TakeBatchLine
    <3> QED BY <2>1, <2>2, <3>4 DEF LineInv
  <2> QED BY <2>1, <2>4, <2>5
<1>5. ASSUME NEW t \in Threads, NEW nested \in BOOLEAN, TakeBatch(t, batch, nested),
             nested \/ flushing = <<>>, UNCHANGED <<done, lost, taken, order>>
      PROVE  LineInv'
  <2>1. Lined(done \o flushing \o batch, order, overtaking, lost)
    BY <1>0
  <2>2. Lined(Line', order, overtaking', lost)
    BY <1>0, <1>5, <2>1, TakeBatchLine
  <2> QED BY <1>0, <1>5, <2>2 DEF LineInv
<1>6. ASSUME NEW t \in Threads, CallFlush(t) \/ CallClose(t) PROVE LineInv'
  <2>1. LockFree(t) /\ UNCHANGED <<done, lost, taken, order>>
    BY <1>6 DEF CallFlush, CallClose
  <2>2. (stack[t] # <<>>) \in BOOLEAN /\ (stack[t] # <<>> \/ flushing = <<>>)
    BY <1>0, <2>1, OutsideNothing
  <2>3. CASE TakeBatch(t, batch, stack[t] # <<>>)
    BY <1>5, <2>1, <2>2, <2>3
  <2>4. CASE UNCHANGED <<batch, flushing, overtaking>>
    <3>1. Line' = Line
      BY <2>1, <2>4 DEF Line
    <3> QED BY <1>1, <2>1, <2>4, <3>1
  <2> QED BY <1>6, <2>3, <2>4 DEF CallFlush, CallClose, StartFlush
<1>7. ASSUME NEW t \in Threads, FlushAgain(t) PROVE LineInv'
  <2>1. /\ pc[t] = "loop" /\ ~MoreToDo(t) /\ TakeBatch(t, batch, Len(stack[t]) > 1)
        /\ UNCHANGED <<done, lost, taken, order>>
    BY <1>7 DEF FlushAgain
  <2>2. (Len(stack[t]) > 1) \in BOOLEAN /\ (Len(stack[t]) > 1 \/ flushing = <<>>)
    BY <1>0, <2>1, OutsideNothing
  <2> QED BY <1>5, <2>1, <2>2
<1>8. ASSUME NEW t \in Threads, PublishOne(t) PROVE LineInv'
  <2>1. /\ pc[t] = "loop" /\ MoreToDo(t) /\ flushing' = Tail(flushing)
        /\ done' = Append(done, Head(flushing))
        /\ UNCHANGED <<batch, lost, taken, order, overtaking>>
    BY <1>8 DEF PublishOne
  <2>2. flushing # <<>>
    <3>1. stack[t] # <<>>
      BY <1>0, <2>1 DEF Nesting
    <3>2. Head(stack[t]).outer \in Nat
      BY <1>0, <3>1, LockOfCalls, ChainTail
    <3> QED BY <2>1, <3>2 DEF MoreToDo
  <2>3. done' \o flushing' = done \o flushing
    BY <1>0, <2>1, <2>2, MoveHead
  <2>4. Line' = Line
    BY <2>1, <2>3 DEF Line
  <2> QED BY <1>1, <2>1, <2>4
<1>9. ASSUME NEW t \in Threads, ErrorRaises(t) PROVE LineInv'
  <2> DEFINE k == Len(flushing) - Head(stack[t]).outer
  <2>1. /\ stack[t] # <<>>
        /\ lost' = lost \cup {flushing[i] : i \in 1 .. k}
        /\ flushing' = SubSeq(flushing, k + 1, Len(flushing))
        /\ UNCHANGED <<batch, done, taken, order, overtaking>>
    BY <1>9 DEF ErrorRaises, InCallback
  <2>2. k \in Nat /\ k <= Len(flushing)
    <3>1. /\ Head(stack[t]).outer \in Nat /\ Head(stack[t]).outer <= Len(flushing)
          /\ Len(flushing) \in Nat
      BY <1>0, <2>1, LockOfCalls, ChainTail
    <3> QED BY <3>1
  <2> HIDE DEF k
  <2>3. Lined(done \o flushing \o batch, order, overtaking, lost)
    BY <1>0
  <2>4. Lined(done \o flushing' \o batch, order, overtaking, lost')
    BY <1>0, <2>1, <2>2, <2>3, LinedDrop
  <2> QED BY <1>0, <2>1, <2>4 DEF LineInv, Line
<1>10. CASE \/ \E t \in Threads : \/ \E m \in Messages : CallSend(t, m)
                                  \/ Number(t) \/ SetClosed(t) \/ CallbackReturns(t)
                                  \/ SuccessRaises(t) \/ FlushDone(t)
            \/ TakeSnapshot \/ ReadProducer \/ UNCHANGED vars
  <2>1. UNCHANGED lineVars
    BY <1>10 DEF CallSend, Number, SetClosed, CallbackReturns, SuccessRaises, FlushDone,
                 TakeSnapshot, ReadProducer, vars
  <2> QED BY <1>1, <2>1 DEF lineVars, Line
<1> QED
  BY <1>3, <1>4, <1>6, <1>7, <1>8, <1>9, <1>10 DEF Next, Step, CallbackEnds

(* No message is in the line of a new producer.                            *)
LEMMA InitLine == Init => LineInv
<1> SUFFICES ASSUME Init PROVE LineInv
  OBVIOUS
<1>1. Line = <<>>
  BY ConcatEmptySeq DEF Init, Line
<1>2. \A m \in Messages : order[m] = 0
  BY DEF Init
<1> QED BY <1>1, <1>2 DEF Init, LineInv, Lined

(* The line repeats nothing, and holds what send took and was not lost.    *)
LEMMA OnceInLine == Calls /\ LineInv => PublishedOnce
<1> SUFFICES ASSUME Calls, LineInv PROVE PublishedOnce
  OBVIOUS
<1>1. Line \in Seq(Messages) /\ lost \subseteq Messages
  <2>1. /\ done \in Seq(Messages) /\ flushing \in Seq(Messages) /\ batch \in Seq(Messages)
        /\ lost \subseteq Messages
    BY DEF Calls, TypeOK
  <2> QED BY <2>1, ThreeParts DEF Line
<1>2. ToSet(Line) = {Line[i] : i \in 1 .. Len(Line)} /\ ToSet(Line) \subseteq Messages
  BY <1>1 DEF ToSet
<1>3. Lined(Line, order, overtaking, lost)
  BY DEF LineInv
<1>4. ToSet(Line) \cap lost = {}
  BY <1>2, <1>3 DEF Lined
<1>5. ToSet(Line) \cup lost = Taken
  <2>1. \A m \in Messages : m \in Taken <=> m \in lost \/ m \in ToSet(Line)
    BY <1>2, <1>3 DEF Lined, Taken
  <2> QED BY <1>1, <1>2, <2>1 DEF Taken
<1> QED BY <1>3, <1>4, <1>5 DEF PublishedOnce, Lined

(* Every message that send took is published once or still in the line, or *)
(* was in the rest of a batch that a raising on_error has left; and the    *)
(* messages keep the order in which send took them, except that one which  *)
(* a callback flushed overtakes those of the loop that the callback        *)
(* interrupted, whatever threads and callbacks do (producer.py 131-189).   *)
THEOREM PublishedInOrder == Spec => []InOrder
<1>1. Calls /\ LineInv => InOrder
  BY OnceInLine DEF LineInv, Lined, InOrder
<1>2. Init => Calls /\ LineInv
  BY InitCalls, InitLine
<1>3. Calls /\ LineInv /\ [Next]_vars => (Calls /\ LineInv)'
  BY NextCalls, LineStep
<1> QED BY <1>1, <1>2, <1>3, PTL DEF Spec

-----------------------------------------------------------------------------
(* Sequence numbers.  What makes NumbersUnique inductive: the numbers      *)
(* given lie below _sequence_number, each given once; a thread that waits  *)
(* for a number has a message that has none yet; and a message once sent   *)
(* is never sent again.                                                    *)
Numbered(m) == number[m] # -1

GivenOnce ==
    /\ \A m \in Messages : Numbered(m) => number[m] \in 0 .. sequence - 1
    /\ \A m, o \in Messages : Numbered(m) /\ number[m] = number[o] => m = o
    /\ \A k \in 0 .. sequence - 1 : \E m \in Messages : number[m] = k

NumberInv ==
    /\ GivenOnce
    /\ \A t \in Threads : pc[t] = "number" => ~ Numbered(msg[t])
    /\ \A m \in Messages : Numbered(m) => m \in Sent

(* A step that leaves the messages of the threads and the numbers alone    *)
(* keeps the invariant.                                                    *)
LEMMA NumberQuiet ==
    ASSUME NumberInv, UNCHANGED <<msg, sequence, number>>, Taken \subseteq Taken',
           \A t \in Threads : pc'[t] = "number" => pc[t] = "number"
    PROVE  NumberInv'
BY DEF NumberInv, GivenOnce, Numbered, Sent

(* Every step keeps the numbers given once.                                *)
LEMMA NextNumbers == Calls /\ NumberInv /\ [Next]_vars => NumberInv'
<1> SUFFICES ASSUME Calls, NumberInv, [Next]_vars PROVE NumberInv'
  OBVIOUS
<1> USE DEF sendVars, lineVars
<1>0. TypeOK /\ OwnMessage /\ GivenOnce /\ pc \in [Threads -> PCs]
  BY DEF Calls, NumberInv, TypeOK
<1>1. ASSUME NEW t \in Threads, NEW m \in Messages, CallSend(t, m) PROVE NumberInv'
  <2>1. /\ UNCHANGED <<sequence, number>> /\ Taken' = Taken
        /\ pc[t] = "application" /\ m \notin Sent
        /\ \A u \in Threads : /\ msg'[u] = IF u = t THEN m ELSE msg[u]
                              /\ u # t => pc'[u] = pc[u]
    BY <1>0, <1>1 DEF CallSend, Taken, TypeOK
  <2>2. msg[t] \in Taken \cup {NoMessage} /\ NoMessage \notin Messages
    BY <1>0, <2>1, ProducerAssumption DEF OwnMessage
  <2>3. \A o \in Messages : o \in Sent => o \in Sent'
    BY <2>1, <2>2 DEF Sent
  <2> QED BY <2>1, <2>3 DEF NumberInv, GivenOnce, Numbered
<1>2. ASSUME NEW t \in Threads, Number(t) PROVE NumberInv'
  <2>1. /\ pc[t] = "number" /\ msg[t] \in Messages
        /\ number' = [number EXCEPT ![msg[t]] = sequence] /\ sequence' = sequence + 1
        /\ pc' = [pc EXCEPT ![t] = "send"] /\ UNCHANGED <<msg, order>>
    BY <1>0, <1>2 DEF Number, NextNumber, OwnMessage
  <2>2. ~ Numbered(msg[t]) /\ \A u \in Threads : msg[u] = msg[t] => u = t
    BY <1>0, <2>1 DEF OwnMessage, NumberInv
  <2>3. /\ sequence \in Nat /\ number \in [Messages -> Nat \cup {-1}]
        /\ pc \in [Threads -> PCs]
    BY <1>0 DEF TypeOK
  <2>4. \A m \in Messages : number'[m] = IF m = msg[t] THEN sequence ELSE number[m]
    BY <2>1, <2>3
  <2>5. GivenOnce'
    <3>1. \A m \in Messages : Numbered(m)' => number'[m] \in 0 .. sequence' - 1
      BY <1>0, <2>1, <2>3, <2>4 DEF GivenOnce, Numbered
    <3>2. \A m, o \in Messages : Numbered(m)' /\ number'[m] = number'[o] => m = o
      BY <1>0, <2>1, <2>3, <2>4 DEF GivenOnce, Numbered
    <3>3. ASSUME NEW k \in 0 .. sequence' - 1 PROVE \E m \in Messages : number'[m] = k
      <4>1. CASE k = sequence
        BY <2>1, <2>4, <4>1
      <4>2. CASE k # sequence
        <5>1. k \in 0 .. sequence - 1
          BY <2>1, <2>3, <4>2
        <5>2. PICK m \in Messages : number[m] = k
          BY <1>0, <5>1 DEF GivenOnce
        <5>3. m # msg[t]
          BY <2>2, <5>1, <5>2 DEF Numbered
        <5> QED BY <2>4, <5>2, <5>3
      <4> QED BY <4>1, <4>2
    <3> QED BY <3>1, <3>2, <3>3 DEF GivenOnce
  <2>6. ASSUME NEW u \in Threads, pc'[u] = "number" PROVE ~ Numbered(msg[u])'
    <3>1. u # t /\ pc[u] = "number"
      BY <2>1, <2>3, <2>6
    <3>2. msg[u] # msg[t] /\ msg[u] \in Messages /\ ~ Numbered(msg[u])
      BY <1>0, <2>2, <3>1 DEF OwnMessage, NumberInv
    <3> QED BY <2>1, <2>4, <3>2 DEF Numbered
  <2>7. ASSUME NEW m \in Messages, Numbered(m)' PROVE m \in Sent'
    <3>1. m = msg[t] \/ Numbered(m)
      BY <2>4, <2>7 DEF Numbered
    <3> QED BY <2>1, <3>1 DEF NumberInv, Sent, Taken
  <2> QED BY <2>5, <2>6, <2>7 DEF NumberInv
<1>3. ASSUME NEW t \in Threads, SendNow(t) \/ Buffer(t) PROVE NumberInv'
  <2>1. /\ Take(msg[t]) /\ msg[t] \in Messages /\ UNCHANGED <<msg, sequence, number>>
        /\ \E p \in {"application", "loop"} : pc' = [pc EXCEPT ![t] = p]
    BY <1>0, <1>3 DEF SendNow, Buffer, StartFlush, TakeBatch, OwnMessage
  <2>2. Taken \subseteq Taken'
    BY <1>0, <2>1, TakeEffect
  <2>3. \A u \in Threads : pc'[u] = "number" => pc[u] = "number"
    BY <1>0, <2>1
  <2> QED BY <2>1, <2>2, <2>3, NumberQuiet
<1>4. ASSUME NEW t \in Threads,
             \/ CallFlush(t) \/ CallClose(t) \/ SetClosed(t) \/ PublishOne(t)
             \/ CallbackEnds(t) \/ FlushAgain(t) \/ FlushDone(t)
      PROVE  NumberInv'
  <2>1. /\ UNCHANGED <<msg, sequence, number, order>>
        /\ \/ pc' = pc
           \/ \E p \in {"application", "loop", "close"} : pc' = [pc EXCEPT ![t] = p]
    BY <1>4
    DEF CallFlush, CallClose, StartFlush, TakeBatch, SetClosed, PublishOne, CallbackEnds,
        CallbackReturns, SuccessRaises, ErrorRaises, FlushAgain, FlushDone
  <2>2. \A u \in Threads : pc'[u] = "number" => pc[u] = "number"
    BY <1>0, <2>1
  <2>3. Taken' = Taken
    BY <2>1 DEF Taken
  <2> QED BY <2>1, <2>2, <2>3, NumberQuiet
<1>5. CASE TakeSnapshot \/ ReadProducer \/ UNCHANGED vars
  <2>1. UNCHANGED <<pc, msg, sequence, number, order>>
    BY <1>5 DEF TakeSnapshot, ReadProducer, vars
  <2>2. Taken' = Taken
    BY <2>1 DEF Taken
  <2> QED BY <2>1, <2>2, NumberQuiet
<1> QED BY <1>1, <1>2, <1>3, <1>4, <1>5 DEF Next, Step

(* Nothing is numbered in a new producer.                                  *)
LEMMA InitNumber == Init => NumberInv
<1> SUFFICES ASSUME Init PROVE NumberInv
  OBVIOUS
<1>1. sequence = 0 /\ number = [m \in Messages |-> -1] /\ ~ \E m \in Messages : Numbered(m)
  BY DEF Init, Numbered
<1>2. 0 .. sequence - 1 = {}
  BY <1>1
<1>3. GivenOnce
  BY <1>1, <1>2 DEF GivenOnce
<1>4. \A t \in Threads : pc[t] # "number"
  BY DEF Init
<1> QED BY <1>1, <1>3, <1>4 DEF NumberInv

(* No two messages get the same sequence number and none is skipped, for   *)
(* any number of threads that send through one producer: the increment is  *)
(* under the lock although the rest of send is not (producer.py 124-127).  *)
THEOREM NumberedOnce == Spec => []NumbersUnique
<1>1. NumberInv => NumbersUnique
  <2> SUFFICES ASSUME GivenOnce PROVE NumbersUnique
    BY DEF NumberInv
  <2> DEFINE numbered == {m \in Messages : number[m] # -1}
  <2>1. {number[m] : m \in numbered} = 0 .. sequence - 1
    <3>1. ASSUME NEW k \in 0 .. sequence - 1 PROVE k \in {number[m] : m \in numbered}
      <4>1. PICK m \in Messages : number[m] = k
        BY <3>1 DEF GivenOnce
      <4>2. m \in numbered
        BY <4>1
      <4> QED BY <4>1, <4>2
    <3>2. ASSUME NEW m \in numbered PROVE number[m] \in 0 .. sequence - 1
      BY <3>2 DEF GivenOnce, Numbered
    <3> QED BY <3>1, <3>2
  <2>2. \A m, o \in numbered : number[m] = number[o] => m = o
    BY DEF GivenOnce, Numbered
  <2> QED BY <2>1, <2>2 DEF NumbersUnique
<1>2. Init => Calls /\ NumberInv
  BY InitCalls, InitNumber
<1>3. Calls /\ NumberInv /\ [Next]_vars => (Calls /\ NumberInv)'
  BY NextCalls, NextNumbers
<1> QED BY <1>1, <1>2, <1>3, PTL DEF Spec
=============================================================================
