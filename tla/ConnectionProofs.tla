-------------------------- MODULE ConnectionProofs --------------------------
(***************************************************************************)
(* Proofs about one client connection (Connection): the handler dispatches *)
(* the requests in the order they were sent, however TCP cuts the stream,  *)
(* and a call returns the response to its own request as long as no call   *)
(* has timed out, for any number of threads, calls and reconnects.         *)
(***************************************************************************)
EXTENDS Connection, SequenceTheorems, TLAPS

(* Types of the client's side and of the stream to the server.             *)
ClientTypes ==
    /\ correlationId \in Cids
    /\ pc \in [Threads -> {"idle", "numbered", "length", "rest", "garbled"}]
    /\ cid \in [Threads -> Cids]
    /\ lock \in Threads \cup {NoThread}
    /\ \A th \in Threads : (lock = th) <=> (pc[th] \in {"length", "rest", "garbled"})

StreamTypes ==
    /\ up \in Seq(Pieces) /\ buffer \in Seq(Pieces)
    /\ sent \in Seq(Cids) /\ handled \in Seq(Cids)

(* What was sent and not dispatched: whole frames, of which the handler    *)
(* may have the first half already.                                        *)
OrderInv ==
    /\ ClientTypes
    /\ StreamTypes
    /\ Len(buffer \o up) % 2 = 0
    /\ HandledInOrder

-----------------------------------------------------------------------------
(* The frames in a stream                                                  *)

(* Half of a length.                                                       *)
LEMMA Halves ==
    ASSUME NEW n \in Nat
    PROVE  /\ n \div 2 \in Nat /\ n % 2 \in {0, 1}
           /\ n = 2 * (n \div 2) + (n % 2)
           /\ \A m \in Nat : n = 2 * m => m = n \div 2 /\ n % 2 = 0
           /\ \A m \in Nat : n = 2 * m + 1 => m = n \div 2 /\ n % 2 = 1
OBVIOUS

(* The frames in a stream are as many as its pairs of pieces.              *)
LEMMA FramesOfStream ==
    ASSUME NEW s \in Seq(Pieces), NEW h \in Nat, Len(s) = 2 * h \/ Len(s) = 2 * h + 1
    PROVE  /\ Frames(s) \in Seq(Cids) /\ Len(Frames(s)) = h
           /\ \A i \in 1 .. h : Frames(s)[i] = s[2 * i].cid
<1>1. Len(s) \in Nat /\ h = Len(s) \div 2
  BY LenProperties, Halves
<1>2. Frames(s) = [i \in 1 .. h |-> s[2 * i].cid]
  BY <1>1 DEF Frames
<1>3. ASSUME NEW i \in 1 .. h
      PROVE  s[2 * i].cid \in Cids
  <2>1. 2 * i \in 1 .. Len(s)
    BY <1>1
  <2>2. s[2 * i] \in Pieces
    BY <2>1, ElementOfSeq
  <2> QED BY <2>2 DEF Pieces
<1>4. [i \in 1 .. h |-> s[2 * i].cid] \in Seq(Cids)
  BY <1>3, IsASeq
<1>5. Len([i \in 1 .. h |-> s[2 * i].cid]) = h
  OBVIOUS
<1> QED BY <1>2, <1>4, <1>5

(* c is the concatenation of a and b, whose lengths are m and n.           *)
Joined(c, a, b, m, n) ==
    /\ Len(c) = m + n
    /\ \A i \in 1 .. m + n : c[i] = IF i <= m THEN a[i] ELSE b[i - m]

(* Concatenation, in the form in which the proofs below use it.            *)
LEMMA ConcatOf ==
    ASSUME NEW S, NEW a \in Seq(S), NEW b \in Seq(S)
    PROVE  a \o b \in Seq(S) /\ Joined(a \o b, a, b, Len(a), Len(b))
BY ConcatProperties DEF Joined

(* c is what s holds from index a + 1 up to index m.                       *)
Sliced(c, s, a, m) ==
    /\ Len(c) = m - a
    /\ \A i \in 1 .. m - a : c[i] = s[a + i]

(* SubSeq, in the form in which the proofs below use it.                   *)
LEMMA SliceOf ==
    ASSUME NEW S, NEW s \in Seq(S), NEW a \in Nat, NEW m \in Nat, a <= m, m <= Len(s)
    PROVE  SubSeq(s, a + 1, m) \in Seq(S) /\ Sliced(SubSeq(s, a + 1, m), s, a, m)
<1> DEFINE c == SubSeq(s, a + 1, m)
<1>1. \A i \in a + 1 .. m : s[i] \in S
  BY LenProperties, ElementOfSeq
<1>2. /\ c \in Seq(S) /\ Len(c) = IF a + 1 <= m THEN m - (a + 1) + 1 ELSE 0
      /\ \A i \in 1 .. m - (a + 1) + 1 : c[i] = s[a + 1 + i - 1]
  BY <1>1, SubSeqProperties
<1> HIDE DEF c
<1>3. Len(c) = m - a
  BY <1>2
<1>4. ASSUME NEW i \in 1 .. m - a
      PROVE  c[i] = s[a + i]
  <2>1. i \in 1 .. m - (a + 1) + 1 /\ a + 1 + i - 1 = a + i
    OBVIOUS
  <2> QED BY <1>2, <2>1
<1> QED BY <1>2, <1>3, <1>4 DEF Sliced, c

(* A frame at the end of a stream of whole frames is the last one.         *)
LEMMA FrameAppended ==
    ASSUME NEW s \in Seq(Pieces), Len(s) % 2 = 0, NEW n \in Cids
    PROVE  /\ Frames(s \o Frame(n)) = Append(Frames(s), n)
           /\ s \o Frame(n) \in Seq(Pieces) /\ Len(s \o Frame(n)) % 2 = 0
<1> DEFINE t == s \o Frame(n)
           h == Len(s) \div 2
<1>1. h \in Nat /\ Len(s) = 2 * h /\ Len(s) \in Nat
  <2>1. Len(s) \in Nat
    BY LenProperties
  <2> QED BY <2>1, Halves
<1>2. Frame(n) \in Seq(Pieces) /\ Len(Frame(n)) = 2 /\ Frame(n)[2].cid = n
  BY DEF Frame, Pieces
<1> HIDE DEF h
<1>3. /\ t \in Seq(Pieces) /\ Len(t) = Len(s) + 2
      /\ \A i \in 1 .. Len(s) + 2 : t[i] = IF i <= Len(s) THEN s[i] ELSE Frame(n)[i - Len(s)]
  <2>1. t \in Seq(Pieces) /\ Joined(t, s, Frame(n), Len(s), Len(Frame(n)))
    BY <1>2, ConcatOf
  <2> HIDE DEF t
  <2> QED BY <1>2, <2>1 DEF Joined
<1> HIDE DEF t
<1>4. Len(t) = 2 * (h + 1) /\ h + 1 \in Nat /\ Len(t) \in Nat
  BY <1>1, <1>3
<1>5. Len(t) % 2 = 0
  BY <1>4, Halves
<1>6. /\ Frames(s) \in Seq(Cids) /\ Len(Frames(s)) = h
      /\ \A i \in 1 .. h : Frames(s)[i] = s[2 * i].cid
  BY <1>1, FramesOfStream
<1>7. /\ Frames(t) \in Seq(Cids) /\ Len(Frames(t)) = h + 1
      /\ \A i \in 1 .. h + 1 : Frames(t)[i] = t[2 * i].cid
  BY <1>3, <1>4, FramesOfStream
<1>8. /\ Append(Frames(s), n) \in Seq(Cids) /\ Len(Append(Frames(s), n)) = h + 1
      /\ \A i \in 1 .. h : Append(Frames(s), n)[i] = Frames(s)[i]
      /\ Append(Frames(s), n)[h + 1] = n
  BY <1>6, AppendProperties
<1>9. ASSUME NEW i \in 1 .. h + 1
      PROVE  Frames(t)[i] = Append(Frames(s), n)[i]
  <2>1. CASE i \in 1 .. h
    <3>1. 2 * i \in 1 .. Len(s) + 2 /\ 2 * i <= Len(s)
      BY <1>1, <2>1
    <3> QED BY <1>3, <1>6, <1>7, <1>8, <2>1, <3>1
  <2>2. CASE i = h + 1
    <3>1. 2 * i \in 1 .. Len(s) + 2 /\ ~(2 * i <= Len(s)) /\ 2 * i - Len(s) = 2
      BY <1>1, <2>2
    <3> QED BY <1>2, <1>3, <1>7, <1>8, <2>2, <3>1
  <2>3. i \in 1 .. h \/ i = h + 1
    BY <1>1
  <2> QED BY <2>1, <2>2, <2>3
<1>10. Frames(t) = Append(Frames(s), n)
  BY <1>7, <1>8, <1>9, SeqEqual
<1> QED BY <1>3, <1>5, <1>10 DEF t

(* Taking q whole frames off the front of a stream.                        *)
LEMMA FramesTaken ==
    ASSUME NEW s \in Seq(Pieces), NEW b \in Seq(Pieces), NEW q \in Nat, 2 * q <= Len(b),
           Len(b) <= 2 * q + 1, Len(b) <= Len(s), Sliced(b, s, 0, Len(b)),
           NEW r \in Seq(Pieces), Sliced(r, s, 2 * q, Len(s))
    PROVE  /\ Len(r) % 2 = Len(s) % 2
           /\ Frames(s) = Frames(b) \o Frames(r)
           /\ Frames(b) \in Seq(Cids) /\ Frames(r) \in Seq(Cids)
<1>0. Len(s) \in Nat /\ Len(b) \in Nat /\ Len(r) \in Nat
  BY LenProperties
<1>1. PICK h \in Nat : Len(s) = 2 * h \/ Len(s) = 2 * h + 1
  <2>1. Len(s) \div 2 \in Nat /\ Len(s) % 2 \in {0, 1}
        /\ Len(s) = 2 * (Len(s) \div 2) + (Len(s) % 2)
    BY <1>0, Halves
  <2> DEFINE h == Len(s) \div 2
             d == Len(s) % 2
  <2>2. h \in Nat /\ d \in {0, 1} /\ Len(s) = 2 * h + d
    BY <2>1
  <2> HIDE DEF h, d
  <2>3. Len(s) = 2 * h \/ Len(s) = 2 * h + 1
    BY ONLY <2>2
  <2> QED BY ONLY <2>2, <2>3
<1>2. h - q \in Nat
  BY ONLY <1>0, <1>1, 2 * q <= Len(b), Len(b) <= Len(s), q \in Nat
<1>5. \/ Len(r) = 2 * (h - q) /\ Len(s) = 2 * h
      \/ Len(r) = 2 * (h - q) + 1 /\ Len(s) = 2 * h + 1
  <2>1. Len(r) = Len(s) - 2 * q
    BY DEF Sliced
  <2> QED BY ONLY <1>0, <1>1, <2>1, q \in Nat
<1>3. Len(r) % 2 = Len(s) % 2
  BY <1>0, <1>1, <1>2, <1>5, Halves
<1>6. Len(b) = 2 * q \/ Len(b) = 2 * q + 1
  BY <1>0
<1>7. /\ Frames(s) \in Seq(Cids) /\ Len(Frames(s)) = h
      /\ \A i \in 1 .. h : Frames(s)[i] = s[2 * i].cid
  BY <1>1, FramesOfStream
<1>8. /\ Frames(r) \in Seq(Cids) /\ Len(Frames(r)) = h - q
      /\ \A i \in 1 .. h - q : Frames(r)[i] = r[2 * i].cid
  BY <1>2, <1>5, FramesOfStream
<1>9. /\ Frames(b) \in Seq(Cids) /\ Len(Frames(b)) = q
      /\ \A i \in 1 .. q : Frames(b)[i] = b[2 * i].cid
  BY <1>6, FramesOfStream
<1>10. /\ Frames(b) \o Frames(r) \in Seq(Cids)
       /\ Len(Frames(b) \o Frames(r)) = h
       /\ \A i \in 1 .. h : (Frames(b) \o Frames(r))[i] =
             IF i <= q THEN Frames(b)[i] ELSE Frames(r)[i - q]
  <2> DEFINE w == h - q
  <2>1. q + w = h
    BY <1>1
  <2>2. Len(Frames(r)) = w
    BY <1>8
  <2> HIDE DEF w
  <2>3. /\ Frames(b) \o Frames(r) \in Seq(Cids)
        /\ Len(Frames(b) \o Frames(r)) = q + w
        /\ \A i \in 1 .. q + w : (Frames(b) \o Frames(r))[i] =
              IF i <= q THEN Frames(b)[i] ELSE Frames(r)[i - q]
    <3> DEFINE c == Frames(b) \o Frames(r)
    <3>1. c \in Seq(Cids) /\ Joined(c, Frames(b), Frames(r), Len(Frames(b)), Len(Frames(r)))
      BY <1>8, <1>9, ConcatOf
    <3>2. Joined(c, Frames(b), Frames(r), q, w)
      BY <1>9, <2>2, <3>1
    <3> HIDE DEF c
    <3>3. /\ c \in Seq(Cids) /\ Len(c) = q + w
          /\ \A i \in 1 .. q + w : c[i] = IF i <= q THEN Frames(b)[i] ELSE Frames(r)[i - q]
      BY ONLY <3>1, <3>2 DEF Joined
    <3> QED BY <3>3 DEF c
  <2> QED BY <2>1, <2>3
<1>12. ASSUME NEW i \in 1 .. h
       PROVE  Frames(s)[i] = (Frames(b) \o Frames(r))[i]
  <2>1. CASE i <= q
    <3>1. i \in 1 .. q /\ 2 * i \in 1 .. Len(b)
      BY <1>0, <2>1
    <3> DEFINE x == 2 * i
    <3>4. x \in 1 .. Len(b) - 0 /\ 0 + x = x
      BY <1>0, <3>1
    <3> HIDE DEF x
    <3>5. b[x] = s[x]
      BY <3>4 DEF Sliced
    <3>2. b[2 * i] = s[2 * i]
      BY <3>5 DEF x
    <3>3. (Frames(b) \o Frames(r))[i] = Frames(b)[i]
      BY <1>10, <2>1
    <3> QED BY <1>7, <1>9, <3>1, <3>2, <3>3
  <2>2. CASE ~(i <= q)
    <3>1. i - q \in 1 .. h - q /\ 2 * (i - q) \in 1 .. Len(r) /\ 2 * q + 2 * (i - q) = 2 * i
      BY ONLY <1>0, <1>2, <1>5, <2>2, i \in 1 .. h, q \in Nat, h \in Nat
    <3> DEFINE x == 2 * (i - q)
    <3>4. x \in 1 .. Len(s) - 2 * q /\ 2 * q + x = 2 * i
      BY <3>1 DEF Sliced
    <3> HIDE DEF x
    <3>5. r[x] = s[2 * i]
      BY <3>4 DEF Sliced
    <3>2. r[2 * (i - q)] = s[2 * i]
      BY <3>5 DEF x
    <3> QED BY <1>7, <1>8, <1>10, <2>2, <3>1, <3>2
  <2> QED BY <2>1, <2>2
<1>13. Frames(s) = Frames(b) \o Frames(r)
  BY <1>7, <1>10, <1>12, SeqEqual
<1> QED BY <1>3, <1>8, <1>9, <1>13

(* Of the stream s the handler has the part b and v is still on its way:   *)
(* once the frames in b are off, g remains of b.                           *)
TakenOff(s, b, g, v) ==
    /\ v \in Seq(Pieces) /\ b \in Seq(Pieces) /\ g \in Seq(Pieces)
    /\ Len(g \o v) % 2 = Len(s) % 2
    /\ Frames(s) = Frames(b) \o Frames(g \o v)
    /\ Frames(b) \in Seq(Cids) /\ Frames(g \o v) \in Seq(Cids)
    /\ g \o v \in Seq(Pieces) /\ Sliced(g \o v, s, 2 * Len(Frames(b)), Len(s))
    /\ 2 * Len(Frames(b)) <= Len(s)

(* What recv leaves: the stream without the frames that are complete.      *)
LEMMA StreamCut ==
    ASSUME NEW f \in Seq(Pieces), NEW u \in Seq(Pieces), NEW n \in 1 .. Len(u),
           NEW b, b = f \o SubSeq(u, 1, n), NEW v, v = SubSeq(u, n + 1, Len(u))
    PROVE  TakenOff(f \o u, b, Remaining(b), v)
<1> DEFINE p == SubSeq(u, 1, n)
           q == Len(b) \div 2
           s == f \o u
           g == Remaining(b)
           r == g \o v
           F == Len(f)
           U == Len(u)
<1>1. F \in Nat /\ U \in Nat /\ n \in Nat /\ 1 <= n /\ n <= U
  BY LenProperties
<1>2. p \in Seq(Pieces) /\ Len(p) = n /\ \A i \in 1 .. n : p[i] = u[i]
  <2>1. SubSeq(u, 0 + 1, n) \in Seq(Pieces) /\ Sliced(SubSeq(u, 0 + 1, n), u, 0, n)
    BY <1>1, SliceOf
  <2>2. 0 + 1 = 1
    OBVIOUS
  <2>3. p \in Seq(Pieces) /\ Sliced(p, u, 0, n)
    BY <2>1, <2>2
  <2> HIDE DEF p
  <2> QED BY ONLY <1>1, <2>3 DEF Sliced
<1>3. v \in Seq(Pieces) /\ Len(v) = U - n /\ \A i \in 1 .. U - n : v[i] = u[n + i]
  <2>1. v \in Seq(Pieces) /\ Sliced(v, u, n, Len(u))
    BY <1>1, SliceOf
  <2> QED BY <2>1 DEF Sliced
<1>4. b \in Seq(Pieces) /\ Joined(b, f, p, F, n)
  BY <1>2, ConcatOf
<1>5. s \in Seq(Pieces) /\ Joined(s, f, u, F, U)
  BY ConcatOf
<1>6. Len(b) = F + n /\ Len(s) = F + U
  BY <1>4, <1>5 DEF Joined
<1>7. q \in Nat /\ 2 * q <= Len(b) /\ Len(b) <= 2 * q + 1 /\ Len(b) \in Nat
  <2>1. Len(b) \in Nat
    BY <1>1, <1>6
  <2>2. Len(b) \div 2 \in Nat /\ Len(b) % 2 \in {0, 1}
        /\ Len(b) = 2 * (Len(b) \div 2) + (Len(b) % 2)
    BY <2>1, Halves
  <2> DEFINE d == Len(b) % 2
  <2>3. q \in Nat /\ d \in {0, 1} /\ Len(b) = 2 * q + d
    BY <2>2
  <2> HIDE DEF q, d
  <2> QED BY ONLY <2>1, <2>3
<1>8. g = SubSeq(b, 2 * q + 1, Len(b))
  BY DEF Remaining
<1> HIDE DEF p, q, s, g
<1>9. g \in Seq(Pieces) /\ Len(g) = Len(b) - 2 * q
      /\ \A i \in 1 .. Len(b) - 2 * q : g[i] = b[2 * q + i]
  <2> DEFINE x == 2 * q
  <2>1. x \in Nat /\ x <= Len(b) /\ g = SubSeq(b, x + 1, Len(b))
    BY <1>7, <1>8
  <2> HIDE DEF x
  <2>2. g \in Seq(Pieces) /\ Sliced(g, b, x, Len(b))
    <3>1. b \in Seq(Pieces) /\ Len(b) \in Nat /\ Len(b) <= Len(b)
      BY <1>4, <1>7
    <3> QED BY ONLY <2>1, <3>1, SliceOf
  <2> QED BY <2>2 DEF Sliced, x
<1>10. r \in Seq(Pieces) /\ Joined(r, g, v, Len(b) - 2 * q, U - n)
  BY <1>3, <1>9, ConcatOf
<1> HIDE DEF r, F, U
<1>11. Len(r) = Len(s) - 2 * q /\ Len(b) <= Len(s)
  <2>1. Len(r) = (Len(b) - 2 * q) + (U - n)
    BY <1>10 DEF Joined
  <2> QED BY ONLY <1>1, <1>6, <1>7, <2>1
<1>12. ASSUME NEW i \in 1 .. Len(b)
       PROVE  b[i] = s[i]
  <2>1. i \in 1 .. F + n /\ i \in 1 .. F + U
    BY ONLY <1>1, <1>6, i \in 1 .. Len(b)
  <2>2. b[i] = IF i <= F THEN f[i] ELSE p[i - F]
    BY <1>4, <2>1 DEF Joined
  <2>3. s[i] = IF i <= F THEN f[i] ELSE u[i - F]
    BY <1>5, <2>1 DEF Joined
  <2>4. ~(i <= F) => i - F \in 1 .. n
    BY ONLY <1>1, <2>1
  <2> QED BY ONLY <1>2, <2>2, <2>3, <2>4
<1>13. ASSUME NEW i \in 1 .. Len(r)
       PROVE  r[i] = s[2 * q + i]
  <2>1. i \in 1 .. (Len(b) - 2 * q) + (U - n) /\ 2 * q + i \in 1 .. F + U
    BY ONLY <1>1, <1>6, <1>7, <1>11, i \in 1 .. Len(r)
  <2>2. r[i] = IF i <= Len(b) - 2 * q THEN g[i] ELSE v[i - (Len(b) - 2 * q)]
    BY <1>10, <2>1 DEF Joined
  <2>3. CASE i <= Len(b) - 2 * q
    <3>1. i \in 1 .. Len(b) - 2 * q /\ 2 * q + i \in 1 .. Len(b)
      BY ONLY <1>7, <2>1, <2>3
    <3> QED BY <1>9, <1>12, <2>2, <2>3, <3>1
  <2>4. CASE ~(i <= Len(b) - 2 * q)
    <3> DEFINE j == i - (Len(b) - 2 * q)
    <3>1. j \in 1 .. U - n /\ ~(2 * q + i <= F) /\ 2 * q + i - F = n + j
      BY ONLY <1>1, <1>6, <1>7, <2>1, <2>4
    <3>2. r[i] = v[j]
      BY <2>2, <2>4
    <3> HIDE DEF j
    <3> DEFINE x == 2 * q + i
    <3>4. x \in 1 .. F + U /\ ~(x <= F) /\ x - F = n + j
      BY ONLY <1>1, <1>7, <2>1, <3>1 DEF x
    <3> HIDE DEF x
    <3>3. s[x] = u[x - F]
      BY <1>5, <3>4 DEF Joined
    <3>5. s[x] = v[j]
      BY <1>3, <3>1, <3>3, <3>4
    <3> QED BY <3>2, <3>5 DEF x
  <2> QED BY <2>3, <2>4
<1>14. /\ Len(r) % 2 = Len(s) % 2 /\ Frames(s) = Frames(b) \o Frames(r)
       /\ Frames(b) \in Seq(Cids) /\ Frames(r) \in Seq(Cids)
  <2>1. Sliced(b, s, 0, Len(b))
    BY <1>7, <1>12 DEF Sliced
  <2>2. Sliced(r, s, 2 * q, Len(s))
    BY <1>11, <1>13 DEF Sliced
  <2> QED BY ONLY <1>4, <1>5, <1>7, <1>10, <1>11, <2>1, <2>2, FramesTaken
<1>15. Len(Frames(b)) = q
  <2>1. Len(b) = 2 * q \/ Len(b) = 2 * q + 1
    BY ONLY <1>7
  <2> QED BY ONLY <1>4, <1>7, <2>1, FramesOfStream
<1>16. Sliced(r, s, 2 * q, Len(s)) /\ 2 * q <= Len(s)
  <2>1. Sliced(r, s, 2 * q, Len(s))
    BY <1>11, <1>13 DEF Sliced
  <2>2. Len(s) \in Nat
    BY <1>5, LenProperties
  <2> QED BY ONLY <1>7, <1>11, <2>1, <2>2
<1>17. TakenOff(s, b, g, v)
  BY <1>3, <1>4, <1>9, <1>10, <1>14, <1>15, <1>16 DEF r, TakenOff
<1> QED BY <1>17 DEF s, g

-----------------------------------------------------------------------------
(* Dispatched in order                                                     *)

(* A call takes, keeps and gives back the lock as pc says.                 *)
LEMMA ClientStep == ClientTypes /\ [Next]_vars => ClientTypes'
<1> SUFFICES ASSUME ClientTypes, [Next]_vars PROVE ClientTypes'
  OBVIOUS
<1> USE DEF ClientTypes
<1>0. NoThread \notin Threads /\ MaxCalls \in Nat
  BY ConnectionAssumption
<1>1. ASSUME NEW th \in Threads, Number(th)
      PROVE  ClientTypes'
  <2>1. correlationId + 1 \in Cids
    BY <1>0, <1>1 DEF Number, Cids
  <2> QED BY <1>1, <2>1 DEF Number
<1>2. ASSUME NEW th \in Threads, Send(th)
      PROVE  ClientTypes'
  BY <1>0, <1>2 DEF Send
<1>3. ASSUME NEW th \in Threads, ReceiveLength(th)
      PROVE  ClientTypes'
  BY <1>0, <1>3 DEF ReceiveLength
<1>4. ASSUME NEW th \in Threads, Return(th), UNCHANGED <<correlationId, cid>>
      PROVE  ClientTypes'
  BY <1>0, <1>4 DEF Return
<1>5. ASSUME NEW th \in Threads,
             ReceiveRest(th) \/ ReceiveGarbage(th) \/ Timeout(th) \/ Fail(th)
      PROVE  ClientTypes'
  BY <1>4, <1>5 DEF ReceiveRest, Decode, ReceiveGarbage, Timeout, Fail
<1>6. CASE UNCHANGED <<correlationId, pc, cid, lock>>
  BY <1>6
<1>7. ASSUME NEW n, Handle(n)
      PROVE  ClientTypes'
  BY <1>6, <1>7 DEF Handle, clientVars
<1>8. CASE Close \/ Connect \/ Cleanup
  BY <1>6, <1>8 DEF Close, Connect, Cleanup, clientVars
<1>9. CASE UNCHANGED vars
  BY <1>6, <1>9 DEF vars, clientVars
<1> QED BY <1>1, <1>2, <1>3, <1>5, <1>7, <1>8, <1>9 DEF Next

(* Every step keeps the order.                                             *)
LEMMA OrderStep == OrderInv /\ [Next]_vars => OrderInv'
<1> SUFFICES ASSUME OrderInv, [Next]_vars PROVE OrderInv'
  OBVIOUS
<1>0. ClientTypes'
  BY ClientStep DEF OrderInv
<1>1. /\ up \in Seq(Pieces) /\ buffer \in Seq(Pieces)
      /\ sent \in Seq(Cids) /\ handled \in Seq(Cids)
      /\ Len(buffer \o up) % 2 = 0
      /\ cid \in [Threads -> Cids]
  BY DEF OrderInv, StreamTypes, ClientTypes
<1>2. sent = handled \o Frames(buffer \o up)
  BY DEF OrderInv, HandledInOrder, Frames
<1>3. SUFFICES /\ up' \in Seq(Pieces) /\ buffer' \in Seq(Pieces)
               /\ sent' \in Seq(Cids) /\ handled' \in Seq(Cids)
               /\ Len(buffer' \o up') % 2 = 0
               /\ sent' = handled' \o Frames(buffer' \o up')
  BY <1>0 DEF OrderInv, StreamTypes, HandledInOrder, Frames
<1>4. CASE UNCHANGED <<up, buffer, sent, handled>>
  BY <1>1, <1>2, <1>4
<1>5. ASSUME NEW th \in Threads, Send(th)
      PROVE  /\ up' \in Seq(Pieces) /\ buffer' \in Seq(Pieces)
             /\ sent' \in Seq(Cids) /\ handled' \in Seq(Cids)
             /\ Len(buffer' \o up') % 2 = 0
             /\ sent' = handled' \o Frames(buffer' \o up')
  <2> DEFINE n == cid[th]
             s == buffer \o up
  <2>1. /\ up' = up \o Frame(n) /\ buffer' = buffer /\ handled' = handled
        /\ sent' = Append(sent, n)
    BY <1>5 DEF Send, serverVars
  <2>2. n \in Cids /\ Frame(n) \in Seq(Pieces) /\ s \in Seq(Pieces)
    <3>1. n \in Cids
      BY <1>1
    <3>2. Frame(n) \in Seq(Pieces)
      BY <3>1 DEF Frame, Pieces
    <3> QED BY <1>1, <3>1, <3>2, ConcatProperties
  <2> HIDE DEF n
  <2>3. buffer' \o up' = s \o Frame(n)
    <3>1. (buffer \o up) \o Frame(n) = buffer \o (up \o Frame(n))
      <4> DEFINE fr == Frame(n)
      <4>1. fr \in Seq(Pieces)
        BY <2>2
      <4> HIDE DEF fr
      <4>2. (buffer \o up) \o fr = buffer \o (up \o fr)
        <5>1. buffer \in Seq(Pieces) /\ up \in Seq(Pieces)
          BY <1>1
        <5> QED BY ONLY <4>1, <5>1, ConcatAssociative
      <4> QED BY <4>2 DEF fr
    <3> QED BY <2>1, <3>1
  <2>4. /\ Frames(s \o Frame(n)) = Append(Frames(s), n)
        /\ Len(s \o Frame(n)) % 2 = 0
    BY <1>1, <2>2, FrameAppended
  <2>5. Frames(s) \in Seq(Cids)
    <3>1. Len(s) \in Nat
      BY <2>2, LenProperties
    <3>2. Len(s) \div 2 \in Nat /\ Len(s) = 2 * (Len(s) \div 2)
      <4>1. Len(s) \div 2 \in Nat /\ Len(s) = 2 * (Len(s) \div 2) + (Len(s) % 2)
        BY <3>1, Halves
      <4>2. Len(s) % 2 = 0
        BY <1>1
      <4> DEFINE h == Len(s) \div 2
      <4>3. h \in Nat /\ Len(s) = 2 * h + 0
        BY <4>1, <4>2
      <4> HIDE DEF h
      <4>4. h \in Nat /\ Len(s) = 2 * h
        BY ONLY <4>3
      <4> QED BY <4>4 DEF h
    <3> QED BY <2>2, <3>2, FramesOfStream
  <2> HIDE DEF s
  <2>6. Append(sent, n) = handled \o Append(Frames(s), n)
    <3>1. sent = handled \o Frames(s)
      BY <1>2 DEF s
    <3>2. /\ Append(sent, n) = sent \o <<n>>
          /\ Append(Frames(s), n) = Frames(s) \o <<n>> /\ <<n>> \in Seq(Cids)
      BY <1>1, <2>2, <2>5, AppendIsConcat
    <3>3. (handled \o Frames(s)) \o <<n>> = handled \o (Frames(s) \o <<n>>)
      BY <1>1, <2>5, <3>2, ConcatAssociative
    <3> QED BY <3>1, <3>2, <3>3
  <2>7. up' \in Seq(Pieces) /\ sent' \in Seq(Cids)
    BY <1>1, <2>1, <2>2, ConcatProperties, AppendProperties
  <2> QED BY <1>1, <2>1, <2>3, <2>4, <2>6, <2>7
<1>6. ASSUME NEW n \in 1 .. Len(up), Handle(n)
      PROVE  /\ up' \in Seq(Pieces) /\ buffer' \in Seq(Pieces)
             /\ sent' \in Seq(Cids) /\ handled' \in Seq(Cids)
             /\ Len(buffer' \o up') % 2 = 0
             /\ sent' = handled' \o Frames(buffer' \o up')
  <2> DEFINE b == buffer \o SubSeq(up, 1, n)
             v == SubSeq(up, n + 1, Len(up))
  <2>1. up' = v /\ buffer' = Remaining(b) /\ handled' = handled \o Frames(b) /\ sent' = sent
    BY <1>6 DEF Handle
  <2>2. /\ v \in Seq(Pieces) /\ b \in Seq(Pieces) /\ Remaining(b) \in Seq(Pieces)
        /\ Len(Remaining(b) \o v) % 2 = Len(buffer \o up) % 2
        /\ Frames(buffer \o up) = Frames(b) \o Frames(Remaining(b) \o v)
        /\ Frames(b) \in Seq(Cids) /\ Frames(Remaining(b) \o v) \in Seq(Cids)
    <3>1. b = buffer \o SubSeq(up, 1, n) /\ v = SubSeq(up, n + 1, Len(up))
      OBVIOUS
    <3> HIDE DEF b, v
    <3>2. up \in Seq(Pieces) /\ buffer \in Seq(Pieces)
      BY <1>1
    <3>3. TakenOff(buffer \o up, b, Remaining(b), v)
      BY ONLY <3>1, <3>2, n \in 1 .. Len(up), StreamCut
    <3> QED BY <3>3 DEF TakenOff
  <2> HIDE DEF b, v
  <2>3. handled \o (Frames(b) \o Frames(Remaining(b) \o v))
           = (handled \o Frames(b)) \o Frames(Remaining(b) \o v)
    <3> DEFINE x == Frames(b)
               y == Frames(Remaining(b) \o v)
    <3>1. x \in Seq(Cids) /\ y \in Seq(Cids)
      BY <2>2
    <3> HIDE DEF x, y
    <3>2. (handled \o x) \o y = handled \o (x \o y)
      <4>1. handled \in Seq(Cids)
        BY <1>1
      <4> QED BY ONLY <3>1, <4>1, ConcatAssociative
    <3> QED BY <3>2 DEF x, y
  <2>4. handled \o Frames(b) \in Seq(Cids)
    BY <1>1, <2>2, ConcatProperties
  <2> QED BY <1>1, <1>2, <2>1, <2>2, <2>3, <2>4
<1>7. CASE Connect
  <2>1. up' = <<>> /\ buffer' = <<>> /\ sent' = <<>> /\ handled' = <<>>
    BY <1>7 DEF Connect
  <2>2. <<>> \o <<>> = <<>> /\ Frames(<<>>) = <<>> /\ Len(<<>>) % 2 = 0
    <3>1. Len(<<>>) = 0 /\ 0 % 2 = 0 /\ 0 \div 2 = 0
      OBVIOUS
    <3>2. Frames(<<>>) = <<>>
      BY <3>1 DEF Frames
    <3> QED BY <3>1, <3>2
  <2> QED BY <2>1, <2>2, EmptySeq
<1>8. ASSUME NEW th \in Threads,
             \/ Number(th) \/ ReceiveLength(th) \/ ReceiveRest(th) \/ ReceiveGarbage(th)
             \/ Timeout(th) \/ Fail(th)
      PROVE  UNCHANGED <<up, buffer, sent, handled>>
  BY <1>8 DEF Number, ReceiveLength, ReceiveRest, ReceiveGarbage, Timeout, Fail, serverVars
<1>9. CASE Close \/ Cleanup
  BY <1>4, <1>9 DEF Close, Cleanup, serverVars
<1>10. CASE UNCHANGED vars
  BY <1>4, <1>10 DEF vars, serverVars
<1> QED BY <1>4, <1>5, <1>6, <1>7, <1>8, <1>9, <1>10 DEF Next

(* And it holds at the start.                                              *)
LEMMA OrderInit == Init => OrderInv
<1> SUFFICES ASSUME Init PROVE OrderInv
  OBVIOUS
<1> USE DEF Init
<1>1. ClientTypes
  BY ConnectionAssumption DEF ClientTypes, Cids
<1>2. StreamTypes
  BY DEF StreamTypes
<1>3. Len(<<>>) = 0 /\ 0 % 2 = 0 /\ 0 \div 2 = 0 /\ <<>> \o <<>> = <<>>
  OBVIOUS
<1>4. Len(buffer \o up) % 2 = 0 /\ HandledInOrder
  BY <1>3 DEF HandledInOrder
<1> QED BY <1>1, <1>2, <1>4 DEF OrderInv

(* However TCP cuts the stream to the server, and although calls time out  *)
(* or the connection is replaced, the handler dispatches what was sent in  *)
(* the order it was sent (server.py _process_buffer, protocol.py           *)
(* read_from_buffer).                                                      *)
THEOREM DispatchedInOrder == Spec => []HandledInOrder
<1>1. OrderInv => HandledInOrder
  BY DEF OrderInv
<1> QED BY OrderInit, OrderStep, <1>1, PTL DEF Spec

-----------------------------------------------------------------------------
(* A call gets its own response                                            *)

(* The handler has nothing to answer.                                      *)
Drained == serving => buffer \o up = <<>>

(* The request of th is on its way, or its response is, whole or but for   *)
(* the length that th has read.                                            *)
Awaiting(th) ==
    \/ pc[th] = "length" /\ down = <<>> /\ buffer \o up = Frame(cid[th])
    \/ pc[th] = "length" /\ down = Frame(cid[th]) /\ Drained
    \/ pc[th] = "rest" /\ down = <<[cid |-> cid[th], part |-> "rest"]>> /\ Drained

(* As long as no call has timed out on the connection, the only exchange   *)
(* under way is that of the thread that holds the lock.                    *)
PatientInv ==
    ~late /\ connected =>
        (down = <<>> /\ Drained) \/ \E th \in Threads : lock = th /\ Awaiting(th)

(* The responses to no request, and to one.                                *)
LEMMA FewResponses ==
    ASSUME NEW fs \in Seq(Cids), Len(fs) = 0 \/ Len(fs) = 1
    PROVE  FlattenSeq([i \in DOMAIN fs |-> Frame(fs[i])])
              = IF Len(fs) = 0 THEN <<>> ELSE Frame(fs[1])
<1> DEFINE rs == [i \in DOMAIN fs |-> Frame(fs[i])]
<1>1. CASE Len(fs) = 0
  <2>1. rs = <<>>
    BY <1>1
  <2>2. FlattenSeq(<<>>) = <<>>
    BY DEF FlattenSeq
  <2> QED BY <1>1, <2>1, <2>2
<1>2. CASE Len(fs) = 1
  <2>1. Len(rs) = 1 /\ rs[1] = Frame(fs[1])
    BY <1>2
  <2> HIDE DEF rs
  <2> DEFINE f == CHOOSE f : f = [i \in 1 .. Len(rs) |-> IF i = 1 THEN rs[i] ELSE f[i - 1] \o rs[i]]
  <2>2. FlattenSeq(rs) = f[Len(rs)]
    BY <2>1 DEF FlattenSeq
  <2>3. f = [i \in 1 .. Len(rs) |-> IF i = 1 THEN rs[i] ELSE f[i - 1] \o rs[i]]
    <3>1. \E g : g = [i \in 1 .. Len(rs) |-> IF i = 1 THEN rs[i] ELSE g[i - 1] \o rs[i]]
      <4> DEFINE g == [i \in 1 .. 1 |-> rs[1]]
      <4>1. g = [i \in 1 .. Len(rs) |-> IF i = 1 THEN rs[i] ELSE g[i - 1] \o rs[i]]
        BY <2>1
      <4> QED BY <4>1
    <3> QED BY <3>1
  <2> HIDE DEF f
  <2>4. f[1] = rs[1]
    BY <2>1, <2>3
  <2> QED BY <1>2, <2>1, <2>2, <2>4 DEF rs
<1> QED BY <1>1, <1>2

(* The handler reads a part of the one request there is: it keeps it, or   *)
(* answers it.                                                             *)
LEMMA OneAnswered ==
    ASSUME NEW k \in Cids, NEW s, s = Frame(k), NEW b, NEW g, NEW v, TakenOff(s, b, g, v)
    PROVE  \/ g \o v = s /\ Frames(b) = <<>>
           \/ g \o v = <<>> /\ Frames(b) = <<k>>
<1> DEFINE q == Len(Frames(b))
           r == g \o v
<1>1. /\ s \in Seq(Pieces) /\ Len(s) = 2 /\ s[2].cid = k
  BY DEF Frame, Pieces
<1>2. /\ Frames(s) = Frames(b) \o Frames(r) /\ Frames(b) \in Seq(Cids) /\ Frames(r) \in Seq(Cids)
      /\ r \in Seq(Pieces) /\ Sliced(r, s, 2 * q, Len(s)) /\ 2 * q <= Len(s)
  BY DEF TakenOff
<1>3. Frames(s) \in Seq(Cids) /\ Len(Frames(s)) = 1 /\ Frames(s)[1] = k
  <2>1. Len(s) = 2 * 1 /\ 1 \in Nat /\ 1 \in 1 .. 1 /\ 2 * 1 = 2
    BY <1>1
  <2>2. Frames(s) \in Seq(Cids) /\ Len(Frames(s)) = 1
        /\ \A i \in 1 .. 1 : Frames(s)[i] = s[2 * i].cid
    BY <1>1, <2>1, FramesOfStream
  <2> QED BY <1>1, <2>1, <2>2
<1>4. q \in Nat
  BY <1>2, LenProperties
<1> HIDE DEF r
<1>5. CASE q = 0
  <2>1. Frames(b) = <<>>
    BY <1>2, <1>5, EmptySeq
  <2>2. Len(r) = 2 /\ \A i \in 1 .. 2 : r[i] = s[i]
    BY <1>1, <1>2, <1>5 DEF Sliced
  <2>3. r = s
    BY <1>1, <1>2, <2>2, SeqEqual
  <2> QED BY <2>1, <2>3 DEF r
<1>6. CASE q = 1
  <2>1. Len(r) = 0
    BY <1>1, <1>2, <1>6 DEF Sliced
  <2>2. r = <<>>
    BY <1>2, <2>1, EmptySeq
  <2>3. Frames(b)[1] = k
    <3>1. Joined(Frames(b) \o Frames(r), Frames(b), Frames(r), q, Len(Frames(r)))
      BY <1>2, ConcatOf
    <3>2. Joined(Frames(s), Frames(b), Frames(r), 1, Len(Frames(r)))
      BY <1>2, <1>6, <3>1
    <3>3. Len(Frames(r)) \in Nat
      BY <1>2, LenProperties
    <3>4. 1 \in 1 .. 1 + Len(Frames(r)) /\ 1 <= 1
      BY <3>3
    <3>5. Frames(s)[1] = Frames(b)[1]
      BY ONLY <3>2, <3>4 DEF Joined
    <3> QED BY <1>3, <3>5
  <2>4. Frames(b) = <<k>>
    <3>1. <<k>> \in Seq(Cids) /\ Len(<<k>>) = 1 /\ <<k>>[1] = k
      OBVIOUS
    <3>2. \A i \in 1 .. 1 : Frames(b)[i] = <<k>>[i]
      BY <2>3, <3>1
    <3> QED BY <1>2, <1>6, <3>1, <3>2, SeqEqual
  <2> QED BY <2>2, <2>4 DEF r
<1>7. q = 0 \/ q = 1
  <2>1. 2 * q <= 2 /\ q \in Nat
    BY <1>1, <1>2, <1>4
  <2> HIDE DEF q
  <2> QED BY ONLY <2>1
<1> QED BY <1>5, <1>6, <1>7

(* No step starts a second exchange.                                       *)
LEMMA PatientStep == OrderInv /\ PatientInv /\ [Next]_vars => PatientInv'
<1> SUFFICES ASSUME OrderInv, PatientInv, [Next]_vars, ~late', connected'
             PROVE  \/ down' = <<>> /\ Drained'
                    \/ \E th \in Threads : lock' = th /\ Awaiting(th)'
  BY DEF PatientInv
<1>0. /\ NoThread \notin Threads /\ cid \in [Threads -> Cids]
      /\ pc \in [Threads -> {"idle", "numbered", "length", "rest", "garbled"}]
      /\ \A th \in Threads : (lock = th) <=> (pc[th] \in {"length", "rest", "garbled"})
      /\ up \in Seq(Pieces) /\ buffer \in Seq(Pieces)
  BY ConnectionAssumption DEF OrderInv, ClientTypes, StreamTypes
<1>1. ASSUME ~late, connected
      PROVE  (down = <<>> /\ Drained) \/ \E th \in Threads : lock = th /\ Awaiting(th)
  BY <1>1 DEF PatientInv
<1>2. CASE Connect
  <2>1. down' = <<>> /\ up' = <<>> /\ buffer' = <<>>
    BY <1>2 DEF Connect
  <2> QED BY <2>1 DEF Drained
<1>3. CASE Close
  BY <1>3 DEF Close
<1>4. CASE Cleanup
  <2>1. ~serving' /\ UNCHANGED <<pc, cid, lock, late, connected, buffer, up, down>>
    BY <1>4 DEF Cleanup, clientVars
  <2> QED BY <1>1, <2>1 DEF Drained, Awaiting
<1>5. ASSUME NEW t \in Threads, Number(t)
      PROVE  \/ down' = <<>> /\ Drained'
             \/ \E th \in Threads : lock' = th /\ Awaiting(th)'
  <2>1. /\ pc[t] = "idle" /\ UNCHANGED <<lock, late, connected, serving, buffer, up, down>>
        /\ \A th \in Threads : th # t => pc'[th] = pc[th] /\ cid'[th] = cid[th]
    BY <1>0, <1>5 DEF Number, serverVars
  <2>2. lock # t
    BY <1>0, <2>1
  <2> QED BY <1>1, <2>1, <2>2 DEF Drained, Awaiting
<1>6. ASSUME NEW t \in Threads, Send(t)
      PROVE  \/ down' = <<>> /\ Drained'
             \/ \E th \in Threads : lock' = th /\ Awaiting(th)'
  <2>1. /\ lock = NoThread /\ lock' = t /\ up' = up \o Frame(cid[t]) /\ pc'[t] = "length"
        /\ UNCHANGED <<cid, late, connected, serving, buffer, down>>
    BY <1>0, <1>6 DEF Send, serverVars
  <2>2. down = <<>> /\ Drained
    BY <1>0, <1>1, <2>1
  <2>3. CASE ~serving
    BY <2>1, <2>2, <2>3 DEF Drained
  <2>4. CASE serving
    <3>1. buffer \o up = <<>>
      BY <2>2, <2>4 DEF Drained
    <3>2. buffer = <<>> /\ up = <<>>
      BY <1>0, <3>1, ConcatEqualIffEmpty
    <3>3. cid[t] \in Cids
      BY <1>0
    <3>4. Frame(cid[t]) \in Seq(Pieces)
      BY <3>3 DEF Frame, Pieces
    <3>5. <<>> \o (<<>> \o Frame(cid[t])) = Frame(cid[t])
      BY <3>4, ConcatEmptySeq
    <3>6. buffer' \o up' = Frame(cid'[t])
      BY <2>1, <3>2, <3>5
    <3>7. pc'[t] = "length" /\ down' = <<>> /\ lock' = t
      BY <2>1, <2>2
    <3> QED BY <3>6, <3>7 DEF Awaiting
  <2> QED BY <2>3, <2>4
<1>7. ASSUME NEW t \in Threads, ReceiveLength(t)
      PROVE  \/ down' = <<>> /\ Drained'
             \/ \E th \in Threads : lock' = th /\ Awaiting(th)'
  <2>1. /\ pc[t] = "length" /\ down # <<>> /\ down' = Tail(down)
        /\ pc'[t] = IF Head(down).part = "length" THEN "rest" ELSE "garbled"
        /\ UNCHANGED <<cid, lock, late, connected, serving, buffer, up>>
    BY <1>0, <1>7 DEF ReceiveLength, serverVars
  <2>2. lock = t /\ Awaiting(t)
    BY <1>0, <1>1, <2>1
  <2>3. down = Frame(cid[t]) /\ Drained
    BY <2>1, <2>2 DEF Awaiting
  <2>4. /\ Head(down).part = "length"
        /\ Tail(down) = <<[cid |-> cid[t], part |-> "rest"]>>
    BY <2>3 DEF Frame
  <2>5. pc'[t] = "rest" /\ down' = <<[cid |-> cid'[t], part |-> "rest"]>> /\ lock' = t
    BY <2>1, <2>2, <2>4
  <2>6. Drained'
    BY <2>1, <2>3 DEF Drained
  <2> QED BY <2>5, <2>6 DEF Awaiting
<1>8. ASSUME NEW t \in Threads, ReceiveRest(t)
      PROVE  \/ down' = <<>> /\ Drained'
             \/ \E th \in Threads : lock' = th /\ Awaiting(th)'
  <2>1. /\ pc[t] = "rest" /\ down # <<>> /\ down' = Tail(down)
        /\ UNCHANGED <<late, connected, serving, buffer, up>>
    BY <1>8 DEF ReceiveRest, serverVars
  <2>2. lock = t /\ Awaiting(t)
    BY <1>0, <1>1, <2>1
  <2>3. down = <<[cid |-> cid[t], part |-> "rest"]>> /\ Drained
    BY <2>1, <2>2 DEF Awaiting
  <2>4. down' = <<>>
    BY <2>1, <2>3
  <2> QED BY <2>1, <2>3, <2>4 DEF Drained
<1>9. ASSUME NEW t \in Threads, ReceiveGarbage(t)
      PROVE  \/ down' = <<>> /\ Drained'
             \/ \E th \in Threads : lock' = th /\ Awaiting(th)'
  <2>1. /\ pc[t] = "garbled" /\ UNCHANGED <<late, connected, serving, buffer, up>>
        /\ \E n \in 0 .. Len(down) : down' = SubSeq(down, n + 1, Len(down))
    BY <1>9 DEF ReceiveGarbage, serverVars
  <2>2. lock = t /\ ~Awaiting(t)
    BY <1>0, <2>1 DEF Awaiting
  <2>3. down = <<>> /\ Drained
    BY <1>1, <2>1, <2>2
  <2>4. down' = <<>>
    BY <2>1, <2>3
  <2> QED BY <2>1, <2>3, <2>4 DEF Drained
<1>10. ASSUME NEW t \in Threads, Timeout(t)
       PROVE  FALSE
  BY <1>10 DEF Timeout
<1>11. ASSUME NEW t \in Threads, Fail(t)
       PROVE  \/ down' = <<>> /\ Drained'
              \/ \E th \in Threads : lock' = th /\ Awaiting(th)'
  <2>1. /\ ~connected \/ (~serving /\ down = <<>>)
        /\ UNCHANGED <<connected, serving, down>>
    BY <1>11 DEF Fail, serverVars
  <2> QED BY <2>1 DEF Drained
<1>12. ASSUME NEW n \in 1 .. Len(up), Handle(n)
       PROVE  \/ down' = <<>> /\ Drained'
              \/ \E th \in Threads : lock' = th /\ Awaiting(th)'
  <2> DEFINE b == buffer \o SubSeq(up, 1, n)
             v == SubSeq(up, n + 1, Len(up))
             s == buffer \o up
             rs == FlattenSeq([i \in DOMAIN Frames(b) |-> Frame(Frames(b)[i])])
  <2>1. /\ serving /\ up' = v /\ buffer' = Remaining(b)
        /\ down' = IF connected THEN down \o rs ELSE down
        /\ UNCHANGED <<pc, cid, lock, connected, serving, late>>
    BY <1>12 DEF Handle, clientVars
  <2>2. TakenOff(s, b, Remaining(b), v)
    BY <1>0, StreamCut
  <2>3. PICK th \in Threads : lock = th /\ Awaiting(th)
    <3>1. up # <<>>
      OBVIOUS
    <3>2. s # <<>>
      BY <1>0, <3>1, ConcatEqualIffEmpty
    <3> QED BY <1>1, <2>1, <3>2 DEF Drained
  <2>4. pc[th] = "length" /\ down = <<>> /\ s = Frame(cid[th])
    <3>1. s # <<>>
      <4>1. up # <<>>
        OBVIOUS
      <4> QED BY <1>0, <4>1, ConcatEqualIffEmpty
    <3> QED BY <2>1, <2>3, <3>1 DEF Awaiting, Drained
  <2>5. cid[th] \in Cids /\ connected
    BY <1>0, <2>1
  <2> HIDE DEF b, v, s
  <2>6. \/ Remaining(b) \o v = s /\ Frames(b) = <<>>
        \/ Remaining(b) \o v = <<>> /\ Frames(b) = <<cid[th]>>
    BY <2>2, <2>4, <2>5, OneAnswered
  <2>7. CASE Remaining(b) \o v = s /\ Frames(b) = <<>>
    <3>1. rs = <<>>
      <4>1. Frames(b) \in Seq(Cids) /\ Len(Frames(b)) = 0
        BY <2>7
      <4> QED BY <4>1, FewResponses
    <3> HIDE DEF rs
    <3>2. down' = <<>>
      BY <2>1, <2>4, <2>5, <3>1
    <3>3. lock' = th /\ pc'[th] = "length" /\ buffer' \o up' = Frame(cid'[th])
      BY <2>1, <2>3, <2>4, <2>7
    <3> QED BY <3>2, <3>3 DEF Awaiting
  <2>8. CASE Remaining(b) \o v = <<>> /\ Frames(b) = <<cid[th]>>
    <3>1. rs = Frame(cid[th])
      <4>1. Frames(b) \in Seq(Cids) /\ Len(Frames(b)) = 1 /\ Frames(b)[1] = cid[th]
        BY <2>5, <2>8
      <4>2. rs = IF Len(Frames(b)) = 0 THEN <<>> ELSE Frame(Frames(b)[1])
        BY ONLY <4>1, FewResponses
      <4> HIDE DEF rs
      <4> QED BY ONLY <4>1, <4>2
    <3> HIDE DEF rs
    <3>2. Frame(cid[th]) \in Seq(Pieces)
      BY <2>5 DEF Frame, Pieces
    <3>3. down' = Frame(cid[th])
      BY <2>1, <2>4, <2>5, <3>1, <3>2, ConcatEmptySeq
    <3>4. buffer' \o up' = <<>> /\ lock' = th /\ pc'[th] = "length" /\ cid' = cid
      BY <2>1, <2>3, <2>4, <2>8
    <3> QED BY <3>3, <3>4 DEF Awaiting, Drained
  <2> QED BY <2>6, <2>7, <2>8
<1>13. CASE UNCHANGED vars
  <2>1. UNCHANGED <<pc, cid, lock, connected, serving, late, down, up, buffer>>
    BY <1>13 DEF vars, clientVars, serverVars
  <2> QED BY <1>1, <2>1 DEF Drained, Awaiting
<1> QED BY <1>2, <1>3, <1>4, <1>5, <1>6, <1>7, <1>8, <1>9, <1>10, <1>11, <1>12, <1>13 DEF Next

(* What a call returns is what its own request was answered with.          *)
LEMMA OwnResponse ==
    OrderInv /\ PatientInv /\ [Next]_vars =>
        [late \/ answer' = answer \/ answer'[1] = answer'[2]]_vars
<1> SUFFICES ASSUME OrderInv, PatientInv, [Next]_vars, ~late, answer' # answer
             PROVE  answer'[1] = answer'[2]
  OBVIOUS
<1>1. PICK t \in Threads : ReceiveRest(t)
  <2>1. ASSUME NEW th \in Threads,
               \/ Number(th) \/ Send(th) \/ ReceiveLength(th) \/ ReceiveGarbage(th)
               \/ Timeout(th) \/ Fail(th)
        PROVE  answer' = answer
    BY <2>1 DEF Number, Send, ReceiveLength, ReceiveGarbage, Timeout, Fail
  <2>2. ASSUME NEW n, Handle(n)
        PROVE  answer' = answer
    BY <2>2 DEF Handle
  <2>3. CASE Close \/ Connect \/ Cleanup
    BY <2>3 DEF Close, Connect, Cleanup
  <2>4. CASE UNCHANGED vars
    BY <2>4 DEF vars
  <2> QED BY <2>1, <2>2, <2>3, <2>4 DEF Next
<1>2. /\ pc[t] = "rest" /\ connected /\ down # <<>>
      /\ answer' = <<cid[t], Head(down).cid>>
  BY <1>1 DEF ReceiveRest, Decode
<1>3. lock = t
  BY <1>2 DEF OrderInv, ClientTypes
<1>4. Awaiting(t)
  BY <1>2, <1>3 DEF PatientInv
<1>5. down = <<[cid |-> cid[t], part |-> "rest"]>>
  BY <1>2, <1>4 DEF Awaiting
<1>6. Head(down).cid = cid[t]
  BY <1>5
<1> QED BY <1>2, <1>6

(* A call returns the response to its own request, although the client     *)
(* never compares correlation ids (client.py _send_request,                *)
(* _read_response), as long as no call has timed out on the connection.    *)
THEOREM PatientCallsMatch == Spec => PatientMatches
<1>1. Init => PatientInv
  BY DEF Init, PatientInv, Drained
<1>2. Spec => []OrderInv
  BY OrderInit, OrderStep, PTL DEF Spec
<1>3. Spec => []PatientInv
  BY <1>1, <1>2, PatientStep, PTL DEF Spec
<1> QED BY <1>2, <1>3, OwnResponse, PTL DEF Spec, PatientMatches

=============================================================================
