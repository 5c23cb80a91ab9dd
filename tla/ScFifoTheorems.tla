--------------------------- MODULE ScFifoTheorems ---------------------------
(***************************************************************************)
(* What the clock edge of the FIFO preserves, for every depth and content. *)
(***************************************************************************)
EXTENDS ScFifo, Integers, TLAPS

\* Reading leaves a FIFO of the same words, no longer than before, and takes
\* off exactly one word if there is one (scfifo, underflow_checking).
LEMMA FifoReadType ==
    ASSUME NEW T, NEW q \in Seq(T), NEW rdreq \in BOOLEAN
    PROVE  /\ FifoRead(q, rdreq) \in Seq(T)
           /\ Len(FifoRead(q, rdreq)) =
                  Len(q) - (IF rdreq /\ q # <<>> THEN 1 ELSE 0)
<1>1. CASE q = <<>>
  BY <1>1 DEF FifoRead, FifoEmpty
<1>2. CASE q # <<>>
  <2>1. Tail(q) \in Seq(T) /\ Len(Tail(q)) = Len(q) - 1
    BY <1>2
  <2> QED BY <1>2, <2>1 DEF FifoRead, FifoEmpty
<1> QED BY <1>1, <1>2

\* A clock edge keeps a FIFO within its depth, whatever is written and read:
\* the bound every component relies on (scfifo, overflow_checking).
LEMMA FifoEdgeType ==
    ASSUME NEW T, NEW q \in Seq(T), NEW w \in Seq(T), Len(w) <= 1,
           NEW rdreq \in BOOLEAN, NEW depth \in Nat, Len(q) <= depth
    PROVE  /\ FifoEdge(q, depth, w, rdreq) \in Seq(T)
           /\ Len(FifoEdge(q, depth, w, rdreq)) <= depth
<1> DEFINE r == FifoRead(q, rdreq)
<1>1. r \in Seq(T) /\ Len(r) <= Len(q) /\ Len(r) \in Nat /\ Len(w) \in Nat
  BY FifoReadType
<1>2. r \o w \in Seq(T) /\ Len(r \o w) = Len(r) + Len(w)
  BY <1>1
<1> HIDE DEF r
<1>3. CASE Len(q) = depth
  BY <1>1, <1>3 DEF FifoEdge, FifoFull, r
<1>4. CASE Len(q) # depth
  BY <1>1, <1>2, <1>4 DEF FifoEdge, FifoFull, r
<1> QED BY <1>3, <1>4

\* The number of words after a clock edge, unless a word is written to a full
\* FIFO: nothing is lost and nothing appears.
LEMMA FifoEdgeLen ==
    ASSUME NEW T, NEW q \in Seq(T), NEW w \in Seq(T),
           NEW rdreq \in BOOLEAN, NEW depth \in Nat,
           Len(q) < depth \/ w = <<>>
    PROVE  Len(FifoEdge(q, depth, w, rdreq)) =
               Len(q) + Len(w) - (IF rdreq /\ q # <<>> THEN 1 ELSE 0)
<1> DEFINE r == FifoRead(q, rdreq)
<1>1. /\ r \in Seq(T)
      /\ Len(r) = Len(q) - (IF rdreq /\ q # <<>> THEN 1 ELSE 0)
  BY FifoReadType
<1>2. FifoEdge(q, depth, w, rdreq) = r \o w
  <2>1. CASE Len(q) < depth
    BY <2>1 DEF FifoEdge, FifoFull
  <2>2. CASE w = <<>>
    <3>1. r \o <<>> = r
      BY <1>1
    <3> QED BY <2>2, <3>1 DEF FifoEdge
  <2> QED BY <2>1, <2>2
<1> HIDE DEF r
<1>3. Len(r \o w) = Len(r) + Len(w)
  BY <1>1
<1> QED BY <1>1, <1>2, <1>3

\* While nothing is read the head of a FIFO stays, and a FIFO that holds a
\* word goes on holding one: a descriptor in progress is not replaced.
LEMMA FifoHeadKept ==
    ASSUME NEW T, NEW q \in Seq(T), NEW w \in Seq(T), q # <<>>,
           NEW depth \in Nat
    PROVE  /\ FifoEdge(q, depth, w, FALSE) # <<>>
           /\ Head(FifoEdge(q, depth, w, FALSE)) = Head(q)
<1>1. FifoRead(q, FALSE) = q
  BY DEF FifoRead
<1>2. Len(q) > 0
  OBVIOUS
<1>3. q \o w # <<>> /\ Head(q \o w) = Head(q)
  BY <1>2
<1> QED BY <1>1, <1>3 DEF FifoEdge

\* A clock edge appends what is written to what reading leaves, unless a word
\* is written to a full FIFO.
LEMMA FifoEdgeAppends ==
    ASSUME NEW T, NEW q \in Seq(T), NEW w \in Seq(T),
           NEW rdreq \in BOOLEAN, NEW depth \in Nat,
           Len(q) < depth \/ w = <<>>
    PROVE  /\ FifoEdge(q, depth, w, rdreq) = FifoRead(q, rdreq) \o w
           /\ FifoEdge(q, depth, w, rdreq) \in Seq(T)
<1>1. FifoRead(q, rdreq) \in Seq(T)
  BY FifoReadType
<1>2. CASE Len(q) < depth
  BY <1>1, <1>2 DEF FifoEdge, FifoFull
<1>3. CASE w = <<>>
  <2>1. FifoRead(q, rdreq) \o <<>> = FifoRead(q, rdreq)
    BY <1>1
  <2> QED BY <1>1, <1>3, <2>1 DEF FifoEdge
<1> QED BY <1>2, <1>3

\* Where the words are after a clock edge: each the nearer to the head by the
\* word that was read, and the one that was written behind them.
LEMMA FifoEdgeKept ==
    ASSUME NEW T, NEW q \in Seq(T), NEW w \in Seq(T),
           NEW rdreq \in BOOLEAN, NEW depth \in Nat,
           Len(q) < depth \/ w = <<>>,
           NEW r \in {0, 1}, r = (IF rdreq /\ q # <<>> THEN 1 ELSE 0),
           NEW j \in 1 .. Len(q) - r
    PROVE  FifoEdge(q, depth, w, rdreq)[j] = q[j + r]
<1> DEFINE p == FifoRead(q, rdreq)
<1>1. p \in Seq(T) /\ Len(p) = Len(q) - r /\ p[j] = q[j + r]
  <2>1. p \in Seq(T) /\ Len(p) = Len(q) - r
    BY FifoReadType
  <2>2. CASE rdreq /\ q # <<>>
    BY <2>1, <2>2 DEF FifoRead, FifoEmpty
  <2>3. CASE ~(rdreq /\ q # <<>>)
    BY <2>1, <2>3 DEF FifoRead, FifoEmpty
  <2> QED BY <2>1, <2>2, <2>3
<1>2. FifoEdge(q, depth, w, rdreq) = p \o w
  BY FifoEdgeAppends
<1> HIDE DEF p
<1> QED BY <1>1, <1>2

LEMMA FifoEdgeWritten ==
    ASSUME NEW T, NEW q \in Seq(T), NEW w \in Seq(T), w # <<>>,
           NEW rdreq \in BOOLEAN, NEW depth \in Nat, Len(q) < depth
    PROVE  FifoEdge(q, depth, w, rdreq)[Len(FifoRead(q, rdreq)) + 1] = w[1]
<1> DEFINE p == FifoRead(q, rdreq)
<1>1. p \in Seq(T)
  BY FifoReadType
<1>2. FifoEdge(q, depth, w, rdreq) = p \o w
  BY FifoEdgeAppends
<1> HIDE DEF p
<1>3. (p \o w)[Len(p) + 1] = w[1]
  BY <1>1
<1> QED BY <1>2, <1>3 DEF p

-----------------------------------------------------------------------------
(* A FIFO of words of which some end a packet (eop).  The ends are counted    *)
(* by a function that says where each of them is, not by recursion.           *)

\* pos numbers the m ends in q.
Numbers(pos, q, m) ==
    /\ pos \in [1 .. m -> 1 .. Len(q)]
    /\ \A a \in 1 .. m, b \in 1 .. m : a < b => pos[a] < pos[b]
    /\ \A a \in 1 .. m : q[pos[a]].eop
    /\ \A j \in 1 .. Len(q) : q[j].eop => \E a \in 1 .. m : pos[a] = j

\* A clock edge takes q to q2: r words are read, one or none, and l are written.
Moves(q, q2, r, l) ==
    /\ r = 1 => q # <<>>
    /\ Len(q2) = Len(q) - r + l
    /\ \A j \in 1 .. Len(q) - r : q2[j] = q[j + r]

\* d of the words read are ends, and e of those written.
Renumbers(pos, pos2, m, q2, r, d, e) ==
    /\ Numbers(pos2, q2, m - d + e)
    /\ \A k \in 1 .. m - d : pos2[k] = pos[k + d] - r
    /\ e = 1 => pos2[m - d + e] = Len(q2)

\* If the head is an end it is the first.
LEMMA FirstIsFirst ==
    ASSUME NEW T, NEW q \in Seq(T), q # <<>>, NEW m \in Nat, NEW pos,
           Numbers(pos, q, m)
    PROVE  IF q[1].eop THEN m >= 1 /\ pos[1] = 1
           ELSE \A a \in 1 .. m : pos[a] >= 2
<1> USE DEF Numbers
<1>1. Len(q) >= 1 /\ Len(q) \in Nat
  OBVIOUS
<1>2. \A a \in 1 .. m : pos[a] \in 1 .. Len(q)
  OBVIOUS
<1>3. CASE q[1].eop
  <2>1. PICK a \in 1 .. m : pos[a] = 1
    BY <1>1, <1>3
  <2>2. a = 1
    BY <2>1, <1>2
  <2> QED BY <2>1, <2>2, <1>3
<1>4. CASE ~q[1].eop
  BY <1>2, <1>4, <1>1
<1> QED BY <1>3, <1>4

\* The ends are numbered anew at a clock edge.
LEMMA Renumber ==
    ASSUME NEW T, NEW q \in Seq(T), NEW q2 \in Seq(T), NEW m \in Nat, NEW pos,
           Numbers(pos, q, m), NEW r \in {0, 1}, NEW l \in {0, 1},
           Moves(q, q2, r, l),
           NEW d \in {0, 1}, d = 1 <=> r = 1 /\ q[1].eop,
           NEW e \in {0, 1}, e = 1 <=> l = 1 /\ q2[Len(q2)].eop
    PROVE  d <= m /\ \E pos2 : Renumbers(pos, pos2, m, q2, r, d, e)
<1> USE DEF Moves
<1> DEFINE pos2 == [k \in 1 .. m - d + e |->
                       IF k + d \in DOMAIN pos THEN pos[k + d] - r ELSE Len(q2)]
<1>1. Len(q) \in Nat /\ Len(q2) \in Nat /\ (r = 1 => Len(q) >= 1)
  OBVIOUS
<1>2. /\ pos \in [1 .. m -> 1 .. Len(q)] /\ DOMAIN pos = 1 .. m
      /\ \A a \in 1 .. m : pos[a] \in 1 .. Len(q) /\ q[pos[a]].eop
      /\ \A a \in 1 .. m, b \in 1 .. m : a < b => pos[a] < pos[b]
      /\ \A j \in 1 .. Len(q) : q[j].eop => \E a \in 1 .. m : pos[a] = j
  BY DEF Numbers
<1>3. d <= m /\ (d = 1 => pos[1] = 1)
  <2>1. CASE d = 1
    BY <2>1, FirstIsFirst
  <2> QED BY <2>1
<1>4. \A a \in 1 .. m - d :
         a + d \in 1 .. m /\ pos[a + d] - r \in 1 .. Len(q) - r
  <2> TAKE a \in 1 .. m - d
  <2>1. a + d \in 1 .. m
    BY <1>3
  <2>2. pos[a + d] \in 1 .. Len(q)
    BY <2>1, <1>2
  <2>3. r = 1 => pos[a + d] >= 2
    <3>1. CASE r = 1 /\ d = 1
      <4>1. 1 \in 1 .. m /\ 1 < a + d
        BY <3>1, <1>3
      <4> QED BY <4>1, <2>1, <2>2, <1>2, <1>3, <3>1
    <3>2. CASE r = 1 /\ d = 0
      BY <3>2, FirstIsFirst, <2>1
    <3> QED BY <3>1, <3>2
  <2> QED BY <2>1, <2>2, <2>3, <1>1
<1>5. /\ pos2 = [k \in 1 .. m - d + e |->
                   IF k + d \in DOMAIN pos THEN pos[k + d] - r ELSE Len(q2)]
      /\ \A k \in 1 .. m - d : pos2[k] = pos[k + d] - r
      /\ e = 1 => pos2[m - d + e] = Len(q2)
  <2>2. \A k \in 1 .. m - d : k \in 1 .. m - d + e /\ k + d \in DOMAIN pos
    BY <1>2, <1>3, <1>4
  <2>3. e = 1 => /\ m - d + e \in 1 .. m - d + e
                 /\ (m - d + e) + d \notin DOMAIN pos
    BY <1>2, <1>3
  <2> QED BY <2>2, <2>3
<1> HIDE DEF pos2
<1>6. e = 1 => l = 1 /\ Len(q2) = Len(q) - r + 1 /\ Len(q2) \in 1 .. Len(q2)
                /\ q2[Len(q2)].eop
  BY <1>1
<1>7. Len(q) - r <= Len(q2) /\ Len(q) - r \in Nat
  BY <1>1
<1>8. \A a \in 1 .. m - d + e : pos2[a] \in 1 .. Len(q2) /\ q2[pos2[a]].eop
  <2> TAKE a \in 1 .. m - d + e
  <2>1. CASE a \in 1 .. m - d
    <3>1. pos2[a] = pos[a + d] - r /\ pos2[a] \in 1 .. Len(q) - r
      BY <2>1, <1>4, <1>5
    <3>2. pos2[a] + r = pos[a + d]
      <4>1. pos[a + d] \in Int
        BY <2>1, <1>2, <1>4
      <4> QED BY <3>1, <4>1
    <3>4. q2[pos2[a]] = q[pos2[a] + r]
      BY <3>1
    <3>3. q2[pos2[a]].eop
      BY <3>2, <3>4, <2>1, <1>4, <1>2
    <3> QED BY <3>1, <3>3, <1>7
  <2>2. CASE a \notin 1 .. m - d
    <3>1. a = m - d + e /\ e = 1
      BY <2>2, <1>3
    <3> QED BY <3>1, <1>5, <1>6
  <2> QED BY <2>1, <2>2
<1>9. \A a \in 1 .. m - d + e, b \in 1 .. m - d + e : a < b => pos2[a] < pos2[b]
  <2> TAKE a \in 1 .. m - d + e, b \in 1 .. m - d + e
  <2> HAVE a < b
  <2>1. a \in 1 .. m - d
    BY <1>3
  <2>2. pos2[a] = pos[a + d] - r /\ pos2[a] \in 1 .. Len(q) - r
    BY <2>1, <1>4, <1>5
  <2>3. CASE b \in 1 .. m - d
    <3>1. /\ pos2[b] = pos[b + d] - r
          /\ a + d \in 1 .. m /\ b + d \in 1 .. m /\ a + d < b + d
      <4>1. pos2[b] = pos[b + d] - r
        BY <2>3, <1>5
      <4>2. a + d \in 1 .. m /\ b + d \in 1 .. m
        BY <2>1, <2>3, <1>4
      <4> QED BY <4>1, <4>2
    <3>2. pos[a + d] < pos[b + d] /\ pos[a + d] \in Int /\ pos[b + d] \in Int
      BY <3>1, <1>2
    <3> QED BY <2>2, <3>1, <3>2
  <2>4. CASE b \notin 1 .. m - d
    <3>1. b = m - d + e /\ e = 1
      BY <2>4, <1>3
    <3>2. pos2[b] = Len(q) - r + 1
      BY <3>1, <1>5, <1>6
    <3> QED BY <3>2, <2>2, <1>7
  <2> QED BY <2>3, <2>4
<1>10. \A j \in 1 .. Len(q2) :
          q2[j].eop => \E a \in 1 .. m - d + e : pos2[a] = j
  <2> TAKE j \in 1 .. Len(q2)
  <2> HAVE q2[j].eop
  <2>1. CASE j \in 1 .. Len(q) - r
    <3>1. q[j + r].eop /\ j + r \in 1 .. Len(q)
      BY <2>1, <1>1
    <3>2. PICK b \in 1 .. m : pos[b] = j + r
      BY <3>1, <1>2
    <3>3. d = 1 => b # 1
      BY <3>2, <1>3, <2>1
    <3>4. b - d \in 1 .. m - d /\ (b - d) + d = b
      BY <3>3, <1>3
    <3>5. pos2[b - d] = j
      <4>1. pos2[b - d] = pos[(b - d) + d] - r
        BY <3>4, <1>5
      <4>2. pos2[b - d] = (j + r) - r
        BY <4>1, <3>4, <3>2
      <4> QED BY <4>2
    <3>6. b - d \in 1 .. m - d + e
      BY <3>4
    <3> QED BY <3>5, <3>6
  <2>2. CASE j \notin 1 .. Len(q) - r
    <3>1. l = 1 /\ j = Len(q2)
      BY <2>2, <1>1
    <3>2. e = 1
      BY <3>1
    <3>3. m - d + e \in 1 .. m - d + e
      BY <3>2, <1>3
    <3> QED BY <3>1, <3>2, <3>3, <1>5
  <2> QED BY <2>1, <2>2
<1>11. pos2 \in [1 .. m - d + e -> 1 .. Len(q2)]
  BY <1>5, <1>8
<1>12. Numbers(pos2, q2, m - d + e)
  BY <1>8, <1>9, <1>10, <1>11 DEF Numbers
<1>13. Renumbers(pos, pos2, m, q2, r, d, e)
  BY <1>5, <1>12 DEF Renumbers
<1> QED BY <1>3, <1>13
=============================================================================
