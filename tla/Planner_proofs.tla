--------------------------- MODULE Planner_proofs ---------------------------
(***************************************************************************)
(* For every set of lines, every size of the ring and all overrides: the   *)
(* types, and the pointer of the planner.  And, unless the operator lowers *)
(* the feed override: every junction can be braked for, the incremental    *)
(* plan is that of a full pass, and the machine never jumps in speed.      *)
(*                                                                         *)
(* The passes of the planner are recursive functions over the ring.  What  *)
(* they compute is found here by induction over sets of places: first that *)
(* the functions exist and obey their recursion, then what a full pass     *)
(* allows (Braking), then why a pass that starts at block_buffer_planned,  *)
(* and leaves blocks alone, finds the same.                                *)
(***************************************************************************)
EXTENDS Planner, WellFoundedInduction, SequenceTheorems, TLAPS

-----------------------------------------------------------------------------
\* Induction.  The induction theorems of the library take a predicate as a parameter; these are
\* about sets of numbers, which the provers can instantiate.

\* A set of natural numbers that is not empty has a least element.
LEMMA Least ==
  ASSUME NEW T, T \subseteq Nat, T # {}
  PROVE  \E x \in T : \A y \in T : x <= y
  <1> DEFINE R == {ss \in Nat \X Nat : ss[1] < ss[2]}
  <1>1. PICK x \in T : \A y \in T : ~(<<y, x>> \in R)
    <2>1. IsWellFoundedOn(R, Nat)
      BY NatLessThanWellFounded DEF OpToRel
    <2> HIDE DEF R
    <2> QED
      BY <2>1, WFMin
  <1>2. ASSUME NEW y \in T
        PROVE  x <= y
    <2>1. <<y, x>> \in Nat \X Nat
      BY <1>1
    <2>2. ~(y < x)
      BY <1>1, <2>1
    <2>3. QED
      BY <2>1, <2>2
  <1>3. QED
    BY <1>2

\* What holds at one end of an interval and is passed on from each number to the next holds in
\* the interval.
LEMMA Upward ==
  ASSUME NEW m \in Int, NEW n \in Int, NEW T,
         m <= n => m \in T,
         \A k \in m..n-1 : k \in T => k+1 \in T
  PROVE  m..n \subseteq T
  <1> SUFFICES ASSUME NEW c \in m..n, c \notin T
               PROVE  FALSE
    OBVIOUS
  <1> DEFINE U == {d \in Nat : m+d \in m..n /\ m+d \notin T}
  <1>1. c-m \in U
    OBVIOUS
  <1>2. PICK d \in U : \A e \in U : d <= e
    BY <1>1, Least
  <1>3. d # 0
    BY <1>2
  <1>4. d-1 \notin U /\ d-1 \in Nat
    BY <1>2, <1>3
  <1>5. m+d-1 \in m..n-1 /\ m+(d-1) = m+d-1
    BY <1>2, <1>3
  <1>6. m+d-1 \in T
    BY <1>4, <1>5
  <1>7. m+d \in T
    BY <1>2, <1>5, <1>6
  <1>8. QED
    BY <1>2, <1>7

LEMMA Downward ==
  ASSUME NEW m \in Int, NEW n \in Int, NEW T,
         m <= n => n \in T,
         \A k \in m..n-1 : k+1 \in T => k \in T
  PROVE  m..n \subseteq T
  <1> DEFINE U == {k \in m..n : m+n-k \in T}
  <1>1. m <= n => m \in U
    OBVIOUS
  <1>2. \A k \in m..n-1 : k \in U => k+1 \in U
    <2> SUFFICES ASSUME NEW k \in m..n-1, m+n-k \in T
                 PROVE  m+n-(k+1) \in T
      OBVIOUS
    <2>1. m+n-(k+1) \in m..n-1 /\ m+n-(k+1)+1 = m+n-k
      OBVIOUS
    <2>2. QED
      BY <2>1
  <1>3. m..n \subseteq U
    <2> HIDE DEF U
    <2> QED
      BY <1>1, <1>2, Upward
  <1>4. ASSUME NEW k \in m..n
        PROVE  k \in T
    <2>1. m+n-k \in m..n /\ m+n-(m+n-k) = k
      OBVIOUS
    <2>2. m+n-k \in U
      BY <1>3, <2>1
    <2>3. QED
      BY <2>1, <2>2
  <1>5. QED
    BY <1>4

\* A set of numbers of an interval has a greatest element.
LEMMA MaxOfInterval ==
  ASSUME NEW m \in Int, NEW n \in Int, NEW T, T \subseteq m..n, T # {}
  PROVE  Max(T) \in T /\ \A y \in T : y <= Max(T)
  <1> DEFINE U == {d \in Nat : n-d \in T}
  <1>1. PICK x \in T : TRUE
    OBVIOUS
  <1>2. n-x \in U
    BY <1>1
  <1>3. PICK d \in U : \A e \in U : d <= e
    BY <1>2, Least
  <1>4. ASSUME NEW y \in T
        PROVE  n-d >= y
    <2>1. n-y \in U
      OBVIOUS
    <2>2. d <= n-y
      BY <1>3, <2>1
    <2>3. QED
      BY <2>2
  <1>5. \E z \in T : \A y \in T : z >= y
    BY <1>3, <1>4
  <1>6. Max(T) \in T /\ \A y \in T : Max(T) >= y
    BY <1>5 DEF Max
  <1>7. QED
    BY <1>6

-----------------------------------------------------------------------------
\* Recursion over an interval, from its first number to its last.

GoesUp(g, m, n, c, step) == \A k \in m..n : g[k] = IF k = m THEN c ELSE step[<<k, g[k-1]>>]
GoesDown(g, m, n, c, step) == \A k \in m..n : g[k] = IF k = n THEN c ELSE step[<<k, g[k+1]>>]

LEMMA RecursionUp ==
  ASSUME NEW S, NEW m \in Int, NEW n \in Int, NEW c \in S, NEW step \in [(m+1..n) \X S -> S]
  PROVE  \E g \in [m..n -> S] : GoesUp(g, m, n, c, step)
  <1> USE DEF GoesUp
  <1> DEFINE Solves(g, h) == \A k \in m..h : g[k] = IF k = m THEN c ELSE step[<<k, g[k-1]>>]
             T == {h \in m-1..n : \E g \in [m..h -> S] : Solves(g, h)}
  <1>1. m-1 <= n => m-1 \in T
    <2>1. [k \in m..m-1 |-> c] \in [m..m-1 -> S]
      OBVIOUS
    <2>2. Solves([k \in m..m-1 |-> c], m-1)
      OBVIOUS
    <2>3. QED
      BY <2>1, <2>2
  <1>2. ASSUME NEW h \in m-1..n-1, h \in T
        PROVE  h+1 \in T
    <2>1. PICK g \in [m..h -> S] : Solves(g, h)
      BY <1>2
    <2> DEFINE v == IF h+1 = m THEN c ELSE step[<<h+1, g[h]>>]
               f == [k \in m..h+1 |-> IF k = h+1 THEN v ELSE g[k]]
    <2>2. v \in S
      <3>1. CASE h+1 # m
        <4>1. h \in m..h /\ h+1 \in m+1..n
          BY <3>1
        <4>2. <<h+1, g[h]>> \in (m+1..n) \X S
          BY <4>1
        <4>3. QED
          BY <3>1, <4>2
      <3>2. QED
        BY <3>1
    <2> HIDE DEF v
    <2>3. f \in [m..h+1 -> S]
      BY <2>2
    <2>4. ASSUME NEW k \in m..h+1
          PROVE  f[k] = IF k = m THEN c ELSE step[<<k, f[k-1]>>]
      <3>1. k # m => f[k-1] = g[k-1]
        OBVIOUS
      <3>2. CASE k = h+1
        <4>1. f[k] = v /\ k-1 = h
          BY <3>2
        <4>2. QED
          BY <3>1, <3>2, <4>1 DEF v
      <3>3. CASE k # h+1
        <4>1. k \in m..h /\ f[k] = g[k]
          BY <3>3
        <4>2. QED
          BY <2>1, <3>1, <4>1
      <3>4. QED
        BY <3>2, <3>3
    <2>5. Solves(f, h+1)
      BY <2>4
    <2> HIDE DEF f, Solves
    <2>6. QED
      BY <2>3, <2>5
  <1>3. CASE m-1 <= n
    <2> HIDE DEF T
    <2>1. m-1..n \subseteq T
      BY <1>1, <1>2, <1>3, Upward
    <2>2. n \in T
      BY <1>3, <2>1
    <2>3. QED
      BY <2>2 DEF T
  <1>4. CASE ~(m-1 <= n)
    <2>1. m..n = {}
      BY <1>4
    <2>2. [k \in m..n |-> c] \in [m..n -> S]
      OBVIOUS
    <2>3. QED
      BY <2>1, <2>2
  <1>5. QED
    BY <1>3, <1>4

\* ... and from its last to its first.
LEMMA RecursionDown ==
  ASSUME NEW S, NEW m \in Int, NEW n \in Int, NEW c \in S, NEW step \in [(m..n-1) \X S -> S]
  PROVE  \E g \in [m..n -> S] : GoesDown(g, m, n, c, step)
  <1>1. PICK back \in [(m+1..n) \X S -> S] :
          \A k \in m+1..n, v \in S : back[<<k, v>>] = step[<<m+n-k, v>>]
    <2> DEFINE b == [x \in (m+1..n) \X S |-> step[<<m+n-x[1], x[2]>>]]
    <2>1. b \in [(m+1..n) \X S -> S]
      <3> SUFFICES ASSUME NEW x \in (m+1..n) \X S
                   PROVE  step[<<m+n-x[1], x[2]>>] \in S
        OBVIOUS
      <3>1. m+n-x[1] \in m..n-1 /\ x[2] \in S
        OBVIOUS
      <3>2. QED
        BY <3>1
    <2>2. \A k \in m+1..n, v \in S : b[<<k, v>>] = step[<<m+n-k, v>>]
      OBVIOUS
    <2>3. QED
      BY <2>1, <2>2
  <1>2. PICK h \in [m..n -> S] : GoesUp(h, m, n, c, back)
    BY RecursionUp
  <1>3. PICK g \in [m..n -> S] : \A k \in m..n : g[k] = h[m+n-k]
    <2>1. [k \in m..n |-> h[m+n-k]] \in [m..n -> S]
      BY <1>2
    <2>2. QED
      BY <2>1
  <1>4. ASSUME NEW k \in m..n
        PROVE  g[k] = IF k = n THEN c ELSE step[<<k, g[k+1]>>]
    <2>1. m+n-k \in m..n /\ g[k] = h[m+n-k]
      BY <1>3
    <2>2. CASE k = n
      <3>1. m+n-k = m /\ m \in m..n
        BY <2>2
      <3>2. QED
        BY <1>2, <2>1, <2>2, <3>1 DEF GoesUp
    <2>3. CASE k # n
      <3>1. m+n-k # m /\ m+n-(k+1) = m+n-k-1 /\ k+1 \in m..n
        BY <2>3
      <3>2. g[k+1] = h[m+n-k-1] /\ g[k+1] \in S
        BY <1>3, <3>1
      <3>3. g[k] = back[<<m+n-k, h[m+n-k-1]>>]
        BY <1>2, <2>1, <3>1 DEF GoesUp
      <3>4. m+n-k \in m+1..n /\ m+n-(m+n-k) = k
        BY <2>3
      <3>5. back[<<m+n-k, g[k+1]>>] = step[<<k, g[k+1]>>]
        BY <1>1, <3>2, <3>4
      <3>6. QED
        BY <2>3, <3>2, <3>3, <3>5
    <2>4. QED
      BY <2>2, <2>3
  <1>5. QED
    BY <1>4 DEF GoesDown

-----------------------------------------------------------------------------
\* The passes of the planner: what their recursive definitions define.

LEMMA BlockFields ==
  ASSUME NEW q \in Seq(Block)
  PROVE  /\ Len(q) \in Nat /\ DOMAIN q = 1..Len(q)
         /\ \A k \in 1..Len(q) :
              /\ q[k] \in Block /\ q[k].rate \in Nat /\ q[k].junction \in Nat
              /\ q[k].run \in Nat /\ q[k].entry \in Nat /\ q[k].max \in Nat
  <1>1. Len(q) \in Nat /\ DOMAIN q = 1..Len(q) /\ \A k \in 1..Len(q) : q[k] \in Block
    BY LenProperties, ElementOfSeq
  <1>2. \A b \in Block : b.rate \in Nat /\ b.junction \in Nat /\ b.run \in Nat
                        /\ b.entry \in Nat /\ b.max \in Nat
    BY DEF Block
  <1>3. QED
    BY <1>1, <1>2

\* The entry speed of block k when r[k+1] is that of the next.
Reverse(q, r, k) ==
  IF k = Len(q) THEN LastEntry(q[k])
  ELSE IF q[k].entry = q[k].max THEN q[k].max
  ELSE Min2(q[k].max, r[k+1] + q[k].run)

LEMMA ReversePassIs ==
  ASSUME NEW q \in Seq(Block), NEW p \in Nat, NEW r, r = ReversePass(q, p)
  PROVE  /\ r \in [p+1..Len(q) -> Nat]
         /\ \A k \in p+1..Len(q) : r[k] = Reverse(q, r, k)
  <1> DEFINE n == Len(q)
             c == IF p+1 <= n THEN LastEntry(q[n]) ELSE 0
             back(k, v) == IF q[k].entry = q[k].max THEN q[k].max ELSE Min2(q[k].max, v + q[k].run)
             step == [x \in (p+1..n-1) \X Nat |-> back(x[1], x[2])]
  <1>1. n \in Nat /\ n \in Int /\ p+1 \in Int /\ p+1 > 0
        /\ \A k \in p+1..n : q[k].run \in Nat /\ q[k].entry \in Nat /\ q[k].max \in Nat
    BY BlockFields
  <1> HIDE DEF n
  <1>2. c \in Nat
    BY <1>1 DEF LastEntry, Min2
  <1>3. \A k \in p+1..n-1, v \in Nat : back(k, v) \in Nat
    BY SMTT(60), <1>1 DEF Min2
  <1>4. step \in [(p+1..n-1) \X Nat -> Nat]
    BY <1>3
  <1>5. PICK g \in [p+1..n -> Nat] : GoesDown(g, p+1, n, c, step)
    <2> HIDE DEF c, step
    <2> QED
      BY <1>1, <1>2, <1>4, RecursionDown
  <1>6. ASSUME NEW k \in p+1..n
        PROVE  g[k] = Reverse(q, g, k)
    <2>1. CASE k = n
      <3>1. g[k] = c
        BY <1>5, <2>1 DEF GoesDown
      <3>2. c = LastEntry(q[k])
        BY <1>1, <2>1
      <3>3. QED
        BY <2>1, <3>1, <3>2 DEF Reverse, n
    <2>2. CASE k # n
      <3>1. k \in p+1..n-1 /\ g[k+1] \in Nat
        BY <1>1, <2>2
      <3>2. g[k] = step[<<k, g[k+1]>>]
        BY <1>1, <1>5, <2>2 DEF GoesDown
      <3>3. step[<<k, g[k+1]>>] = back(k, g[k+1])
        BY <3>1
      <3>4. QED
        BY <2>2, <3>2, <3>3 DEF Reverse, n
    <2>3. QED
      BY <2>1, <2>2
  <1>7. g = [k \in p+1..n |-> Reverse(q, g, k)]
    BY <1>6
  <1>8. r = [k \in p+1..n |-> Reverse(q, r, k)]
    BY <1>7 DEF ReversePass, Reverse, n
  <1>9. \A k \in p+1..n : r[k] = Reverse(q, r, k)
    BY <1>8
  <1> DEFINE T == {k \in p+1..n : r[k] \in Nat}
  <1>10. p+1..n \subseteq T
    <2>1. p+1 <= n => n \in T
      BY <1>1, <1>9 DEF Reverse, LastEntry, Min2, n
    <2>2. ASSUME NEW k \in p+1..n-1, k+1 \in T
          PROVE  k \in T
      <3>1. r[k+1] \in Nat /\ k \in p+1..n /\ q[k].run \in Nat /\ q[k].max \in Nat
        BY <1>1, <2>2
      <3>2. Reverse(q, r, k) \in {LastEntry(q[k]), q[k].max, Min2(q[k].max, r[k+1] + q[k].run)}
        BY DEF Reverse
      <3>3. Reverse(q, r, k) \in Nat
        BY SMTT(60), <3>1, <3>2 DEF LastEntry, Min2
      <3>4. QED
        BY <1>9, <3>1, <3>3
    <2> HIDE DEF T
    <2>3. QED
      BY <1>1, <2>1, <2>2, Downward
  <1>11. r \in [p+1..n -> Nat]
    BY <1>8, <1>10
  <1>12. QED
    BY <1>9, <1>11 DEF n

\* The entry speed of block k when f[k-1] is that of the block before, and r the reverse pass.
Forward(q, p, f, r, k) ==
  IF k = p THEN IF p = 0 THEN 0 ELSE q[p].entry
  ELSE IF k > 1 /\ Accelerates(f, r, q, k) THEN f[k-1] + q[k-1].run ELSE r[k]

LEMMA ForwardPassIs ==
  ASSUME NEW q \in Seq(Block), NEW p \in 0..Len(q), NEW f, f = ForwardPass(q, p),
         NEW r, r = ReversePass(q, p)
  PROVE  /\ f \in [p..Len(q) -> Nat]
         /\ \A k \in p..Len(q) : f[k] = Forward(q, p, f, r, k)
  <1> DEFINE n == Len(q)
             c == IF p = 0 THEN 0 ELSE q[p].entry
             on(k, v) == IF k > 1 /\ v + q[k-1].run < r[k] THEN v + q[k-1].run ELSE r[k]
             step == [x \in (p+1..n) \X Nat |-> on(x[1], x[2])]
  <1>1. n \in Nat /\ n \in Int /\ p \in Int /\ p \in Nat /\ p <= n
        /\ \A k \in 1..n : q[k].run \in Nat /\ q[k].entry \in Nat
    BY BlockFields
  <1>2. r \in [p+1..n -> Nat]
    BY <1>1, ReversePassIs
  <1> HIDE DEF n
  <1>3. c \in Nat
    BY <1>1
  <1>4. \A k \in p+1..n, v \in Nat : on(k, v) \in Nat
    BY SMTT(60), <1>1, <1>2
  <1>5. step \in [(p+1..n) \X Nat -> Nat]
    BY <1>4
  <1>6. PICK g \in [p..n -> Nat] : GoesUp(g, p, n, c, step)
    <2> HIDE DEF c, step
    <2> QED
      BY <1>1, <1>3, <1>5, RecursionUp
  <1>7. ASSUME NEW k \in p..n
        PROVE  g[k] = Forward(q, p, g, r, k)
    <2>1. CASE k = p
      BY <1>1, <1>6, <2>1 DEF GoesUp, Forward
    <2>2. CASE k # p
      <3>1. k \in p+1..n /\ g[k-1] \in Nat
        BY <1>1, <2>2
      <3>2. g[k] = step[<<k, g[k-1]>>]
        BY <1>1, <1>6, <2>2 DEF GoesUp
      <3>3. step[<<k, g[k-1]>>] = on(k, g[k-1])
        BY SMTT(60), <3>1
      <3>4. QED
        BY <2>2, <3>2, <3>3 DEF Forward, Accelerates
    <2>3. QED
      BY <2>1, <2>2
  <1>8. g = [k \in p..n |-> Forward(q, p, g, r, k)]
    BY <1>7
  <1>9. f = [k \in p..n |-> Forward(q, p, f, r, k)]
    BY ZenonT(60), <1>8 DEF ForwardPass, Forward, n
  <1>10. \A k \in p..n : f[k] = Forward(q, p, f, r, k)
    BY <1>9
  <1> DEFINE T == {k \in p..n : f[k] \in Nat}
  <1>11. p..n \subseteq T
    <2>1. p <= n => p \in T
      <3>1. Forward(q, p, f, r, p) = c
        BY DEF Forward
      <3>2. p \in p..n
        BY <1>1
      <3>3. QED
        BY <1>3, <1>10, <3>1, <3>2
    <2>2. ASSUME NEW k \in p..n-1, k \in T
          PROVE  k+1 \in T
      <3>1. f[k] \in Nat /\ k+1 \in p+1..n /\ r[k+1] \in Nat /\ k+1-1 = k /\ k+1 # p /\ k+1 \in p..n
        BY <1>1, <1>2, <2>2
      <3>2. Forward(q, p, f, r, k+1) = on(k+1, f[k])
        BY <3>1 DEF Forward, Accelerates
      <3>3. on(k+1, f[k]) \in Nat
        BY <1>4, <3>1
      <3>4. QED
        BY <1>10, <3>1, <3>2, <3>3
    <2> HIDE DEF T
    <2>3. QED
      BY <1>1, <2>1, <2>2, Upward
  <1>12. f \in [p..n -> Nat]
    BY <1>9, <1>11
  <1>13. QED
    BY <1>10, <1>12 DEF n

LEMMA BrakingIs ==
  ASSUME NEW q \in Seq(Block), NEW b, b = Braking(q)
  PROVE  /\ b \in [1..Len(q)+1 -> Nat]
         /\ b[Len(q)+1] = 0
         /\ \A k \in 1..Len(q) : b[k] = Min2(q[k].max, b[k+1] + q[k].run)
  <1> DEFINE n == Len(q)
             Back(g, k) == IF k > n THEN 0 ELSE Min2(q[k].max, g[k+1] + q[k].run)
             back(k, v) == Min2(q[k].max, v + q[k].run)
             step == [x \in (1..n) \X Nat |-> back(x[1], x[2])]
  <1>1. n \in Nat /\ n+1 \in Int /\ n+1-1 = n /\ \A k \in 1..n : q[k].run \in Nat /\ q[k].max \in Nat
    BY BlockFields
  <1> HIDE DEF n
  <1>2. \A k \in 1..n, v \in Nat : back(k, v) \in Nat
    BY <1>1 DEF Min2
  <1>3. step \in [(1..n) \X Nat -> Nat]
    BY <1>2
  <1>4. PICK g \in [1..n+1 -> Nat] : GoesDown(g, 1, n+1, 0, step)
    <2> HIDE DEF step
    <2>1. PICK h \in Int : h = n+1
      BY <1>1
    <2>2. step \in [(1..h-1) \X Nat -> Nat] /\ 0 \in Nat /\ 1 \in Int
      BY <1>1, <1>3, <2>1
    <2>3. \E g \in [1..h -> Nat] : GoesDown(g, 1, h, 0, step)
      BY <2>2, RecursionDown
    <2>4. QED
      BY <2>1, <2>3
  <1>5. ASSUME NEW k \in 1..n+1
        PROVE  g[k] = Back(g, k)
    <2>1. CASE k = n+1
      <3>1. k > n
        BY <1>1, <2>1
      <3>2. QED
        BY <1>4, <2>1, <3>1 DEF GoesDown
    <2>2. CASE k # n+1
      <3>1. k \in 1..n /\ g[k+1] \in Nat /\ ~(k > n)
        BY <1>1, <2>2
      <3>2. g[k] = step[<<k, g[k+1]>>]
        BY <1>4, <2>2 DEF GoesDown
      <3>3. step[<<k, g[k+1]>>] = back(k, g[k+1])
        BY <1>1, <3>1
      <3>4. QED
        BY <3>1, <3>2, <3>3
    <2>3. QED
      BY <2>1, <2>2
  <1>6. g = [k \in 1..n+1 |-> Back(g, k)]
    BY <1>5
  <1>7. b = [k \in 1..n+1 |-> Back(b, k)]
    BY <1>6 DEF Braking, n
  <1>8. b[n+1] = 0 /\ \A k \in 1..n : b[k] = back(k, b[k+1])
    <2>1. \A k \in 1..n+1 : b[k] = Back(b, k)
      BY <1>7
    <2>2. n+1 \in 1..n+1 /\ n+1 > n /\ \A k \in 1..n : k \in 1..n+1 /\ ~(k > n)
      BY <1>1
    <2>3. QED
      BY <2>1, <2>2
  <1> DEFINE T == {k \in 1..n+1 : b[k] \in Nat}
  <1>9. 1..n+1 \subseteq T
    <2>1. PICK h \in Int : h = n+1
      BY <1>1
    <2>2. 1 <= h => h \in T
      BY <1>1, <1>8, <2>1
    <2>3. ASSUME NEW k \in 1..h-1, k+1 \in T
          PROVE  k \in T
      <3>1. k \in 1..n /\ k \in 1..n+1 /\ b[k+1] \in Nat
        BY <1>1, <2>1, <2>3
      <3>2. back(k, b[k+1]) \in Nat
        BY <1>2, <3>1
      <3>3. QED
        BY <1>8, <3>1, <3>2
    <2> HIDE DEF T
    <2>4. 1..h \subseteq T
      BY SMTT(60), <2>2, <2>3, Downward
    <2>5. QED
      BY <2>1, <2>4, Zenon
  <1>10. b \in [1..n+1 -> Nat]
    BY <1>7, <1>9
  <1>11. QED
    BY <1>8, <1>10 DEF n

LEMMA FullPlanIs ==
  ASSUME NEW q \in Seq(Block), NEW s \in Nat, NEW f, f = FullPlan(q, s), NEW b, b = Braking(q)
  PROVE  /\ f \in [1..Len(q) -> Nat]
         /\ Len(q) > 0 => f[1] = s
         /\ \A k \in 2..Len(q) : f[k] = Min2(b[k], f[k-1] + q[k-1].run)
  <1> DEFINE n == Len(q)
             on(k, v) == Min2(b[k], v + q[k-1].run)
             Best(g, k) == IF k = 1 THEN s ELSE on(k, g[k-1])
             step == [x \in (1+1..n) \X Nat |-> on(x[1], x[2])]
  <1>1. n \in Nat /\ n \in Int /\ \A k \in 1..n : q[k].run \in Nat /\ b[k] \in Nat
    <2>1. n \in Nat /\ \A k \in 1..n : q[k].run \in Nat
      BY BlockFields
    <2>2. b \in [1..n+1 -> Nat]
      BY BrakingIs
    <2>3. QED
      BY <2>1, <2>2
  <1> HIDE DEF n
  <1>2. \A k \in 2..n, v \in Nat : on(k, v) \in Nat
    <2> TAKE k \in 2..n, v \in Nat
    <2>1. b[k] \in Nat /\ q[k-1].run \in Nat
      BY <1>1
    <2>2. QED
      BY <2>1 DEF Min2
  <1>3. step \in [(1+1..n) \X Nat -> Nat]
    <2> HIDE DEF on
    <2>1. 1+1..n = 2..n
      OBVIOUS
    <2>2. \A k \in 1+1..n, v \in Nat : on(k, v) \in Nat
      BY <1>2, <2>1
    <2>3. QED
      BY <2>2
  <1>4. PICK g \in [1..n -> Nat] : GoesUp(g, 1, n, s, step)
    <2> HIDE DEF step
    <2>1. 1 \in Int
      OBVIOUS
    <2> QED
      BY <1>1, <1>3, <2>1, RecursionUp
  <1>5. ASSUME NEW k \in 1..n
        PROVE  g[k] = Best(g, k)
    <2>1. CASE k = 1
      BY <1>1, <1>4, <2>1 DEF GoesUp
    <2>2. CASE k # 1
      <3>1. k \in 2..n /\ g[k-1] \in Nat
        BY <1>1, <2>2
      <3>2. g[k] = step[<<k, g[k-1]>>]
        BY <1>4, <2>2 DEF GoesUp
      <3>3. step[<<k, g[k-1]>>] = on(k, g[k-1])
        BY SMTT(60), <1>1, <3>1
      <3>4. QED
        BY <2>2, <3>2, <3>3
    <2>3. QED
      BY <2>1, <2>2
  <1>6. g = [k \in 1..n |-> Best(g, k)]
    BY <1>5
  <1>7. f = [k \in 1..n |-> Best(f, k)]
    BY SMTT(60), <1>6 DEF FullPlan, n
  <1>8. (n > 0 => f[1] = s) /\ \A k \in 2..n : f[k] = on(k, f[k-1])
    <2>1. \A k \in 1..n : f[k] = Best(f, k)
      BY <1>7
    <2>2. (n > 0 => 1 \in 1..n) /\ \A k \in 2..n : k \in 1..n /\ k # 1
      BY <1>1
    <2> HIDE DEF on
    <2>3. QED
      BY <2>1, <2>2
  <1> DEFINE T == {k \in 1..n : f[k] \in Nat}
  <1>9. 1..n \subseteq T
    <2>1. 1 <= n => 1 \in T
      BY <1>1, <1>8
    <2>2. ASSUME NEW k \in 1..n-1, k \in T
          PROVE  k+1 \in T
      <3>1. k+1 \in 2..n /\ k+1-1 = k /\ f[k] \in Nat
        BY <1>1, <2>2
      <3>2. on(k+1, f[k]) \in Nat
        BY <1>2, <3>1
      <3>3. QED
        BY <1>8, <3>1, <3>2
    <2> HIDE DEF T
    <2>3. 1 \in Int
      OBVIOUS
    <2>4. QED
      BY <1>1, <2>1, <2>2, <2>3, Upward
  <1>10. f \in [1..n -> Nat]
    BY <1>7, <1>9
  <1>11. QED
    BY <1>8, <1>10 DEF n

-----------------------------------------------------------------------------
\* What braking allows depends on the maxima and the lengths of the blocks that follow only.

\* Blocks w that end like q ...
LEMMA BrakingSuffix ==
  ASSUME NEW q \in Seq(Block), NEW w \in Seq(Block), NEW d \in Nat, NEW m \in Nat,
         m >= 1, Len(q) = Len(w) + d,
         \A k \in m..Len(w) : w[k].max = q[k+d].max /\ w[k].run = q[k+d].run
  PROVE  \A k \in m..Len(w)+1 : Braking(w)[k] = Braking(q)[k+d]
  <1> DEFINE n == Len(w)
             T == {k \in m..n+1 : Braking(w)[k] = Braking(q)[k+d]}
  <1>1. n \in Nat /\ n+1 \in Int /\ m \in Int /\ Len(q) = n+d
    BY BlockFields
  <1>2. Braking(w)[n+1] = 0 /\ Braking(q)[n+d+1] = 0
    BY <1>1, BrakingIs
  <1>3. m <= n+1 => n+1 \in T
    <2>1. n+1+d = n+d+1
      BY <1>1
    <2>2. QED
      BY <1>1, <1>2, <2>1
  <1>4. ASSUME NEW k \in m..n, k+1 \in T
        PROVE  k \in T
    <2>1. k \in m..n /\ k \in 1..Len(w) /\ k+d \in 1..Len(q) /\ k+1+d = k+d+1
      BY <1>1
    <2>2. Braking(w)[k] = Min2(w[k].max, Braking(w)[k+1] + w[k].run)
      BY <2>1, BrakingIs
    <2>3. Braking(q)[k+d] = Min2(q[k+d].max, Braking(q)[k+d+1] + q[k+d].run)
      BY <2>1, BrakingIs
    <2>4. Braking(w)[k+1] = Braking(q)[k+d+1]
      BY <1>4, <2>1
    <2>5. w[k].max = q[k+d].max /\ w[k].run = q[k+d].run
      BY <2>1
    <2>6. k \in m..n+1
      BY <1>1, <2>1
    <2>7. QED
      BY <2>2, <2>3, <2>4, <2>5, <2>6
  <1>5. m..n+1 \subseteq T
    <2> HIDE DEF T, n
    <2>1. PICK h \in Int : h = n+1
      BY <1>1
    <2>2. m <= h => h \in T
      BY <1>3, <2>1
    <2>3. \A k \in m..h-1 : k+1 \in T => k \in T
      BY <1>1, <1>4, <2>1
    <2>4. m..h \subseteq T
      BY <1>1, <2>2, <2>3, Downward
    <2>5. QED
      BY <2>1, <2>4
  <1>6. QED
    BY <1>5

\* The blocks before the place m do not matter to what is allowed at m and after it.
LEMMA BrakingSame ==
  ASSUME NEW q \in Seq(Block), NEW w \in Seq(Block), NEW m \in Nat, m >= 1, Len(q) = Len(w),
         \A k \in m..Len(w) : w[k].max = q[k].max /\ w[k].run = q[k].run
  PROVE  \A k \in m..Len(w)+1 : Braking(w)[k] = Braking(q)[k]
  <1>1. Len(w) \in Nat /\ 0 \in Nat /\ Len(q) = Len(w) + 0
    BY BlockFields
  <1>2. \A k \in m..Len(w)+1 : k+0 = k
    BY <1>1
  <1>3. \A k \in m..Len(w) : w[k].max = q[k+0].max /\ w[k].run = q[k+0].run
    BY <1>1
  <1>4. \A k \in m..Len(w)+1 : Braking(w)[k] = Braking(q)[k+0]
    BY ZenonT(60), <1>1, <1>3, BrakingSuffix
  <1>5. QED
    BY <1>2, <1>4

\* ... and blocks w that go on where q ends.
LEMMA BrakingGrows ==
  ASSUME NEW q \in Seq(Block), NEW w \in Seq(Block), Len(q) <= Len(w),
         \A k \in 1..Len(q) : w[k].max = q[k].max /\ w[k].run = q[k].run
  PROVE  \A k \in 1..Len(q)+1 : Braking(q)[k] <= Braking(w)[k]
  <1> DEFINE n == Len(q)
             T == {k \in 1..n+1 : Braking(q)[k] <= Braking(w)[k]}
  <1>1. n \in Nat /\ n+1 \in Int /\ 1 \in Int /\ Len(w) \in Nat
    BY BlockFields
  <1>2. /\ Braking(q) \in [1..n+1 -> Nat] /\ Braking(w) \in [1..Len(w)+1 -> Nat]
        /\ Braking(q)[n+1] = 0
    BY BrakingIs
  <1>3. n+1 \in T
    <2>1. n+1 \in 1..n+1 /\ n+1 \in 1..Len(w)+1
      BY <1>1
    <2>2. Braking(w)[n+1] \in Nat
      BY <1>2, <2>1
    <2>3. QED
      BY <1>2, <2>1, <2>2
  <1>4. ASSUME NEW k \in 1..n, k+1 \in T
        PROVE  k \in T
    <2>1. k \in 1..n /\ k \in 1..n+1 /\ k+1 \in 1..n+1 /\ k \in 1..Len(w) /\ k+1 \in 1..Len(w)+1
      BY <1>1
    <2>2. Braking(q)[k] = Min2(q[k].max, Braking(q)[k+1] + q[k].run)
      BY <2>1, BrakingIs
    <2>3. Braking(w)[k] = Min2(w[k].max, Braking(w)[k+1] + w[k].run)
      BY <2>1, BrakingIs
    <2>4. /\ Braking(q)[k+1] \in Nat /\ Braking(w)[k+1] \in Nat
          /\ Braking(q)[k+1] <= Braking(w)[k+1]
      BY <1>2, <1>4, <2>1
    <2>5. w[k].max = q[k].max /\ w[k].run = q[k].run /\ q[k].max \in Nat /\ q[k].run \in Nat
      BY <2>1, BlockFields
    <2>6. Braking(q)[k] <= Braking(w)[k]
      BY SMTT(60), <2>2, <2>3, <2>4, <2>5 DEF Min2
    <2>7. QED
      BY <2>1, <2>6
  <1>5. 1..n+1 \subseteq T
    <2> HIDE DEF T, n
    <2>1. PICK h \in Int : h = n+1
      BY <1>1
    <2>2. 1 <= h => h \in T
      BY <1>3, <2>1
    <2>3. \A k \in 1..h-1 : k+1 \in T => k \in T
      BY <1>1, <1>4, <2>1
    <2>4. 1..h \subseteq T
      BY <1>1, <2>2, <2>3, Downward
    <2>5. QED
      BY <2>1, <2>4
  <1>6. QED
    BY <1>5

-----------------------------------------------------------------------------
\* The parts of the inductive invariant, of blocks q whose first is entered at the speed s.

NextIn(q, k) == IF k = Len(q) THEN 0 ELSE q[k+1].entry
At(q, s, k) == IF k = 1 THEN s ELSE q[k].entry

WithinMax(q) == \A k \in 2..Len(q) : q[k].entry <= q[k].max
Feasible(q, s) == \A k \in 1..Len(q) : At(q, s, k) <= q[k].run + NextIn(q, k)
\* Every entry speed is the one of a full pass, given that of the block before.
Optimal(q, s) == \A k \in 2..Len(q) : q[k].entry = Min2(Braking(q)[k], At(q, s, k-1) + q[k-1].run)
\* No block that is queued later can raise the entry speeds up to the place p.
Anchored(q, p) == p \in 2..Len(q) => q[p].entry = q[p].max \/ q[p].entry < Braking(q)[p]

\* Where one can brake to the next block and every entry is within its maximum, no entry speed is
\* above what braking to rest at the end allows.
LEMMA EntryBelowBraking ==
  ASSUME NEW q \in Seq(Block), NEW s, WithinMax(q), Feasible(q, s)
  PROVE  \A k \in 2..Len(q) : q[k].entry <= Braking(q)[k]
  <1> DEFINE n == Len(q)
             T == {k \in 2..n : q[k].entry <= Braking(q)[k]}
  <1>1. n \in Nat /\ n \in Int /\ 2 \in Int
    BY BlockFields
  <1>2. Braking(q) \in [1..n+1 -> Nat] /\ Braking(q)[n+1] = 0
    BY BrakingIs
  <1>3. ASSUME NEW k \in 2..n
        PROVE  /\ Braking(q)[k] = Min2(q[k].max, Braking(q)[k+1] + q[k].run)
               /\ q[k].entry <= q[k].max /\ q[k].entry <= q[k].run + NextIn(q, k)
               /\ q[k].max \in Nat /\ q[k].run \in Nat /\ q[k].entry \in Nat
    <2>1. k \in 1..n /\ k # 1
      BY <1>1
    <2>2. QED
      BY <2>1, BrakingIs, BlockFields DEF WithinMax, Feasible, At
  <1>4. 2 <= n => n \in T
    <2> SUFFICES ASSUME 2 <= n
                 PROVE  n \in T
      OBVIOUS
    <2>1. n \in 2..n /\ NextIn(q, n) = 0
      BY <1>1 DEF NextIn
    <2>2. q[n].entry <= Braking(q)[n]
      BY <1>2, <1>3, <2>1 DEF Min2
    <2>3. QED
      BY <2>1, <2>2
  <1>5. ASSUME NEW k \in 2..n-1, k+1 \in T
        PROVE  k \in T
    <2>1. k \in 2..n /\ k+1 \in 2..n /\ k # n /\ k+1 \in 1..n+1 /\ k \in 1..n+1
      BY <1>1
    <2>2. NextIn(q, k) = q[k+1].entry
      BY <2>1 DEF NextIn
    <2>3. q[k+1].entry \in Nat /\ Braking(q)[k+1] \in Nat /\ q[k+1].entry <= Braking(q)[k+1]
      BY <1>2, <1>3, <1>5, <2>1
    <2>4. /\ q[k].entry <= q[k].max /\ q[k].entry <= q[k].run + q[k+1].entry
          /\ q[k].max \in Nat /\ q[k].run \in Nat /\ q[k].entry \in Nat
          /\ Braking(q)[k] = Min2(q[k].max, Braking(q)[k+1] + q[k].run)
      BY <1>3, <2>1, <2>2
    <2>5. q[k].entry <= Braking(q)[k]
      BY SMTT(60), <2>3, <2>4 DEF Min2
    <2>6. QED
      BY <2>1, <2>5
  <1>6. 2..n \subseteq T
    <2> HIDE DEF T, n
    <2> QED
      BY <1>1, <1>4, <1>5, Downward
  <1>7. QED
    BY <1>6

\* Entry speeds that are optimal block by block are those of the full pass.
LEMMA OptimalIsFullPlan ==
  ASSUME NEW q \in Seq(Block), NEW s \in Nat, Optimal(q, s)
  PROVE  \A k \in 2..Len(q) : q[k].entry = FullPlan(q, s)[k]
  <1> DEFINE n == Len(q)
             T == {k \in 1..n : At(q, s, k) = FullPlan(q, s)[k]}
  <1>1. n \in Nat /\ n \in Int /\ 1 \in Int
    BY BlockFields
  <1>2. 1 <= n => 1 \in T
    BY <1>1, FullPlanIs DEF At
  <1>3. ASSUME NEW k \in 1..n-1, k \in T
        PROVE  k+1 \in T
    <2>1. k+1 \in 2..n /\ k+1-1 = k /\ k+1 \in 1..n /\ k+1 # 1
      BY <1>1
    <2>2. q[k+1].entry = Min2(Braking(q)[k+1], At(q, s, k) + q[k].run)
      BY <2>1 DEF Optimal
    <2>3. FullPlan(q, s)[k+1] = Min2(Braking(q)[k+1], FullPlan(q, s)[k] + q[k].run)
      BY <2>1, FullPlanIs
    <2>4. At(q, s, k) = FullPlan(q, s)[k] /\ At(q, s, k+1) = q[k+1].entry
      BY <1>3, <2>1 DEF At
    <2>5. QED
      BY <2>1, <2>2, <2>3, <2>4
  <1>4. 1..n \subseteq T
    <2> HIDE DEF T, n
    <2> QED
      BY <1>1, <1>2, <1>3, Upward
  <1>5. ASSUME NEW k \in 2..n
        PROVE  q[k].entry = FullPlan(q, s)[k]
    <2>1. k \in 1..n /\ k # 1
      BY <1>1
    <2>2. QED
      BY <1>4, <2>1 DEF At
  <1>6. QED
    BY <1>5

-----------------------------------------------------------------------------
\* A plan that starts at the place p.

LEMMA MinFacts ==
  ASSUME NEW a \in Nat, NEW b \in Nat
  PROVE  Min2(a, b) \in Nat /\ Min2(a, b) <= a /\ Min2(a, b) <= b /\ Min2(a, b) \in {a, b}
  BY DEF Min2

LEMMA MinSum ==
  ASSUME NEW m \in Nat, NEW x \in Nat, NEW y \in Nat, NEW e, e = Min2(m, x + y)
  PROVE  e \in Nat /\ e <= m /\ e <= x + y /\ e \in {m, x + y}
  BY DEF Min2

LEMMA FunctionIsSeq ==
  ASSUME NEW S, NEW n \in Nat, NEW w \in [1..n -> S]
  PROVE  w \in Seq(S) /\ Len(w) = n
  <1>1. w \in Seq(S)
    BY SeqDef
  <1>2. Len(w) \in Nat /\ DOMAIN w = 1..Len(w) /\ DOMAIN w = 1..n
    BY <1>1, LenProperties
  <1>3. QED
    BY <1>1, <1>2

\* Two blocks that differ in their entry speeds at most.
SameMove(a, b) == a.rate = b.rate /\ a.junction = b.junction /\ a.run = b.run /\ a.max = b.max

LEMMA PlannedIs ==
  ASSUME NEW u \in Seq(Block), NEW p \in 0..Len(u), NEW w, w = Planned(u, p),
         NEW f, f = ForwardPass(u, p)
  PROVE  /\ w \in Seq(Block) /\ Len(w) = Len(u)
         /\ \A k \in 1..Len(u) : SameMove(w[k], u[k])
         /\ \A k \in 1..Len(u) : w[k].entry = IF k > p THEN f[k] ELSE u[k].entry
         /\ \A k \in 1..p : w[k] = u[k]
  <1>1. Len(u) \in Nat /\ p \in Nat /\ p <= Len(u)
    BY BlockFields
  <1>2. f \in [p..Len(u) -> Nat]
    BY ForwardPassIs
  <1>3. w = [k \in 1..Len(u) |-> IF k > p THEN [u[k] EXCEPT !.entry = f[k]] ELSE u[k]]
    BY DEF Planned
  <1>4. ASSUME NEW k \in 1..Len(u)
        PROVE  /\ w[k] \in Block /\ SameMove(w[k], u[k])
               /\ w[k].entry = IF k > p THEN f[k] ELSE u[k].entry
    <2>1. u[k] \in Block
      BY BlockFields
    <2>2. CASE k > p
      <3>1. f[k] \in Nat
        BY <1>1, <1>2, <2>2
      <3>2. w[k] = [u[k] EXCEPT !.entry = f[k]]
        BY <1>3, <2>2
      <3>3. QED
        BY <2>1, <2>2, <3>1, <3>2 DEF Block, SameMove
    <2>3. CASE ~(k > p)
      BY <1>3, <2>1, <2>3 DEF SameMove
    <2>4. QED
      BY <2>2, <2>3
  <1>5. w \in [1..Len(u) -> Block]
    BY <1>3, <1>4
  <1>6. w \in Seq(Block) /\ Len(w) = Len(u)
    BY <1>1, <1>5, FunctionIsSeq
  <1>7. \A k \in 1..p : w[k] = u[k]
    BY <1>1, <1>3
  <1>8. QED
    BY <1>4, <1>6, <1>7

\* The entry speed of block k is optimal, given that of the block before.
OptimalAt(q, s, k) == q[k].entry = Min2(Braking(q)[k], At(q, s, k-1) + q[k-1].run)

\* The reverse pass, blocks that are left alone included, is that of a full pass, and so is the
\* plan of the blocks beyond p.
LEMMA PassIsOptimal ==
  ASSUME NEW u \in Seq(Block), NEW s \in Nat, NEW p \in 1..Len(u), NEW w, w = Planned(u, p),
         WithinMax(u), Feasible(u, s), p = 1 => u[1].entry = s
  PROVE  /\ \A k \in p+1..Len(u) : ReversePass(u, p)[k] = Braking(w)[k]
         /\ \A k \in p+1..Len(u) : OptimalAt(w, s, k)
         /\ \A k \in p..Len(u) : ForwardPass(u, p)[k] = At(w, s, k)
  <1> DEFINE n == Len(u)
             r == ReversePass(u, p)
             f == ForwardPass(u, p)
             b == Braking(u)
  <1>1. n \in Nat /\ n \in Int /\ p \in Int /\ p \in Nat /\ p+1 \in Int /\ p >= 1 /\ p <= n /\ p \in 0..n
    BY BlockFields
  <1>2. /\ w \in Seq(Block) /\ Len(w) = n /\ \A k \in 1..n : SameMove(w[k], u[k])
        /\ \A k \in 1..n : w[k].entry = IF k > p THEN f[k] ELSE u[k].entry
    BY <1>1, PlannedIs
  <1>3. \A k \in 1..n+1 : Braking(w)[k] = b[k]
    <2>1. \A k \in 1..Len(w) : w[k].max = u[k].max /\ w[k].run = u[k].run
      BY <1>2 DEF SameMove
    <2>2. 1 \in Nat /\ 1 >= 1 /\ Len(u) = Len(w)
      BY <1>2
    <2>3. \A k \in 1..Len(w)+1 : Braking(w)[k] = Braking(u)[k]
      BY <1>2, <2>1, <2>2, BrakingSame
    <2>4. QED
      BY <1>2, <2>3
  <1>4. /\ r \in [p+1..n -> Nat] /\ \A k \in p+1..n : r[k] = Reverse(u, r, k)
        /\ f \in [p..n -> Nat] /\ \A k \in p..n : f[k] = Forward(u, p, f, r, k)
    BY <1>1, ReversePassIs, ForwardPassIs
  <1>5. b \in [1..n+1 -> Nat] /\ b[n+1] = 0 /\ \A k \in 1..n : b[k] = Min2(u[k].max, b[k+1] + u[k].run)
    BY BrakingIs
  <1>6. \A k \in 2..n : u[k].entry <= b[k]
    BY EntryBelowBraking
  <1>7. \A k \in 1..n : u[k].entry \in Nat /\ u[k].max \in Nat /\ u[k].run \in Nat
    BY BlockFields
  <1> HIDE DEF n, r, f, b
  <1> DEFINE T == {k \in p+1..n : r[k] = b[k]}
  <1>8. p+1..n \subseteq T
    <2>1. p+1 <= n => n \in T
      <3> SUFFICES ASSUME p+1 <= n
                   PROVE  n \in T
        OBVIOUS
      <3>1. n \in p+1..n /\ n \in 1..n
        BY <1>1
      <3>2. r[n] = Min2(u[n].max, u[n].run)
        BY <1>4, <3>1 DEF Reverse, LastEntry, n
      <3>3. b[n] = Min2(u[n].max, 0 + u[n].run)
        BY <1>5, <3>1
      <3>4. 0 + u[n].run = u[n].run
        BY <1>7, <3>1
      <3>5. QED
        BY <3>1, <3>2, <3>3, <3>4
    <2>2. ASSUME NEW k \in p+1..n-1, k+1 \in T
          PROVE  k \in T
      <3>1. k \in p+1..n /\ k \in 1..n /\ k \in 2..n /\ k # n /\ k+1 \in 1..n+1
        BY <1>1
      <3>2. b[k] = Min2(u[k].max, b[k+1] + u[k].run) /\ r[k+1] = b[k+1]
        BY <1>5, <2>2, <3>1
      <3>3. CASE u[k].entry = u[k].max
        <4>1. r[k] = u[k].max
          BY <1>4, <3>1, <3>3 DEF Reverse, n
        <4>2. u[k].max <= b[k] /\ b[k+1] \in Nat /\ u[k].max \in Nat /\ u[k].run \in Nat
          BY <1>5, <1>6, <1>7, <3>1, <3>3
        <4>3. b[k+1] + u[k].run \in Nat
          BY SMTT(60), <4>2
        <4>4. b[k] \in Nat /\ b[k] <= u[k].max
          BY <3>2, <4>2, <4>3, MinFacts
        <4>5. b[k] = u[k].max
          BY <4>2, <4>4
        <4>6. QED
          BY <3>1, <4>1, <4>5
      <3>4. CASE u[k].entry # u[k].max
        <4>1. r[k] = Min2(u[k].max, r[k+1] + u[k].run)
          BY <1>4, <3>1, <3>4 DEF Reverse, n
        <4>2. QED
          BY <3>1, <3>2, <4>1
      <3>5. QED
        BY <3>3, <3>4
    <2> HIDE DEF T
    <2>3. QED
      BY <1>1, <2>1, <2>2, Downward
  <1>9. ASSUME NEW k \in p..n
        PROVE  f[k] = At(w, s, k)
    <2>1. CASE k = p
      <3>1. f[p] = u[p].entry
        BY <1>1, <1>4, <2>1 DEF Forward
      <3>2. w[p].entry = u[p].entry
        BY <1>1, <1>2
      <3>3. QED
        BY <2>1, <3>1, <3>2 DEF At
    <2>2. CASE k # p
      BY <1>1, <1>2, <2>2 DEF At
    <2>3. QED
      BY <2>1, <2>2
  <1>10. ASSUME NEW k \in p+1..n
         PROVE  OptimalAt(w, s, k)
    <2>1. k \in p..n /\ k # p /\ k > 1 /\ k > p /\ k-1 \in p..n /\ k \in 1..n /\ k-1 \in 1..n /\ k \in 1..n+1
      BY <1>1
    <2>2. f[k] = IF f[k-1] + u[k-1].run < r[k] THEN f[k-1] + u[k-1].run ELSE r[k]
      BY <1>4, <2>1 DEF Forward, Accelerates
    <2>3. f[k-1] \in Nat /\ u[k-1].run \in Nat /\ r[k] \in Nat
      BY <1>4, <1>7, <2>1
    <2>4. f[k] = Min2(r[k], f[k-1] + u[k-1].run)
      BY SMTT(60), <2>2, <2>3 DEF Min2
    <2>5. /\ w[k].entry = f[k] /\ f[k-1] = At(w, s, k-1) /\ r[k] = Braking(w)[k]
          /\ w[k-1].run = u[k-1].run
      <3>1. r[k] = b[k] /\ b[k] = Braking(w)[k]
        BY <1>3, <1>8, <2>1
      <3>2. w[k].entry = f[k] /\ w[k-1].run = u[k-1].run
        BY <1>2, <2>1 DEF SameMove
      <3>3. QED
        BY <1>9, <2>1, <3>1, <3>2
    <2>6. QED
      BY <2>4, <2>5 DEF OptimalAt
  <1>11. \A k \in p+1..n : r[k] = Braking(w)[k]
    <2>1. \A k \in p+1..n : k \in 1..n+1
      BY <1>1
    <2>2. QED
      BY <1>3, <1>8, <2>1
  <1>12. QED
    BY <1>9, <1>10, <1>11 DEF n, r, f

\* A plan keeps every entry speed within its maximum, and every block long enough to brake to the
\* entry speed of the next.
LEMMA PassIsFeasible ==
  ASSUME NEW u \in Seq(Block), NEW s \in Nat, NEW p \in 1..Len(u), NEW w, w = Planned(u, p),
         WithinMax(u), Feasible(u, s), p = 1 => u[1].entry = s
  PROVE  WithinMax(w) /\ Feasible(w, s)
  <1> DEFINE n == Len(u)
             b == Braking(w)
  <1>1. n \in Nat /\ p \in Nat /\ p >= 1 /\ p <= n /\ p \in 0..n
    BY BlockFields
  <1>2. /\ w \in Seq(Block) /\ Len(w) = n /\ \A k \in 1..n : SameMove(w[k], u[k])
        /\ \A k \in 1..p : w[k] = u[k]
    BY <1>1, PlannedIs
  <1>3. \A k \in p+1..n : w[k].entry = Min2(b[k], At(w, s, k-1) + w[k-1].run)
    BY PassIsOptimal DEF OptimalAt
  <1>4. b \in [1..n+1 -> Nat] /\ b[n+1] = 0 /\ \A k \in 1..n : b[k] = Min2(w[k].max, b[k+1] + w[k].run)
    BY SMTT(60), <1>2, BrakingIs
  <1>5. \A k \in 1..n : w[k].entry \in Nat /\ w[k].max \in Nat /\ w[k].run \in Nat /\ At(w, s, k) \in Nat
    BY <1>2, BlockFields DEF At
  <1> HIDE DEF b
  <1>6. ASSUME NEW k \in 1..n
        PROVE  b[k] \in Nat /\ b[k+1] \in Nat /\ b[k] <= w[k].max /\ b[k] <= b[k+1] + w[k].run
    <2>1. w[k].max \in Nat /\ w[k].run \in Nat
      BY <1>5
    <2>2. b[k+1] \in Nat
      <3>1. k+1 \in 1..n+1
        BY <1>1
      <3>2. QED
        BY <1>4, <3>1, Zenon
    <2>3. b[k] = Min2(w[k].max, b[k+1] + w[k].run)
      BY <1>4, Zenon
    <2>4. PICK m \in Nat, x \in Nat, y \in Nat : m = w[k].max /\ x = b[k+1] /\ y = w[k].run
      BY <2>1, <2>2, Zenon
    <2>5. PICK e : e = b[k] /\ e = Min2(m, x + y)
      BY <2>3, <2>4, Zenon
    <2>6. Min2(m, x + y) \in Nat /\ Min2(m, x + y) <= m /\ Min2(m, x + y) <= x + y
      BY MinSum, Zenon
    <2>7. QED
      BY <2>2, <2>4, <2>5, <2>6, Zenon
  <1>7. ASSUME NEW k \in p+1..n
        PROVE  /\ w[k].entry <= b[k] /\ w[k].entry <= At(w, s, k-1) + w[k-1].run
               /\ w[k].entry \in {b[k], At(w, s, k-1) + w[k-1].run}
    <2>1. k-1 \in 1..n /\ k \in 1..n
      BY <1>1
    <2> DEFINE a == At(w, s, k-1) + w[k-1].run
    <2>2. b[k] \in Nat /\ a \in Nat
      <3>1. At(w, s, k-1) \in Nat /\ w[k-1].run \in Nat
        BY <1>5, <2>1
      <3>2. b[k] \in Nat
        BY <1>6, <2>1
      <3>3. QED
        BY SMTT(60), <3>1, <3>2
    <2>3. w[k].entry = Min2(b[k], a)
      BY <1>3
    <2> HIDE DEF a
    <2>4. w[k].entry <= b[k] /\ w[k].entry <= a /\ w[k].entry \in {b[k], a}
      BY ZenonT(60), <2>2, <2>3, MinFacts
    <2>5. QED
      BY <2>4 DEF a
  <1>8. ASSUME NEW k \in 2..n
        PROVE  w[k].entry <= w[k].max
    <2>1. k \in 1..n
      BY <1>1
    <2>2. CASE k <= p
      <3>1. w[k] = u[k]
        BY <1>1, <1>2, <2>2
      <3>2. QED
        BY <3>1 DEF WithinMax
    <2>3. CASE ~(k <= p)
      <3>1. k \in p+1..n
        BY <1>1, <2>3
      <3>2. w[k].entry <= b[k]
        BY <1>7, <3>1
      <3>3. b[k] <= w[k].max /\ b[k] \in Nat /\ w[k].entry \in Nat /\ w[k].max \in Nat
        BY <1>5, <1>6, <2>1
      <3>4. QED
        BY <3>2, <3>3
    <2>4. QED
      BY <2>2, <2>3
  \* From p on one can brake to what braking allows at the next block.
  <1>9. ASSUME NEW k \in p..n
        PROVE  At(w, s, k) <= w[k].run + b[k+1]
    <2>1. k \in 1..n
      BY <1>1
    <2>2. CASE k # p
      <3>1. k \in p+1..n /\ k # 1
        BY <1>1, <2>2
      <3>2. At(w, s, k) = w[k].entry /\ w[k].entry <= b[k]
        BY <1>7, <3>1 DEF At
      <3>3. QED
        BY SMTT(60), <1>5, <1>6, <2>1, <3>2
    <2>3. CASE k = p
      <3>1. At(w, s, p) = At(u, s, p) /\ w[p].run = u[p].run
        BY <1>1, <1>2 DEF At, SameMove
      <3>2. At(u, s, p) <= u[p].run + NextIn(u, p)
        BY <1>1 DEF Feasible
      <3>3. NextIn(u, p) \in Nat /\ NextIn(u, p) <= b[p+1]
        <4>1. CASE p = n
          BY <1>1, <1>4, <4>1 DEF NextIn
        <4>2. CASE p # n
          <5>1. p+1 \in 2..n /\ p+1 \in 1..n /\ NextIn(u, p) = u[p+1].entry
            BY <1>1, <4>2 DEF NextIn
          <5>2. u[p+1].entry <= Braking(u)[p+1] /\ u[p+1].entry \in Nat
            BY <5>1, EntryBelowBraking, BlockFields
          <5>3. Braking(u)[p+1] = b[p+1]
            <6>1. \A j \in 1..Len(w) : w[j].max = u[j].max /\ w[j].run = u[j].run
              BY <1>2 DEF SameMove
            <6>2. 1 \in Nat /\ 1 >= 1 /\ Len(u) = Len(w) /\ p+1 \in 1..Len(w)+1
              BY <1>1, <1>2
            <6>3. \A j \in 1..Len(w)+1 : Braking(w)[j] = Braking(u)[j]
              BY <1>2, <6>1, <6>2, BrakingSame
            <6>4. QED
              BY <6>2, <6>3 DEF b
          <5>4. QED
            BY <5>1, <5>2, <5>3
        <4>3. QED
          BY <4>1, <4>2
      <3>4. w[p].run \in Nat /\ b[p+1] \in Nat /\ At(w, s, p) \in Nat
        BY <1>5, <1>6, <2>1, <2>3
      <3>5. QED
        BY SMTT(60), <2>3, <3>1, <3>2, <3>3, <3>4
    <2>4. QED
      BY <2>2, <2>3
  <1>10. ASSUME NEW k \in 1..n
         PROVE  At(w, s, k) <= w[k].run + NextIn(w, k)
    <2>1. CASE k < p
      <3>1. k \in 1..p /\ k+1 \in 1..p /\ k # n
        BY <1>1, <2>1
      <3>2. w[k] = u[k] /\ w[k+1] = u[k+1]
        BY <1>2, <3>1
      <3>3. QED
        BY <1>2, <3>1, <3>2 DEF Feasible, At, NextIn
    <2>2. CASE k = n
      <3>1. k \in p..n /\ NextIn(w, k) = 0 /\ b[k+1] = 0
        BY <1>1, <1>2, <1>4, <2>2 DEF NextIn
      <3>2. QED
        BY <1>9, <3>1
    <2>3. CASE ~(k < p) /\ k # n
      <3>1. k \in p..n /\ k+1 \in p+1..n /\ k+1-1 = k /\ NextIn(w, k) = w[k+1].entry /\ k+1 \in 1..n
        BY <1>1, <1>2, <2>3 DEF NextIn
      <3>2. At(w, s, k) <= w[k].run + b[k+1] /\ w[k+1].entry \in {b[k+1], At(w, s, k) + w[k].run}
        BY <1>7, <1>9, <3>1
      <3>3. w[k].run \in Nat /\ At(w, s, k) \in Nat
        BY <1>5
      <3>4. QED
        BY SMTT(60), <3>1, <3>2, <3>3
    <2>4. QED
      BY <2>1, <2>2, <2>3
  <1>11. QED
    BY <1>2, <1>8, <1>10 DEF WithinMax, Feasible

\* The place of block_buffer_planned after a plan.
LEMMA BreaksAre ==
  ASSUME NEW u \in Seq(Block), NEW p \in 0..Len(u), NEW m, m = Max(Breaks(u, p))
  PROVE  m \in p..Len(u) /\ m \in Breaks(u, p)
  <1>1. Len(u) \in Int /\ p \in Int /\ p <= Len(u)
    BY BlockFields
  <1>2. p \in Breaks(u, p) /\ Breaks(u, p) \subseteq p..Len(u)
    BY <1>1 DEF Breaks
  <1>3. QED
    BY <1>1, <1>2, MaxOfInterval

LEMMA PassAnchors ==
  ASSUME NEW u \in Seq(Block), NEW s \in Nat, NEW p \in 1..Len(u), NEW w, w = Planned(u, p),
         WithinMax(u), Feasible(u, s), p = 1 => u[1].entry = s,
         NEW m, m = Max(Breaks(u, p)), m # p
  PROVE  Anchored(w, m)
  <1> DEFINE f == ForwardPass(u, p)
             r == ReversePass(u, p)
  <1>1. Len(u) \in Nat /\ p \in Nat /\ p >= 1 /\ p <= Len(u) /\ p \in 0..Len(u)
    BY BlockFields
  <1>2. m \in p..Len(u) /\ m \in Breaks(u, p)
    BY <1>1, BreaksAre
  <1>3. m \in p+1..Len(u) /\ m > p /\ m \in 1..Len(u) /\ m > 1
    BY <1>1, <1>2
  <1>4. (m > 1 /\ Accelerates(f, r, u, m)) \/ f[m] = u[m].max
    BY <1>2 DEF Breaks
  <1>5. w[m].entry = f[m] /\ w[m].max = u[m].max
    BY <1>1, <1>3, PlannedIs DEF SameMove
  <1>6. CASE f[m] = u[m].max
    BY <1>5, <1>6 DEF Anchored
  <1>7. CASE Accelerates(f, r, u, m)
    <2>1. f[m-1] + u[m-1].run < r[m]
      BY <1>7 DEF Accelerates
    <2>2. f[m] = f[m-1] + u[m-1].run
      <3>1. m \in p..Len(u) /\ m # p
        BY <1>1, <1>3
      <3>2. f[m] = Forward(u, p, f, r, m)
        BY <1>1, <3>1, ForwardPassIs
      <3>3. QED
        BY <1>3, <1>7, <3>1, <3>2 DEF Forward
    <2>3. r[m] = Braking(w)[m]
      BY <1>3, PassIsOptimal
    <2>4. QED
      BY <1>5, <2>1, <2>2, <2>3 DEF Anchored
  <1>8. QED
    BY <1>4, <1>6, <1>7

\* The blocks up to an anchored place p stay optimal when the ring grows.
LEMMA AnchoredIsOptimal ==
  ASSUME NEW q \in Seq(Block), NEW w \in Seq(Block), NEW s \in Nat, NEW p \in 1..Len(q),
         Optimal(q, s), Anchored(q, p), Len(q) <= Len(w),
         \A k \in 1..Len(q) : SameMove(w[k], q[k]),
         p > 1 => \A k \in 1..p : w[k] = q[k]
  PROVE  (\A k \in 2..p : OptimalAt(w, s, k)) /\ Anchored(w, p)
  <1> DEFINE n == Len(q)
             b == Braking(q)
             c == Braking(w)
             T == {k \in 2..p : c[k] = b[k] \/ q[k].entry < b[k]}
  <1>1. n \in Nat /\ p \in Nat /\ p \in Int /\ 2 \in Int /\ p <= n /\ Len(w) \in Nat /\ n <= Len(w)
    BY BlockFields
  <1>2. /\ b \in [1..n+1 -> Nat] /\ \A k \in 1..n : b[k] = Min2(q[k].max, b[k+1] + q[k].run)
        /\ c \in [1..Len(w)+1 -> Nat] /\ \A k \in 1..Len(w) : c[k] = Min2(w[k].max, c[k+1] + w[k].run)
    BY BrakingIs
  <1>3. \A k \in 1..n+1 : b[k] <= c[k]
    BY BrakingGrows DEF SameMove
  <1>4. ASSUME NEW k \in 1..n
        PROVE  /\ w[k].max = q[k].max /\ w[k].run = q[k].run
               /\ q[k].max \in Nat /\ q[k].run \in Nat /\ q[k].entry \in Nat /\ At(q, s, k) \in Nat
               /\ b[k] \in Nat /\ b[k+1] \in Nat /\ c[k] \in Nat /\ c[k+1] \in Nat
               /\ b[k] <= c[k] /\ b[k] <= q[k].max /\ c[k] <= q[k].max
               /\ b[k] \in {q[k].max, b[k+1] + q[k].run}
    <2>1. k \in 1..n+1 /\ k+1 \in 1..n+1 /\ k \in 1..Len(w) /\ k \in 1..Len(w)+1 /\ k+1 \in 1..Len(w)+1
      BY <1>1
    <2>2. /\ w[k].max = q[k].max /\ w[k].run = q[k].run
          /\ q[k].max \in Nat /\ q[k].run \in Nat /\ q[k].entry \in Nat /\ At(q, s, k) \in Nat
      BY BlockFields DEF SameMove, At
    <2>3. b[k] \in Nat /\ b[k+1] \in Nat /\ c[k] \in Nat /\ c[k+1] \in Nat /\ b[k] <= c[k]
      BY <1>2, <1>3, <2>1
    <2>4. b[k] = Min2(q[k].max, b[k+1] + q[k].run) /\ c[k] = Min2(q[k].max, c[k+1] + q[k].run)
      BY <1>2, <2>1, <2>2
    <2> HIDE DEF b, c
    <2>5. PICK m \in Nat, x \in Nat, y \in Nat, z \in Nat :
            m = q[k].max /\ x = b[k+1] /\ y = q[k].run /\ z = c[k+1]
      BY <2>2, <2>3, Zenon
    <2>6. PICK e, f : e = b[k] /\ e = Min2(m, x + y) /\ f = c[k] /\ f = Min2(m, z + y)
      BY <2>4, <2>5, Zenon
    <2>7. e <= m /\ e \in {m, x + y} /\ f <= m
      BY <2>6, MinSum
    <2>8. QED
      BY <2>2, <2>3, <2>5, <2>6, <2>7, Zenon
  <1>5. ASSUME NEW k \in 2..p
        PROVE  /\ k \in 1..n /\ k-1 \in 1..n /\ w[k] = q[k] /\ At(w, s, k-1) = At(q, s, k-1)
               /\ w[k-1].run = q[k-1].run /\ At(q, s, k-1) + q[k-1].run \in Nat
               /\ q[k].entry = Min2(b[k], At(q, s, k-1) + q[k-1].run)
    <2>1. k \in 1..n /\ k-1 \in 1..n /\ k \in 2..n /\ k \in 1..p /\ k-1 \in 1..p /\ p > 1
      BY <1>1
    <2>2. w[k] = q[k] /\ w[k-1] = q[k-1]
      BY <2>1
    <2>3. q[k].entry = Min2(b[k], At(q, s, k-1) + q[k-1].run)
      BY <2>1 DEF Optimal
    <2>4. At(q, s, k-1) \in Nat /\ q[k-1].run \in Nat
      BY <1>4, <2>1
    <2>5. At(w, s, k-1) = At(q, s, k-1)
      BY <2>2 DEF At
    <2>6. QED
      BY SMTT(60), <2>1, <2>2, <2>3, <2>4, <2>5
  <1> HIDE DEF n, b, c
  <1>6. 2 <= p => p \in T
    <2> SUFFICES ASSUME 2 <= p
                 PROVE  p \in T
      OBVIOUS
    <2>1. p \in 2..p /\ p \in 2..Len(q) /\ p \in 1..n
      BY <1>1 DEF n
    <2>2. q[p].entry = q[p].max \/ q[p].entry < b[p]
      BY <2>1 DEF Anchored, b
    <2>3. q[p].entry <= b[p]
      <3>1. q[p].entry = Min2(b[p], At(q, s, p-1) + q[p-1].run) /\ At(q, s, p-1) + q[p-1].run \in Nat
        BY <1>5, <2>1
      <3>2. b[p] \in Nat
        BY <1>4, <2>1
      <3>3. QED
        BY <3>1, <3>2, MinFacts
    <2>4. q[p].entry = q[p].max => c[p] = b[p]
      BY <1>4, <2>1, <2>3
    <2>5. QED
      BY <2>1, <2>2, <2>4
  <1>7. ASSUME NEW k \in 2..p-1, k+1 \in T
        PROVE  k \in T
    <2>1. k \in 2..p /\ k+1 \in 2..p /\ k+1-1 = k /\ k \in 1..n /\ k+1 \in 1..n /\ k # 1 /\ k \in 1..Len(w)
      BY <1>1
    <2>2. b[k] = Min2(q[k].max, b[k+1] + q[k].run) /\ c[k] = Min2(q[k].max, c[k+1] + q[k].run)
      BY <1>2, <1>4, <2>1
    <2>3. CASE c[k+1] = b[k+1]
      BY <2>1, <2>2, <2>3
    <2>4. CASE q[k+1].entry < b[k+1]
      <3>1. q[k+1].entry = Min2(b[k+1], q[k].entry + q[k].run)
        BY SMTT(60), <1>5, <2>1 DEF At
      <3>2. q[k].entry \in Nat /\ q[k].run \in Nat /\ b[k+1] \in Nat /\ q[k].entry + q[k].run \in Nat
        BY SMTT(60), <1>4, <2>1
      <3>3. q[k].entry + q[k].run < b[k+1]
        <4>1. q[k+1].entry \in {b[k+1], q[k].entry + q[k].run}
          BY <3>1, <3>2, MinFacts
        <4>2. QED
          BY SMTT(60), <2>4, <3>2, <4>1
      <3>4. CASE b[k] = b[k+1] + q[k].run
        <4>1. q[k].entry < b[k]
          BY SMTT(60), <3>2, <3>3, <3>4
        <4>2. QED
          BY <2>1, <4>1
      <3>5. CASE b[k] = q[k].max
        <4>1. c[k] = b[k]
          BY SMTT(60), <1>4, <2>1, <3>5
        <4>2. QED
          BY <2>1, <4>1
      <3>6. QED
        BY <1>4, <2>1, <3>4, <3>5
    <2>5. QED
      BY <1>7, <2>3, <2>4
  <1>8. 2..p \subseteq T
    <2> HIDE DEF T
    <2> QED
      BY <1>1, <1>6, <1>7, Downward
  <1>9. ASSUME NEW k \in 2..p
        PROVE  OptimalAt(w, s, k)
    <2>1. k \in 1..n /\ (c[k] = b[k] \/ q[k].entry < b[k])
      BY <1>5, <1>8
    <2> DEFINE a == At(q, s, k-1) + q[k-1].run
    <2>2. a \in Nat /\ b[k] \in Nat /\ c[k] \in Nat /\ b[k] <= c[k] /\ q[k].entry = Min2(b[k], a)
      BY <1>4, <1>5, <2>1
    <2>3. w[k].entry = q[k].entry /\ a = At(w, s, k-1) + w[k-1].run
      BY <1>5
    <2> HIDE DEF a
    <2>4. q[k].entry = Min2(c[k], a)
      BY <2>1, <2>2 DEF Min2
    <2>5. QED
      BY <2>3, <2>4 DEF OptimalAt, c
  <1>10. Anchored(w, p)
    <2> SUFFICES ASSUME p \in 2..Len(w)
                 PROVE  w[p].entry = w[p].max \/ w[p].entry < c[p]
      BY DEF Anchored, c
    <2>1. p \in 2..Len(q) /\ p \in 1..n /\ p \in 1..p /\ p > 1
      BY <1>1 DEF n
    <2>2. w[p] = q[p] /\ (q[p].entry = q[p].max \/ q[p].entry < b[p])
      BY <2>1 DEF Anchored, b
    <2>3. b[p] <= c[p] /\ b[p] \in Nat /\ c[p] \in Nat /\ q[p].entry \in Nat
      BY <1>4, <2>1
    <2>4. QED
      BY <2>2, <2>3
  <1>11. QED
    BY <1>9, <1>10

-----------------------------------------------------------------------------
\* Speeds.

LEMMA NominalFacts ==
  ASSUME NEW b, b.rate \in Nat, NEW f \in Overrides
  PROVE  NominalAt(b, f) \in Nat /\ NominalAt(b, f) <= RapidRate /\ NominalAt(b, f) \in 0..RapidRate
  <1>1. PICK r \in Nat : r = b.rate
    OBVIOUS
  <1>2. f \in Nat /\ RapidRate \in Nat
    BY ConstantAssumption
  <1>3. r * f \in Nat
    BY <1>2
  <1>4. Min2(r * f, RapidRate) \in Nat /\ Min2(r * f, RapidRate) <= RapidRate
    BY <1>2, <1>3, MinFacts
  <1>5. QED
    BY <1>1, <1>2, <1>4 DEF NominalAt

LEMMA Squares ==
  ASSUME NEW a \in Nat, NEW b \in Nat
  PROVE  a * a \in Nat /\ (a <= b => a * a <= b * b)
  OBVIOUS

LEMMA MaxEntryFacts ==
  ASSUME NEW j \in Nat, NEW a \in Nat, NEW b \in Nat
  PROVE  /\ MaxEntry(j, a, b) \in Nat /\ MaxEntry(j, a, b) <= j
         /\ MaxEntry(j, a, b) <= a * a /\ MaxEntry(j, a, b) <= b * b
  <1>1. PICK m \in Nat : m = Min2(a, b) /\ m <= a /\ m <= b
    BY MinFacts
  <1>2. m * m \in Nat /\ m * m <= a * a /\ m * m <= b * b /\ a * a \in Nat /\ b * b \in Nat
    BY <1>1, Squares
  <1>3. MaxEntry(j, a, b) = Min2(j, m * m)
    BY <1>1 DEF MaxEntry
  <1>4. MaxEntry(j, a, b) \in Nat /\ MaxEntry(j, a, b) <= j /\ MaxEntry(j, a, b) <= m * m
    BY <1>2, <1>3, MinFacts
  <1>5. PICK e \in Nat, c \in Nat, d \in Nat, g \in Nat :
          e = MaxEntry(j, a, b) /\ c = a * a /\ d = b * b /\ g = m * m
    BY <1>2, <1>4
  <1>6. QED
    BY <1>2, <1>4, <1>5

\* Faster limits never lower a maximum entry speed.
LEMMA MaxEntryMonotone ==
  ASSUME NEW j \in Nat, NEW a \in Nat, NEW b \in Nat, NEW c \in Nat, NEW d \in Nat, a <= c, b <= d
  PROVE  MaxEntry(j, a, b) <= MaxEntry(j, c, d)
  <1>1. PICK m \in Nat : m = Min2(a, b) /\ m <= a /\ m <= b
    BY MinFacts
  <1>2. PICK n \in Nat : n = Min2(c, d) /\ n \in {c, d}
    BY MinFacts
  <1>3. m <= n
    BY <1>1, <1>2
  <1>4. PICK x \in Nat, y \in Nat : x = m * m /\ y = n * n /\ x <= y
    BY <1>3, Squares
  <1>5. Min2(j, x) <= Min2(j, y)
    BY <1>4 DEF Min2
  <1>6. QED
    BY <1>1, <1>2, <1>4, <1>5 DEF MaxEntry

-----------------------------------------------------------------------------
\* Types, for every choice of the constants, lowered overrides included.

\* A block is in one state of execution only, and the pointer of an empty ring is what the next
\* block is planned from.
TypeInv ==
  /\ TypeOK /\ PlannedValid
  /\ queue = <<>> => planned \in {0, 1}
  /\ ~(loaded /\ recalc)

LEMMA EmptyQueue ==
  ASSUME NEW q \in Seq(Block)
  PROVE  Len(q) \in Nat /\ (q = <<>> <=> Len(q) = 0)
  BY EmptySeq, LenProperties

WithEntry(q, v) == [q EXCEPT ![1].entry = v]
WithRun(q, v) == [q EXCEPT ![1].run = v]

LEMMA SetEntry ==
  ASSUME NEW q \in Seq(Block), q # <<>>, NEW v \in Nat, NEW u, u = WithEntry(q, v)
  PROVE  /\ u \in Seq(Block) /\ Len(u) = Len(q) /\ u # <<>>
         /\ \A k \in 1..Len(q) : SameMove(u[k], q[k])
         /\ \A k \in 2..Len(q) : u[k] = q[k]
         /\ u[1].entry = v
  <1>1. Len(q) \in Nat /\ Len(q) > 0 /\ 1 \in 1..Len(q)
    BY EmptyQueue
  <1>2. q[1] \in Block
    BY <1>1, BlockFields
  <1> DEFINE b == [q[1] EXCEPT !.entry = v]
  <1>3. b \in Block /\ SameMove(b, q[1]) /\ b.entry = v
    BY <1>2 DEF Block, SameMove
  <1>4. u = [q EXCEPT ![1] = b]
    BY DEF WithEntry
  <1> HIDE DEF b
  <1>5. /\ u \in Seq(Block) /\ Len(u) = Len(q)
        /\ \A j \in 1..Len(q) : u[j] = IF j = 1 THEN b ELSE q[j]
    <2>1. b \in Block
      BY <1>3
    <2>2. QED
      BY <1>1, <1>4, <2>1, ExceptSeq
  <1>6. u # <<>>
    BY <1>1, <1>5, EmptyQueue
  <1>7. \A k \in 1..Len(q) : SameMove(u[k], q[k])
    BY <1>3, <1>5 DEF SameMove
  <1>8. \A k \in 2..Len(q) : u[k] = q[k]
    BY <1>1, <1>5
  <1>9. u[1].entry = v
    BY <1>1, <1>3, <1>5
  <1>10. QED
    BY <1>5, <1>6, <1>7, <1>8, <1>9

LEMMA SetRun ==
  ASSUME NEW q \in Seq(Block), q # <<>>, NEW v \in Nat, NEW u, u = WithRun(q, v)
  PROVE  /\ u \in Seq(Block) /\ Len(u) = Len(q) /\ u # <<>>
         /\ \A k \in 2..Len(q) : u[k] = q[k]
         /\ u[1].run = v /\ u[1].rate = q[1].rate /\ u[1].junction = q[1].junction
         /\ u[1].entry = q[1].entry /\ u[1].max = q[1].max
  <1>1. Len(q) \in Nat /\ Len(q) > 0 /\ 1 \in 1..Len(q)
    BY EmptyQueue
  <1>2. q[1] \in Block
    BY <1>1, BlockFields
  <1> DEFINE b == [q[1] EXCEPT !.run = v]
  <1>3. /\ b \in Block /\ b.run = v /\ b.rate = q[1].rate
        /\ b.junction = q[1].junction /\ b.entry = q[1].entry /\ b.max = q[1].max
    BY <1>2 DEF Block
  <1>4. u = [q EXCEPT ![1] = b]
    BY DEF WithRun
  <1> HIDE DEF b
  <1>5. /\ u \in Seq(Block) /\ Len(u) = Len(q)
        /\ \A j \in 1..Len(q) : u[j] = IF j = 1 THEN b ELSE q[j]
    <2>1. b \in Block
      BY <1>3
    <2>2. QED
      BY <1>1, <1>4, <2>1, ExceptSeq
  <1>6. u # <<>>
    BY <1>1, <1>5, EmptyQueue
  <1>7. \A k \in 2..Len(q) : u[k] = q[k]
    BY <1>1, <1>5
  <1>8. u[1] = b
    BY <1>1, <1>5
  <1>9. QED
    BY <1>3, <1>5, <1>6, <1>7, <1>8

LEMMA UpdateIs ==
  ASSUME NEW q \in Seq(Block), speed \in Nat, loaded => q # <<>>, NEW u, u = Update(q)
  PROVE  /\ u \in Seq(Block) /\ Len(u) = Len(q)
         /\ \A k \in 1..Len(q) : SameMove(u[k], q[k])
         /\ \A k \in 2..Len(q) : u[k] = q[k]
         /\ q # <<>> => u[1].entry = IF loaded THEN speed ELSE q[1].entry
  <1>1. CASE loaded
    <2>1. PICK v \in Nat : v = speed
      OBVIOUS
    <2>2. u = WithEntry(q, v) /\ q # <<>>
      BY <1>1, <2>1 DEF Update, WithEntry
    <2>3. /\ u \in Seq(Block) /\ Len(u) = Len(q) /\ u[1].entry = v
          /\ \A k \in 1..Len(q) : SameMove(u[k], q[k])
          /\ \A k \in 2..Len(q) : u[k] = q[k]
      BY <2>2, SetEntry
    <2>4. QED
      BY <1>1, <2>1, <2>2, <2>3
  <1>2. CASE ~loaded
    BY <1>2 DEF Update, SameMove
  <1>3. QED
    BY <1>1, <1>2

\* The types a plan of the blocks q keeps.
PlansTypes(q) ==
  /\ queue' \in Seq(Block) /\ Len(queue') = Len(q)
  /\ IF q = <<>> THEN planned' \in {0, 1} ELSE planned' \in 1..Len(q)
  /\ loaded' \in BOOLEAN /\ recalc' \in BOOLEAN /\ decel' = decel /\ speed' = speed /\ exit' = exit
  /\ ~(loaded' /\ recalc') /\ (loaded' \/ recalc' <=> loaded \/ recalc)

LEMMA UnloadTypes ==
  ASSUME TypeInv, Unload
  PROVE  /\ loaded' = FALSE /\ recalc' = (loaded \/ recalc) /\ decel' = decel /\ speed' = speed
         /\ exit' = exit
  BY DEF TypeInv, TypeOK, Unload

LEMMA RecalculateTypes ==
  ASSUME TypeInv, NEW q \in Seq(Block), q # <<>>, NEW p \in 0..Len(q),
         p = 0 => Len(q) = 1 /\ q[1].max = 0, Recalculate(q, p)
  PROVE  PlansTypes(q)
  <1>0. Len(q) \in Nat /\ Len(q) > 0 /\ p \in Nat
    BY EmptyQueue
  <1>1. CASE Len(q) = p
    BY <1>0, <1>1 DEF Recalculate, PlansTypes, prepVars, TypeInv, TypeOK
  <1>2. CASE Len(q) # p
    <2> DEFINE u == IF p = 1 THEN Update(q) ELSE q
    <2>1. /\ queue' = Planned(u, p) /\ planned' = Max(Breaks(u, p))
          /\ IF p = 1 THEN Unload ELSE UNCHANGED prepVars
      BY <1>2 DEF Recalculate
    <2>2. u \in Seq(Block) /\ Len(u) = Len(q) /\ (p = 0 => u = q)
      BY UpdateIs DEF TypeInv, TypeOK
    <2> HIDE DEF u
    <2>3. p \in 0..Len(u)
      BY <2>2
    <2>4. queue' \in Seq(Block) /\ Len(queue') = Len(q)
      BY <2>1, <2>2, <2>3, PlannedIs
    <2>5. planned' \in p..Len(q)
      BY <2>1, <2>2, <2>3, BreaksAre
    <2>6. planned' \in 1..Len(q)
      <3>1. CASE p > 0
        BY <1>0, <2>5, <3>1
      <3>2. CASE p = 0
        <4>1. u = q /\ Len(q) = 1 /\ q[1].max = 0 /\ 1 \in 1..Len(q)
          BY <2>2, <3>2
        <4> DEFINE f == ForwardPass(q, 0)
                   r == ReversePass(q, 0)
        <4>2. f[1] = r[1]
          <5>1. f[1] = Forward(q, 0, f, r, 1)
            BY <3>2, <4>1, ForwardPassIs
          <5>2. QED
            BY <5>1 DEF Forward
        <4>3. r[1] = LastEntry(q[1])
          <5>1. 1 \in 0+1..Len(q) /\ 0 \in Nat
            BY <4>1
          <5>2. r[1] = Reverse(q, r, 1)
            BY <5>1, ReversePassIs
          <5>3. QED
            BY <4>1, <5>2 DEF Reverse
        <4>4. LastEntry(q[1]) = 0
          <5>1. q[1].run \in Nat
            BY <4>1, BlockFields
          <5>2. QED
            BY <4>1, <5>1 DEF LastEntry, Min2
        <4>5. 1 \in Breaks(q, 0)
          BY <4>1, <4>2, <4>3, <4>4 DEF Breaks
        <4>6. Breaks(q, 0) \subseteq 0..1
          BY <4>1 DEF Breaks
        <4>7. 1 <= Max(Breaks(q, 0)) /\ Max(Breaks(q, 0)) \in Breaks(q, 0)
          BY <4>5, <4>6, MaxOfInterval
        <4>8. QED
          BY <2>1, <3>2, <4>1, <4>6, <4>7
      <3>3. QED
        BY <1>0, <3>1, <3>2
    <2>7. /\ loaded' \in BOOLEAN /\ recalc' \in BOOLEAN /\ decel' = decel /\ speed' = speed
          /\ exit' = exit /\ ~(loaded' /\ recalc') /\ (loaded' \/ recalc' <=> loaded \/ recalc)
      <3>1. CASE p = 1
        BY <2>1, <3>1, UnloadTypes DEF TypeInv, TypeOK
      <3>2. CASE p # 1
        BY <2>1, <3>2 DEF TypeInv, TypeOK, prepVars
      <3>3. QED
        BY <3>1, <3>2
    <2>8. QED
      BY <2>4, <2>6, <2>7 DEF PlansTypes
  <1>3. QED
    BY <1>1, <1>2

LEMMA ReinitializeTypes ==
  ASSUME TypeInv, NEW q \in Seq(Block), loaded \/ recalc => q # <<>>, Reinitialize(q)
  PROVE  PlansTypes(q)
  <1> DEFINE u == Update(q)
  <1>1. u \in Seq(Block) /\ Len(u) = Len(q) /\ Len(q) \in Nat /\ (u = <<>> <=> q = <<>>)
    BY UpdateIs, EmptyQueue DEF TypeInv, TypeOK
  <1>2. Unload /\ IF Len(u) > 1 THEN queue' = Planned(u, 1) /\ planned' = Max(Breaks(u, 1))
                  ELSE queue' = u /\ planned' \in IF u = <<>> THEN {0, 1} ELSE {1}
    BY DEF Reinitialize
  <1> HIDE DEF u
  <1>3. /\ loaded' \in BOOLEAN /\ recalc' \in BOOLEAN /\ decel' = decel /\ speed' = speed
        /\ exit' = exit /\ ~(loaded' /\ recalc') /\ (loaded' \/ recalc' <=> loaded \/ recalc)
    BY <1>2, UnloadTypes DEF TypeInv, TypeOK
  <1>4. CASE Len(u) > 1
    <2>1. 1 \in 0..Len(u)
      BY <1>1, <1>4
    <2>2. queue' \in Seq(Block) /\ Len(queue') = Len(q)
      BY <1>1, <1>2, <1>4, <2>1, PlannedIs
    <2>3. planned' \in 1..Len(q)
      BY <1>1, <1>2, <1>4, <2>1, BreaksAre
    <2>4. q # <<>>
      BY <1>1, <1>4, EmptyQueue
    <2>5. QED
      BY <1>3, <2>2, <2>3, <2>4 DEF PlansTypes
  <1>5. CASE ~(Len(u) > 1)
    <2>1. queue' \in Seq(Block) /\ Len(queue') = Len(q)
      BY <1>1, <1>2, <1>5
    <2>2. IF q = <<>> THEN planned' \in {0, 1} ELSE planned' \in 1..Len(q)
      BY <1>1, <1>2, <1>5, EmptyQueue
    <2>3. QED
      BY <1>3, <2>1, <2>2 DEF PlansTypes
  <1>6. QED
    BY <1>4, <1>5

LEMMA InitTypeInv == Init => TypeInv
  <1> SUFFICES ASSUME Init
               PROVE  TypeInv
    OBVIOUS
  <1>1. <<>> \in Seq(Block) /\ Len(<<>>) = 0
    BY EmptySeq
  <1>2. MaxBlocks \in Nat /\ MaxBlocks > 0 /\ RapidRate \in Nat /\ 1 \in Overrides
    BY ConstantAssumption
  <1>3. queue = <<>> /\ planned = 1
    BY DEF Init
  <1>4. queue \in Seq(Block) /\ Len(queue) <= MaxBlocks /\ planned \in 0..MaxBlocks
    BY <1>1, <1>2, <1>3
  <1>5. prevNominal \in 0..RapidRate /\ f_override \in Overrides
    BY <1>2 DEF Init
  <1>6. /\ state \in {"IDLE", "CYCLE", "HOLD"} /\ control \subseteq {"EXECUTE_HOLD", "END_MOTION"}
        /\ loaded \in BOOLEAN /\ recalc \in BOOLEAN /\ decel \in BOOLEAN
        /\ ~loaded /\ ~recalc /\ speed \in Nat /\ exit \in Nat
    BY DEF Init
  <1>7. QED
    BY <1>3, <1>4, <1>5, <1>6 DEF TypeInv, TypeOK, PlannedValid

\* After a plan of at most MaxBlocks blocks the types are right.
LEMMA PlanTypeInv ==
  ASSUME TypeInv, NEW q \in Seq(Block), Len(q) <= MaxBlocks, loaded \/ recalc => q # <<>>,
         PlansTypes(q), prevNominal' \in 0..RapidRate, f_override' \in Overrides,
         state' \in {"IDLE", "CYCLE", "HOLD"}, control' \subseteq {"EXECUTE_HOLD", "END_MOTION"}
  PROVE  TypeInv'
  <1>1. Len(q) \in Nat /\ (q = <<>> <=> Len(q) = 0) /\ (queue' = <<>> <=> Len(queue') = 0)
    BY EmptyQueue DEF PlansTypes
  <1>2. MaxBlocks \in Nat /\ MaxBlocks > 0
    BY ConstantAssumption
  <1>3. queue' \in Seq(Block) /\ Len(queue') <= MaxBlocks
    BY DEF PlansTypes
  <1>4. planned' \in 0..MaxBlocks
    BY <1>1, <1>2 DEF PlansTypes
  <1>5. (queue' # <<>> => planned' \in 1..Len(queue')) /\ (queue' = <<>> => planned' \in {0, 1})
    BY <1>1 DEF PlansTypes
  <1>6. loaded' \in BOOLEAN /\ recalc' \in BOOLEAN /\ decel' \in BOOLEAN /\ speed' \in Nat /\ exit' \in Nat
    BY DEF PlansTypes, TypeInv, TypeOK
  <1>7. loaded' \/ recalc' => queue' # <<>>
    BY <1>1 DEF PlansTypes
  <1>8. ~(loaded' /\ recalc')
    BY DEF PlansTypes
  <1>9. QED
    BY <1>3, <1>4, <1>5, <1>6, <1>7, <1>8 DEF TypeInv, TypeOK, PlannedValid

\* The block that a line makes, behind the ring.
LineBlock(line, junction) ==
  [rate |-> line.rate, junction |-> junction, run |-> line.run, entry |-> 0,
   max |-> MaxEntry(junction, Nominal(line), prevNominal)]

LEMMA BufferLineIs ==
  ASSUME TypeInv, BufferLine
  PROVE  \E line \in Lines, j \in Nat, b \in Block, q \in Seq(Block) :
           /\ b = LineBlock(line, j) /\ q = Append(queue, b) /\ (queue = <<>> => j = 0 /\ b.max = 0)
           /\ prevNominal' = Nominal(line) /\ Recalculate(q, planned)
           /\ line.rate \in Nat /\ prevNominal' \in 0..RapidRate
           /\ Len(queue) < MaxBlocks /\ UNCHANGED <<f_override, state, control>>
  <1>1. PICK line \in Lines :
          LET junction == IF queue = <<>> THEN 0 ELSE line.junction
          IN prevNominal' = Nominal(line) /\ Recalculate(Append(queue, LineBlock(line, junction)), planned)
    BY DEF BufferLine, LineBlock
  <1>2. line.rate \in Nat /\ line.junction \in Nat /\ line.run \in Nat
    BY ConstantAssumption DEF Moves
  <1>3. PICK j \in Nat : j = IF queue = <<>> THEN 0 ELSE line.junction
    BY <1>2
  <1>4. Nominal(line) \in Nat /\ Nominal(line) \in 0..RapidRate
    BY <1>2, NominalFacts DEF Nominal, TypeInv, TypeOK
  <1>5. prevNominal \in Nat
    BY ConstantAssumption DEF TypeInv, TypeOK
  <1>6. PICK m \in Nat : m = MaxEntry(j, Nominal(line), prevNominal) /\ m <= j
    BY <1>4, <1>5, MaxEntryFacts
  <1>7. PICK b \in Block : b = LineBlock(line, j) /\ b.max = m
    <2>1. LineBlock(line, j) = [rate |-> line.rate, junction |-> j, run |-> line.run, entry |-> 0, max |-> m]
      BY <1>6 DEF LineBlock
    <2>2. [rate |-> line.rate, junction |-> j, run |-> line.run, entry |-> 0, max |-> m] \in Block
      BY <1>2 DEF Block
    <2>3. QED
      BY <2>1, <2>2
  <1>8. PICK q \in Seq(Block) : q = Append(queue, b)
    BY AppendProperties DEF TypeInv, TypeOK
  <1>9. queue = <<>> => j = 0 /\ b.max = 0
    BY <1>3, <1>6, <1>7
  <1>10. prevNominal' = Nominal(line) /\ Recalculate(q, planned)
    BY <1>1, <1>3, <1>7, <1>8, Zenon
  <1>11. Len(queue) < MaxBlocks /\ UNCHANGED <<f_override, state, control>>
    BY DEF BufferLine, NotFull
  <1>12. QED
    BY <1>2, <1>4, <1>7, <1>8, <1>9, <1>10, <1>11

LEMMA BufferLineTypes ==
  ASSUME TypeInv, BufferLine
  PROVE  TypeInv'
  <1>1. PICK line \in Lines, j \in Nat, b \in Block, q \in Seq(Block) :
          /\ b = LineBlock(line, j) /\ q = Append(queue, b) /\ (queue = <<>> => j = 0 /\ b.max = 0)
          /\ prevNominal' = Nominal(line) /\ Recalculate(q, planned)
          /\ line.rate \in Nat /\ prevNominal' \in 0..RapidRate
          /\ Len(queue) < MaxBlocks /\ UNCHANGED <<f_override, state, control>>
    BY BufferLineIs
  <1>2. q # <<>> /\ Len(q) = Len(queue) + 1 /\ q[Len(queue) + 1] = b
    BY <1>1, AppendProperties DEF TypeInv, TypeOK
  <1>3. Len(queue) \in Nat /\ (queue = <<>> <=> Len(queue) = 0)
    BY EmptyQueue DEF TypeInv, TypeOK
  <1>4. planned \in 0..Len(q) /\ (planned = 0 => Len(q) = 1 /\ q[1].max = 0)
    BY <1>1, <1>2, <1>3 DEF TypeInv, PlannedValid
  <1>5. PlansTypes(q)
    BY <1>1, <1>2, <1>4, RecalculateTypes
  <1>6. /\ prevNominal' \in 0..RapidRate /\ f_override' \in Overrides
        /\ state' \in {"IDLE", "CYCLE", "HOLD"} /\ control' \subseteq {"EXECUTE_HOLD", "END_MOTION"}
    BY <1>1 DEF TypeInv, TypeOK
  <1>7. Len(q) <= MaxBlocks
    BY <1>1, <1>2, <1>3, ConstantAssumption
  <1>8. QED
    BY <1>2, <1>5, <1>6, <1>7, PlanTypeInv

\* The blocks with the maxima of another override.
PreviousAt(q, k, f) == IF k = 1 THEN RapidRate ELSE NominalAt(q[k-1], f)
Relimit(q, f) ==
  [k \in 1..Len(q) |-> [q[k] EXCEPT !.max = MaxEntry(q[k].junction, NominalAt(q[k], f), PreviousAt(q, k, f))]]

LEMMA PreviousFacts ==
  ASSUME NEW q \in Seq(Block), NEW f \in Overrides, NEW k \in 1..Len(q)+1
  PROVE  PreviousAt(q, k, f) \in Nat /\ PreviousAt(q, k, f) \in 0..RapidRate
  <1>1. CASE k = 1
    BY <1>1, ConstantAssumption DEF PreviousAt
  <1>2. CASE k # 1
    <2>1. Len(q) \in Nat /\ k-1 \in 1..Len(q)
      BY <1>2, BlockFields
    <2>2. q[k-1].rate \in Nat
      BY <2>1, BlockFields
    <2>3. QED
      BY <1>2, <2>2, NominalFacts DEF PreviousAt
  <1>3. QED
    BY <1>1, <1>2

LEMMA RelimitIs ==
  ASSUME NEW q \in Seq(Block), NEW f \in Overrides, NEW w, w = Relimit(q, f)
  PROVE  /\ w \in Seq(Block) /\ Len(w) = Len(q)
         /\ \A k \in 1..Len(q) :
              /\ w[k].rate = q[k].rate /\ w[k].junction = q[k].junction /\ w[k].run = q[k].run
              /\ w[k].entry = q[k].entry
              /\ w[k].max = MaxEntry(q[k].junction, NominalAt(q[k], f), PreviousAt(q, k, f))
  <1>1. ASSUME NEW k \in 1..Len(q)
        PROVE  /\ w[k] \in Block
               /\ w[k].rate = q[k].rate /\ w[k].junction = q[k].junction /\ w[k].run = q[k].run
               /\ w[k].entry = q[k].entry
               /\ w[k].max = MaxEntry(q[k].junction, NominalAt(q[k], f), PreviousAt(q, k, f))
    <2>1. q[k] \in Block /\ q[k].rate \in Nat /\ q[k].junction \in Nat /\ k \in 1..Len(q)+1
      BY BlockFields
    <2>2. NominalAt(q[k], f) \in Nat /\ PreviousAt(q, k, f) \in Nat
      BY <2>1, NominalFacts, PreviousFacts
    <2>3. PICK m \in Nat : m = MaxEntry(q[k].junction, NominalAt(q[k], f), PreviousAt(q, k, f))
      BY <2>1, <2>2, MaxEntryFacts
    <2>4. w[k] = [q[k] EXCEPT !.max = m]
      BY <2>3 DEF Relimit
    <2>5. w[k] \in Block /\ w[k].max = m
          /\ w[k].rate = q[k].rate /\ w[k].junction = q[k].junction /\ w[k].run = q[k].run
          /\ w[k].entry = q[k].entry
      BY <2>1, <2>4 DEF Block
    <2>6. QED
      BY <2>3, <2>5
  <1>2. Len(q) \in Nat
    BY BlockFields
  <1>3. w \in [1..Len(q) -> Block]
    BY <1>1 DEF Relimit
  <1>4. w \in Seq(Block) /\ Len(w) = Len(q)
    BY <1>2, <1>3, FunctionIsSeq
  <1>5. QED
    BY <1>1, <1>4

LEMMA OverrideIs ==
  ASSUME TypeInv, Override
  PROVE  \E f \in Overrides, q \in Seq(Block) :
           /\ q = Relimit(queue, f) /\ (Slower \/ f > f_override)
           /\ f_override' = f /\ prevNominal' = PreviousAt(queue, Len(queue) + 1, f)
           /\ Reinitialize(q) /\ UNCHANGED <<state, control>>
  <1>1. PICK f \in Overrides :
          /\ Slower \/ f > f_override
          /\ f_override' = f /\ prevNominal' = PreviousAt(queue, Len(queue) + 1, f)
          /\ Reinitialize(Relimit(queue, f))
    BY DEF Override, PreviousAt, Relimit
  <1>2. Relimit(queue, f) \in Seq(Block)
    BY RelimitIs DEF TypeInv, TypeOK
  <1>3. UNCHANGED <<state, control>>
    BY DEF Override
  <1>4. QED
    BY <1>1, <1>2, <1>3

LEMMA OverrideTypes ==
  ASSUME TypeInv, Override
  PROVE  TypeInv'
  <1>1. PICK f \in Overrides, q \in Seq(Block) :
          /\ q = Relimit(queue, f) /\ (Slower \/ f > f_override)
          /\ f_override' = f /\ prevNominal' = PreviousAt(queue, Len(queue) + 1, f)
          /\ Reinitialize(q) /\ UNCHANGED <<state, control>>
    BY OverrideIs
  <1>2. queue \in Seq(Block) /\ Len(q) = Len(queue) /\ Len(queue) <= MaxBlocks
    BY <1>1, RelimitIs DEF TypeInv, TypeOK
  <1>3. loaded \/ recalc => q # <<>>
    BY <1>2, EmptyQueue DEF TypeInv, TypeOK
  <1>4. PlansTypes(q)
    BY <1>1, <1>3, ReinitializeTypes
  <1>5. prevNominal' \in 0..RapidRate
    <2>1. Len(queue) + 1 \in 1..Len(queue)+1
      BY <1>2, EmptyQueue
    <2>2. QED
      BY <1>1, <1>2, <2>1, PreviousFacts
  <1>6. /\ f_override' \in Overrides
        /\ state' \in {"IDLE", "CYCLE", "HOLD"} /\ control' \subseteq {"EXECUTE_HOLD", "END_MOTION"}
    BY <1>1 DEF TypeInv, TypeOK
  <1>7. Len(q) <= MaxBlocks
    BY <1>2
  <1>8. QED
    BY <1>3, <1>4, <1>5, <1>6, <1>7, PlanTypeInv

LEMMA NominalSqrFacts ==
  ASSUME NEW q \in Seq(Block), q # <<>>, NEW f \in Overrides
  PROVE  /\ Len(q) \in Nat /\ Len(q) >= 1 /\ 1 \in 1..Len(q)
         /\ NominalAt(q[1], f) \in Nat /\ NominalAt(q[1], f) * NominalAt(q[1], f) \in Nat
         /\ q[1].run \in Nat /\ q[1].entry \in Nat
  <1>1. Len(q) \in Nat /\ Len(q) >= 1 /\ 1 \in 1..Len(q)
    BY EmptyQueue
  <1>2. q[1].rate \in Nat /\ q[1].run \in Nat /\ q[1].entry \in Nat
    BY <1>1, BlockFields
  <1>3. NominalAt(q[1], f) \in Nat
    BY <1>2, NominalFacts
  <1>4. QED
    BY <1>1, <1>2, <1>3, Squares

\* st_prep_buffer() takes up the first block with the speed v.
LEMMA LoadIs ==
  ASSUME TypeInv, Load
  PROVE  \E v \in Nat :
           /\ v = IF ~recalc /\ (Holding \/ decel) THEN exit ELSE queue[1].entry
           /\ queue' = WithEntry(queue, v) /\ speed' = (IF recalc THEN speed ELSE v)
           /\ decel' = (~Holding /\ TooFast(v))
           /\ exit' = (IF Holding THEN Max2(v - queue[1].run, 0)
                       ELSE IF TooFast(v) THEN v - queue[1].run ELSE NextEntry)
           /\ exit' \in Nat
  <1>1. queue \in Seq(Block) /\ queue # <<>> /\ f_override \in Overrides /\ exit \in Nat
    BY DEF Load, TypeInv, TypeOK
  <1>2. /\ Len(queue) >= 1 /\ queue[1].run \in Nat /\ queue[1].entry \in Nat /\ Len(queue) \in Nat
        /\ NominalSqr \in Nat
    BY <1>1, NominalSqrFacts DEF NominalSqr, Nominal
  <1>3. PICK v \in Nat : v = IF ~recalc /\ (Holding \/ decel) THEN exit ELSE queue[1].entry
    BY <1>1, <1>2
  <1>4. /\ queue' = WithEntry(queue, v) /\ speed' = (IF recalc THEN speed ELSE v)
        /\ decel' = (~Holding /\ TooFast(v))
        /\ exit' = (IF Holding THEN Max2(v - queue[1].run, 0)
                       ELSE IF TooFast(v) THEN v - queue[1].run ELSE NextEntry)
    BY <1>3 DEF Load, WithEntry
  <1>5. NextEntry \in Nat
    <2>1. CASE Len(queue) > 1
      <3>1. 2 \in 1..Len(queue)
        BY <1>2, <2>1
      <3>2. queue[2].entry \in Nat
        BY <1>1, <3>1, BlockFields
      <3>3. QED
        BY <2>1, <3>2 DEF NextEntry
    <2>2. CASE ~(Len(queue) > 1)
      BY <2>2 DEF NextEntry
    <2>3. QED
      BY <2>1, <2>2
  <1>6. exit' \in Nat
    <2>1. PICK n \in Nat, w \in Nat : n = queue[1].run /\ w = NominalSqr
      BY <1>2
    <2>2. Max2(v - n, 0) \in Nat
      BY DEF Max2
    <2>3. TooFast(v) => v - n \in Nat
      BY <2>1 DEF TooFast
    <2>4. QED
      BY <1>4, <1>5, <2>1, <2>2, <2>3
  <1>7. QED
    BY <1>3, <1>4, <1>6

LEMMA LoadTypes ==
  ASSUME TypeInv, Load
  PROVE  TypeInv'
  <1>1. PICK v \in Nat : /\ queue' = WithEntry(queue, v) /\ speed' = (IF recalc THEN speed ELSE v)
                         /\ decel' = (~Holding /\ TooFast(v)) /\ exit' \in Nat
    BY LoadIs
  <1>2. queue' \in Seq(Block) /\ Len(queue') = Len(queue) /\ queue' # <<>> /\ queue # <<>>
    BY ZenonT(60), <1>1, SetEntry DEF TypeInv, TypeOK, Load
  <1>3. loaded' = TRUE /\ recalc' = FALSE /\ UNCHANGED <<planned, prevNominal, f_override, state, control>>
    BY DEF Load
  <1>4. decel' \in BOOLEAN /\ speed' \in Nat
    BY <1>1 DEF TypeInv, TypeOK
  <1>5. QED
    BY <1>1, <1>2, <1>3, <1>4 DEF TypeInv, TypeOK, PlannedValid

\* The blocks after the first is done.
LEMMA DiscardIs ==
  ASSUME TypeInv, queue # <<>>, Discard
  PROVE  /\ queue' \in Seq(Block) /\ Len(queue') = Len(queue) - 1 /\ Len(queue) \in Nat
         /\ \A k \in 1..Len(queue') : queue'[k] = queue[k+1]
         /\ planned' = IF planned > 1 THEN planned - 1 ELSE planned
         /\ queue' # <<>> => planned' \in 1..Len(queue')
         /\ queue' = <<>> => planned' \in {0, 1}
  <1>1. queue \in Seq(Block) /\ Len(queue) \in Nat /\ Len(queue) >= 1 /\ planned \in 1..Len(queue)
    BY EmptyQueue DEF TypeInv, TypeOK, PlannedValid
  <1>2. /\ queue' \in Seq(Block) /\ Len(queue') = Len(queue) - 1
        /\ \A k \in 1..Len(queue') : queue'[k] = queue[k+1]
    BY <1>1, HeadTailProperties DEF Discard
  <1>3. planned' = IF planned > 1 THEN planned - 1 ELSE planned
    BY DEF Discard, PushPointer
  <1>4. Len(queue') \in Nat /\ (queue' = <<>> <=> Len(queue') = 0)
    BY <1>2, EmptyQueue
  <1>5. PICK n \in Nat, m \in Nat, p \in Int : n = Len(queue) /\ m = Len(queue') /\ p = planned
    BY <1>1, <1>4
  <1>6. p \in 1..n /\ m = n - 1 /\ (p > 1 => planned' = p - 1) /\ (p = 1 => planned' = p)
    BY <1>1, <1>2, <1>3, <1>5
  <1>7. m # 0 => planned' \in 1..m
    BY <1>5, <1>6
  <1>8. m = 0 => planned' \in {0, 1}
    <2>1. m = 0 => p = 1
      BY <1>6
    <2>2. QED
      BY <1>6, <2>1
  <1>9. QED
    BY <1>1, <1>2, <1>3, <1>4, <1>5, <1>7, <1>8

\* The first block becomes shorter, or is done: d is executed and r is left.
Shorten(r) ==
  IF r > 0 THEN queue' = WithRun(queue, r) /\ UNCHANGED <<planned, loaded>>
  ELSE Discard /\ loaded' = FALSE

LEMMA ProfileTypes ==
  ASSUME NEW d \in Nat, NEW r \in Nat, queue \in Seq(Block), queue # <<>>, f_override \in Overrides,
         speed \in Nat, exit \in Nat
  PROVE  Profile(d, r) \in Nat
  <1>1. PICK v \in Nat, e \in Nat, n \in Nat, w \in Nat :
          v = speed /\ e = exit /\ n = queue[1].run /\ w = NominalSqr
    BY NominalSqrFacts DEF NominalSqr, Nominal
  <1>2. Max2(v - d, 0) \in Nat /\ Min2(Max2(v - d, w), e + r) \in Nat
        /\ Min2(Min2(v + d, w), e + r) \in Nat
    BY DEF Min2, Max2
  <1>3. Profile(d, r) \in {e, Max2(v - d, 0), Min2(Max2(v - d, w), e + r), Min2(Min2(v + d, w), e + r)}
    <2>1. Profile(d, r) =
            CASE r = 0 -> e
              [] r > 0 /\ (TooFast(v) \/ v >= e + n) -> Max2(v - d, 0)
              [] r > 0 /\ ~TooFast(v) /\ v > w -> Min2(Max2(v - d, w), e + r)
              [] OTHER -> Min2(Min2(v + d, w), e + r)
      BY <1>1, Zenon DEF Profile
    <2>2. QED
      BY <2>1, Zenon
  <1>4. QED
    BY <1>1, <1>2, <1>3

LEMMA ExecuteIs ==
  ASSUME TypeInv, Execute
  PROVE  /\ loaded /\ queue # <<>> /\ ~Holding
         /\ \E d \in Nat, r \in Nat :
              /\ d > 0 /\ d + r = queue[1].run /\ speed' = Profile(d, r) /\ speed' \in Nat /\ Shorten(r)
         /\ UNCHANGED <<prevNominal, f_override, state, control, recalc, decel, exit>>
  <1>1. loaded /\ ~Holding /\ UNCHANGED <<prevNominal, f_override, state, control, recalc, decel, exit>>
    BY DEF Execute, MayPrep
  <1>2. queue # <<>> /\ queue \in Seq(Block) /\ f_override \in Overrides /\ speed \in Nat /\ exit \in Nat
    BY <1>1 DEF TypeInv, TypeOK
  <1>3. PICK d \in 1..queue[1].run :
          /\ speed' = Profile(d, queue[1].run - d)
          /\ IF queue[1].run - d > 0
             THEN queue' = WithRun(queue, queue[1].run - d) /\ UNCHANGED <<planned, loaded>>
             ELSE Discard /\ loaded' = FALSE
    BY DEF Execute, WithRun
  <1>4. queue[1].run \in Nat
    BY <1>2, NominalSqrFacts
  <1>5. PICK n \in Nat : n = queue[1].run
    BY <1>4
  <1>6. d \in Nat /\ d > 0 /\ n - d \in Nat
    BY <1>5
  <1>7. PICK r \in Nat : r = queue[1].run - d /\ d + r = n
    BY <1>5, <1>6
  <1>8. speed' = Profile(d, r) /\ Shorten(r)
    BY <1>3, <1>7 DEF Shorten
  <1>9. Profile(d, r) \in Nat
    BY <1>2, <1>6, ProfileTypes
  <1>10. QED
    BY <1>1, <1>2, <1>5, <1>6, <1>7, <1>8, <1>9

LEMMA BrakeIs ==
  ASSUME TypeInv, Brake
  PROVE  /\ loaded /\ queue # <<>> /\ Holding /\ "END_MOTION" \notin control
         /\ \E d \in Nat, r \in Nat :
              /\ d > 0 /\ d + r = queue[1].run /\ speed' + d = speed /\ speed' \in Nat /\ Shorten(r)
              /\ control' = IF r > 0 /\ speed = d THEN control \cup {"END_MOTION"} ELSE control
         /\ UNCHANGED <<prevNominal, f_override, state, recalc, decel, exit>>
  <1>1. /\ loaded /\ Holding /\ "END_MOTION" \notin control
        /\ UNCHANGED <<prevNominal, f_override, state, recalc, decel, exit>>
    BY DEF Brake, MayPrep
  <1>2. queue # <<>> /\ queue \in Seq(Block) /\ f_override \in Overrides /\ speed \in Nat
    BY <1>1 DEF TypeInv, TypeOK
  <1>3. PICK d \in 1..Min2(speed, queue[1].run) :
          /\ speed' = speed - d
          /\ IF queue[1].run - d > 0
             THEN /\ queue' = WithRun(queue, queue[1].run - d)
                  /\ control' = IF speed = d THEN control \cup {"END_MOTION"} ELSE control
                  /\ UNCHANGED <<planned, loaded>>
             ELSE Discard /\ loaded' = FALSE /\ UNCHANGED control
    BY DEF Brake, WithRun
  <1>4. PICK n \in Nat, v \in Nat : n = queue[1].run /\ v = speed
    BY <1>2, NominalSqrFacts
  <1>5. d \in 1..Min2(v, n)
    BY <1>3, <1>4
  <1>6. d \in Nat /\ d > 0 /\ n - d \in Nat /\ v - d \in Nat
    BY <1>5 DEF Min2
  <1>7. PICK r \in Nat : r = queue[1].run - d /\ d + r = n
    BY <1>4, <1>6
  <1>8. Shorten(r) /\ control' = IF r > 0 /\ speed = d THEN control \cup {"END_MOTION"} ELSE control
    BY <1>3, <1>7 DEF Shorten
  <1>9. speed' \in Nat /\ speed' + d = speed
    BY <1>3, <1>4, <1>6
  <1>10. QED
    BY <1>1, <1>2, <1>4, <1>6, <1>7, <1>8, <1>9

LEMMA ShortenTypes ==
  ASSUME TypeInv, loaded, queue # <<>>, NEW r \in Nat, Shorten(r), speed' \in Nat,
         UNCHANGED <<prevNominal, f_override, state, recalc, decel, exit>>,
         control' \subseteq {"EXECUTE_HOLD", "END_MOTION"}
  PROVE  TypeInv'
  <1>1. queue \in Seq(Block) /\ ~recalc
    BY DEF TypeInv, TypeOK
  <1>2. CASE r > 0
    <2>1. queue' = WithRun(queue, r) /\ UNCHANGED <<planned, loaded>>
      BY <1>2 DEF Shorten
    <2>2. queue' \in Seq(Block) /\ Len(queue') = Len(queue) /\ queue' # <<>>
      BY <1>1, <2>1, SetRun
    <2>3. QED
      BY <2>1, <2>2 DEF TypeInv, TypeOK, PlannedValid
  <1>3. CASE ~(r > 0)
    <2>1. Discard /\ loaded' = FALSE
      BY <1>3 DEF Shorten
    <2>2. /\ queue' \in Seq(Block) /\ Len(queue') = Len(queue) - 1 /\ Len(queue) \in Nat
          /\ queue' # <<>> => planned' \in 1..Len(queue')
          /\ queue' = <<>> => planned' \in {0, 1}
      BY <2>1, DiscardIs
    <2>3. Len(queue') <= MaxBlocks /\ MaxBlocks \in Nat /\ MaxBlocks > 0
      BY <2>2, ConstantAssumption DEF TypeInv, TypeOK
    <2>4. planned' \in 0..MaxBlocks
      BY <2>2, <2>3
    <2>5. QED
      BY <1>1, <2>1, <2>2, <2>3, <2>4 DEF TypeInv, TypeOK, PlannedValid
  <1>4. QED
    BY <1>2, <1>3

LEMMA HoldIs ==
  ASSUME TypeInv, Hold
  PROVE  \/ /\ state = "CYCLE" /\ state' = "HOLD" /\ control' = {"EXECUTE_HOLD"}
            /\ queue' = Update(queue) /\ Unload /\ UNCHANGED <<planned, prevNominal, f_override>>
         \/ state = "IDLE" /\ state' = "HOLD" /\ UNCHANGED <<planVars, prepVars, f_override, control>>
  BY DEF Hold

LEMMA HoldTypes ==
  ASSUME TypeInv, Hold
  PROVE  TypeInv'
  <1>1. CASE /\ state = "CYCLE" /\ state' = "HOLD" /\ control' = {"EXECUTE_HOLD"}
             /\ queue' = Update(queue) /\ Unload /\ UNCHANGED <<planned, prevNominal, f_override>>
    <2>1. queue' \in Seq(Block) /\ Len(queue') = Len(queue) /\ queue \in Seq(Block)
      BY <1>1, UpdateIs DEF TypeInv, TypeOK
    <2>2. queue' = <<>> <=> queue = <<>>
      BY <2>1, EmptyQueue
    <2>3. loaded' = FALSE /\ recalc' = (loaded \/ recalc) /\ UNCHANGED <<decel, speed, exit>>
      BY <1>1, UnloadTypes
    <2>4. QED
      BY <1>1, <2>1, <2>2, <2>3 DEF TypeInv, TypeOK, PlannedValid
  <1>2. CASE state = "IDLE" /\ state' = "HOLD" /\ UNCHANGED <<planVars, prepVars, f_override, control>>
    BY <1>2 DEF TypeInv, TypeOK, PlannedValid, planVars, prepVars
  <1>3. QED
    BY <1>1, <1>2, HoldIs

LEMMA StartTypes ==
  ASSUME TypeInv, Start
  PROVE  TypeInv'
  BY DEF TypeInv, TypeOK, PlannedValid, planVars, prepVars, Start

LEMMA CycleStopTypes ==
  ASSUME TypeInv, CycleStop
  PROVE  TypeInv'
  <1>1. CASE state = "CYCLE" /\ state' = "IDLE" /\ UNCHANGED <<planVars, prepVars, f_override, control>>
    BY <1>1 DEF TypeInv, TypeOK, PlannedValid, planVars, prepVars
  <1>2. CASE /\ Reinitialize(queue) /\ control' = control \ {"EXECUTE_HOLD"}
             /\ UNCHANGED <<prevNominal, f_override, state>>
    <2>1. queue \in Seq(Block) /\ (loaded \/ recalc => queue # <<>>) /\ Len(queue) <= MaxBlocks
      BY DEF TypeInv, TypeOK
    <2>2. PlansTypes(queue)
      BY <1>2, <2>1, ReinitializeTypes
    <2>3. /\ prevNominal' \in 0..RapidRate /\ f_override' \in Overrides
          /\ state' \in {"IDLE", "CYCLE", "HOLD"} /\ control' \subseteq {"EXECUTE_HOLD", "END_MOTION"}
      BY <1>2 DEF TypeInv, TypeOK
    <2>4. QED
      BY <2>1, <2>2, <2>3, PlanTypeInv
  <1>3. QED
    BY <1>1, <1>2 DEF CycleStop

LEMMA NextTypeInv == TypeInv /\ [Next]_vars => TypeInv'
  <1> SUFFICES ASSUME TypeInv, [Next]_vars
               PROVE  TypeInv'
    OBVIOUS
  <1>1. CASE BufferLine
    BY <1>1, BufferLineTypes
  <1>2. CASE Override
    BY <1>2, OverrideTypes
  <1>3. CASE Load
    BY <1>3, LoadTypes
  <1>4. CASE Execute
    <2>1. loaded /\ queue # <<>> /\ UNCHANGED <<prevNominal, f_override, state, control, recalc, decel, exit>>
      BY <1>4, ExecuteIs
    <2>2. PICK r \in Nat : Shorten(r) /\ speed' \in Nat
      BY <1>4, ExecuteIs
    <2>3. control' \subseteq {"EXECUTE_HOLD", "END_MOTION"}
      BY <2>1 DEF TypeInv, TypeOK
    <2>4. QED
      BY <2>1, <2>2, <2>3, ShortenTypes
  <1>5. CASE Brake
    <2>1. loaded /\ queue # <<>> /\ UNCHANGED <<prevNominal, f_override, state, recalc, decel, exit>>
      BY <1>5, BrakeIs
    <2>2. PICK r \in Nat, d \in Nat :
            /\ Shorten(r) /\ speed' \in Nat
            /\ control' = IF r > 0 /\ speed = d THEN control \cup {"END_MOTION"} ELSE control
      BY <1>5, BrakeIs
    <2>3. control' \subseteq {"EXECUTE_HOLD", "END_MOTION"}
      BY <2>2 DEF TypeInv, TypeOK
    <2>4. QED
      BY <2>1, <2>2, <2>3, ShortenTypes
  <1>6. CASE AtRest
    BY <1>6 DEF TypeInv, TypeOK, PlannedValid, planVars, prepVars, AtRest
  <1>7. CASE Start
    BY <1>7, StartTypes
  <1>8. CASE Hold
    BY <1>8, HoldTypes
  <1>9. CASE CycleStop
    BY <1>9, CycleStopTypes
  <1>10. CASE Reset
    <2>1. Init'
      BY <1>10 DEF Reset, Init
    <2>2. QED
      BY <2>1, InitTypeInv, PTL
  <1>11. CASE UNCHANGED vars
    BY <1>11 DEF TypeInv, TypeOK, PlannedValid, vars, planVars, prepVars
  <1>12. QED
    BY <1>1, <1>2, <1>3, <1>4, <1>5, <1>6, <1>7, <1>8, <1>9, <1>10, <1>11 DEF Next

LEMMA AlwaysTypeInv == Spec => []TypeInv
  BY InitTypeInv, NextTypeInv, PTL DEF Spec

\* Every field of the ring's blocks, the pointer of the planner and the speeds of the segment
\* generator keep their types (plan_block_t, st_prep_t), whatever the operator overrides.
THEOREM TypeTheorem == Spec => []TypeOK
  <1>1. TypeInv => TypeOK
    BY DEF TypeInv
  <1>2. QED
    BY <1>1, AlwaysTypeInv, PTL

\* block_buffer_planned always stands at a block of the ring: the blocks that planner_recalculate()
\* leaves alone are blocks that plan_discard_current_block() has not taken away.
THEOREM PlannedTheorem == Spec => []PlannedValid
  <1>1. TypeInv => PlannedValid
    BY DEF TypeInv
  <1>2. QED
    BY <1>1, AlwaysTypeInv, PTL

\* The limits of the corners and the moves hold for every block q[k], at the override f.
LimitedAt(q, f, k) ==
  q[k].max <= MaxEntry(q[k].junction, NominalAt(q[k], f), PreviousAt(q, k, f))
Limited(q, f) == \A k \in 1..Len(q) : LimitedAt(q, f, k)
SameLimits(a, b) == a.rate = b.rate /\ a.junction = b.junction /\ a.max = b.max

LEMMA PreviousDepends ==
  ASSUME NEW q \in Seq(Block), NEW w \in Seq(Block), NEW f \in Overrides, NEW k \in 1..Len(q)+1,
         \A i \in 1..k-1 : w[i].rate = q[i].rate
  PROVE  PreviousAt(w, k, f) = PreviousAt(q, k, f)
  <1>1. CASE k = 1
    BY <1>1 DEF PreviousAt
  <1>2. CASE k # 1
    <2>1. Len(q) \in Nat /\ k-1 \in 1..k-1
      BY <1>2, BlockFields
    <2>2. w[k-1].rate = q[k-1].rate
      BY <2>1
    <2>3. QED
      BY <1>2, <2>2 DEF PreviousAt, NominalAt
  <1>3. QED
    BY <1>1, <1>2

\* The limit at block k depends on the blocks up to k.
LEMMA LimitedDepends ==
  ASSUME NEW q \in Seq(Block), NEW w \in Seq(Block), NEW f \in Overrides, NEW k \in 1..Len(q),
         \A i \in 1..k : SameLimits(w[i], q[i]), LimitedAt(q, f, k)
  PROVE  LimitedAt(w, f, k)
  <1>1. k \in 1..k /\ k \in 1..Len(q)+1 /\ 1..k-1 \subseteq 1..k
    BY BlockFields
  <1>2. PreviousAt(w, k, f) = PreviousAt(q, k, f)
    <2>1. \A i \in 1..k-1 : w[i].rate = q[i].rate
      BY <1>1 DEF SameLimits
    <2>2. QED
      BY <1>1, <2>1, PreviousDepends
  <1>3. SameLimits(w[k], q[k])
    BY <1>1
  <1>4. NominalAt(w[k], f) = NominalAt(q[k], f)
    BY <1>3 DEF NominalAt, SameLimits
  <1>5. w[k].max = q[k].max /\ w[k].junction = q[k].junction
    BY <1>3 DEF SameLimits
  <1>6. QED
    BY <1>2, <1>4, <1>5 DEF LimitedAt

LEMMA LimitedMoves ==
  ASSUME NEW q \in Seq(Block), NEW w \in Seq(Block), NEW f \in Overrides, Len(w) = Len(q),
         \A k \in 1..Len(q) : SameLimits(w[k], q[k]), Limited(q, f)
  PROVE  Limited(w, f) /\ PreviousAt(w, Len(w)+1, f) = PreviousAt(q, Len(q)+1, f)
  <1>1. Len(q) \in Nat
    BY BlockFields
  <1>2. ASSUME NEW k \in 1..Len(q)
        PROVE  LimitedAt(w, f, k)
    <2>1. \A i \in 1..k : SameLimits(w[i], q[i])
      BY <1>1
    <2>2. LimitedAt(q, f, k)
      BY DEF Limited
    <2>3. QED
      BY <2>1, <2>2, LimitedDepends
  <1>3. PreviousAt(w, Len(q)+1, f) = PreviousAt(q, Len(q)+1, f)
    <2>1. PICK k \in 1..Len(q)+1 : k = Len(q)+1 /\ 1..k-1 = 1..Len(q)
      BY <1>1
    <2>2. \A i \in 1..k-1 : w[i].rate = q[i].rate
      BY <2>1 DEF SameLimits
    <2>3. PreviousAt(w, k, f) = PreviousAt(q, k, f)
      BY <2>2, PreviousDepends
    <2>4. QED
      BY <2>1, <2>3
  <1>4. QED
    BY <1>2, <1>3 DEF Limited

\* What the limits say of the entry into block k.
LEMMA LimitedSpeed ==
  ASSUME NEW q \in Seq(Block), NEW f \in Overrides, NEW k \in 1..Len(q), LimitedAt(q, f, k)
  PROVE  /\ NominalAt(q[k], f) \in Nat /\ PreviousAt(q, k, f) \in Nat
         /\ q[k].max <= NominalAt(q[k], f) * NominalAt(q[k], f)
         /\ q[k].max <= PreviousAt(q, k, f) * PreviousAt(q, k, f)
  <1>1. q[k].rate \in Nat /\ q[k].junction \in Nat /\ q[k].max \in Nat /\ k \in 1..Len(q)+1
    BY BlockFields
  <1>2. PICK j \in Nat, a \in Nat, b \in Nat, m \in Nat :
          j = q[k].junction /\ a = NominalAt(q[k], f) /\ b = PreviousAt(q, k, f) /\ m = q[k].max
    BY <1>1, NominalFacts, PreviousFacts
  <1>3. m <= MaxEntry(j, a, b)
    BY <1>2 DEF LimitedAt
  <1>4. PICK e \in Nat, x \in Nat, y \in Nat :
          e = MaxEntry(j, a, b) /\ x = a * a /\ y = b * b /\ e <= x /\ e <= y
    BY ZenonT(60), MaxEntryFacts, Squares
  <1>5. m <= x /\ m <= y
    BY <1>3, <1>4
  <1>6. QED
    BY <1>2, <1>4, <1>5

LEMMA LimitedTail ==
  ASSUME NEW q \in Seq(Block), NEW w \in Seq(Block), NEW f \in Overrides, Len(w) = Len(q) - 1,
         \A k \in 1..Len(w) : w[k] = q[k+1], Limited(q, f)
  PROVE  Limited(w, f) /\ (Len(w) > 0 => PreviousAt(w, Len(w)+1, f) = PreviousAt(q, Len(q)+1, f))
  <1>1. Len(q) \in Nat /\ Len(w) \in Nat /\ Len(q) = Len(w) + 1
    BY BlockFields
  <1>2. ASSUME NEW k \in 1..Len(w)
        PROVE  LimitedAt(w, f, k)
    <2>1. PICK h \in 1..Len(q) : h = k+1 /\ h - 1 = k /\ h # 1 /\ h \in 1..Len(q)+1
      BY <1>1
    <2>2. w[k] = q[h] /\ LimitedAt(q, f, h)
      BY <2>1 DEF Limited
    <2>3. PICK j \in Nat, m \in Nat, a \in Nat, b \in Nat, c \in Nat :
            /\ j = q[h].junction /\ m = q[h].max /\ a = NominalAt(q[h], f)
            /\ b = PreviousAt(q, h, f) /\ c = PreviousAt(w, k, f)
      <3>1. q[h].rate \in Nat /\ q[h].junction \in Nat /\ q[h].max \in Nat /\ k \in 1..Len(w)+1
        BY <1>1, BlockFields
      <3>2. QED
        BY <2>1, <3>1, NominalFacts, PreviousFacts
    <2>4. b <= c
      <3>1. CASE k = 1
        <4>1. c = RapidRate
          BY <2>3, <3>1 DEF PreviousAt
        <4>2. b \in 0..RapidRate
          BY <2>1, <2>3, PreviousFacts
        <4>3. QED
          BY <4>1, <4>2
      <3>2. CASE k # 1
        <4>1. k-1 \in 1..Len(w) /\ k-1+1 = k
          BY <1>1, <3>2
        <4>2. w[k-1] = q[k]
          BY <4>1
        <4>3. b = NominalAt(q[k], f) /\ c = NominalAt(w[k-1], f)
          BY <2>1, <2>3, <3>2 DEF PreviousAt
        <4>4. QED
          BY <4>2, <4>3
      <3>3. QED
        BY <3>1, <3>2
    <2>5. m <= MaxEntry(j, a, b)
      BY <2>2, <2>3 DEF LimitedAt
    <2>6. MaxEntry(j, a, b) <= MaxEntry(j, a, c)
      BY SMTT(60), <2>4, MaxEntryMonotone
    <2>7. PICK x \in Nat, y \in Nat : x = MaxEntry(j, a, b) /\ y = MaxEntry(j, a, c)
      BY MaxEntryFacts
    <2>8. m <= MaxEntry(j, a, c)
      BY <2>5, <2>6, <2>7
    <2>9. QED
      BY <2>2, <2>3, <2>8 DEF LimitedAt
  <1>3. ASSUME Len(w) > 0
        PROVE  PreviousAt(w, Len(w)+1, f) = PreviousAt(q, Len(q)+1, f)
    <2>1. w[Len(w)] = q[Len(w)+1]
      BY <1>1, <1>3
    <2>2. PreviousAt(w, Len(w)+1, f) = NominalAt(w[Len(w)], f)
      <3>1. PICK h \in Int : h = Len(w)+1 /\ h # 1 /\ h-1 = Len(w)
        BY <1>1, <1>3
      <3>2. PreviousAt(w, h, f) = NominalAt(w[Len(w)], f)
        BY <3>1 DEF PreviousAt
      <3>3. QED
        BY <3>1, <3>2
    <2>3. PreviousAt(q, Len(q)+1, f) = NominalAt(q[Len(q)], f)
      <3>1. PICK h \in Int : h = Len(q)+1 /\ h # 1 /\ h-1 = Len(q)
        BY <1>1, <1>3
      <3>2. PreviousAt(q, h, f) = NominalAt(q[Len(q)], f)
        BY <3>1 DEF PreviousAt
      <3>3. QED
        BY <3>1, <3>2
    <2>4. QED
      BY <1>1, <2>1, <2>2, <2>3
  <1>4. QED
    BY <1>2, <1>3 DEF Limited

\* The ring q, entered at the speed s, with the pointer p and the override f.  While a hold brakes
\* the plan need not be optimal.
Ring(q, s, p, f, holding) ==
  /\ Limited(q, f) /\ WithinMax(q) /\ Feasible(q, s)
  /\ ~holding => Optimal(q, s) /\ Anchored(q, p)

\* A ring with one block or none has no entry to plan.
LEMMA ShortRing ==
  ASSUME NEW q \in Seq(Block), NEW s, NEW p, NEW f, NEW h, Limited(q, f), Feasible(q, s), Len(q) <= 1
  PROVE  Ring(q, s, p, f, h)
  <1>1. Len(q) \in Nat /\ \A k \in 2..Len(q) : FALSE
    BY BlockFields
  <1>2. WithinMax(q) /\ Optimal(q, s) /\ Anchored(q, p)
    BY <1>1 DEF WithinMax, Optimal, Anchored
  <1>3. QED
    BY <1>2 DEF Ring

\* Braking on.
LEMMA SlowerRing ==
  ASSUME NEW q \in Seq(Block), NEW s \in Nat, NEW t \in Nat, t <= s, NEW p, NEW f, NEW h,
         Ring(q, s, p, f, h), h \/ t = s, NEW h2, h => h2
  PROVE  Ring(q, t, p, f, h2)
  <1>1. Feasible(q, t)
    <2>1. ASSUME NEW k \in 1..Len(q)
          PROVE  At(q, t, k) <= q[k].run + NextIn(q, k)
      <3>1. Len(q) \in Nat /\ q[k].run \in Nat /\ q[k].entry \in Nat
        BY BlockFields
      <3>2. NextIn(q, k) \in Nat
        <4>1. CASE k = Len(q)
          BY <4>1 DEF NextIn
        <4>2. CASE k # Len(q)
          <5>1. k+1 \in 1..Len(q)
            BY <3>1, <4>2
          <5>2. QED
            BY <4>2, <5>1, BlockFields DEF NextIn
        <4>3. QED
          BY <4>1, <4>2
      <3>3. At(q, s, k) <= q[k].run + NextIn(q, k)
        BY DEF Ring, Feasible
      <3>4. PICK x \in Nat, y \in Nat, z \in Nat, a \in Nat, b \in Nat :
              x = q[k].run /\ y = NextIn(q, k) /\ z = q[k].entry /\ a = At(q, s, k) /\ b = At(q, t, k)
        BY <3>1, <3>2 DEF At
      <3>5. b <= a
        BY <3>4 DEF At
      <3>6. QED
        BY SMTT(60), <3>3, <3>4, <3>5
    <2>2. QED
      BY <2>1 DEF Feasible
  <1>2. CASE h
    BY <1>1, <1>2 DEF Ring
  <1>3. CASE ~h
    <2>1. t = s
      BY <1>3
    <2>2. QED
      BY <1>1, <1>3, <2>1 DEF Ring
  <1>4. QED
    BY <1>2, <1>3

\* The entry speed of the second block.
LEMMA NextIs ==
  ASSUME NEW q \in Seq(Block), q # <<>>
  PROVE  /\ NextIn(q, 1) \in Nat
         /\ Len(q) > 1 => NextIn(q, 1) = q[2].entry /\ 2 \in 1..Len(q)
         /\ ~(Len(q) > 1) => NextIn(q, 1) = 0
  <1>1. Len(q) \in Nat /\ Len(q) >= 1
    BY EmptyQueue
  <1>2. CASE Len(q) > 1
    <2>1. 2 \in 1..Len(q) /\ 1 # Len(q)
      BY <1>1, <1>2
    <2>2. q[2].entry \in Nat
      BY <2>1, BlockFields
    <2>3. QED
      BY <1>2, <2>1, <2>2 DEF NextIn
  <1>3. CASE ~(Len(q) > 1)
    <2>1. 1 = Len(q)
      <3>1. PICK n \in Nat : n = Len(q)
        BY <1>1
      <3>2. n >= 1 /\ ~(n > 1)
        BY <1>1, <1>3, <3>1
      <3>3. n = 1
        BY <3>2
      <3>4. QED
        BY <3>1, <3>3
    <2>2. NextIn(q, 1) = 0
      BY <2>1, Zenon DEF NextIn
    <2>3. QED
      BY <1>3, <2>2
  <1>4. QED
    BY <1>2, <1>3

\* The first block is executed, and the next is entered.
LEMMA TailRing ==
  ASSUME NEW q \in Seq(Block), q # <<>>, NEW s \in Nat, NEW p \in Int, NEW f \in Overrides, NEW h,
         Ring(q, s, p, f, h), NEW w \in Seq(Block), Len(w) = Len(q) - 1,
         \A k \in 1..Len(w) : w[k] = q[k+1], NEW m, m = IF p > 1 THEN p - 1 ELSE p
  PROVE  Ring(w, NextIn(q, 1), m, f, h)
  <1>1. Len(q) \in Nat /\ Len(w) \in Nat /\ Len(q) = Len(w) + 1
    BY BlockFields
  <1>2. Limited(w, f)
    BY LimitedTail DEF Ring
  <1>3. WithinMax(w)
    <2>1. ASSUME NEW k \in 2..Len(w)
          PROVE  w[k].entry <= w[k].max
      <3>1. k \in 1..Len(w) /\ k+1 \in 2..Len(q)
        BY <1>1
      <3>2. q[k+1].entry <= q[k+1].max
        BY <3>1 DEF Ring, WithinMax
      <3>3. QED
        BY <3>1, <3>2
    <2>2. QED
      BY <2>1 DEF WithinMax
  <1> DEFINE t == NextIn(q, 1)
  <1>4. \A k \in 1..Len(w) : At(w, t, k) = q[k+1].entry
    <2>1. ASSUME NEW k \in 1..Len(w)
          PROVE  At(w, t, k) = q[k+1].entry
      <3>1. CASE k = 1
        <4>1. Len(q) > 1
          BY <1>1, <3>1
        <4>2. At(w, t, k) = q[2].entry
          BY <3>1, <4>1, NextIs DEF At
        <4>3. QED
          BY <3>1, <4>2
      <3>2. CASE k # 1
        <4>1. w[k] = q[k+1]
          OBVIOUS
        <4>2. QED
          BY <3>2, <4>1 DEF At
      <3>3. QED
        BY <3>1, <3>2
    <2>2. QED
      BY <2>1
  <1>5. t \in Nat
    BY NextIs
  <1> HIDE DEF t
  <1>6. Feasible(w, t)
    <2>1. ASSUME NEW k \in 1..Len(w)
          PROVE  At(w, t, k) <= w[k].run + NextIn(w, k)
      <3>1. PICK i \in 1..Len(q) : i = k+1 /\ i # 1
        BY <1>1
      <3>2. At(q, s, i) <= q[i].run + NextIn(q, i)
        BY DEF Ring, Feasible
      <3>3. At(q, s, i) = q[i].entry /\ At(w, t, k) = q[i].entry
        BY <1>4, <3>1 DEF At
      <3>4. w[k].run = q[i].run
        BY <3>1
      <3>5. NextIn(w, k) = NextIn(q, i)
        <4>1. CASE k = Len(w)
          BY <1>1, <3>1, <4>1 DEF NextIn
        <4>2. CASE k # Len(w)
          <5>1. i # Len(q) /\ k+1 \in 1..Len(w) /\ k+1 = i
            BY <1>1, <3>1, <4>2
          <5>2. w[i] = q[i+1]
            BY <5>1
          <5>3. QED
            BY <4>2, <5>1, <5>2 DEF NextIn
        <4>3. QED
          BY <4>1, <4>2
      <3>6. QED
        BY <3>2, <3>3, <3>4, <3>5
    <2>2. QED
      BY <2>1 DEF Feasible
  <1>7. ASSUME ~h
        PROVE  Optimal(w, t) /\ Anchored(w, m)
    <2>0. Optimal(q, s) /\ Anchored(q, p)
      BY <1>7 DEF Ring
    <2>1. \A k \in 1..Len(w)+1 : Braking(w)[k] = Braking(q)[k+1]
      <3>1. \A k \in 1..Len(w) : w[k].max = q[k+1].max /\ w[k].run = q[k+1].run
        OBVIOUS
      <3>2. 1 \in Nat /\ 1 >= 1
        OBVIOUS
      <3>3. QED
        BY ZenonT(60), <1>1, <3>1, <3>2, BrakingSuffix
    <2> DEFINE bw == Braking(w)
               bq == Braking(q)
    <2>2. \A k \in 1..Len(w)+1 : bw[k] = bq[k+1]
      BY <2>1
    <2>3. \A i \in 2..Len(q) : q[i].entry = Min2(bq[i], At(q, s, i-1) + q[i-1].run)
      BY <2>0 DEF Optimal
    <2>4. p \in 2..Len(q) => q[p].entry = q[p].max \/ q[p].entry < bq[p]
      BY <2>0 DEF Anchored
    <2>5. Optimal(w, t) <=> \A k \in 2..Len(w) : w[k].entry = Min2(bw[k], At(w, t, k-1) + w[k-1].run)
      BY DEF Optimal
    <2>6. Anchored(w, m) <=> (m \in 2..Len(w) => w[m].entry = w[m].max \/ w[m].entry < bw[m])
      BY DEF Anchored
    <2> HIDE DEF bw, bq
    <2>7. ASSUME NEW k \in 2..Len(w)
          PROVE  w[k].entry = Min2(bw[k], At(w, t, k-1) + w[k-1].run)
      <3>1. PICK i \in 2..Len(q), j \in 1..Len(w) :
              i = k+1 /\ j = k-1 /\ i-1 = k /\ j+1 = k /\ k \in 1..Len(w)+1 /\ k # 1 /\ k \in 1..Len(w)
        BY <1>1
      <3>2. q[i].entry = Min2(bq[i], At(q, s, k) + q[k].run)
        BY <2>3, <3>1
      <3>3. w[k] = q[i] /\ w[j] = q[k] /\ bw[k] = bq[i]
        BY <2>2, <3>1
      <3>4. At(w, t, j) = q[k].entry /\ At(q, s, k) = q[k].entry
        BY <1>4, <3>1 DEF At
      <3>5. QED
        BY <3>1, <3>2, <3>3, <3>4
    <2>8. ASSUME m \in 2..Len(w)
          PROVE  w[m].entry = w[m].max \/ w[m].entry < bw[m]
      <3>1. p > 1 /\ m = p - 1 /\ p \in 2..Len(q) /\ m + 1 = p /\ m \in 1..Len(w) /\ m \in 1..Len(w)+1
        BY <1>1, <2>8
      <3>2. w[m] = q[p] /\ bw[m] = bq[p]
        BY <2>2, <3>1
      <3>3. QED
        BY SMTT(60), <2>4, <3>1, <3>2
    <2>9. QED
      BY <2>5, <2>6, <2>7, <2>8
  <1>8. Ring(w, t, m, f, h)
    BY <1>2, <1>3, <1>6, <1>7 DEF Ring
  <1>9. QED
    BY <1>8 DEF t

\* The first block becomes another with its limits, r long, and is entered at the speed t.
LEMMA FirstRing ==
  ASSUME NEW q \in Seq(Block), q # <<>>, NEW s \in Nat, NEW p, NEW f \in Overrides, NEW h,
         Ring(q, s, p, f, h), NEW w \in Seq(Block), Len(w) = Len(q),
         \A k \in 2..Len(q) : w[k] = q[k], SameLimits(w[1], q[1]),
         NEW t \in Nat, t <= w[1].run + NextIn(q, 1),
         ~h /\ Len(q) > 1 => q[2].entry = Min2(Braking(q)[2], t + w[1].run)
  PROVE  /\ Ring(w, t, p, f, h)
         /\ PreviousAt(w, Len(w)+1, f) = PreviousAt(q, Len(q)+1, f)
  <1>2. Len(q) \in Nat /\ Len(q) >= 1 /\ 1 \in 1..Len(w)
    BY EmptyQueue
  <1>0. PICK r \in Nat : r = w[1].run
    BY <1>2, BlockFields
  <1>1. /\ \A k \in 2..Len(q) : w[k] = q[k]
        /\ w[1].run = r /\ SameLimits(w[1], q[1])
        /\ t <= r + NextIn(q, 1)
        /\ ~h /\ Len(q) > 1 => q[2].entry = Min2(Braking(q)[2], t + r)
    BY <1>0
  <1>3. Limited(w, f) /\ PreviousAt(w, Len(w)+1, f) = PreviousAt(q, Len(q)+1, f)
    <2>1. \A k \in 1..Len(q) : SameLimits(w[k], q[k])
      BY <1>1, <1>2 DEF SameLimits
    <2>2. QED
      BY <1>1, <2>1, LimitedMoves DEF Ring
  <1>4. WithinMax(w)
    BY <1>1 DEF Ring, WithinMax
  <1>5. \A k \in 1..Len(q) : NextIn(w, k) = NextIn(q, k)
    <2>1. ASSUME NEW k \in 1..Len(q)
          PROVE  NextIn(w, k) = NextIn(q, k)
      <3>1. k # Len(q) => k+1 \in 2..Len(q)
        BY <1>2
      <3>2. QED
        BY <1>1, <3>1 DEF NextIn
    <2>2. QED
      BY <2>1
  <1>6. Feasible(w, t)
    <2>1. ASSUME NEW k \in 1..Len(q)
          PROVE  At(w, t, k) <= w[k].run + NextIn(w, k)
      <3>1. CASE k = 1
        BY <1>1, <1>2, <1>5, <3>1 DEF At
      <3>2. CASE k # 1
        <4>1. k \in 2..Len(q) /\ w[k] = q[k]
          BY <1>1, <1>2, <3>2
        <4>2. At(w, t, k) = At(q, s, k)
          BY <3>2, <4>1 DEF At
        <4>3. QED
          BY <1>5, <4>1, <4>2 DEF Ring, Feasible
      <3>3. QED
        BY <3>1, <3>2
    <2>2. QED
      BY <1>1, <2>1 DEF Feasible
  <1>7. ASSUME ~h
        PROVE  Optimal(w, t) /\ Anchored(w, p)
    <2>0. Optimal(q, s) /\ Anchored(q, p)
      BY <1>7 DEF Ring
    <2>1. \A k \in 2..Len(w)+1 : Braking(w)[k] = Braking(q)[k]
      <3>1. \A k \in 2..Len(w) : w[k].max = q[k].max /\ w[k].run = q[k].run
        BY <1>1
      <3>2. 2 \in Nat /\ 2 >= 1
        OBVIOUS
      <3>3. QED
        BY <3>1, <3>2, BrakingSame
    <2> DEFINE bw == Braking(w)
               bq == Braking(q)
    <2>2. \A k \in 2..Len(q) : bw[k] = bq[k]
      <3>1. ASSUME NEW k \in 2..Len(q)
            PROVE  bw[k] = bq[k]
        <4>1. k \in 2..Len(w)+1
          BY <1>1, <1>2
        <4>2. QED
          BY <2>1, <4>1
      <3>2. QED
        BY <3>1
    <2>3. \A i \in 2..Len(q) : q[i].entry = Min2(bq[i], At(q, s, i-1) + q[i-1].run)
      BY <2>0 DEF Optimal
    <2>4. p \in 2..Len(q) => q[p].entry = q[p].max \/ q[p].entry < bq[p]
      BY <2>0 DEF Anchored
    <2>5. Optimal(w, t) <=> \A k \in 2..Len(q) : w[k].entry = Min2(bw[k], At(w, t, k-1) + w[k-1].run)
      BY <1>1 DEF Optimal
    <2>6. Anchored(w, p) <=> (p \in 2..Len(q) => w[p].entry = w[p].max \/ w[p].entry < bw[p])
      BY <1>1 DEF Anchored
    <2>7. Len(q) > 1 => q[2].entry = Min2(bq[2], t + r)
      BY <1>1, <1>7
    <2> HIDE DEF bw, bq
    <2>8. ASSUME NEW k \in 2..Len(q)
          PROVE  w[k].entry = Min2(bw[k], At(w, t, k-1) + w[k-1].run)
      <3>1. w[k] = q[k] /\ bw[k] = bq[k]
        BY <1>1, <2>2
      <3>2. CASE k = 2
        <4>1. Len(q) > 1 /\ k-1 = 1
          BY <1>2, <3>2
        <4>2. At(w, t, k-1) = t /\ w[k-1].run = r
          BY <1>1, <4>1 DEF At
        <4>3. QED
          BY <2>7, <3>1, <3>2, <4>1, <4>2
      <3>3. CASE k # 2
        <4>1. PICK i \in 2..Len(q) : i = k-1 /\ i # 1
          BY <1>2, <3>3
        <4>2. w[i] = q[i]
          BY <1>1
        <4>3. At(w, t, i) = At(q, s, i)
          BY <4>1, <4>2 DEF At
        <4>4. q[k].entry = Min2(bq[k], At(q, s, i) + q[i].run)
          BY <2>3, <4>1
        <4>5. QED
          BY <3>1, <4>1, <4>2, <4>3, <4>4
      <3>4. QED
        BY <3>2, <3>3
    <2>9. p \in 2..Len(q) => w[p].entry = w[p].max \/ w[p].entry < bw[p]
      <3>1. ASSUME p \in 2..Len(q)
            PROVE  w[p] = q[p] /\ bw[p] = bq[p]
        BY <1>1, <2>2, <3>1
      <3>2. QED
        BY <2>4, <3>1
    <2>10. QED
      BY <2>5, <2>6, <2>8, <2>9
  <1>8. QED
    BY <1>3, <1>4, <1>6, <1>7 DEF Ring

\* The first block has another entry speed, and the machine enters it as before.
LEMMA SameRing ==
  ASSUME NEW q \in Seq(Block), q # <<>>, NEW s \in Nat, NEW p, NEW f \in Overrides, NEW h,
         Ring(q, s, p, f, h), NEW w \in Seq(Block), Len(w) = Len(q),
         \A k \in 2..Len(q) : w[k] = q[k], SameMove(w[1], q[1])
  PROVE  /\ Ring(w, s, p, f, h)
         /\ PreviousAt(w, Len(w)+1, f) = PreviousAt(q, Len(q)+1, f)
  <1>1. Len(q) \in Nat /\ Len(q) >= 1 /\ 1 \in 1..Len(q)
    BY EmptyQueue
  <1>2. PICK r \in Nat : r = q[1].run
    BY <1>1, BlockFields
  <1>3. SameLimits(w[1], q[1]) /\ r = w[1].run
    BY <1>2 DEF SameMove, SameLimits
  <1>4. s <= r + NextIn(q, 1)
    <2>1. At(q, s, 1) <= q[1].run + NextIn(q, 1)
      BY <1>1 DEF Ring, Feasible
    <2>2. QED
      BY <1>2, <2>1 DEF At
  <1>5. ASSUME ~h, Len(q) > 1
        PROVE  q[2].entry = Min2(Braking(q)[2], s + r)
    <2>1. 2 \in 2..Len(q) /\ 2-1 = 1
      BY <1>1, <1>5
    <2>2. q[2].entry = Min2(Braking(q)[2], At(q, s, 2-1) + q[2-1].run)
      BY <1>5, <2>1 DEF Ring, Optimal
    <2>3. QED
      BY <1>2, <2>1, <2>2 DEF At
  <1>6. ~h /\ Len(q) > 1 => q[2].entry = Min2(Braking(q)[2], s + w[1].run)
    BY <1>3, <1>5
  <1>7. s <= w[1].run + NextIn(q, 1)
    BY <1>3, <1>4
  <1>8. /\ Len(w) = Len(q) /\ \A k \in 2..Len(q) : w[k] = q[k]
        /\ q # <<>> /\ Ring(q, s, p, f, h) /\ w \in Seq(Block) /\ q \in Seq(Block)
        /\ s \in Nat /\ f \in Overrides
    OBVIOUS
  <1>9. Ring(w, s, p, f, h)
    BY <1>3, <1>6, <1>7, <1>8, FirstRing
  <1>10. PreviousAt(w, Len(w)+1, f) = PreviousAt(q, Len(q)+1, f)
    <2>1. \A k \in 1..Len(q) : SameLimits(w[k], q[k])
      BY <1>1, <1>3, <1>8 DEF SameLimits
    <2>2. Limited(q, f)
      BY <1>8 DEF Ring
    <2>3. QED
      BY <1>8, <2>1, <2>2, LimitedMoves
  <1>11. QED
    BY <1>9, <1>10

\* A plan of the blocks u that starts at the place p, where the blocks up to p are optimal.
LEMMA PlannedRing ==
  ASSUME NEW u \in Seq(Block), NEW s \in Nat, NEW p \in 1..Len(u), NEW f \in Overrides, NEW h,
         Limited(u, f), WithinMax(u), Feasible(u, s), p = 1 => u[1].entry = s,
         NEW w, w = Planned(u, p), NEW m, m = Max(Breaks(u, p)),
         ~h => (\A k \in 2..p : OptimalAt(w, s, k)) /\ Anchored(w, p)
  PROVE  Ring(w, s, m, f, h)
  <1>1. /\ w \in Seq(Block) /\ Len(w) = Len(u)
        /\ \A k \in 1..Len(u) : SameMove(w[k], u[k])
    <2>1. p \in 0..Len(u)
      BY BlockFields
    <2>2. QED
      BY <2>1, PlannedIs
  <1>2. Limited(w, f)
    <2>1. \A k \in 1..Len(u) : SameLimits(w[k], u[k])
      BY <1>1 DEF SameMove, SameLimits
    <2>2. QED
      BY <1>1, <2>1, LimitedMoves
  <1>3. WithinMax(w) /\ Feasible(w, s)
    BY PassIsFeasible
  <1>4. ASSUME ~h
        PROVE  Optimal(w, s) /\ Anchored(w, m)
    <2>1. \A k \in p+1..Len(u) : OptimalAt(w, s, k)
      BY PassIsOptimal
    <2>2. \A k \in 2..p : OptimalAt(w, s, k)
      BY <1>4
    <2>3. \A k \in 2..Len(w) : OptimalAt(w, s, k)
      <3>1. Len(u) \in Nat /\ p \in Nat
        BY BlockFields
      <3>2. \A k \in 2..Len(w) : k \in 2..p \/ k \in p+1..Len(u)
        BY <1>1, <3>1
      <3>3. QED
        BY <2>1, <2>2, <3>2
    <2>4. Optimal(w, s)
      BY <2>3 DEF Optimal, OptimalAt
    <2>5. Anchored(w, m)
      <3>1. CASE m = p
        BY <1>4, <3>1
      <3>2. CASE m # p
        BY <3>2, PassAnchors
      <3>3. QED
        BY <3>1, <3>2
    <2>6. QED
      BY <2>4, <2>5
  <1>5. QED
    BY <1>2, <1>3, <1>4 DEF Ring

\* How the speed of the executing block, or of the one to be executed, goes with the plan.
SpeedInv ==
  /\ queue # <<>> => SpeedAt(1) <= NominalSqr
  /\ recalc => queue[1].entry = speed
  /\ loaded => exit = IF Holding THEN Max2(speed - queue[1].run, 0) ELSE NextEntry
  /\ ~loaded /\ ~recalc =>
       /\ exit = speed
       /\ queue = <<>> => speed = 0
       /\ queue # <<>> => speed <= queue[1].entry /\ (~Holding => speed = queue[1].entry)
ControlInv ==
  /\ state # "HOLD" => control = {}
  /\ "END_MOTION" \in control => loaded \/ recalc
PlanInv ==
  /\ ~decel /\ ControlInv /\ SpeedInv
  /\ prevNominal = PreviousAt(queue, Len(queue) + 1, f_override) \/ queue = <<>>
  /\ Ring(queue, SpeedAt(1), planned, f_override, Holding)

\* Without blocks nothing moves.
AtRestEmpty == TypeInv /\ queue = <<>> /\ ~decel /\ ControlInv /\ speed = 0 /\ exit = 0

LEMMA EmptyPlanInv == AtRestEmpty => PlanInv
  <1> SUFFICES ASSUME TypeInv, queue = <<>>, ~decel, ControlInv, speed = 0, exit = 0
               PROVE  PlanInv
    BY DEF AtRestEmpty
  <1>1. queue \in Seq(Block) /\ ~loaded /\ ~recalc
    BY DEF TypeInv, TypeOK
  <1>2. Len(queue) = 0 /\ \A k \in 1..Len(queue) : FALSE
    BY <1>1, EmptyQueue
  <1>3. Limited(queue, f_override) /\ Feasible(queue, SpeedAt(1))
    BY <1>2 DEF Limited, Feasible
  <1>4. Len(queue) <= 1
    BY <1>2
  <1>5. Ring(queue, SpeedAt(1), planned, f_override, Holding)
    BY <1>1, <1>3, <1>4, ShortRing
  <1>6. SpeedInv
    BY <1>1 DEF SpeedInv
  <1>7. QED
    BY <1>5, <1>6 DEF PlanInv

LEMMA InitPlanInv == Init => PlanInv
  <1> SUFFICES ASSUME Init
               PROVE  PlanInv
    OBVIOUS
  <1>1. TypeInv
    BY InitTypeInv
  <1>2. queue = <<>> /\ ~decel /\ ControlInv /\ speed = 0 /\ exit = 0
    BY DEF Init, ControlInv
  <1>3. QED
    BY <1>1, <1>2, EmptyPlanInv DEF AtRestEmpty

LEMMA SpeedFacts ==
  ASSUME TypeInv, queue # <<>>
  PROVE  /\ queue \in Seq(Block) /\ f_override \in Overrides /\ Len(queue) \in Nat /\ Len(queue) >= 1
         /\ 1 \in 1..Len(queue) /\ SpeedAt(1) \in Nat /\ NominalSqr \in Nat /\ speed \in Nat
         /\ exit \in Nat /\ queue[1].run \in Nat /\ queue[1].entry \in Nat
         /\ NextEntry = NextIn(queue, 1) /\ NextEntry \in Nat /\ planned \in 1..Len(queue)
         /\ planned \in Int
  <1>1. /\ queue \in Seq(Block) /\ f_override \in Overrides /\ speed \in Nat /\ exit \in Nat
        /\ planned \in 1..Len(queue)
    BY DEF TypeInv, TypeOK, PlannedValid
  <1>2. /\ Len(queue) \in Nat /\ Len(queue) >= 1 /\ 1 \in 1..Len(queue)
        /\ queue[1].run \in Nat /\ queue[1].entry \in Nat /\ NominalSqr \in Nat
    BY <1>1, NominalSqrFacts DEF NominalSqr, Nominal
  <1>3. SpeedAt(1) \in Nat
    BY <1>1, <1>2 DEF SpeedAt
  <1>4. NextEntry = NextIn(queue, 1) /\ NextEntry \in Nat
    BY <1>1, NextIs DEF NextEntry
  <1>5. planned \in Int
    BY <1>1, <1>2
  <1>6. QED
    BY <1>1, <1>2, <1>3, <1>4, <1>5

-----------------------------------------------------------------------------
\* The planner's steps.

\* A plan leaves the speed of the first block alone, and lets the profile be made anew.
LEMMA UnloadSpeed ==
  ASSUME TypeInv, SpeedInv, queue # <<>>, Unload, queue' # <<>>,
         queue'[1].entry = (IF loaded THEN speed ELSE queue[1].entry),
         SpeedAt(1) <= NominalSqr', ~loaded /\ ~recalc /\ ~Holding' => ~Holding
  PROVE  SpeedInv' /\ SpeedAt(1)' = SpeedAt(1)
  <1>1. loaded' = FALSE /\ recalc' = (loaded \/ recalc) /\ speed' = speed /\ exit' = exit
    BY UnloadTypes
  <1>2. loaded \/ recalc => queue'[1].entry = speed
    BY DEF SpeedInv, TypeInv
  <1>3. SpeedAt(1)' = SpeedAt(1)
    <2>1. SpeedAt(1)' = IF loaded \/ recalc THEN speed ELSE queue'[1].entry
      BY <1>1 DEF SpeedAt
    <2>2. SpeedAt(1) = IF loaded \/ recalc THEN speed ELSE queue[1].entry
      BY DEF SpeedAt
    <2>3. QED
      BY <2>1, <2>2
  <1>4. (queue # <<>> => SpeedAt(1) <= NominalSqr)'
    BY <1>3
  <1>5. (recalc => queue[1].entry = speed)'
    BY <1>1, <1>2
  <1>6. ASSUME ~loaded', ~recalc'
        PROVE  /\ exit' = speed' /\ speed' <= queue'[1].entry
               /\ ~Holding' => speed' = queue'[1].entry
    <2>1. ~loaded /\ ~recalc /\ queue'[1].entry = queue[1].entry
      BY <1>1, <1>6
    <2>2. QED
      BY <1>1, <2>1 DEF SpeedInv
  <1>7. SpeedInv'
    BY <1>1, <1>4, <1>5, <1>6 DEF SpeedInv
  <1>8. QED
    BY <1>3, <1>7

LEMMA RecalculateIs ==
  ASSUME TypeInv, NEW q \in Seq(Block), q # <<>>, NEW p, Len(q) # p, Recalculate(q, p)
  PROVE  \E u \in Seq(Block) :
           /\ Len(u) = Len(q) /\ u # <<>> /\ (p # 1 => u = q)
           /\ \A k \in 1..Len(q) : SameMove(u[k], q[k])
           /\ \A k \in 2..Len(q) : u[k] = q[k]
           /\ u[1].entry = (IF p = 1 /\ loaded THEN speed ELSE q[1].entry)
           /\ queue' = Planned(u, p) /\ planned' = Max(Breaks(u, p))
           /\ IF p = 1 THEN Unload ELSE UNCHANGED prepVars
  <1> DEFINE u == IF p = 1 THEN Update(q) ELSE q
  <1>1. /\ queue' = Planned(u, p) /\ planned' = Max(Breaks(u, p))
        /\ IF p = 1 THEN Unload ELSE UNCHANGED prepVars
    BY DEF Recalculate
  <1>2. CASE p = 1
    <2>1. u = Update(q)
      BY <1>2
    <2> HIDE DEF u
    <2>2. /\ u \in Seq(Block) /\ Len(u) = Len(q)
          /\ \A k \in 1..Len(q) : SameMove(u[k], q[k])
          /\ \A k \in 2..Len(q) : u[k] = q[k]
          /\ u[1].entry = IF loaded THEN speed ELSE q[1].entry
      BY <2>1, UpdateIs DEF TypeInv, TypeOK
    <2>3. u # <<>>
      BY <2>2, EmptyQueue
    <2>4. QED
      BY <1>1, <1>2, <2>2, <2>3
  <1>3. CASE p # 1
    <2>1. u = q
      BY <1>3
    <2> HIDE DEF u
    <2>2. \A k \in 1..Len(q) : SameMove(u[k], q[k]) /\ u[k] = q[k]
      BY <2>1 DEF SameMove
    <2>3. u[1].entry = q[1].entry
      BY <2>1
    <2>4. QED
      BY <1>1, <1>3, <2>1, <2>2, <2>3
  <1>4. QED
    BY <1>2, <1>3

\* plan_cycle_reinitialize(), of the blocks q with feasible limits, entered at the speed SpeedAt(1).
LEMMA ReinitializeRing ==
  ASSUME TypeInv, queue # <<>>, NEW q \in Seq(Block), Len(q) = Len(queue),
         q[1].entry = queue[1].entry, recalc => queue[1].entry = speed,
         NEW f \in Overrides, Limited(q, f), WithinMax(q), Feasible(q, SpeedAt(1)), Reinitialize(q)
  PROVE  /\ queue' \in Seq(Block) /\ Len(queue') = Len(queue) /\ queue' # <<>>
         /\ \A k \in 1..Len(queue) : SameMove(queue'[k], q[k])
         /\ queue'[1].entry = (IF loaded THEN speed ELSE queue[1].entry)
         /\ Unload /\ Ring(queue', SpeedAt(1), planned', f, FALSE)
  <1> DEFINE u == Update(q)
  <1>1. PICK s \in Nat : s = SpeedAt(1)
    BY SpeedFacts
  <1>2. Unload /\ IF Len(u) > 1 THEN queue' = Planned(u, 1) /\ planned' = Max(Breaks(u, 1)) ELSE queue' = u
    BY DEF Reinitialize
  <1>3. q # <<>> /\ Len(q) \in Nat /\ Len(q) >= 1 /\ speed \in Nat /\ queue \in Seq(Block)
        /\ 1 \in 1..Len(q)
    BY EmptyQueue, SpeedFacts
  <1>4. /\ u \in Seq(Block) /\ Len(u) = Len(q)
        /\ \A k \in 1..Len(q) : SameMove(u[k], q[k])
        /\ \A k \in 2..Len(q) : u[k] = q[k]
        /\ u[1].entry = IF loaded THEN speed ELSE queue[1].entry
    BY <1>3, UpdateIs
  <1> HIDE DEF u
  <1>5. u[1].entry = s
    BY <1>1, <1>4 DEF SpeedAt
  <1>6. Limited(u, f) /\ WithinMax(u) /\ Feasible(u, s)
    <2>1. Ring(q, s, 1, f, TRUE)
      BY <1>1 DEF Ring
    <2>2. SameMove(u[1], q[1])
      BY <1>3, <1>4
    <2>3. Ring(u, s, 1, f, TRUE)
      BY <1>3, <1>4, <2>1, <2>2, SameRing
    <2>4. QED
      BY <2>3 DEF Ring
  <1>7. CASE Len(u) > 1
    <2>1. queue' = Planned(u, 1) /\ planned' = Max(Breaks(u, 1))
      BY <1>2, <1>7
    <2>2. 1 \in 1..Len(u) /\ 1 \in 0..Len(u)
      BY <1>3, <1>4
    <2>3. Ring(queue', s, planned', f, FALSE)
      <3>1. \A k \in 2..1 : OptimalAt(queue', s, k)
        OBVIOUS
      <3>2. Anchored(queue', 1)
        BY DEF Anchored
      <3>3. QED
        BY <1>4, <1>5, <1>6, <2>1, <2>2, <3>1, <3>2, PlannedRing
    <2>4. /\ queue' \in Seq(Block) /\ Len(queue') = Len(u)
          /\ \A k \in 1..Len(u) : SameMove(queue'[k], u[k])
          /\ \A k \in 1..1 : queue'[k] = u[k]
      BY <1>4, <2>1, <2>2, PlannedIs
    <2>5. queue' # <<>>
      BY <1>3, <1>4, <2>4, EmptyQueue
    <2>6. \A k \in 1..Len(queue) : SameMove(queue'[k], q[k])
      BY <1>4, <2>4 DEF SameMove
    <2>7. queue'[1] = u[1]
      BY <2>4
    <2>8. QED
      BY <1>1, <1>2, <1>4, <2>3, <2>4, <2>5, <2>6, <2>7
  <1>8. CASE ~(Len(u) > 1)
    <2>1. queue' = u
      BY <1>2, <1>8
    <2>2. Len(u) <= 1
      BY <1>3, <1>4, <1>8
    <2>3. Ring(u, s, planned', f, FALSE)
      BY <1>4, <1>6, <2>2, ShortRing
    <2>4. u # <<>>
      BY <1>3, <1>4, EmptyQueue
    <2>5. QED
      BY <1>1, <1>2, <1>4, <2>1, <2>3, <2>4
  <1>9. QED
    BY <1>7, <1>8

LEMMA OverridePlan ==
  ASSUME ~Slower, TypeInv, PlanInv, Override
  PROVE  PlanInv'
  <1>1. PICK f \in Overrides, q \in Seq(Block) :
          /\ q = Relimit(queue, f) /\ (Slower \/ f > f_override)
          /\ f_override' = f /\ prevNominal' = PreviousAt(queue, Len(queue) + 1, f)
          /\ Reinitialize(q) /\ UNCHANGED <<state, control>>
    BY OverrideIs
  <1>2. TypeInv'
    BY OverrideTypes
  <1>3. queue \in Seq(Block) /\ f_override \in Overrides /\ f_override \in Nat /\ f \in Nat /\ f_override <= f
        /\ Len(queue) \in Nat
    BY <1>1, EmptyQueue, ConstantAssumption DEF TypeInv, TypeOK
  <1>4. /\ Len(q) = Len(queue)
        /\ \A k \in 1..Len(queue) :
             /\ q[k].rate = queue[k].rate /\ q[k].junction = queue[k].junction /\ q[k].run = queue[k].run
             /\ q[k].entry = queue[k].entry
             /\ q[k].max = MaxEntry(queue[k].junction, NominalAt(queue[k], f), PreviousAt(queue, k, f))
    <2>1. q = Relimit(queue, f) /\ queue \in Seq(Block) /\ f \in Overrides
      BY <1>1, <1>3
    <2>2. QED
      BY <2>1, RelimitIs
  <1>5. PlansTypes(q)
    <2>1. loaded \/ recalc => q # <<>>
      BY <1>3, <1>4, EmptyQueue DEF TypeInv, TypeOK
    <2>2. QED
      BY <1>1, <2>1, ReinitializeTypes
  <1>6. ~decel' /\ ControlInv'
    BY <1>1, <1>5 DEF PlanInv, ControlInv, PlansTypes
  <1>7. CASE queue = <<>>
    <2>1. queue' = <<>>
      BY <1>3, <1>4, <1>5, <1>7, EmptyQueue DEF PlansTypes
    <2>2. ~loaded /\ ~recalc
      BY <1>7 DEF TypeInv, TypeOK
    <2>3. speed' = 0 /\ exit' = 0
      BY <1>5, <1>7, <2>2 DEF PlanInv, SpeedInv, PlansTypes
    <2>4. AtRestEmpty'
      BY <1>2, <1>6, <2>1, <2>3 DEF AtRestEmpty
    <2>5. QED
      BY <2>4, EmptyPlanInv, PTL
  <1>8. CASE queue # <<>>
    <2>1. Ring(queue, SpeedAt(1), planned, f_override, Holding) /\ SpeedInv
      BY DEF PlanInv
    <2>2. 1 \in 1..Len(queue) /\ SpeedAt(1) \in Nat /\ NominalSqr \in Nat
      BY <1>8, SpeedFacts
    <2>3. ASSUME NEW k \in 1..Len(queue)
          PROVE  LimitedAt(q, f, k) /\ queue[k].max <= q[k].max /\ NominalAt(queue[k], f_override) <= NominalAt(queue[k], f)
      <3>1. queue[k].rate \in Nat /\ queue[k].junction \in Nat /\ queue[k].max \in Nat /\ k \in 1..Len(queue)+1
            /\ q[k].max \in Nat
        BY <1>3, <1>4, BlockFields
      <3>2. \A b : b.rate \in Nat => NominalAt(b, f_override) <= NominalAt(b, f)
        <4>1. ASSUME NEW b, b.rate \in Nat
              PROVE  NominalAt(b, f_override) <= NominalAt(b, f)
          <5>1. PICK r \in Nat, g \in Nat, h \in Nat, z \in Nat :
                  r = b.rate /\ g = f_override /\ h = f /\ g <= h /\ z = RapidRate
            BY <1>3, <4>1, ConstantAssumption
          <5>2. PICK x \in Nat, y \in Nat : x = r * g /\ y = r * h /\ x <= y
            BY SMTT(60), <5>1
          <5>3. Min2(x, z) <= Min2(y, z)
            BY <5>2 DEF Min2
          <5>4. QED
            BY <5>1, <5>2, <5>3 DEF NominalAt
        <4>2. QED
          BY <4>1
      <3>3. PICK a \in Nat, b \in Nat, c \in Nat, d \in Nat, j \in Nat :
              /\ a = NominalAt(queue[k], f_override) /\ b = PreviousAt(queue, k, f_override)
              /\ c = NominalAt(queue[k], f) /\ d = PreviousAt(queue, k, f) /\ j = queue[k].junction
        BY <1>3, <3>1, NominalFacts, PreviousFacts
      <3>4. a <= c
        BY <3>1, <3>2, <3>3
      <3>5. b <= d
        <4>1. CASE k = 1
          BY <3>3, <4>1 DEF PreviousAt
        <4>2. CASE k # 1
          <5>1. k-1 \in 1..Len(queue)
            BY <1>3, <4>2
          <5>2. queue[k-1].rate \in Nat
            BY <1>3, <5>1, BlockFields
          <5>3. NominalAt(queue[k-1], f_override) <= NominalAt(queue[k-1], f)
            BY <3>2, <5>2
          <5>4. QED
            BY <3>3, <4>2, <5>3 DEF PreviousAt
        <4>3. QED
          BY <4>1, <4>2
      <3>6. q[k].max = MaxEntry(j, c, d)
        BY <1>4, <3>3
      <3>7. PICK x \in Nat, y \in Nat : x = MaxEntry(j, a, b) /\ y = MaxEntry(j, c, d) /\ x <= y
        <4>1. MaxEntry(j, a, b) \in Nat /\ MaxEntry(j, c, d) \in Nat
          BY MaxEntryFacts
        <4>2. MaxEntry(j, a, b) <= MaxEntry(j, c, d)
          BY <3>4, <3>5, MaxEntryMonotone
        <4>3. QED
          BY <4>1, <4>2
      <3>8. queue[k].max <= x
        BY <2>1, <3>3, <3>7 DEF Ring, Limited, LimitedAt
      <3>9. queue[k].max <= q[k].max
        BY SMTT(60), <3>1, <3>6, <3>7, <3>8
      <3>10. PreviousAt(q, k, f) = d
        <4>1. \A i \in 1..k-1 : q[i].rate = queue[i].rate
          BY <1>3, <1>4
        <4>2. QED
          BY <1>3, <3>1, <3>3, <4>1, PreviousDepends
      <3>11. NominalAt(q[k], f) = c /\ q[k].junction = j
        BY <1>4, <3>3 DEF NominalAt
      <3>12. q[k].max <= MaxEntry(j, c, d)
        BY <3>1, <3>6
      <3>13. QED
        BY <3>3, <3>4, <3>9, <3>10, <3>11, <3>12 DEF LimitedAt
    <2>4. Limited(q, f)
      BY <1>4, <2>3 DEF Limited
    <2>5. WithinMax(q)
      <3>1. ASSUME NEW k \in 2..Len(q)
            PROVE  q[k].entry <= q[k].max
        <4>1. k \in 1..Len(queue)
          BY <1>3, <1>4
        <4>2. queue[k].entry \in Nat /\ queue[k].max \in Nat /\ q[k].max \in Nat
          BY <1>3, <1>4, <4>1, BlockFields
        <4>3. queue[k].entry <= queue[k].max
          BY <1>4, <2>1 DEF Ring, WithinMax
        <4>4. queue[k].max <= q[k].max /\ q[k].entry = queue[k].entry
          BY <1>4, <2>3, <4>1
        <4>5. QED
          BY <4>2, <4>3, <4>4
      <3>2. QED
        BY <3>1 DEF WithinMax
    <2>6. Feasible(q, SpeedAt(1))
      <3>1. ASSUME NEW k \in 1..Len(q)
            PROVE  At(q, SpeedAt(1), k) <= q[k].run + NextIn(q, k)
        <4>1. At(queue, SpeedAt(1), k) <= queue[k].run + NextIn(queue, k)
          BY <1>4, <2>1 DEF Ring, Feasible
        <4>2. NextIn(q, k) = NextIn(queue, k)
          <5>1. k # Len(q) => k+1 \in 1..Len(q)
            BY <1>3, <1>4
          <5>2. QED
            BY <1>4, <5>1 DEF NextIn
        <4>3. At(q, SpeedAt(1), k) = At(queue, SpeedAt(1), k) /\ q[k].run = queue[k].run
          BY <1>4 DEF At
        <4>4. QED
          BY <4>1, <4>2, <4>3
      <3>2. QED
        BY <3>1 DEF Feasible
    <2>7. /\ queue' \in Seq(Block) /\ Len(queue') = Len(queue) /\ queue' # <<>>
          /\ \A k \in 1..Len(queue) : SameMove(queue'[k], q[k])
          /\ queue'[1].entry = (IF loaded THEN speed ELSE queue[1].entry)
          /\ Unload /\ Ring(queue', SpeedAt(1), planned', f, FALSE)
      <3>1. q[1].entry = queue[1].entry
        BY <1>4, <2>2
      <3>2. recalc => queue[1].entry = speed
        BY <2>1 DEF SpeedInv
      <3>3. QED
        BY <1>1, <1>4, <1>8, <2>4, <2>5, <2>6, <3>1, <3>2, ReinitializeRing
    <2>8. SpeedAt(1) <= NominalSqr'
      <3>1. queue'[1].rate = queue[1].rate
        BY <1>4, <2>2, <2>7 DEF SameMove
      <3>2. NominalSqr' = NominalAt(queue[1], f) * NominalAt(queue[1], f)
        BY <1>1, <3>1 DEF NominalSqr, Nominal, NominalAt
      <3>3. PICK a \in Nat, b \in Nat, x \in Nat, y \in Nat :
              /\ a = NominalAt(queue[1], f_override) /\ b = NominalAt(queue[1], f)
              /\ x = a * a /\ y = b * b /\ x <= y
        <4>1. PICK a \in Nat, b \in Nat :
                a = NominalAt(queue[1], f_override) /\ b = NominalAt(queue[1], f) /\ a <= b
          BY <1>3, <1>8, <2>2, <2>3, NominalSqrFacts
        <4>2. a * a \in Nat /\ b * b \in Nat /\ a * a <= b * b
          BY <4>1, Squares
        <4>3. QED
          BY <4>1, <4>2
      <3>4. NominalSqr = x
        BY <3>3 DEF NominalSqr, Nominal
      <3>5. SpeedAt(1) <= x
        BY <1>8, <2>1, <3>4 DEF SpeedInv
      <3>6. QED
        BY SMTT(60), <2>2, <3>2, <3>3, <3>5
    <2>9. SpeedInv' /\ SpeedAt(1)' = SpeedAt(1)
      <3>1. Holding' => Holding /\ (Holding => Holding')
        BY <1>1 DEF Holding
      <3>2. ~loaded /\ ~recalc /\ ~Holding' => ~Holding
        BY <1>1 DEF Holding
      <3>3. QED
        BY <1>8, <2>1, <2>7, <2>8, <3>2, UnloadSpeed
    <2>10. prevNominal' = PreviousAt(queue', Len(queue') + 1, f)
      <3>1. \A k \in 1..Len(queue) : SameLimits(queue'[k], q[k])
        BY <2>7 DEF SameMove, SameLimits
      <3>2. PreviousAt(queue', Len(queue')+1, f) = PreviousAt(q, Len(q)+1, f)
        BY <1>4, <2>4, <2>7, <3>1, LimitedMoves
      <3>3. PICK h \in 1..Len(queue)+1 : h = Len(queue)+1 /\ 1..h-1 = 1..Len(queue)
        BY <1>3
      <3>4. PreviousAt(q, h, f) = PreviousAt(queue, h, f)
        BY <1>3, <1>4, <3>3, PreviousDepends
      <3>5. QED
        BY <1>1, <1>4, <3>2, <3>3, <3>4
    <2>11. Ring(queue', SpeedAt(1)', planned', f_override', Holding')
      BY <1>1, <2>7, <2>9 DEF Ring
    <2>12. QED
      BY <1>1, <1>6, <2>9, <2>10, <2>11 DEF PlanInv
  <1>9. QED
    BY <1>7, <1>8

LEMMA CycleStopPlan ==
  ASSUME TypeInv, PlanInv, CycleStop
  PROVE  PlanInv'
  <1>1. CASE state = "CYCLE" /\ state' = "IDLE" /\ UNCHANGED <<planVars, prepVars, f_override, control>>
    <2>1. UNCHANGED <<queue, planned, prevNominal, loaded, recalc, decel, speed, exit, f_override, control>>
      BY <1>1 DEF planVars, prepVars
    <2>2. Ring(queue', SpeedAt(1)', planned', f_override', Holding') /\ SpeedInv'
      BY <2>1 DEF PlanInv, SpeedInv, SpeedAt, Holding, NominalSqr, Nominal, NextEntry
    <2>3. ControlInv'
      BY <1>1, <2>1 DEF PlanInv, ControlInv
    <2>4. QED
      BY <2>1, <2>2, <2>3 DEF PlanInv
  <1>2. CASE /\ state = "HOLD" /\ Holding /\ ("END_MOTION" \in control \/ queue = <<>>)
             /\ Reinitialize(queue) /\ control' = control \ {"EXECUTE_HOLD"}
             /\ UNCHANGED <<prevNominal, f_override, state>>
    <2>1. TypeInv'
      BY CycleStopTypes
    <2>2. queue \in Seq(Block) /\ (loaded \/ recalc => queue # <<>>) /\ Len(queue) \in Nat
      BY EmptyQueue DEF TypeInv, TypeOK
    <2>3. PlansTypes(queue)
      BY <1>2, <2>2, ReinitializeTypes
    <2>4. ~decel' /\ ControlInv'
      BY <1>2, <2>3 DEF PlanInv, ControlInv, PlansTypes
    <2>5. CASE queue = <<>>
      <3>1. queue' = <<>>
        BY <2>2, <2>3, <2>5, EmptyQueue DEF PlansTypes
      <3>2. ~loaded /\ ~recalc
        BY <2>2, <2>5
      <3>3. speed' = 0 /\ exit' = 0
        BY <2>3, <2>5, <3>2 DEF PlanInv, SpeedInv, PlansTypes
      <3>4. AtRestEmpty'
        BY <2>1, <2>4, <3>1, <3>3 DEF AtRestEmpty
      <3>5. QED
        BY <3>4, EmptyPlanInv, PTL
    <2>6. CASE queue # <<>>
      <3>1. Ring(queue, SpeedAt(1), planned, f_override, Holding) /\ SpeedInv
        BY DEF PlanInv
      <3>2. 1 \in 1..Len(queue) /\ SpeedAt(1) \in Nat /\ f_override \in Overrides
        BY <2>6, SpeedFacts
      <3>3. /\ queue' \in Seq(Block) /\ Len(queue') = Len(queue) /\ queue' # <<>>
            /\ \A k \in 1..Len(queue) : SameMove(queue'[k], queue[k])
            /\ queue'[1].entry = (IF loaded THEN speed ELSE queue[1].entry)
            /\ Unload /\ Ring(queue', SpeedAt(1), planned', f_override, FALSE)
        <4>1. recalc => queue[1].entry = speed
          BY <3>1 DEF SpeedInv
        <4>2. Limited(queue, f_override) /\ WithinMax(queue) /\ Feasible(queue, SpeedAt(1))
          BY <3>1 DEF Ring
        <4>3. QED
          BY <1>2, <2>2, <2>6, <3>2, <4>1, <4>2, ReinitializeRing
      <3>4. NominalSqr' = NominalSqr
        BY <1>2, <3>2, <3>3 DEF NominalSqr, Nominal, NominalAt, SameMove
      <3>5. SpeedInv' /\ SpeedAt(1)' = SpeedAt(1)
        <4>1. SpeedAt(1) <= NominalSqr'
          BY <2>6, <3>1, <3>4 DEF SpeedInv
        <4>2. loaded \/ recalc
          BY <1>2, <2>6 DEF PlanInv, ControlInv
        <4>3. QED
          BY <2>6, <3>1, <3>3, <4>1, <4>2, UnloadSpeed
      <3>6. PreviousAt(queue', Len(queue')+1, f_override) = PreviousAt(queue, Len(queue)+1, f_override)
        <4>1. \A k \in 1..Len(queue) : SameLimits(queue'[k], queue[k])
          BY <3>3 DEF SameMove, SameLimits
        <4>2. Limited(queue, f_override)
          BY <3>1 DEF Ring
        <4>3. QED
          BY <2>2, <3>2, <3>3, <4>1, <4>2, LimitedMoves
      <3>7. prevNominal' = PreviousAt(queue', Len(queue') + 1, f_override')
        BY <1>2, <2>6, <3>6 DEF PlanInv
      <3>8. Ring(queue', SpeedAt(1)', planned', f_override', Holding')
        BY <1>2, <3>3, <3>5 DEF Ring
      <3>9. QED
        BY <2>4, <3>5, <3>7, <3>8 DEF PlanInv
    <2>7. QED
      BY <2>5, <2>6
  <1>3. QED
    BY <1>1, <1>2 DEF CycleStop

\* A block b is queued behind the blocks of q; it is to be entered at rest.
LEMMA AppendedRing ==
  ASSUME NEW q \in Seq(Block), q # <<>>, NEW s \in Nat, NEW f \in Overrides, NEW b \in Block,
         Limited(q, f), WithinMax(q), Feasible(q, s), b.entry = 0,
         b.max <= MaxEntry(b.junction, NominalAt(b, f), PreviousAt(q, Len(q)+1, f)),
         NEW w \in Seq(Block), w = Append(q, b)
  PROVE  /\ Limited(w, f) /\ WithinMax(w) /\ Feasible(w, s)
         /\ Len(w) = Len(q) + 1 /\ w[Len(w)] = b
         /\ \A k \in 1..Len(q) : w[k] = q[k]
  <1>1. Len(q) \in Nat /\ Len(q) >= 1
    BY EmptyQueue
  <1>2. Len(w) = Len(q) + 1 /\ w[Len(q)+1] = b /\ \A k \in 1..Len(q) : w[k] = q[k]
    BY AppendProperties
  <1>3. PICK n \in Nat : n = Len(w) /\ n = Len(q) + 1 /\ n # 1 /\ n \in 1..Len(w) /\ n \notin 1..Len(q)
    BY <1>1, <1>2
  <1>4. w[n] = b /\ b.entry \in Nat /\ b.run \in Nat /\ b.max \in Nat
    BY <1>2, <1>3 DEF Block
  <1>5. Limited(w, f)
    <2>1. ASSUME NEW k \in 1..Len(w)
          PROVE  LimitedAt(w, f, k)
      <3>1. CASE k # n
        <4>1. k \in 1..Len(q)
          BY <1>1, <1>3, <3>1
        <4>2. \A i \in 1..k : SameLimits(w[i], q[i])
          BY <1>1, <1>2, <4>1 DEF SameLimits
        <4>3. QED
          BY <4>1, <4>2, LimitedDepends DEF Limited
      <3>2. CASE k = n
        <4>1. PreviousAt(w, n, f) = PreviousAt(q, n, f)
          <5>1. \A i \in 1..n-1 : w[i].rate = q[i].rate
            BY <1>1, <1>2, <1>3
          <5>2. n \in 1..Len(q)+1
            BY <1>1, <1>3
          <5>3. QED
            BY <5>1, <5>2, PreviousDepends
        <4>2. QED
          BY <1>3, <1>4, <3>2, <4>1 DEF LimitedAt
      <3>3. QED
        BY <3>1, <3>2
    <2>2. QED
      BY <2>1 DEF Limited
  <1>6. WithinMax(w)
    <2>1. ASSUME NEW k \in 2..Len(w)
          PROVE  w[k].entry <= w[k].max
      <3>1. CASE k # n
        <4>1. k \in 2..Len(q) /\ k \in 1..Len(q)
          BY <1>1, <1>3, <3>1
        <4>2. QED
          BY <1>2, <4>1 DEF WithinMax
      <3>2. CASE k = n
        BY <1>4, <3>2
      <3>3. QED
        BY <3>1, <3>2
    <2>2. QED
      BY <2>1 DEF WithinMax
  <1>7. Feasible(w, s)
    <2>1. ASSUME NEW k \in 1..Len(w)
          PROVE  At(w, s, k) <= w[k].run + NextIn(w, k)
      <3>1. CASE k # n
        <4>1. k \in 1..Len(q)
          BY <1>1, <1>3, <3>1
        <4>2. At(q, s, k) <= q[k].run + NextIn(q, k)
          BY <4>1 DEF Feasible
        <4>3. NextIn(w, k) = NextIn(q, k)
          <5>1. CASE k = Len(q)
            <6>1. k # Len(w) /\ k+1 = n
              BY <1>1, <1>3, <5>1
            <6>2. NextIn(w, k) = w[n].entry
              BY <6>1 DEF NextIn
            <6>3. QED
              BY <1>4, <5>1, <6>2 DEF NextIn
          <5>2. CASE k # Len(q)
            <6>1. k # Len(w) /\ k+1 \in 1..Len(q)
              BY <1>1, <1>3, <3>1, <4>1, <5>2
            <6>2. w[k+1] = q[k+1]
              BY <1>2, <6>1
            <6>3. QED
              BY <5>2, <6>1, <6>2 DEF NextIn
          <5>3. QED
            BY <5>1, <5>2
        <4>4. w[k] = q[k] /\ At(w, s, k) = At(q, s, k)
          BY <1>2, <4>1 DEF At
        <4>5. QED
          BY <4>2, <4>3, <4>4
      <3>2. CASE k = n
        <4>1. NextIn(w, k) = 0 /\ At(w, s, k) = 0 /\ w[k].run \in Nat
          BY <1>3, <1>4, <3>2 DEF NextIn, At
        <4>2. QED
          BY <4>1
      <3>3. QED
        BY <3>1, <3>2
    <2>2. QED
      BY <2>1 DEF Feasible
  <1>8. QED
    BY <1>2, <1>3, <1>4, <1>5, <1>6, <1>7

LEMMA BufferLinePlan ==
  ASSUME TypeInv, PlanInv, BufferLine
  PROVE  PlanInv'
  <1>1. PICK line \in Lines, j \in Nat, b \in Block, q \in Seq(Block) :
          /\ b = LineBlock(line, j) /\ q = Append(queue, b) /\ (queue = <<>> => j = 0 /\ b.max = 0)
          /\ prevNominal' = Nominal(line) /\ Recalculate(q, planned)
          /\ line.rate \in Nat /\ prevNominal' \in 0..RapidRate
          /\ Len(queue) < MaxBlocks /\ UNCHANGED <<f_override, state, control>>
    BY BufferLineIs
  <1>2. queue \in Seq(Block) /\ f_override \in Overrides /\ Len(queue) \in Nat
        /\ (queue = <<>> <=> Len(queue) = 0)
    BY EmptyQueue DEF TypeInv, TypeOK
  <1>3. /\ q # <<>> /\ Len(q) = Len(queue) + 1 /\ q[Len(queue) + 1] = b
        /\ \A k \in 1..Len(queue) : q[k] = queue[k]
    BY <1>1, <1>2, AppendProperties
  <1>4. planned \in 0..Len(q) /\ (planned = 0 => Len(q) = 1 /\ q[1].max = 0)
    BY <1>1, <1>2, <1>3 DEF TypeInv, PlannedValid
  <1>5. PlansTypes(q)
    BY <1>1, <1>3, <1>4, RecalculateTypes
  <1>6. ~decel' /\ ControlInv' /\ (Holding' <=> Holding)
    BY <1>1, <1>5 DEF PlanInv, ControlInv, PlansTypes, Holding
  <1>7. /\ b.rate = line.rate /\ b.junction = j /\ b.entry = 0
        /\ b.max = MaxEntry(j, Nominal(line), prevNominal)
    BY <1>1 DEF LineBlock
  <1>8. NominalAt(b, f_override) = Nominal(line)
    BY <1>7 DEF Nominal, NominalAt
  <1>9. CASE queue = <<>>
    <2>1. Len(q) = 1 /\ q[1] = b /\ b.max = 0 /\ Len(queue') = 1 /\ queue' \in Seq(Block)
          /\ planned' = 1 /\ ~loaded /\ ~recalc /\ ~loaded' /\ ~recalc' /\ speed = 0 /\ exit = 0
          /\ speed' = 0 /\ exit' = 0
      <3>1. Len(q) = 1 /\ q[1] = b /\ b.max = 0 /\ Len(queue') = 1 /\ queue' \in Seq(Block)
        BY <1>1, <1>2, <1>3, <1>5, <1>9 DEF PlansTypes
      <3>2. planned' \in 1..1
        BY <1>3, <1>5, <3>1 DEF PlansTypes
      <3>3. ~loaded /\ ~recalc
        BY <1>9 DEF TypeInv, TypeOK
      <3>4. speed = 0 /\ exit = 0
        BY <1>9, <3>3 DEF PlanInv, SpeedInv
      <3>5. QED
        BY <1>5, <3>1, <3>2, <3>3, <3>4 DEF PlansTypes
    <2>2. SameMove(queue'[1], b) /\ queue'[1].entry = 0
      <3>1. CASE Len(q) = planned
        BY <1>1, <1>3, <1>7, <2>1, <3>1 DEF Recalculate, SameMove
      <3>2. CASE Len(q) # planned
        <4>1. planned = 0
          BY <1>4, <2>1, <3>2
        <4>2. PICK u \in Seq(Block) : u = q /\ queue' = Planned(u, 0)
          <5>1. \E u \in Seq(Block) :
                  /\ Len(u) = Len(q) /\ u # <<>> /\ (planned # 1 => u = q)
                  /\ \A k \in 1..Len(q) : SameMove(u[k], q[k])
                  /\ \A k \in 2..Len(q) : u[k] = q[k]
                  /\ u[1].entry = (IF planned = 1 /\ loaded THEN speed ELSE q[1].entry)
                  /\ queue' = Planned(u, planned) /\ planned' = Max(Breaks(u, planned))
                  /\ IF planned = 1 THEN Unload ELSE UNCHANGED prepVars
            BY <1>1, <1>3, <3>2, RecalculateIs, Zenon
          <5>2. QED
            BY <4>1, <5>1
        <4>3. Len(u) = 1
          BY <2>1, <4>2
        <4>4. 0 \in 0..Len(u) /\ 1 \in 1..Len(u)
          BY <4>3
        <4> DEFINE f == ForwardPass(u, 0)
                   r == ReversePass(u, 0)
        <4>5. SameMove(queue'[1], u[1]) /\ queue'[1].entry = f[1]
          <5>1. SameMove(queue'[1], u[1]) /\ queue'[1].entry = IF 1 > 0 THEN f[1] ELSE u[1].entry
            <6>1. /\ \A k \in 1..Len(u) : SameMove(Planned(u, 0)[k], u[k])
                  /\ \A k \in 1..Len(u) : Planned(u, 0)[k].entry = IF k > 0 THEN f[k] ELSE u[k].entry
              BY <4>4, PlannedIs
            <6>2. QED
              BY <4>2, <4>4, <6>1
          <5>2. QED
            BY <5>1
        <4>6. f[1] = r[1]
          <5>1. 1 \in 0..Len(u) /\ f[1] = Forward(u, 0, f, r, 1)
            BY <4>4, ForwardPassIs
          <5>2. QED
            BY <5>1 DEF Forward
        <4>7. r[1] = LastEntry(b)
          <5>1. 1 \in 0+1..Len(u) /\ 0 \in Nat
            BY <4>3
          <5>2. r[1] = Reverse(u, r, 1)
            BY <5>1, ReversePassIs
          <5>3. QED
            BY <2>1, <4>2, <4>3, <5>2 DEF Reverse
        <4>8. LastEntry(b) = 0
          <5>1. b.run \in Nat
            BY DEF Block
          <5>2. QED
            BY <2>1, <5>1 DEF LastEntry, Min2
        <4>9. QED
          BY <2>1, <4>2, <4>5, <4>6, <4>7, <4>8
      <3>3. QED
        BY <3>1, <3>2
    <2>3. PICK w \in Seq(Block) : w = queue' /\ Len(w) = 1 /\ w # <<>>
      BY SMTT(60), <2>1, EmptyQueue
    <2>4. w[1].max = 0 /\ w[1].rate = line.rate /\ w[1].entry = 0 /\ 1 \in 1..Len(w)
      BY <1>7, <2>1, <2>2, <2>3 DEF SameMove
    <2>5. Limited(w, f_override)
      <3>1. 1 \in 1..Len(w)+1
        BY <2>3
      <3>2. w[1].junction \in Nat /\ NominalAt(w[1], f_override) \in Nat /\ PreviousAt(w, 1, f_override) \in Nat
        BY <1>1, <1>2, <2>4, <3>1, BlockFields, NominalFacts, PreviousFacts
      <3>3. PICK x \in Nat : x = MaxEntry(w[1].junction, NominalAt(w[1], f_override), PreviousAt(w, 1, f_override))
        BY <3>2, MaxEntryFacts
      <3>4. LimitedAt(w, f_override, 1)
        BY <2>4, <3>3 DEF LimitedAt
      <3>5. QED
        BY <2>3, <3>4 DEF Limited
    <2>6. SpeedAt(1)' = 0
      BY <2>1, <2>3, <2>4 DEF SpeedAt
    <2>7. Feasible(w, 0)
      <3>1. NextIn(w, 1) = 0 /\ At(w, 0, 1) = 0 /\ w[1].run \in Nat
        BY <2>3, <2>4, BlockFields DEF NextIn, At
      <3>2. At(w, 0, 1) <= w[1].run + NextIn(w, 1)
        BY <3>1
      <3>3. QED
        BY <2>3, <3>2 DEF Feasible
    <2>8. Ring(queue', SpeedAt(1)', planned', f_override', Holding')
      <3>1. Len(w) <= 1
        BY <2>3
      <3>2. Ring(w, 0, planned', f_override, Holding')
        BY <2>5, <2>7, <3>1, ShortRing
      <3>3. QED
        BY <1>1, <2>3, <2>6, <3>2
    <2>9. NominalSqr' \in Nat
      <3>1. NominalAt(w[1], f_override) * NominalAt(w[1], f_override) \in Nat
        BY <1>2, <2>3, NominalSqrFacts
      <3>2. QED
        BY <1>1, <2>3, <3>1 DEF NominalSqr, Nominal
    <2>10. SpeedInv'
      <3>1. SpeedAt(1)' <= NominalSqr'
        BY <2>6, <2>9
      <3>2. (~loaded /\ ~recalc =>
              /\ exit = speed
              /\ queue = <<>> => speed = 0
              /\ queue # <<>> => speed <= queue[1].entry /\ (~Holding => speed = queue[1].entry))'
        BY <2>1, <2>3, <2>4
      <3>3. QED
        BY <2>1, <3>1, <3>2 DEF SpeedInv
    <2>11. prevNominal' = PreviousAt(queue', Len(queue')+1, f_override')
      <3>1. PICK h \in Int : h = Len(w)+1 /\ h # 1 /\ h-1 = 1
        BY <2>3
      <3>2. PreviousAt(w, h, f_override) = NominalAt(w[1], f_override)
        BY <3>1 DEF PreviousAt
      <3>3. NominalAt(w[1], f_override) = Nominal(line)
        BY <2>4 DEF NominalAt, Nominal
      <3>4. QED
        BY <1>1, <2>3, <3>1, <3>2, <3>3
    <2>12. QED
      BY <1>6, <2>8, <2>10, <2>11 DEF PlanInv
  <1>10. CASE queue # <<>>
    <2>1. Ring(queue, SpeedAt(1), planned, f_override, Holding) /\ SpeedInv
          /\ prevNominal = PreviousAt(queue, Len(queue)+1, f_override)
      BY <1>10 DEF PlanInv
    <2>2. PICK s \in Nat, p \in 1..Len(queue) :
            s = SpeedAt(1) /\ p = planned /\ 1 \in 1..Len(queue) /\ Len(queue) >= 1 /\ speed \in Nat
            /\ NextEntry = NextIn(queue, 1)
      BY <1>10, SpeedFacts
    <2>3. /\ Limited(q, f_override) /\ WithinMax(q) /\ Feasible(q, s)
      <3>1. b.max <= MaxEntry(b.junction, NominalAt(b, f_override), PreviousAt(queue, Len(queue)+1, f_override))
        <4>1. b.max \in Nat
          BY DEF Block
        <4>2. QED
          BY <1>7, <1>8, <2>1, <4>1
      <3>2. Limited(queue, f_override) /\ WithinMax(queue) /\ Feasible(queue, s)
        BY <2>1, <2>2 DEF Ring
      <3>3. QED
        BY <1>1, <1>2, <1>7, <1>10, <3>1, <3>2, AppendedRing
    <2>4. PICK u \in Seq(Block) :
            /\ Len(u) = Len(q) /\ u # <<>> /\ (p # 1 => u = q)
            /\ \A k \in 1..Len(q) : SameMove(u[k], q[k])
            /\ \A k \in 2..Len(q) : u[k] = q[k]
            /\ u[1].entry = (IF p = 1 /\ loaded THEN speed ELSE q[1].entry)
            /\ queue' = Planned(u, p) /\ planned' = Max(Breaks(u, p))
            /\ IF p = 1 THEN Unload ELSE UNCHANGED prepVars
      <3>1. Len(q) # p
        BY <1>2, <1>3
      <3>2. QED
        <4>1. Recalculate(q, p)
          BY <1>1, <2>2
        <4>2. QED
          BY <1>3, <3>1, <4>1, RecalculateIs, Zenon
    <2>5. q[1] = queue[1] /\ 1 \in 1..Len(q) /\ p \in 1..Len(q) /\ p \in 0..Len(u) /\ p \in 1..Len(u)
      BY <1>2, <1>3, <2>2, <2>4
    <2>6. p = 1 => u[1].entry = s
      BY <2>1, <2>2, <2>4, <2>5 DEF SpeedAt, SpeedInv
    <2>7. Limited(u, f_override) /\ WithinMax(u) /\ Feasible(u, s)
      <3>1. Ring(q, s, 1, f_override, TRUE)
        BY <2>3 DEF Ring
      <3>2. SameMove(u[1], q[1])
        BY <2>4, <2>5
      <3>3. Ring(u, s, 1, f_override, TRUE)
        BY <1>2, <1>3, <2>4, <3>1, <3>2, SameRing
      <3>4. QED
        BY <3>3 DEF Ring
    <2>8. PICK w \in Seq(Block) :
            /\ w = queue' /\ w = Planned(u, p) /\ Len(w) = Len(u)
            /\ \A k \in 1..Len(u) : SameMove(w[k], u[k])
            /\ \A k \in 1..p : w[k] = u[k]
      <3>1. /\ Planned(u, p) \in Seq(Block) /\ Len(Planned(u, p)) = Len(u)
            /\ \A k \in 1..Len(u) : SameMove(Planned(u, p)[k], u[k])
            /\ \A k \in 1..p : Planned(u, p)[k] = u[k]
        BY ZenonT(60), <2>5, PlannedIs
      <3>2. QED
        BY <2>4, <3>1
    <2>9. \A k \in 1..Len(queue) : SameMove(w[k], queue[k])
      <3>1. ASSUME NEW k \in 1..Len(queue)
            PROVE  SameMove(w[k], queue[k])
        <4>1. k \in 1..Len(q)
          BY <1>2, <1>3
        <4>2. SameMove(w[k], u[k]) /\ SameMove(u[k], q[k]) /\ q[k] = queue[k]
          BY <1>3, <2>4, <2>8, <4>1
        <4>3. QED
          BY <4>2 DEF SameMove
      <3>2. QED
        BY <3>1
    <2>10. p > 1 => \A k \in 1..p : w[k] = queue[k]
      <3>1. ASSUME p > 1, NEW k \in 1..p
            PROVE  w[k] = queue[k]
        <4>1. u = q /\ k \in 1..Len(queue)
          BY <1>2, <2>4, <3>1
        <4>2. w[k] = u[k] /\ q[k] = queue[k]
          BY <1>3, <2>8, <4>1
        <4>3. QED
          BY <4>1, <4>2
      <3>2. QED
        BY <3>1
    <2>11. Ring(w, s, planned', f_override, Holding)
      <3>1. ~Holding => (\A k \in 2..p : OptimalAt(w, s, k)) /\ Anchored(w, p)
        <4>1. ASSUME ~Holding
              PROVE  (\A k \in 2..p : OptimalAt(w, s, k)) /\ Anchored(w, p)
          <5>1. Optimal(queue, s) /\ Anchored(queue, p)
            BY <2>1, <2>2, <4>1 DEF Ring
          <5>2. Len(queue) <= Len(w)
            BY <1>2, <1>3, <2>4, <2>8
          <5>3. QED
            BY <1>2, <2>9, <2>10, <5>1, <5>2, AnchoredIsOptimal
        <4>2. QED
          BY <4>1
      <3>2. QED
        BY <1>2, <2>4, <2>5, <2>6, <2>7, <2>8, <3>1, PlannedRing
    <2>12. w[1].entry = (IF p = 1 /\ loaded THEN speed ELSE queue[1].entry) /\ w # <<>> /\ SameMove(w[1], queue[1])
      <3>1. w[1] = u[1]
        BY <2>2, <2>8
      <3>2. w # <<>>
        BY <2>4, <2>8, EmptyQueue
      <3>3. QED
        BY <2>2, <2>4, <2>5, <2>9, <3>1, <3>2
    <2>13. NominalSqr' = NominalSqr
      BY <1>1, <2>8, <2>12 DEF NominalSqr, Nominal, NominalAt, SameMove
    <2>14. SpeedInv' /\ SpeedAt(1)' = SpeedAt(1)
      <3>1. SpeedAt(1) <= NominalSqr'
        BY <1>10, <2>1, <2>13 DEF SpeedInv
      <3>2. CASE p = 1
        BY <1>6, <1>10, <2>1, <2>4, <2>8, <2>12, <3>1, <3>2, UnloadSpeed
      <3>3. CASE p # 1
        <4>1. UNCHANGED <<loaded, recalc, decel, speed, exit>>
          BY <2>4, <3>3 DEF prepVars
        <4>2. w[1] = queue[1] /\ w[2] = queue[2] /\ 2 \in 1..p /\ Len(queue) > 1 /\ Len(w) > 1
          BY <1>2, <1>3, <2>2, <2>4, <2>8, <2>10, <3>3
        <4>3. SpeedAt(1)' = SpeedAt(1)
          BY <2>8, <4>1, <4>2 DEF SpeedAt
        <4>4. NextEntry' = NextEntry
          BY <2>8, <4>2 DEF NextEntry
        <4>5. (recalc => queue[1].entry = speed)'
          BY <2>1, <2>8, <4>1, <4>2 DEF SpeedInv
        <4>6. (loaded => exit = IF Holding THEN Max2(speed - queue[1].run, 0) ELSE NextEntry)'
          BY <1>6, <2>1, <2>8, <4>1, <4>2, <4>4 DEF SpeedInv
        <4>7. (~loaded /\ ~recalc =>
                /\ exit = speed
                /\ queue = <<>> => speed = 0
                /\ queue # <<>> => speed <= queue[1].entry /\ (~Holding => speed = queue[1].entry))'
          BY <1>6, <1>10, <2>1, <2>8, <2>12, <4>1, <4>2 DEF SpeedInv
        <4>8. QED
          BY <3>1, <4>3, <4>5, <4>6, <4>7 DEF SpeedInv
      <3>4. QED
        BY <3>2, <3>3
    <2>15. Ring(queue', SpeedAt(1)', planned', f_override', Holding')
      BY <1>1, <1>6, <2>2, <2>8, <2>11, <2>14 DEF Ring
    <2>16. prevNominal' = PreviousAt(queue', Len(queue')+1, f_override')
      <3>1. PICK n \in Int : n = Len(w) /\ n = Len(queue)+1 /\ n # 0 /\ n \in 1..Len(u) /\ n \in 1..Len(q)
        BY <1>2, <1>3, <2>4, <2>8
      <3>2. PICK h \in Int : h = n+1 /\ h # 1 /\ h-1 = n
        BY <1>2, <3>1
      <3>3. PreviousAt(w, h, f_override) = NominalAt(w[n], f_override)
        BY <3>2 DEF PreviousAt
      <3>4. SameMove(w[n], u[n]) /\ SameMove(u[n], q[n]) /\ q[n] = b
        BY <1>3, <2>4, <2>8, <3>1
      <3>5. NominalAt(w[n], f_override) = Nominal(line)
        BY <1>8, <3>4 DEF NominalAt, SameMove
      <3>6. QED
        BY <1>1, <2>8, <3>1, <3>2, <3>3, <3>5
    <2>17. QED
      BY <1>6, <2>14, <2>15, <2>16 DEF PlanInv
  <1>11. QED
    BY <1>9, <1>10

-----------------------------------------------------------------------------
\* The steps of the segment generator.

\* A profile begins at the speed the machine has, and the first block never is too fast.
LEMMA LoadPlan ==
  ASSUME TypeInv, PlanInv, Load
  PROVE  PlanInv' /\ speed' = speed
  <1>1. PICK v \in Nat :
          /\ v = IF ~recalc /\ (Holding \/ decel) THEN exit ELSE queue[1].entry
          /\ queue' = WithEntry(queue, v) /\ speed' = (IF recalc THEN speed ELSE v)
          /\ decel' = (~Holding /\ TooFast(v))
          /\ exit' = (IF Holding THEN Max2(v - queue[1].run, 0)
                      ELSE IF TooFast(v) THEN v - queue[1].run ELSE NextEntry)
    BY LoadIs
  <1>2. /\ state # "IDLE" /\ "END_MOTION" \notin control /\ ~loaded /\ queue # <<>>
        /\ loaded' = TRUE /\ recalc' = FALSE
        /\ UNCHANGED <<planned, prevNominal, f_override, state, control>>
    BY DEF Load
  <1>3. /\ queue \in Seq(Block) /\ f_override \in Overrides /\ Len(queue) \in Nat /\ Len(queue) >= 1
        /\ 1 \in 1..Len(queue) /\ SpeedAt(1) \in Nat /\ NominalSqr \in Nat /\ speed \in Nat
        /\ NextEntry = NextIn(queue, 1)
    BY <1>2, SpeedFacts
  <1>4. /\ ~decel /\ ControlInv /\ SpeedInv /\ Ring(queue, SpeedAt(1), planned, f_override, Holding)
        /\ prevNominal = PreviousAt(queue, Len(queue)+1, f_override)
    BY <1>2 DEF PlanInv
  <1>5. v = speed
    <2>1. CASE recalc
      BY <1>1, <1>4, <2>1 DEF SpeedInv
    <2>2. CASE ~recalc /\ Holding
      BY <1>1, <1>2, <1>4, <2>2 DEF SpeedInv
    <2>3. CASE ~recalc /\ ~Holding
      BY <1>1, <1>2, <1>4, <2>3 DEF SpeedInv
    <2>4. QED
      BY <2>1, <2>2, <2>3
  <1>6. speed' = v /\ speed' = speed
    BY <1>1, <1>5
  <1>7. v <= SpeedAt(1) /\ (Holding \/ v = SpeedAt(1))
    <2>1. CASE recalc
      BY <1>5, <2>1 DEF SpeedAt
    <2>2. CASE ~recalc
      <3>1. SpeedAt(1) = queue[1].entry
        BY <1>2, <2>2 DEF SpeedAt
      <3>2. v <= queue[1].entry /\ (Holding \/ v = queue[1].entry)
        BY <1>2, <1>4, <1>5, <2>2 DEF SpeedInv
      <3>3. QED
        BY <3>1, <3>2
    <2>3. QED
      BY <2>1, <2>2
  <1>8. v <= NominalSqr /\ ~TooFast(v)
    <2>1. PICK a \in Nat, n \in Nat : a = SpeedAt(1) /\ n = NominalSqr
      BY <1>3
    <2>2. a <= n
      BY <1>2, <1>4, <2>1 DEF SpeedInv
    <2>3. v <= n
      BY <1>7, <2>1, <2>2
    <2>4. QED
      BY <2>1, <2>3 DEF TooFast
  <1>9. PICK w \in Seq(Block) :
          /\ w = queue' /\ Len(w) = Len(queue) /\ w # <<>> /\ w[1].entry = v
          /\ \A k \in 1..Len(queue) : SameMove(w[k], queue[k])
          /\ \A k \in 2..Len(queue) : w[k] = queue[k]
    BY <1>1, <1>2, <1>3, SetEntry
  <1>10. ~decel' /\ ControlInv' /\ (Holding' <=> Holding)
    BY <1>1, <1>2, <1>4, <1>8 DEF ControlInv, Holding
  <1>11. SpeedAt(1)' = v
    BY <1>2, <1>6 DEF SpeedAt
  <1>12. NominalSqr' = NominalSqr /\ NextEntry' = NextEntry /\ queue'[1].run = queue[1].run
    <2>1. SameMove(w[1], queue[1])
      BY <1>3, <1>9
    <2>2. NominalSqr' = NominalSqr
      BY <1>2, <1>9, <2>1 DEF NominalSqr, Nominal, NominalAt, SameMove
    <2>3. NextEntry' = NextEntry
      <3>1. Len(queue) > 1 => w[2] = queue[2]
        BY <1>3, <1>9
      <3>2. QED
        BY <1>9, <3>1 DEF NextEntry
    <2>4. QED
      BY <1>9, <2>1, <2>2, <2>3 DEF SameMove
  <1>13. SpeedInv'
    <2>1. (queue # <<>> => SpeedAt(1) <= NominalSqr)'
      BY <1>8, <1>11, <1>12
    <2>2. (loaded => exit = IF Holding THEN Max2(speed - queue[1].run, 0) ELSE NextEntry)'
      BY <1>1, <1>6, <1>8, <1>10, <1>12
    <2>3. QED
      BY <1>2, <2>1, <2>2 DEF SpeedInv
  <1>14. Ring(w, v, planned, f_override, Holding)
    <2>1. Ring(queue, v, planned, f_override, Holding)
      <3>1. PICK s \in Nat : s = SpeedAt(1)
        BY <1>3
      <3>2. Ring(queue, s, planned, f_override, Holding) /\ v <= s /\ (Holding \/ v = s)
        BY <1>4, <1>7, <3>1
      <3>3. QED
        BY <1>3, <3>2, SlowerRing
    <2>2. SameMove(w[1], queue[1])
      BY <1>3, <1>9
    <2>3. QED
      BY <1>2, <1>3, <1>9, <2>1, <2>2, SameRing
  <1>15. Ring(queue', SpeedAt(1)', planned', f_override', Holding')
    BY <1>2, <1>9, <1>10, <1>11, <1>14 DEF Ring
  <1>16. PreviousAt(queue', Len(queue')+1, f_override) = PreviousAt(queue, Len(queue)+1, f_override)
    <2>1. \A k \in 1..Len(queue) : SameLimits(w[k], queue[k])
      BY <1>9 DEF SameMove, SameLimits
    <2>2. QED
      BY <1>3, <1>4, <1>9, <2>1, LimitedMoves DEF Ring
  <1>17. QED
    BY <1>2, <1>4, <1>6, <1>10, <1>13, <1>15, <1>16 DEF PlanInv

LEMMA HoldPlan ==
  ASSUME TypeInv, PlanInv, Hold
  PROVE  PlanInv'
  <1>1. CASE /\ state = "CYCLE" /\ state' = "HOLD" /\ control' = {"EXECUTE_HOLD"}
             /\ queue' = Update(queue) /\ Unload /\ UNCHANGED <<planned, prevNominal, f_override>>
    <2>1. /\ ~decel /\ ControlInv /\ SpeedInv /\ Ring(queue, SpeedAt(1), planned, f_override, Holding)
      BY DEF PlanInv
    <2>2. queue \in Seq(Block) /\ Len(queue) \in Nat /\ f_override \in Overrides /\ speed \in Nat
          /\ (loaded => queue # <<>>)
      BY EmptyQueue DEF TypeInv, TypeOK
    <2>3. /\ queue' \in Seq(Block) /\ Len(queue') = Len(queue)
          /\ \A k \in 1..Len(queue) : SameMove(queue'[k], queue[k])
          /\ \A k \in 2..Len(queue) : queue'[k] = queue[k]
          /\ queue # <<>> => queue'[1].entry = IF loaded THEN speed ELSE queue[1].entry
      BY <1>1, <2>2, UpdateIs
    <2>4. loaded' = FALSE /\ recalc' = (loaded \/ recalc) /\ decel' = decel /\ speed' = speed /\ exit' = exit
      BY <1>1, UnloadTypes
    <2>5. ~decel' /\ ControlInv' /\ Holding' /\ ~Holding
      BY <1>1, <2>1, <2>4 DEF ControlInv, Holding
    <2>6. CASE queue = <<>>
      <3>1. queue' = <<>> /\ ~loaded /\ ~recalc
        BY <2>2, <2>3, <2>6, EmptyQueue DEF TypeInv, TypeOK
      <3>2. speed' = 0 /\ exit' = 0
        BY <2>1, <2>4, <2>6, <3>1 DEF SpeedInv
      <3>3. AtRestEmpty'
        BY <2>5, <3>1, <3>2, HoldTypes DEF AtRestEmpty
      <3>4. QED
        BY <3>3, EmptyPlanInv, PTL
    <2>7. CASE queue # <<>>
      <3>1. 1 \in 1..Len(queue) /\ queue' # <<>> /\ SpeedAt(1) \in Nat
        BY <2>2, <2>3, <2>7, EmptyQueue, SpeedFacts
      <3>2. NominalSqr' = NominalSqr
        BY <1>1, <2>3, <3>1 DEF NominalSqr, Nominal, NominalAt, SameMove
      <3>3. SpeedInv' /\ SpeedAt(1)' = SpeedAt(1)
        <4>1. SpeedAt(1) <= NominalSqr'
          BY <2>1, <2>7, <3>2 DEF SpeedInv
        <4>2. QED
          BY <1>1, <2>1, <2>3, <2>5, <2>7, <3>1, <4>1, UnloadSpeed
      <3>4. PICK w \in Seq(Block), s \in Nat : w = queue' /\ s = SpeedAt(1)
        BY <2>3, <3>1
      <3>5. /\ Ring(w, s, planned, f_override, Holding)
            /\ PreviousAt(w, Len(w)+1, f_override) = PreviousAt(queue, Len(queue)+1, f_override)
        <4>1. SameMove(w[1], queue[1]) /\ Len(w) = Len(queue) /\ \A k \in 2..Len(queue) : w[k] = queue[k]
          BY <2>3, <3>1, <3>4
        <4>2. Ring(queue, s, planned, f_override, Holding)
          BY <2>1, <3>4
        <4>3. QED
          BY <2>2, <2>7, <4>1, <4>2, SameRing
      <3>6. Ring(queue', SpeedAt(1)', planned', f_override', Holding')
        BY <1>1, <2>5, <3>3, <3>4, <3>5 DEF Ring
      <3>7. QED
        BY <1>1, <2>5, <2>7, <3>3, <3>4, <3>5, <3>6 DEF PlanInv
    <2>8. QED
      BY <2>6, <2>7
  <1>2. CASE state = "IDLE" /\ state' = "HOLD" /\ UNCHANGED <<planVars, prepVars, f_override, control>>
    <2>1. UNCHANGED <<queue, planned, prevNominal, loaded, recalc, decel, speed, exit, f_override, control>>
      BY <1>2 DEF planVars, prepVars
    <2>2. Ring(queue', SpeedAt(1)', planned', f_override', Holding') /\ SpeedInv'
      BY <2>1 DEF PlanInv, SpeedInv, SpeedAt, Holding, NominalSqr, Nominal, NextEntry
    <2>3. ControlInv'
      BY <1>2, <2>1 DEF PlanInv, ControlInv
    <2>4. QED
      BY <2>1, <2>2, <2>3 DEF PlanInv
  <1>3. QED
    BY <1>1, <1>2, HoldIs

LEMMA StartPlan ==
  ASSUME TypeInv, PlanInv, Start
  PROVE  PlanInv'
  <1>1. UNCHANGED <<queue, planned, prevNominal, loaded, recalc, decel, speed, exit, f_override>>
        /\ control' = {}
    BY DEF Start, planVars, prepVars
  <1>2. ~Holding /\ ~Holding'
    BY <1>1 DEF Start, PlanInv, ControlInv, Holding
  <1>3. SpeedAt(1)' = SpeedAt(1) /\ NominalSqr' = NominalSqr /\ NextEntry' = NextEntry
    BY <1>1 DEF SpeedAt, NominalSqr, Nominal, NextEntry
  <1>4. Ring(queue', SpeedAt(1)', planned', f_override', Holding')
    BY <1>1, <1>2, <1>3 DEF PlanInv, Ring
  <1>5. SpeedInv'
    BY <1>1, <1>2, <1>3 DEF PlanInv, SpeedInv
  <1>6. ControlInv'
    BY <1>1 DEF ControlInv
  <1>7. QED
    BY <1>1, <1>4, <1>5, <1>6 DEF PlanInv

LEMMA AtRestPlan ==
  ASSUME TypeInv, PlanInv, AtRest
  PROVE  PlanInv'
  <1>1. UNCHANGED <<queue, planned, prevNominal, loaded, recalc, decel, speed, exit, f_override, state>>
        /\ control' = control \cup {"END_MOTION"} /\ loaded /\ Holding
    BY DEF AtRest, MayPrep, planVars, prepVars
  <1>2. Holding'
    BY <1>1 DEF Holding
  <1>3. SpeedAt(1)' = SpeedAt(1) /\ NominalSqr' = NominalSqr /\ NextEntry' = NextEntry
    BY <1>1 DEF SpeedAt, NominalSqr, Nominal, NextEntry
  <1>4. Ring(queue', SpeedAt(1)', planned', f_override', Holding')
    BY <1>1, <1>2, <1>3 DEF PlanInv, Ring
  <1>5. SpeedInv'
    BY <1>1, <1>2, <1>3 DEF PlanInv, SpeedInv
  <1>6. ControlInv'
    <2>1. state = "HOLD"
      BY <1>1 DEF PlanInv, ControlInv, Holding
    <2>2. QED
      BY <1>1, <2>1 DEF ControlInv
  <1>7. QED
    BY <1>1, <1>4, <1>5, <1>6 DEF PlanInv

LEMMA LastOne ==
  ASSUME NEW n \in Nat, NEW z \in Nat, z = 0, z = n - 1
  PROVE  n = 1 /\ z <= 1
  OBVIOUS

\* The first block is shortened or done, and the machine goes from the speed SpeedAt(1) to speed'.
LEMMA ShortenRing ==
  ASSUME TypeInv, PlanInv, loaded, queue # <<>>, NEW r \in Nat, Shorten(r), speed' \in Nat,
         UNCHANGED <<prevNominal, f_override, state, recalc, decel, exit>>, Holding' <=> Holding,
         r > 0 => speed' <= r + NextIn(queue, 1),
         r > 0 /\ ~Holding /\ Len(queue) > 1 => queue[2].entry = Min2(Braking(queue)[2], speed' + r)
  PROVE  /\ Ring(queue', SpeedAt(1)', planned', f_override', Holding')
         /\ prevNominal' = PreviousAt(queue', Len(queue')+1, f_override') \/ queue' = <<>>
         /\ r > 0 => /\ queue' # <<>> /\ loaded' /\ SpeedAt(1)' = speed' /\ NominalSqr' = NominalSqr
                     /\ NextEntry' = NextEntry /\ queue'[1].run = r /\ Len(queue') = Len(queue)
         /\ ~(r > 0) => /\ ~loaded' /\ Len(queue') = Len(queue) - 1
                        /\ queue' = <<>> => NextIn(queue, 1) = 0
                        /\ queue' # <<>> => queue'[1].entry = NextIn(queue, 1)
                                            /\ SpeedAt(1)' = NextIn(queue, 1) /\ SpeedAt(1)' <= NominalSqr'
  <1>1. /\ queue \in Seq(Block) /\ f_override \in Overrides /\ Len(queue) \in Nat /\ Len(queue) >= 1
        /\ 1 \in 1..Len(queue) /\ SpeedAt(1) \in Nat /\ planned \in Int
    BY SpeedFacts
  <1>2. /\ Ring(queue, SpeedAt(1), planned, f_override, Holding) /\ ~recalc /\ ~recalc'
        /\ prevNominal = PreviousAt(queue, Len(queue)+1, f_override)
    BY DEF PlanInv, TypeInv
  <1>3. PICK s \in Nat, t \in Nat, p \in Int, x \in Nat :
          s = SpeedAt(1) /\ t = speed' /\ p = planned /\ x = NextIn(queue, 1)
    BY <1>1, NextIs
  <1>4. CASE r > 0
    <2>1. queue' = WithRun(queue, r) /\ UNCHANGED <<planned, loaded>>
      BY <1>4 DEF Shorten
    <2>2. PICK w \in Seq(Block) :
            /\ w = queue' /\ Len(w) = Len(queue) /\ w # <<>>
            /\ \A k \in 2..Len(queue) : w[k] = queue[k]
            /\ w[1].run = r /\ w[1].rate = queue[1].rate /\ SameLimits(w[1], queue[1])
      BY SMTT(60), <1>1, <2>1, SetRun DEF SameLimits
    <2>3. /\ Ring(w, t, p, f_override, Holding)
          /\ PreviousAt(w, Len(w)+1, f_override) = PreviousAt(queue, Len(queue)+1, f_override)
      <3>1. t <= w[1].run + NextIn(queue, 1)
        BY <1>3, <1>4, <2>2
      <3>2. ~Holding /\ Len(queue) > 1 => queue[2].entry = Min2(Braking(queue)[2], t + w[1].run)
        BY <1>3, <1>4, <2>2
      <3>3. Ring(queue, s, p, f_override, Holding)
        BY <1>2, <1>3
      <3>4. /\ queue # <<>> /\ queue \in Seq(Block) /\ f_override \in Overrides /\ Len(w) = Len(queue)
            /\ \A k \in 2..Len(queue) : w[k] = queue[k]
            /\ SameLimits(w[1], queue[1])
        BY <1>1, <2>2
      <3>5. Ring(w, t, p, f_override, Holding)
        BY <3>1, <3>2, <3>3, <3>4, FirstRing
      <3>6. PreviousAt(w, Len(w)+1, f_override) = PreviousAt(queue, Len(queue)+1, f_override)
        <4>1. \A k \in 1..Len(queue) : SameLimits(w[k], queue[k])
          BY <1>1, <3>4 DEF SameLimits
        <4>2. Limited(queue, f_override)
          BY <3>3 DEF Ring
        <4>3. QED
          BY <3>4, <4>1, <4>2, LimitedMoves
      <3>7. QED
        BY <3>5, <3>6
    <2>4. loaded' /\ SpeedAt(1)' = t
      BY <1>3, <2>1 DEF SpeedAt
    <2>5. NominalSqr' = NominalSqr
      BY <2>2 DEF NominalSqr, Nominal, NominalAt
    <2>6. NextEntry' = NextEntry
      <3>1. Len(queue) > 1 => w[2] = queue[2]
        BY <1>1, <2>2
      <3>2. QED
        BY <2>2, <3>1 DEF NextEntry
    <2>7. Ring(queue', SpeedAt(1)', planned', f_override', Holding')
      BY <1>3, <2>1, <2>2, <2>3, <2>4 DEF Ring
    <2>8. QED
      BY <1>2, <1>3, <1>4, <2>2, <2>3, <2>4, <2>5, <2>6, <2>7
  <1>5. CASE ~(r > 0)
    <2>1. Discard /\ loaded' = FALSE
      BY <1>5 DEF Shorten
    <2>2. PICK w \in Seq(Block), m \in Nat :
            /\ w = queue' /\ m = planned' /\ Len(w) = Len(queue) - 1
            /\ \A k \in 1..Len(w) : w[k] = queue[k+1]
            /\ m = IF p > 1 THEN p - 1 ELSE p
      BY SMTT(60), <1>3, <2>1, DiscardIs
    <2>3. Ring(w, x, m, f_override, Holding)
      <3>1. Ring(queue, s, p, f_override, Holding)
        BY <1>2, <1>3
      <3>2. Ring(w, NextIn(queue, 1), m, f_override, Holding)
        BY <1>1, <2>2, <3>1, TailRing
      <3>3. QED
        BY <1>3, <3>2
    <2>4. Len(w) \in Nat /\ (w = <<>> <=> Len(w) = 0)
      BY EmptyQueue
    <2>5. CASE w = <<>>
      <3>1. Len(w) <= 1 /\ Len(queue) = 1 /\ \A k \in 1..Len(w) : FALSE
        <4>1. PICK n \in Nat, z \in Nat : n = Len(queue) /\ z = Len(w) /\ z = 0 /\ z = n - 1
          BY <1>1, <2>2, <2>4, <2>5
        <4>2. n = 1 /\ z <= 1
          BY <4>1, LastOne, Zenon
        <4>3. \A k \in 1..0 : FALSE
          OBVIOUS
        <4>4. QED
          BY <4>1, <4>2, <4>3
      <3>2. Limited(w, f_override) /\ Feasible(w, SpeedAt(1)')
        BY <3>1 DEF Limited, Feasible
      <3>3. Ring(w, SpeedAt(1)', planned', f_override', Holding')
        BY <3>1, <3>2, ShortRing
      <3>4. NextIn(queue, 1) = 0
        <4>1. ~(Len(queue) > 1)
          BY <3>1
        <4>2. QED
          BY <1>1, <4>1, NextIs, Zenon
      <3>5. QED
        BY <1>5, <2>1, <2>2, <2>5, <3>3, <3>4
    <2>6. CASE w # <<>>
      <3>1. 1 \in 1..Len(w) /\ Len(w) > 0 /\ Len(queue) > 1 /\ 1+1 = 2
        BY <1>1, <2>2, <2>4, <2>6
      <3>2. w[1] = queue[2] /\ x = queue[2].entry
        <4>1. w[1] = queue[2]
          BY <2>2, <3>1
        <4>2. NextIn(queue, 1) = queue[2].entry
          BY <1>1, <3>1, NextIs, Zenon
        <4>3. QED
          BY <1>3, <4>1, <4>2
      <3>3. SpeedAt(1)' = x
        BY <1>2, <2>1, <2>2, <3>2 DEF SpeedAt
      <3>4. Ring(queue', SpeedAt(1)', planned', f_override', Holding')
        BY <2>2, <2>3, <3>3 DEF Ring
      <3>5. PreviousAt(w, Len(w)+1, f_override) = PreviousAt(queue, Len(queue)+1, f_override)
        <4>1. Limited(queue, f_override)
          BY <1>2 DEF Ring
        <4>2. QED
          BY <1>1, <2>2, <3>1, <4>1, LimitedTail
      <3>6. x <= NominalAt(w[1], f_override) * NominalAt(w[1], f_override)
        <4>1. queue[2].entry <= queue[2].max
          <5>1. 2 \in 2..Len(queue)
            BY <1>1, <3>1
          <5>2. QED
            BY <1>2, <5>1 DEF Ring, WithinMax
        <4>2. LimitedAt(w, f_override, 1)
          BY <2>3, <3>1 DEF Ring, Limited
        <4>3. w[1].max <= NominalAt(w[1], f_override) * NominalAt(w[1], f_override)
              /\ NominalAt(w[1], f_override) \in Nat
          BY <1>1, <3>1, <4>2, LimitedSpeed
        <4>4. PICK a \in Nat, b \in Nat :
                a = w[1].max /\ b = NominalAt(w[1], f_override) * NominalAt(w[1], f_override)
          BY <3>1, <4>3, BlockFields, Squares
        <4>5. x <= a /\ a <= b
          BY <3>2, <4>1, <4>3, <4>4
        <4>6. QED
          BY <4>4, <4>5
      <3>7. SpeedAt(1)' <= NominalSqr'
        BY <2>2, <3>3, <3>6 DEF NominalSqr, Nominal
      <3>8. queue'[1].entry = x /\ queue' # <<>>
        BY <2>2, <2>6, <3>2
      <3>9. prevNominal' = PreviousAt(queue', Len(queue')+1, f_override')
        BY <1>2, <2>2, <3>5
      <3>10. QED
        BY <1>3, <1>5, <2>1, <2>2, <3>3, <3>4, <3>7, <3>8, <3>9
    <2>7. QED
      BY <2>5, <2>6
  <1>6. QED
    BY <1>4, <1>5

\* The speed that a normal profile, of a block n long that is entered at v and left at e, reaches
\* after the distance d, with r left.
ProfileSpeed(v, e, n, w, d, r, x) ==
  x = Min2(Min2(v + d, w), e + r) \/ (v = e + n /\ x = Max2(v - d, 0))
Ends(v, e, n, w) == v <= w /\ v <= n + e /\ e <= v + n /\ e <= w
Between(v, e, n, w, d, r, x) ==
  /\ x <= v + d /\ v <= x + d /\ x <= w /\ x <= r + e /\ e <= x + r
  /\ e = v + n => e = x + r

LEMMA ProfileNumbers ==
  ASSUME NEW v \in Nat, NEW e \in Nat, NEW n \in Nat, NEW w \in Nat, NEW d \in Nat, NEW r \in Nat,
         d + r = n, Ends(v, e, n, w), NEW x \in Nat, ProfileSpeed(v, e, n, w, d, r, x)
  PROVE  Between(v, e, n, w, d, r, x)
  <1>0. v <= w /\ v <= n + e /\ e <= v + n /\ e <= w
    BY DEF Ends
  <1>1. x \in {v + d, w, e + r} /\ x <= v + d /\ x <= w /\ x <= e + r
    <2>1. CASE x = Min2(Min2(v + d, w), e + r)
      <3>1. PICK y \in Nat : y = Min2(v + d, w) /\ y <= v + d /\ y <= w /\ y \in {v + d, w}
        BY DEF Min2
      <3>2. x = Min2(y, e + r)
        BY <2>1, <3>1
      <3>3. x <= y /\ x <= e + r /\ x \in {y, e + r}
        BY <3>2 DEF Min2
      <3>4. QED
        BY <3>1, <3>3
    <2>2. CASE v = e + n /\ x = Max2(v - d, 0)
      <3>1. v - d = e + r
        BY <2>2
      <3>2. x = e + r
        BY <2>2, <3>1 DEF Max2
      <3>3. QED
        BY <1>0, <2>2, <3>1, <3>2
    <2>3. QED
      BY <2>1, <2>2 DEF ProfileSpeed
  <1>2. v <= x + d /\ e <= x + r
    BY <1>0, <1>1
  <1>3. e = v + n => e = x + r
    BY <1>0, <1>1
  <1>4. QED
    BY <1>1, <1>2, <1>3 DEF Between

\* The speeds at the two ends of the block that is being executed.
LEMMA ProfileEnds ==
  ASSUME TypeInv, PlanInv, loaded, ~Holding
  PROVE  \E v \in Nat, e \in Nat, n \in Nat, w \in Nat :
           /\ v = speed /\ v = SpeedAt(1) /\ e = exit /\ e = NextIn(queue, 1) /\ n = queue[1].run /\ w = NominalSqr
           /\ v <= w /\ v <= n + e /\ e <= v + n /\ e <= w
           /\ Len(queue) > 1 => /\ e = queue[2].entry /\ Braking(queue)[2] \in Nat
                                /\ e = Min2(Braking(queue)[2], v + n)
  <1>1. queue # <<>>
    BY DEF TypeInv, TypeOK
  <1>2. /\ queue \in Seq(Block) /\ f_override \in Overrides /\ Len(queue) \in Nat /\ Len(queue) >= 1
        /\ 1 \in 1..Len(queue) /\ speed \in Nat /\ exit \in Nat /\ queue[1].run \in Nat
        /\ NominalSqr \in Nat /\ NextEntry = NextIn(queue, 1)
    BY <1>1, SpeedFacts
  <1>3. SpeedInv /\ Ring(queue, SpeedAt(1), planned, f_override, Holding)
    BY DEF PlanInv
  <1>4. PICK v \in Nat, e \in Nat, n \in Nat, w \in Nat :
          v = speed /\ v = SpeedAt(1) /\ e = exit /\ n = queue[1].run /\ w = NominalSqr
    BY <1>2 DEF SpeedAt
  <1>5. e = NextIn(queue, 1) /\ v <= w
    BY <1>1, <1>2, <1>3, <1>4 DEF SpeedInv
  <1>6. v <= n + e
    <2>1. At(queue, v, 1) <= queue[1].run + NextIn(queue, 1)
      BY <1>2, <1>3, <1>4 DEF Ring, Feasible
    <2>2. QED
      BY <1>4, <1>5, <2>1 DEF At
  <1>7. CASE Len(queue) > 1
    <2>1. 2 \in 1..Len(queue) /\ 2 \in 2..Len(queue) /\ 2-1 = 1 /\ 2 \in 1..Len(queue)+1
      BY <1>2, <1>7
    <2>2. e = queue[2].entry
      <3>1. NextIn(queue, 1) = queue[2].entry
        BY <1>1, <1>2, <1>7, NextIs, Zenon
      <3>2. QED
        BY <1>5, <3>1
    <2>3. PICK b \in Nat : b = Braking(queue)[2]
      <3>1. Braking(queue) \in [1..Len(queue)+1 -> Nat]
        BY <1>2, BrakingIs
      <3>2. QED
        BY <2>1, <3>1
    <2>4. e = Min2(b, v + n)
      <3>1. queue[2].entry = Min2(Braking(queue)[2], At(queue, v, 2-1) + queue[2-1].run)
        BY <1>3, <1>4, <2>1 DEF Ring, Optimal
      <3>2. QED
        BY <1>4, <2>1, <2>2, <2>3, <3>1 DEF At
    <2>5. e <= v + n
      BY <2>4, MinSum
    <2>6. e <= w
      <3>1. queue[2].entry <= queue[2].max /\ LimitedAt(queue, f_override, 2)
        BY <1>3, <2>1 DEF Ring, WithinMax, Limited
      <3>2. queue[2].max <= PreviousAt(queue, 2, f_override) * PreviousAt(queue, 2, f_override)
        BY <1>2, <2>1, <3>1, LimitedSpeed
      <3>3. PreviousAt(queue, 2, f_override) = NominalAt(queue[1], f_override)
        BY <2>1 DEF PreviousAt
      <3>4. w = PreviousAt(queue, 2, f_override) * PreviousAt(queue, 2, f_override)
        BY <1>4, <3>3 DEF NominalSqr, Nominal
      <3>5. PICK m \in Nat : m = queue[2].max
        BY <1>2, <2>1, BlockFields
      <3>6. e <= m /\ m <= w
        BY <2>2, <3>1, <3>2, <3>4, <3>5
      <3>7. QED
        BY <3>6
    <2>7. QED
      BY <1>4, <1>5, <1>6, <2>2, <2>3, <2>4, <2>5, <2>6
  <1>8. CASE ~(Len(queue) > 1)
    <2>1. NextIn(queue, 1) = 0
      BY <1>1, <1>2, <1>8, NextIs, Zenon
    <2>2. e = 0
      BY <1>5, <2>1
    <2>3. e <= v + n /\ e <= w
      BY <2>2
    <2>4. QED
      BY <1>4, <1>5, <1>6, <1>8, <2>3
  <1>9. QED
    BY <1>7, <1>8

LEMMA ExecuteStep ==
  ASSUME TypeInv, PlanInv, Execute
  PROVE  \E d \in Nat, r \in Nat :
           /\ d > 0 /\ d + r = queue[1].run /\ Shorten(r) /\ speed' \in Nat
           /\ speed' <= speed + d /\ speed <= speed' + d
           /\ r > 0 => /\ speed' <= NominalSqr /\ speed' <= r + NextIn(queue, 1)
                       /\ Len(queue) > 1 => queue[2].entry = Min2(Braking(queue)[2], speed' + r)
           /\ ~(r > 0) => speed' = NextIn(queue, 1)
  <1>1. loaded /\ ~Holding
    BY ExecuteIs
  <1>2. PICK d \in Nat, r \in Nat :
          d > 0 /\ d + r = queue[1].run /\ speed' = Profile(d, r) /\ speed' \in Nat /\ Shorten(r)
    BY ExecuteIs
  <1>3. PICK v \in Nat, e \in Nat, n \in Nat, w \in Nat :
          /\ v = speed /\ v = SpeedAt(1) /\ e = exit /\ e = NextIn(queue, 1) /\ n = queue[1].run /\ w = NominalSqr
          /\ v <= w /\ v <= n + e /\ e <= v + n /\ e <= w
          /\ Len(queue) > 1 => /\ e = queue[2].entry /\ Braking(queue)[2] \in Nat
                               /\ e = Min2(Braking(queue)[2], v + n)
    BY <1>1, ProfileEnds
  <1>4. PICK x \in Nat : x = speed'
    BY <1>2
  <1>5. d + r = n
    BY <1>2, <1>3
  <1>6. CASE r > 0
    <2>1. x = Min2(Min2(v + d, w), e + r) \/ (v = e + n /\ x = Max2(v - d, 0))
      <3>1. ~TooFast(v)
        BY <1>3 DEF TooFast
      <3>2. CASE v >= e + n
        <4>1. v = e + n
          BY SMTT(60), <1>3, <3>2
        <4>2. Profile(d, r) = Max2(v - d, 0)
          <5>1. Profile(d, r) =
                  CASE r = 0 -> e
                    [] r > 0 /\ (TooFast(v) \/ v >= e + n) -> Max2(v - d, 0)
                    [] r > 0 /\ ~TooFast(v) /\ v > w -> Min2(Max2(v - d, w), e + r)
                    [] OTHER -> Min2(Min2(v + d, w), e + r)
            BY <1>3, Zenon DEF Profile
          <5>2. r # 0 /\ ~(v > w)
            BY <1>3, <1>6
          <5>3. QED
            BY <1>6, <3>2, <5>1, <5>2, Zenon
        <4>3. QED
          BY <1>2, <1>4, <4>1, <4>2
      <3>3. CASE ~(v >= e + n)
        <4>1. Profile(d, r) = Min2(Min2(v + d, w), e + r)
          <5>1. Profile(d, r) =
                  CASE r = 0 -> e
                    [] r > 0 /\ (TooFast(v) \/ v >= e + n) -> Max2(v - d, 0)
                    [] r > 0 /\ ~TooFast(v) /\ v > w -> Min2(Max2(v - d, w), e + r)
                    [] OTHER -> Min2(Min2(v + d, w), e + r)
            BY <1>3, Zenon DEF Profile
          <5>2. r # 0 /\ ~(v > w)
            BY SMTT(60), <1>3, <1>6
          <5>3. QED
            BY <3>1, <3>3, <5>1, <5>2, Zenon
        <4>2. QED
          BY <1>2, <1>4, <4>1
      <3>4. QED
        BY <3>2, <3>3
    <2>2. x <= v + d /\ v <= x + d /\ x <= w /\ x <= r + e /\ e <= x + r /\ (e = v + n => e = x + r)
      <3>1. Ends(v, e, n, w) /\ ProfileSpeed(v, e, n, w, d, r, x)
        BY <1>3, <2>1 DEF Ends, ProfileSpeed
      <3>2. Between(v, e, n, w, d, r, x)
        BY <1>5, <3>1, ProfileNumbers
      <3>3. QED
        BY <3>2 DEF Between
    <2>3. ASSUME Len(queue) > 1
          PROVE  queue[2].entry = Min2(Braking(queue)[2], x + r)
      <3>1. PICK b \in Nat : b = Braking(queue)[2] /\ e = Min2(b, v + n) /\ e = queue[2].entry
        BY <1>3, <2>3
      <3>2. e <= b /\ e \in {b, v + n}
        BY <3>1, MinSum
      <3>3. e = Min2(b, x + r)
        BY <2>2, <3>2 DEF Min2
      <3>4. QED
        BY <3>1, <3>3
    <2>4. QED
      BY <1>2, <1>3, <1>4, <1>6, <2>2, <2>3
  <1>7. CASE ~(r > 0)
    <2>1. r = 0 /\ d = n
      BY <1>5, <1>7
    <2>2. x = e
      <3>1. Profile(d, r) =
              CASE r = 0 -> e
                [] r > 0 /\ (TooFast(v) \/ v >= e + n) -> Max2(v - d, 0)
                [] r > 0 /\ ~TooFast(v) /\ v > w -> Min2(Max2(v - d, w), e + r)
                [] OTHER -> Min2(Min2(v + d, w), e + r)
        BY <1>3, Zenon DEF Profile
      <3>2. Profile(d, r) = e
        BY <1>7, <2>1, <3>1, Zenon
      <3>3. QED
        BY <1>2, <1>4, <3>2
    <2>3. x <= v + d /\ v <= x + d
      BY <1>3, <2>1, <2>2
    <2>4. QED
      BY <1>2, <1>3, <1>4, <1>7, <2>2, <2>3
  <1>8. QED
    BY <1>6, <1>7

LEMMA ExecutePlan ==
  ASSUME TypeInv, PlanInv, Execute
  PROVE  PlanInv'
  <1>1. /\ loaded /\ queue # <<>> /\ ~Holding
        /\ UNCHANGED <<prevNominal, f_override, state, control, recalc, decel, exit>>
    BY ExecuteIs
  <1>2. PICK d \in Nat, r \in Nat :
           /\ d > 0 /\ d + r = queue[1].run /\ Shorten(r) /\ speed' \in Nat
           /\ speed' <= speed + d /\ speed <= speed' + d
           /\ r > 0 => /\ speed' <= NominalSqr /\ speed' <= r + NextIn(queue, 1)
                       /\ Len(queue) > 1 => queue[2].entry = Min2(Braking(queue)[2], speed' + r)
           /\ ~(r > 0) => speed' = NextIn(queue, 1)
    BY ExecuteStep
  <1>3. ~Holding' /\ Holding' = Holding
    BY <1>1 DEF Holding
  <1>4. /\ Ring(queue', SpeedAt(1)', planned', f_override', Holding')
        /\ prevNominal' = PreviousAt(queue', Len(queue')+1, f_override') \/ queue' = <<>>
        /\ r > 0 => /\ queue' # <<>> /\ loaded' /\ SpeedAt(1)' = speed' /\ NominalSqr' = NominalSqr
                    /\ NextEntry' = NextEntry /\ queue'[1].run = r
        /\ ~(r > 0) => /\ ~loaded'
                       /\ queue' = <<>> => NextIn(queue, 1) = 0
                       /\ queue' # <<>> => queue'[1].entry = NextIn(queue, 1)
                                           /\ SpeedAt(1)' = NextIn(queue, 1) /\ SpeedAt(1)' <= NominalSqr'
    <2>1. UNCHANGED <<prevNominal, f_override, state, recalc, decel, exit>> /\ (Holding' <=> Holding)
      BY <1>1, <1>3
    <2>2. r > 0 => speed' <= r + NextIn(queue, 1)
      BY <1>2
    <2>3. r > 0 /\ ~Holding /\ Len(queue) > 1 => queue[2].entry = Min2(Braking(queue)[2], speed' + r)
      BY <1>2
    <2>4. QED
      BY <1>1, <1>2, <2>1, <2>2, <2>3, ShortenRing
  <1>5. SpeedInv'
    <2>1. ~recalc /\ ~recalc' /\ exit = NextEntry /\ NextEntry = NextIn(queue, 1)
      BY <1>1, SpeedFacts DEF TypeInv, PlanInv, SpeedInv
    <2>2. CASE r > 0
      BY <1>1, <1>2, <1>3, <1>4, <2>1, <2>2 DEF SpeedInv
    <2>3. CASE ~(r > 0)
      <3>1. exit' = speed'
        BY <1>1, <1>2, <2>1, <2>3
      <3>2. queue' = <<>> => speed' = 0
        BY <1>2, <1>4, <2>3
      <3>3. queue' # <<>> => speed' <= queue'[1].entry /\ speed' = queue'[1].entry
        BY <1>2, <1>4, <2>3
      <3>4. QED
        BY <1>4, <2>1, <2>3, <3>1, <3>2, <3>3 DEF SpeedInv
    <2>4. QED
      BY <2>2, <2>3
  <1>6. ControlInv'
    <2>1. "END_MOTION" \notin control
      BY DEF Execute, MayPrep
    <2>2. QED
      BY <1>1, <2>1 DEF PlanInv, ControlInv
  <1>7. QED
    BY <1>1, <1>4, <1>5, <1>6 DEF PlanInv

LEMMA BrakePlan ==
  ASSUME TypeInv, PlanInv, Brake
  PROVE  PlanInv'
  <1>1. /\ loaded /\ queue # <<>> /\ Holding /\ "END_MOTION" \notin control
        /\ UNCHANGED <<prevNominal, f_override, state, recalc, decel, exit>>
    BY BrakeIs
  <1>2. PICK d \in Nat, r \in Nat :
           /\ d > 0 /\ d + r = queue[1].run /\ speed' + d = speed /\ speed' \in Nat /\ Shorten(r)
           /\ control' = IF r > 0 /\ speed = d THEN control \cup {"END_MOTION"} ELSE control
    BY BrakeIs
  <1>3. Holding' = Holding
    BY <1>2 DEF Holding
  <1>4. /\ queue \in Seq(Block) /\ 1 \in 1..Len(queue) /\ speed \in Nat /\ queue[1].run \in Nat
        /\ NominalSqr \in Nat /\ exit \in Nat
    BY <1>1, SpeedFacts
  <1>5. PICK v \in Nat, n \in Nat, y \in Nat, x \in Nat, w \in Nat, e \in Nat :
          /\ v = speed /\ v = SpeedAt(1) /\ n = queue[1].run /\ y = NextIn(queue, 1) /\ x = speed'
          /\ w = NominalSqr /\ e = exit
    BY <1>1, <1>2, <1>4, NextIs DEF SpeedAt
  <1>6. d + r = n /\ x + d = v
    BY <1>2, <1>5
  <1>7. v <= n + y /\ v <= w /\ e = Max2(v - n, 0) /\ ~recalc /\ ~decel
    <2>1. At(queue, v, 1) <= queue[1].run + NextIn(queue, 1)
      BY <1>4, <1>5 DEF PlanInv, Ring, Feasible
    <2>2. v <= n + y
      BY <1>5, <2>1 DEF At
    <2>3. v <= w /\ e = Max2(v - n, 0)
      BY <1>1, <1>5 DEF PlanInv, SpeedInv
    <2>4. QED
      BY <1>1, <2>2, <2>3 DEF TypeInv, PlanInv
  <1>8. x <= w /\ x <= r + y /\ e = Max2(x - r, 0)
    BY <1>6, <1>7 DEF Max2
  <1>9. /\ Ring(queue', SpeedAt(1)', planned', f_override', Holding')
        /\ prevNominal' = PreviousAt(queue', Len(queue')+1, f_override') \/ queue' = <<>>
        /\ r > 0 => /\ queue' # <<>> /\ loaded' /\ SpeedAt(1)' = speed' /\ NominalSqr' = NominalSqr
                    /\ NextEntry' = NextEntry /\ queue'[1].run = r
        /\ ~(r > 0) => /\ ~loaded'
                       /\ queue' = <<>> => NextIn(queue, 1) = 0
                       /\ queue' # <<>> => queue'[1].entry = NextIn(queue, 1)
                                           /\ SpeedAt(1)' = NextIn(queue, 1) /\ SpeedAt(1)' <= NominalSqr'
    <2>1. Holding' <=> Holding
      BY <1>3
    <2>2. r > 0 => speed' <= r + NextIn(queue, 1)
      BY <1>5, <1>8
    <2>3. r > 0 /\ ~Holding /\ Len(queue) > 1 => queue[2].entry = Min2(Braking(queue)[2], speed' + r)
      BY <1>1
    <2>4. QED
      BY <1>1, <1>2, <2>1, <2>2, <2>3, ShortenRing
  <1>10. SpeedInv'
    <2>1. CASE r > 0
      <3>1. SpeedAt(1)' <= NominalSqr'
        BY <1>5, <1>8, <1>9, <2>1
      <3>2. exit' = Max2(speed' - queue'[1].run, 0)
        BY <1>1, <1>5, <1>8, <1>9, <2>1
      <3>3. QED
        BY <1>1, <1>3, <1>7, <1>9, <2>1, <3>1, <3>2 DEF SpeedInv
    <2>2. CASE ~(r > 0)
      <3>1. e = x /\ x <= y
        BY <1>6, <1>7, <1>8, <2>2 DEF Max2
      <3>2. exit' = speed'
        BY <1>1, <1>5, <3>1
      <3>3. queue' = <<>> => speed' = 0
        <4>1. ASSUME queue' = <<>>
              PROVE  x = 0
          <5>1. y = 0
            BY <1>5, <1>9, <2>2, <4>1
          <5>2. QED
            BY <3>1, <5>1
        <4>2. QED
          BY <1>5, <4>1
      <3>4. queue' # <<>> => speed' <= queue'[1].entry
        BY <1>5, <1>9, <2>2, <3>1
      <3>5. QED
        BY <1>1, <1>3, <1>7, <1>9, <2>2, <3>2, <3>3, <3>4 DEF SpeedInv
    <2>3. QED
      BY <2>1, <2>2
  <1>11. ControlInv'
    <2>1. state = "HOLD"
      BY <1>1 DEF PlanInv, ControlInv, Holding
    <2>2. QED
      BY <1>1, <1>2, <1>9, <2>1 DEF ControlInv
  <1>12. QED
    BY <1>1, <1>7, <1>9, <1>10, <1>11 DEF PlanInv

LEMMA NextPlanInv ==
  ASSUME ~Slower
  PROVE  TypeInv /\ PlanInv /\ [Next]_vars => PlanInv'
  <1> SUFFICES ASSUME TypeInv, PlanInv, [Next]_vars
               PROVE  PlanInv'
    OBVIOUS
  <1>1. CASE BufferLine
    BY <1>1, BufferLinePlan
  <1>2. CASE Override
    BY <1>2, OverridePlan
  <1>3. CASE Load
    BY <1>3, LoadPlan
  <1>4. CASE Execute
    BY <1>4, ExecutePlan
  <1>5. CASE Brake
    BY <1>5, BrakePlan
  <1>6. CASE AtRest
    BY <1>6, AtRestPlan
  <1>7. CASE Start
    BY <1>7, StartPlan
  <1>8. CASE Hold
    BY <1>8, HoldPlan
  <1>9. CASE CycleStop
    BY <1>9, CycleStopPlan
  <1>10. CASE Reset
    <2>1. Init'
      BY <1>10 DEF Reset, Init
    <2>2. QED
      BY <2>1, InitPlanInv, PTL
  <1>11. CASE UNCHANGED vars
    BY <1>11 DEF PlanInv, ControlInv, SpeedInv, SpeedAt, Holding, NominalSqr, Nominal, NextEntry,
                 vars, planVars, prepVars
  <1>12. QED
    BY <1>1, <1>2, <1>3, <1>4, <1>5, <1>6, <1>7, <1>8, <1>9, <1>10, <1>11 DEF Next

LEMMA AlwaysPlanInv ==
  ASSUME ~Slower
  PROVE  Spec => [](TypeInv /\ PlanInv)
  <1>1. TypeInv /\ PlanInv /\ [Next]_vars => (TypeInv /\ PlanInv)'
    BY NextTypeInv, NextPlanInv
  <1>2. QED
    BY <1>1, InitTypeInv, InitPlanInv, PTL DEF Spec

\* Every block is long enough to brake from its entry speed to that of the next, and the last one to
\* brake to rest: st_prep_buffer() never has to enter a junction faster than was planned.  A feed
\* override that is lowered breaks it: the reverse pass skips the blocks that enter at their maximum,
\* though the next may have become slower (run plan_slower).
THEOREM FeasibleTheorem ==
  ASSUME ~Slower
  PROVE  Spec => []PlanFeasible
  <1>1. TypeInv /\ PlanInv => PlanFeasible
    <2> SUFFICES ASSUME TypeInv, PlanInv, NEW k \in 1..Len(queue)
                 PROVE  SpeedAt(k) <= queue[k].run + (IF k = Len(queue) THEN 0 ELSE queue[k+1].entry)
      BY DEF PlanFeasible
    <2>1. At(queue, SpeedAt(1), k) <= queue[k].run + NextIn(queue, k)
      BY DEF PlanInv, Ring, Feasible
    <2>2. At(queue, SpeedAt(1), k) = SpeedAt(k)
      BY DEF At, SpeedAt
    <2>3. QED
      BY <2>1, <2>2 DEF NextIn
  <1>2. QED
    BY <1>1, AlwaysPlanInv, PTL

\* planner_recalculate() works on the blocks behind block_buffer_planned only, and its forward pass
\* stops where nothing changes; the entry speeds are still those of a full reverse and a full forward
\* pass over all the blocks of the ring, as long as no hold has bent the speed of the machine.
THEOREM OptimalTheorem ==
  ASSUME ~Slower
  PROVE  Spec => []PlanOptimal
  <1>1. TypeInv /\ PlanInv => PlanOptimal
    <2> SUFFICES ASSUME TypeInv, PlanInv, state # "HOLD"
                 PROVE  \A k \in 2..Len(queue) : queue[k].entry = FullPlan(queue, SpeedAt(1))[k]
      BY DEF PlanOptimal
    <2>1. queue \in Seq(Block) /\ ~Holding
      BY DEF TypeInv, TypeOK, PlanInv, ControlInv, Holding
    <2>2. Optimal(queue, SpeedAt(1))
      BY <2>1 DEF PlanInv, Ring
    <2>3. CASE queue = <<>>
      <3>1. Len(queue) = 0
        BY <2>1, <2>3, EmptyQueue
      <3>2. \A k \in 2..Len(queue) : FALSE
        BY <3>1
      <3>3. QED
        BY <3>2
    <2>4. CASE queue # <<>>
      <3>1. SpeedAt(1) \in Nat
        BY <2>4, SpeedFacts
      <3>2. QED
        BY <2>1, <2>2, <3>1, OptimalIsFullPlan
    <2>5. QED
      BY <2>3, <2>4
  <1>2. QED
    BY <1>1, AlwaysPlanInv, PTL

\* A plan changes no speed, and executes no distance.
LEMMA PlanIsStill ==
  ASSUME TypeInv, speed' = speed, queue' \in Seq(Block), Len(queue') >= Len(queue),
         Len(queue') = Len(queue) /\ queue # <<>> => queue'[1].run = queue[1].run
  PROVE  speed' - speed <= Travelled /\ speed - speed' <= Travelled
  <1>1. Len(queue) \in Nat /\ Len(queue') \in Nat /\ speed \in Nat /\ queue \in Seq(Block)
    BY EmptyQueue DEF TypeInv, TypeOK
  <1>2. Travelled = 0
    <2>1. CASE Len(queue') = Len(queue) /\ queue # <<>>
      <3>1. queue[1].run \in Nat
        BY <1>1, <2>1, NominalSqrFacts, SpeedFacts
      <3>2. PICK n \in Nat : n = queue[1].run /\ n = queue'[1].run
        BY <2>1, <3>1
      <3>3. ~(Len(queue') < Len(queue))
        BY <1>1
      <3>4. Travelled = n - n
        BY <2>1, <3>2, <3>3 DEF Travelled
      <3>5. QED
        BY <3>4
    <2>2. CASE ~(Len(queue') = Len(queue) /\ queue # <<>>)
      <3>1. ~(Len(queue') < Len(queue))
        BY <1>1
      <3>2. QED
        BY <2>2, <3>1, Zenon DEF Travelled
    <2>3. QED
      BY <2>1, <2>2
  <1>3. speed' - speed = 0 /\ speed - speed' = 0
    BY <1>1
  <1>4. QED
    BY <1>2, <1>3

LEMMA Differences ==
  ASSUME NEW v \in Nat, NEW x \in Nat, NEW d \in Nat, x <= v + d, v <= x + d
  PROVE  x - v <= d /\ v - x <= d
  OBVIOUS

LEMMA Slows ==
  ASSUME NEW v \in Nat, NEW x \in Nat, NEW d \in Nat, x + d = v
  PROVE  x <= v + d /\ v <= x + d
  OBVIOUS

\* A step of the profile executes the distance d.
LEMMA ShortenTravels ==
  ASSUME TypeInv, queue # <<>>, NEW d \in Nat, NEW r \in Nat, d + r = queue[1].run, Shorten(r)
  PROVE  Travelled = d
  <1>1. queue \in Seq(Block) /\ Len(queue) \in Nat /\ queue[1].run \in Nat
    BY SpeedFacts
  <1>2. PICK n \in Nat : n = queue[1].run /\ d + r = n
    BY <1>1
  <1>3. CASE r > 0
    <2>1. queue' = WithRun(queue, r)
      BY <1>3 DEF Shorten
    <2>2. Len(queue') = Len(queue) /\ queue'[1].run = r
      BY <1>1, <2>1, SetRun
    <2>3. ~(Len(queue') < Len(queue))
      BY <1>1, <2>2
    <2>4. Travelled = n - r
      BY <1>2, <2>2, <2>3 DEF Travelled
    <2>5. QED
      BY <1>2, <2>4
  <1>4. CASE ~(r > 0)
    <2>1. Discard
      BY <1>4 DEF Shorten
    <2>2. Len(queue') < Len(queue)
      BY <1>1, <2>1, DiscardIs
    <2>3. Travelled = n
      BY <1>2, <2>2 DEF Travelled
    <2>4. d = n
      BY <1>2, <1>4
    <2>5. QED
      BY <2>3, <2>4
  <1>5. QED
    BY <1>3, <1>4

\* plan_cycle_reinitialize() of blocks with the lengths of those of the ring.
LEMMA ReinitializeIsStill ==
  ASSUME TypeInv, NEW q \in Seq(Block), Len(q) = Len(queue), \A k \in 1..Len(q) : q[k].run = queue[k].run,
         Reinitialize(q)
  PROVE  speed' - speed <= Travelled /\ speed - speed' <= Travelled
  <1>1. queue \in Seq(Block) /\ Len(queue) \in Nat /\ speed \in Nat /\ (loaded => queue # <<>>)
        /\ (loaded \/ recalc => queue # <<>>)
    BY EmptyQueue DEF TypeInv, TypeOK
  <1>2. loaded \/ recalc => q # <<>>
    BY <1>1, EmptyQueue
  <1>3. PlansTypes(q)
    BY <1>2, ReinitializeTypes
  <1>4. speed' = speed /\ queue' \in Seq(Block) /\ Len(queue') = Len(queue)
    BY <1>3 DEF PlansTypes
  <1>5. ASSUME queue # <<>>
        PROVE  queue'[1].run = queue[1].run
    <2> DEFINE u == Update(q)
    <2>1. IF Len(u) > 1 THEN queue' = Planned(u, 1) ELSE queue' = u
      BY DEF Reinitialize
    <2>2. u \in Seq(Block) /\ Len(u) = Len(q) /\ \A k \in 1..Len(q) : SameMove(u[k], q[k])
      BY <1>1, <1>2, UpdateIs
    <2> HIDE DEF u
    <2>3. 1 \in 1..Len(q) /\ 1 \in 0..Len(q)
      BY <1>1, <1>5, EmptyQueue
    <2>4. SameMove(queue'[1], u[1])
      <3>1. CASE Len(u) > 1
        <4>1. \A k \in 1..Len(u) : SameMove(Planned(u, 1)[k], u[k])
          BY <2>2, <2>3, PlannedIs
        <4>2. QED
          BY <2>1, <2>2, <2>3, <3>1, <4>1
      <3>2. CASE ~(Len(u) > 1)
        BY <2>1, <3>2 DEF SameMove
      <3>3. QED
        BY <3>1, <3>2
    <2>5. SameMove(u[1], q[1]) /\ q[1].run = queue[1].run
      BY <2>2, <2>3
    <2>6. QED
      BY <2>4, <2>5 DEF SameMove
  <1>6. Len(queue') >= Len(queue)
    BY <1>1, <1>4
  <1>7. QED
    BY <1>4, <1>5, <1>6, PlanIsStill

\* From block to block, through replanning, a hold and its release, the speed of the machine changes
\* by no more than the acceleration allows over the distance that was executed: only a reset jumps.
THEOREM ContinuousTheorem ==
  ASSUME ~Slower
  PROVE  Spec => SpeedContinuous
  <1> DEFINE Continuous == ~Reset => speed' - speed <= Travelled /\ speed - speed' <= Travelled
  <1>1. TypeInv /\ PlanInv /\ [Next]_vars => [Continuous]_vars
    <2> SUFFICES ASSUME TypeInv, PlanInv, Next, ~Reset
                 PROVE  speed' - speed <= Travelled /\ speed - speed' <= Travelled
      OBVIOUS
    <2>0. queue \in Seq(Block) /\ Len(queue) \in Nat /\ speed \in Nat
      BY EmptyQueue DEF TypeInv, TypeOK
    <2>1. CASE BufferLine
      <3>1. PICK b \in Block, q \in Seq(Block) :
              q = Append(queue, b) /\ Recalculate(q, planned) /\ (queue = <<>> => b.max = 0)
        BY <2>1, BufferLineIs
      <3>2. /\ q # <<>> /\ Len(q) = Len(queue) + 1 /\ q[Len(queue) + 1] = b
        BY <2>0, <3>1, AppendProperties
      <3>3. planned \in 0..Len(q) /\ (planned = 0 => Len(q) = 1 /\ q[1].max = 0)
        BY <2>0, <3>1, <3>2, EmptyQueue DEF TypeInv, PlannedValid
      <3>4. PlansTypes(q)
        BY <3>1, <3>2, <3>3, RecalculateTypes
      <3>5. speed' = speed /\ queue' \in Seq(Block) /\ Len(queue') = Len(queue) + 1
        BY <3>2, <3>4 DEF PlansTypes
      <3>6. Len(queue') >= Len(queue) /\ Len(queue') # Len(queue)
        BY <2>0, <3>5
      <3>7. QED
        BY <3>5, <3>6, PlanIsStill
    <2>2. CASE Override
      <3>1. PICK f \in Overrides, q \in Seq(Block) : q = Relimit(queue, f) /\ Reinitialize(q)
        BY <2>2, OverrideIs
      <3>2. Len(q) = Len(queue) /\ \A k \in 1..Len(q) : q[k].run = queue[k].run
        BY <2>0, <3>1, RelimitIs
      <3>3. QED
        BY <3>1, <3>2, ReinitializeIsStill
    <2>3. CASE Load
      <3>1. speed' = speed
        BY <2>3, LoadPlan
      <3>2. PICK v \in Nat : queue' = WithEntry(queue, v)
        BY <2>3, LoadIs
      <3>3. queue # <<>>
        BY <2>3 DEF Load
      <3>4. queue' \in Seq(Block) /\ Len(queue') = Len(queue) /\ SameMove(queue'[1], queue[1])
        BY <2>0, <3>2, <3>3, SetEntry, SpeedFacts
      <3>5. Len(queue') >= Len(queue) /\ queue'[1].run = queue[1].run
        BY <2>0, <3>4 DEF SameMove
      <3>6. QED
        BY <3>1, <3>4, <3>5, PlanIsStill
    <2>4. CASE Execute
      <3>1. queue # <<>>
        BY <2>4, ExecuteIs
      <3>2. PICK d \in Nat, r \in Nat :
              d + r = queue[1].run /\ Shorten(r) /\ speed' \in Nat /\ speed' <= speed + d /\ speed <= speed' + d
        BY <2>4, ExecuteStep
      <3>3. Travelled = d
        BY <3>1, <3>2, ShortenTravels
      <3>4. speed' - speed <= d /\ speed - speed' <= d
        BY <2>0, <3>2, Differences
      <3>5. QED
        BY <3>3, <3>4
    <2>5. CASE Brake
      <3>1. queue # <<>>
        BY <2>5, BrakeIs
      <3>2. PICK d \in Nat, r \in Nat :
              d + r = queue[1].run /\ Shorten(r) /\ speed' \in Nat /\ speed' + d = speed
        BY <2>5, BrakeIs
      <3>3. Travelled = d
        BY <3>1, <3>2, ShortenTravels
      <3>4. speed' <= speed + d /\ speed <= speed' + d
        BY <2>0, <3>2, Slows
      <3>5. speed' - speed <= d /\ speed - speed' <= d
        BY <2>0, <3>2, <3>4, Differences
      <3>6. QED
        BY <3>3, <3>5
    <2>6. CASE AtRest \/ Start
      <3>1. queue' = queue /\ speed' = speed
        BY <2>6 DEF AtRest, Start, planVars, prepVars
      <3>2. Len(queue') >= Len(queue)
        BY <2>0, <3>1
      <3>3. QED
        BY <2>0, <3>1, <3>2, PlanIsStill
    <2>7. CASE Hold
      <3>1. CASE queue' = queue /\ speed' = speed
        <4>1. Len(queue') >= Len(queue)
          BY <2>0, <3>1
        <4>2. QED
          BY <2>0, <3>1, <4>1, PlanIsStill
      <3>2. CASE queue' = Update(queue) /\ Unload
        <4>1. speed' = speed
          BY <3>2, UnloadTypes
        <4>2. queue' \in Seq(Block) /\ Len(queue') = Len(queue) /\ \A k \in 1..Len(queue) : SameMove(queue'[k], queue[k])
          BY <2>0, <3>2, UpdateIs DEF TypeInv, TypeOK
        <4>3. Len(queue') >= Len(queue)
          BY <2>0, <4>2
        <4>4. ASSUME queue # <<>>
              PROVE  queue'[1].run = queue[1].run
          BY <4>2, <4>4, SpeedFacts DEF SameMove
        <4>5. QED
          BY <4>1, <4>2, <4>3, <4>4, PlanIsStill
      <3>3. QED
        BY <2>7, <3>1, <3>2 DEF Hold, planVars, prepVars
    <2>8. CASE CycleStop
      <3>1. CASE UNCHANGED <<planVars, prepVars>>
        <4>1. queue' = queue /\ speed' = speed
          BY <3>1 DEF planVars, prepVars
        <4>2. Len(queue') >= Len(queue)
          BY <2>0, <4>1
        <4>3. QED
          BY <2>0, <4>1, <4>2, PlanIsStill
      <3>2. CASE Reinitialize(queue)
        BY <2>0, <3>2, ReinitializeIsStill
      <3>3. QED
        BY <2>8, <3>1, <3>2 DEF CycleStop
    <2>9. QED
      BY <2>1, <2>2, <2>3, <2>4, <2>5, <2>6, <2>7, <2>8 DEF Next
  <1>2. QED
    BY <1>1, AlwaysPlanInv, PTL DEF Spec, SpeedContinuous
=============================================================================
