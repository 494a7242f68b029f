------------------------------ MODULE Iteration -----------------------------
(***************************************************************************)
(* Induction over an initial segment of the naturals, and the functions    *)
(* that recursion over one defines: what the proofs about selections, walks*)
(* and flattened sequences take.                                           *)
(***************************************************************************)
EXTENDS Selection, WellFoundedInduction, TLAPS

\* Induction up to N, over a set.
LEMMA Climb ==
  ASSUME NEW N \in Nat, NEW S, 0 \in S, \A n \in 1..N : n - 1 \in S => n \in S
  PROVE  0..N \subseteq S
<1> DEFINE Bad == {n \in Nat : n <= N /\ n \notin S}
<1> SUFFICES ASSUME Bad # {} PROVE FALSE
  OBVIOUS
<1>1. PICK m \in Bad : \A y \in Bad : <<y, m>> \notin OpToRel(<, Nat)
  <2>1. Bad \subseteq Nat
    OBVIOUS
  <2> HIDE DEF Bad
  <2> QED
    BY <2>1, WFMin, NatLessThanWellFounded
<1>2. \A y \in Bad : ~(y < m)
  <2>1. Bad \subseteq Nat
    OBVIOUS
  <2> HIDE DEF Bad
  <2> QED
    BY <1>1, <2>1 DEF OpToRel
<1>3. PICK k \in Bad : \A y \in Bad : ~(y < k)
  BY <1>2
<1>4. k # 0 /\ k \in 1..N
  BY <1>3
<1>5. k - 1 \notin Bad
  BY <1>3, <1>4
<1>6. k - 1 \in S
  BY <1>4, <1>5
<1> QED
  BY <1>3, <1>4, <1>6

Iterated(W, w0, N, g) == \E f \in [0..N -> W] : f[0] = w0 /\ \A n \in 1..N : f[n] = g[n][f[n - 1]]

\* Functions of a set iterated from one of its elements: what a recursive
\* definition over 0..N takes.
LEMMA Iterates ==
  ASSUME NEW W, NEW w0, NEW N, NEW g, w0 \in W, N \in Nat, g \in [1..N -> [W -> W]]
  PROVE  Iterated(W, w0, N, g)
<1> DEFINE Good(m) == \E f \in [0..m -> W] : f[0] = w0 /\ \A n \in 1..m : f[n] = g[n][f[n - 1]]
           S == {m \in 0..N : Good(m)}
<1>1. 0 \in S
  <2>1. PICK f : f = [n \in 0..0 |-> w0]
    OBVIOUS
  <2>2. f \in [0..0 -> W] /\ f[0] = w0 /\ 1..0 = {}
    BY <2>1
  <2>3. Good(0)
    BY <2>2
  <2> QED
    BY <2>3
<1>2. ASSUME NEW m \in 1..N, m - 1 \in S PROVE m \in S
  <2>1. PICK f \in [0..(m - 1) -> W] : f[0] = w0 /\ \A n \in 1..(m - 1) : f[n] = g[n][f[n - 1]]
    BY <1>2
  <2> DEFINE h == [n \in 0..m |-> IF n = m THEN g[m][f[m - 1]] ELSE f[n]]
  <2>2. f[m - 1] \in W /\ g[m][f[m - 1]] \in W
    BY <2>1
  <2>3. h \in [0..m -> W]
    BY <2>1, <2>2
  <2>4. ASSUME NEW n \in 1..m PROVE h[n] = g[n][h[n - 1]]
    <3>1. CASE n = m
      <4>1. h[m] = g[m][f[m - 1]] /\ h[m - 1] = f[m - 1]
        OBVIOUS
      <4> HIDE DEF h
      <4> QED
        BY <3>1, <4>1
    <3>2. CASE n # m
      <4>1. n \in 1..(m - 1) /\ n - 1 \in 0..(m - 1) /\ n - 1 # m /\ n \in 0..m /\ n - 1 \in 0..m
        BY <3>2
      <4>2. h[n] = f[n] /\ h[n - 1] = f[n - 1]
        BY <3>2, <4>1
      <4> HIDE DEF h
      <4> QED
        BY <2>1, <4>1, <4>2
    <3> QED
      BY <3>1, <3>2
  <2>6. h[0] = w0
    <3>1. 0 \in 0..m /\ 0 # m
      OBVIOUS
    <3>2. h[0] = f[0]
      BY <3>1
    <3> QED
      BY <2>1, <3>2
  <2> HIDE DEF h
  <2>5. Good(m)
    BY <2>3, <2>4, <2>6
  <2> QED
    BY <2>5
<1> HIDE DEF S
<1>3. 0..N \subseteq S
  BY <1>1, <1>2, Climb
<1>4. N \in S
  BY <1>3
<1> QED
  BY <1>4 DEF S, Iterated

\* Positions of a sequence that are not none have a greatest one.
LEMMA Greatest ==
  ASSUME NEW n \in Nat, NEW S, S \subseteq 1..n, S # {}
  PROVE  \E x \in S : \A y \in S : x >= y
<1> DEFINE Above == {b \in Nat : \A y \in S : y <= b}
<1>1. Above \subseteq Nat
  OBVIOUS
<1>2. n \in Above
  OBVIOUS
<1> HIDE DEF Above
<1>3. PICK m \in Above : \A b \in Above : <<b, m>> \notin OpToRel(<, Nat)
  BY <1>1, <1>2, WFMin, NatLessThanWellFounded
<1>4. \A b \in Above : ~(b < m)
  BY <1>1, <1>3 DEF OpToRel
<1>5. m \in Nat /\ \A y \in S : y <= m
  BY DEF Above
<1>6. m \in S
  <2> SUFFICES ASSUME m \notin S PROVE FALSE
    OBVIOUS
  <2>1. PICK s : s \in S
    OBVIOUS
  <2>2. m - 1 \in Nat /\ \A y \in S : y <= m - 1
    BY <1>5, <2>1
  <2>3. m - 1 \in Above
    BY <2>2 DEF Above
  <2> QED
    BY <1>4, <1>5, <2>3
<1> QED
  BY <1>5, <1>6

\* A set of naturals that is not empty has a least one.
LEMMA Least ==
  ASSUME NEW S, S \subseteq Nat, S # {}
  PROVE  \E x \in S : \A y \in S : x <= y
<1>1. PICK x \in S : \A y \in S : <<y, x>> \notin OpToRel(<, Nat)
  BY WFMin, NatLessThanWellFounded
<1>2. \A y \in S : ~(y < x)
  BY <1>1 DEF OpToRel
<1> QED
  BY <1>2

\* Of places with a score, one has the highest, and is the first of those that have.
LEMMA Foremost ==
  ASSUME NEW n \in Nat, NEW score, \A i \in 1..n : score[i] \in Int, NEW T, T \subseteq 1..n, T # {}
  PROVE  \E i \in T : \A j \in T : score[j] < score[i] \/ (score[j] = score[i] /\ i <= j)
<1> DEFINE Upto(m) == T \cap (1..m)
           Best(m, i) == \A j \in Upto(m) : score[j] < score[i] \/ (score[j] = score[i] /\ i <= j)
           S == {m \in 0..n : Upto(m) # {} => \E i \in Upto(m) : Best(m, i)}
<1>1. 0 \in S
  OBVIOUS
<1>2. ASSUME NEW m \in 1..n, m - 1 \in S PROVE m \in S
  <2>0. \A j : j \in Upto(m) <=> (j \in Upto(m - 1) \/ (j = m /\ m \in T))
    OBVIOUS
  <2>1. CASE m \notin T
    <3>1. Upto(m) = Upto(m - 1)
      BY <2>0, <2>1
    <3> HIDE DEF Upto
    <3> QED
      BY <1>2, <3>1
  <2>2. CASE m \in T /\ Upto(m - 1) = {}
    <3>1. \A j \in Upto(m) : j = m
      BY <2>0, <2>2
    <3>2. m \in Upto(m) /\ score[m] \in Int
      BY <2>2
    <3> HIDE DEF Upto
    <3>3. Best(m, m)
      BY <3>1, <3>2
    <3> QED
      BY <3>2, <3>3
  <2>3. CASE m \in T /\ Upto(m - 1) # {}
    <3>1. PICK i \in Upto(m - 1) : Best(m - 1, i)
      BY <1>2, <2>3
    <3>2. i \in 1..n /\ m \in 1..n /\ i < m /\ score[i] \in Int /\ score[m] \in Int /\ m \in Upto(m) /\ i \in Upto(m)
      BY <2>3, <3>1
    <3>3. \A j \in Upto(m - 1) : j \in 1..n /\ score[j] \in Int
      OBVIOUS
    <3> HIDE DEF Upto
    <3>4. CASE score[m] > score[i]
      <4>1. Best(m, m)
        BY <2>0, <3>1, <3>2, <3>3, <3>4
      <4> QED
        BY <3>2, <4>1
    <3>5. CASE ~(score[m] > score[i])
      <4>1. Best(m, i)
        BY <2>0, <3>1, <3>2, <3>3, <3>5
      <4> QED
        BY <3>2, <4>1
    <3> QED
      BY <3>4, <3>5
  <2> QED
    BY <2>1, <2>2, <2>3
<1> HIDE DEF S
<1>3. 0..n \subseteq S
  BY <1>1, <1>2, Climb
<1>4. n \in S
  BY <1>3
<1>5. Upto(n) = T
  OBVIOUS
<1> QED
  BY <1>4, <1>5 DEF S

\* Picked goes through the sequence, keeping the elements at the places.
LEMMA PickedSteps ==
  ASSUME NEW E, NEW s \in Seq(E), NEW places
  PROVE  \E p : /\ Picked(s, places) = p[Len(s)] /\ p[0] = <<>>
                /\ \A n \in 1..Len(s) : p[n] = IF n \in places THEN Append(p[n - 1], s[n]) ELSE p[n - 1]
<1>17. PICK N : N = Len(s)
  OBVIOUS
<1> DEFINE g == [n \in 1..N |-> [w \in Seq(E) |-> IF n \in places THEN Append(w, s[n]) ELSE w]]
           Is(p) == p = [n \in 0..N |-> IF n = 0 THEN <<>>
                                        ELSE IF n \in places THEN Append(p[n - 1], s[n]) ELSE p[n - 1]]
<1>1. N \in Nat /\ \A n \in 1..N : s[n] \in E
  BY <1>17
<1>2. g \in [1..N -> [Seq(E) -> Seq(E)]]
  BY <1>1
<1>3. \A n \in 1..N : \A w \in Seq(E) : g[n][w] = IF n \in places THEN Append(w, s[n]) ELSE w
  OBVIOUS
<1>4. <<>> \in Seq(E)
  OBVIOUS
<1>14. \E W, w0 : W = Seq(E) /\ w0 = <<>>
  OBVIOUS
<1>15. PICK W, w0 : W = Seq(E) /\ w0 = <<>>
  BY <1>14
<1>16. PICK G : G = g
  OBVIOUS
<1> HIDE DEF g
<1>11. G \in [1..N -> [W -> W]] /\ w0 \in W
  BY <1>2, <1>4, <1>15, <1>16
<1>12. Iterated(W, w0, N, G)
  BY <1>1, <1>11, Iterates
<1>5. PICK f \in [0..N -> Seq(E)] : f[0] = <<>> /\ \A n \in 1..N : f[n] = g[n][f[n - 1]]
  BY <1>12, <1>15, <1>16 DEF Iterated
<1>6. \A n \in 0..N : f[n] = IF n = 0 THEN <<>>
                             ELSE IF n \in places THEN Append(f[n - 1], s[n]) ELSE f[n - 1]
  <2>1. ASSUME NEW n \in 1..N
        PROVE  f[n] = IF n \in places THEN Append(f[n - 1], s[n]) ELSE f[n - 1]
    <3>1. n - 1 \in 0..N
      BY <1>1
    <3>2. f[n - 1] \in Seq(E)
      BY <1>5, <3>1
    <3> QED
      BY <1>3, <1>5, <3>2
  <2>2. \A n \in 0..N : n # 0 => n \in 1..N
    BY <1>1
  <2> QED
    BY <1>5, <2>1, <2>2
<1>7. Is(f)
  BY <1>5, <1>6
<1>8. Is(CHOOSE p : Is(p))
  BY <1>7
<1>9. PICK p : p = (CHOOSE q : Is(q)) /\ Is(p)
  BY <1>8
<1>10. Picked(s, places) = p[Len(s)]
  BY <1>9, <1>17 DEF Picked
<1>13. p[0] = <<>> /\ \A n \in 1..N : p[n] = IF n \in places THEN Append(p[n - 1], s[n]) ELSE p[n - 1]
  <2>1. p = [n \in 0..N |-> IF n = 0 THEN <<>>
                            ELSE IF n \in places THEN Append(p[n - 1], s[n]) ELSE p[n - 1]]
    BY <1>9
  <2>2. \A n \in 0..N : p[n] = IF n = 0 THEN <<>>
                               ELSE IF n \in places THEN Append(p[n - 1], s[n]) ELSE p[n - 1]
    BY <2>1
  <2>3. 0 \in 0..N /\ \A n \in 1..N : n \in 0..N /\ n # 0
    BY <1>1
  <2> QED
    BY <2>2, <2>3
<1> QED
  BY <1>10, <1>13, <1>17
=============================================================================
