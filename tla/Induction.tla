----------------------------- MODULE Induction ------------------------------
(***************************************************************************)
(* Induction over data, in a form that needs no operator parameter: over   *)
(* a set of naturals.  With it, functions that are defined by recursion    *)
(* exist, so that their definitions can be unfolded: iterations along a    *)
(* sequence, and sums over a finite set.                                   *)
(***************************************************************************)
EXTENDS WellFoundedInduction, FiniteSetTheorems, SequenceTheorems, SequencesExt, TLAPS

(* Division with remainder.                                                *)
LEMMA DivSplit ==
  ASSUME NEW x \in Int, NEW b \in Nat \ {0}
  PROVE  /\ x \div b \in Int /\ x % b \in 0 .. b - 1
         /\ x = b * (x \div b) + (x % b)
  BY SMT

(* A set of naturals that is not empty has a least element.                *)
LEMMA LeastNat ==
  ASSUME NEW T, T \subseteq Nat, T # {}
  PROVE  \E x \in T : \A y \in T : x <= y
<1> DEFINE R == {ss \in Nat \X Nat : ss[1] < ss[2]}
<1>1. IsWellFoundedOn(R, Nat)
  BY NatLessThanWellFounded DEF OpToRel
<1> HIDE DEF R
<1>2. PICK x \in T : \A y \in T : ~(<<y, x>> \in R)
  BY <1>1, WFMin
<1>3. \A y \in T : ~(<<y, x>>[1] < <<y, x>>[2])
  BY <1>2 DEF R
<1>4. QED BY <1>3

LEMMA Inductively ==
  ASSUME NEW S, 0 \in S, \A n \in Nat : n \in S => n + 1 \in S
  PROVE  \A n \in Nat : n \in S
<1> SUFFICES ASSUME NEW m \in Nat, m \notin S
             PROVE  FALSE
  OBVIOUS
<1>1. PICK n \in {k \in Nat : k \notin S} : \A k \in {k \in Nat : k \notin S} : n <= k
  BY LeastNat
<1>2. n \in Nat /\ n # 0 /\ n \notin S
  BY <1>1
<1>3. n - 1 \in Nat /\ n - 1 \in S
  BY <1>1, <1>2
<1>4. QED BY <1>2, <1>3

(* An iteration along 1 .. N exists.                                       *)
LEMMA Iterates ==
  ASSUME NEW S, NEW c \in S, NEW N \in Nat, NEW step \in [1 .. N -> [S -> S]]
  PROVE  \E g \in [0 .. N -> S] : g[0] = c /\ \A i \in 1 .. N : g[i] = step[i][g[i - 1]]
<1> DEFINE Upto(g, n) == g \in [0 .. n -> S] /\ g[0] = c /\ \A i \in 1 .. n : g[i] = step[i][g[i - 1]]
           T == {n \in Nat : n <= N => \E g : Upto(g, n)}
<1>1. 0 \in T
  <2>1. Upto([i \in 0 .. 0 |-> c], 0)
    OBVIOUS
  <2>2. QED BY <2>1
<1>2. ASSUME NEW n \in Nat, n \in T
      PROVE  n + 1 \in T
  <2> SUFFICES ASSUME n + 1 <= N
               PROVE  \E g : Upto(g, n + 1)
    OBVIOUS
  <2>1. PICK g : Upto(g, n)
    BY <1>2
  <2> DEFINE h == [i \in 0 .. n + 1 |-> IF i = n + 1 THEN step[n + 1][g[n]] ELSE g[i]]
  <2>2. g[n] \in S /\ n + 1 \in 1 .. N
    BY <2>1
  <2>3. step[n + 1][g[n]] \in S
    BY <2>2
  <2>4. h \in [0 .. n + 1 -> S] /\ h[0] = c
    BY <2>1, <2>3
  <2>5. ASSUME NEW i \in 1 .. n + 1
        PROVE  h[i] = step[i][h[i - 1]]
    <3>1. h[i - 1] = g[i - 1]
      OBVIOUS
    <3>2. CASE i = n + 1
      BY <3>1, <3>2
    <3>3. CASE i # n + 1
      BY <2>1, <3>1, <3>3
    <3>4. QED BY <3>2, <3>3
  <2>6. QED BY <2>4, <2>5
<1> HIDE DEF T
<1>3. N \in T
  BY <1>1, <1>2, Inductively
<1>4. QED BY <1>3 DEF T

-----------------------------------------------------------------------------
(* Folds over a finite set: what is added is picked by a function of the   *)
(* set that is left.                                                       *)
LEMMA Removed ==
  ASSUME NEW s, IsFiniteSet(s), NEW x \in s
  PROVE  /\ IsFiniteSet(s \ {x}) /\ Cardinality(s) \in Nat /\ Cardinality(s \ {x}) \in Nat
         /\ Cardinality(s \ {x}) = Cardinality(s) - 1
  BY FS_RemoveElement, FS_CardinalityType

LEMMA Added ==
  ASSUME NEW s, IsFiniteSet(s), NEW x, x \notin s
  PROVE  IsFiniteSet(s \cup {x}) /\ Cardinality(s \cup {x}) = Cardinality(s) + 1
  BY FS_AddElement

(* A finite set of naturals is bounded.                                    *)
LEMMA Bounded ==
  ASSUME NEW S, S \subseteq Nat, IsFiniteSet(S)
  PROVE  \E N \in Nat : \A x \in S : x <= N
<1> DEFINE T == {n \in Nat : \A s \in SUBSET S : Cardinality(s) = n => \E N \in Nat : \A x \in s : x <= N}
<1>1. \A s \in SUBSET S : IsFiniteSet(s)
  BY FS_Subset
<1>2. 0 \in T
  <2>1. \A s \in SUBSET S : Cardinality(s) = 0 => s = {}
    BY <1>1, FS_EmptySet
  <2>2. QED BY <2>1
<1>3. ASSUME NEW n \in Nat, n \in T
      PROVE  n + 1 \in T
  <2> SUFFICES ASSUME NEW s \in SUBSET S, Cardinality(s) = n + 1
               PROVE  \E N \in Nat : \A x \in s : x <= N
    OBVIOUS
  <2>1. s # {}
    BY FS_EmptySet
  <2>0. PICK y \in s : TRUE
    BY <2>1
  <2>2. Cardinality(s \ {y}) = n
    BY <1>1, Removed
  <2>3. s \ {y} \in SUBSET S
    OBVIOUS
  <2>4. PICK M \in Nat : \A x \in s \ {y} : x <= M
    BY <1>3, <2>2, <2>3
  <2>5. \A x \in s : x <= (IF M < y THEN y ELSE M)
    BY <2>4
  <2>6. QED BY <2>4, <2>5
<1>4. \A n \in Nat : n \in T
  <2> HIDE DEF T
  <2>1. QED BY <1>2, <1>3, Inductively
<1>5. Cardinality(S) \in Nat
  BY FS_CardinalityType
<1>6. QED BY <1>4, <1>5

Picks(pick, D) == \A s \in SUBSET D : s # {} => pick[s] \in s
Steps(D, V) == [D -> [V -> V]]
FoldOf(g, D, V, c, pick, step) ==
  /\ g \in [SUBSET D -> V] /\ g[{}] = c
  /\ \A s \in SUBSET D : s # {} => g[s] = step[pick[s]][g[s \ {pick[s]}]]

LEMMA SetIterates ==
  ASSUME NEW D, IsFiniteSet(D), NEW V, NEW c \in V,
         NEW pick, Picks(pick, D), NEW step, step \in Steps(D, V)
  PROVE  \E g : FoldOf(g, D, V, c, pick, step)
<1> DEFINE Small(n) == {s \in SUBSET D : Cardinality(s) <= n}
           Upto(g, n) == /\ g \in [Small(n) -> V] /\ g[{}] = c
                         /\ \A s \in Small(n) : s # {} => g[s] = step[pick[s]][g[s \ {pick[s]}]]
           T == {n \in Nat : \E g : Upto(g, n)}
<1> USE DEF Picks, Steps
<1>1. \A s \in SUBSET D : IsFiniteSet(s) /\ Cardinality(s) \in Nat /\ Cardinality(s) <= Cardinality(D)
  BY FS_Subset, FS_CardinalityType
<1>2. {} \in SUBSET D /\ Cardinality({}) = 0
  BY FS_EmptySet
<1>3. \A s \in SUBSET D : Cardinality(s) = 0 => s = {}
  BY <1>1, FS_EmptySet
<1>4. 0 \in T
  <2>1. \A s : s \in Small(0) <=> s = {}
    <3>1. \A s \in SUBSET D : Cardinality(s) <= 0 <=> Cardinality(s) = 0
      BY <1>1
    <3>2. QED BY <1>2, <1>3, <3>1
  <2> HIDE DEF Small
  <2>2. Upto([s \in Small(0) |-> c], 0)
    BY <2>1
  <2>3. QED BY <2>2
<1>5. ASSUME NEW n \in Nat, n \in T
      PROVE  n + 1 \in T
  <2>1. PICK g : Upto(g, n)
    BY <1>5
  <2> DEFINE h == [s \in Small(n + 1) |-> IF s \in Small(n) THEN g[s]
                                          ELSE step[pick[s]][g[s \ {pick[s]}]]]
  <2>2. \A s \in Small(n + 1) : s # {} => s \ {pick[s]} \in Small(n) /\ pick[s] \in D
    <3>1. TAKE s \in Small(n + 1)
    <3>2. HAVE s # {}
    <3>3. pick[s] \in s /\ IsFiniteSet(s) /\ Cardinality(s) <= n + 1
      BY <1>1, <3>2
    <3>4. Cardinality(s \ {pick[s]}) = Cardinality(s) - 1 /\ Cardinality(s) \in Nat
      BY <3>3, Removed
    <3>5. s \ {pick[s]} \in SUBSET D /\ Cardinality(s \ {pick[s]}) <= n
      BY <3>3, <3>4
    <3>6. QED BY <3>3, <3>5
  <2>3. {} \in Small(n) /\ \A s \in Small(n) : s \in Small(n + 1)
    BY <1>1, <1>2
  <2> HIDE DEF Small
  <2>4. ASSUME NEW s \in Small(n + 1)
        PROVE  h[s] \in V
    <3>1. CASE s \in Small(n)
      BY <2>1, <3>1
    <3>2. CASE s \notin Small(n)
      <4>1. s # {} /\ s \ {pick[s]} \in Small(n) /\ pick[s] \in D
        BY <2>2, <2>3, <3>2
      <4>2. g[s \ {pick[s]}] \in V
        BY <2>1, <4>1
      <4>3. step[pick[s]] \in [V -> V]
        BY <4>1
      <4>4. step[pick[s]][g[s \ {pick[s]}]] \in V
        BY <4>2, <4>3
      <4>5. QED BY <3>2, <4>4
    <3>3. QED BY <3>1, <3>2
  <2>5. h[{}] = c
    BY <2>1, <2>3
  <2>6. ASSUME NEW s \in Small(n + 1), s # {}
        PROVE  h[s] = step[pick[s]][h[s \ {pick[s]}]]
    <3>1. h[s \ {pick[s]}] = g[s \ {pick[s]}]
      BY <2>2, <2>3, <2>6
    <3>2. CASE s \in Small(n)
      <4>1. g[s] = step[pick[s]][g[s \ {pick[s]}]]
        BY <2>1, <2>6, <3>2
      <4>2. QED BY <3>1, <3>2, <4>1
    <3>3. CASE s \notin Small(n)
      BY <3>1, <3>3
    <3>4. QED BY <3>2, <3>3
  <2>7. h \in [Small(n + 1) -> V]
    BY <2>4
  <2> HIDE DEF h
  <2>8. Upto(h, n + 1)
    BY <2>5, <2>6, <2>7
  <2> HIDE DEF Upto
  <2>9. QED BY <2>8
<1> HIDE DEF T
<1>6. \A n \in Nat : n \in T
  BY <1>4, <1>5, Inductively
<1>7. PICK g : Upto(g, Cardinality(D))
  BY <1>1, <1>6 DEF T
<1>8. Small(Cardinality(D)) = SUBSET D
  BY <1>1
<1>9. QED BY <1>7, <1>8 DEF FoldOf

-----------------------------------------------------------------------------
(* Sequences: the subsequence of the members of a set, as a fold.          *)
LEMMA MaxBelow ==
  ASSUME NEW N \in Nat, NEW s \in SUBSET (0 .. N), s # {}
  PROVE  Max(s) \in s /\ \A y \in s : y <= Max(s)
<1>0. \A y \in s : y \in Nat /\ y <= N
  OBVIOUS
<1>1. PICK z \in {N - x : x \in s} : \A y \in {N - x : x \in s} : z <= y
  <2>1. \A x \in s : N - x \in Nat
    BY <1>0
  <2>2. {N - x : x \in s} \subseteq Nat /\ {N - x : x \in s} # {}
    BY <2>1
  <2>3. QED BY <2>2, LeastNat
<1>2. PICK x \in s : z = N - x
  BY <1>1
<1>3. \A y \in s : x >= y
  <2>1. TAKE y \in s
  <2>2. N - x <= N - y
    BY <1>1, <1>2
  <2>3. QED BY <1>0, <2>2
<1>4. QED BY <1>3 DEF Max

LEMMA MaxFinite ==
  ASSUME NEW s, s \subseteq Nat, IsFiniteSet(s), s # {}
  PROVE  Max(s) \in s /\ \A y \in s : y <= Max(s)
<1>1. PICK N \in Nat : \A x \in s : x <= N
  BY Bounded
<1>2. s \in SUBSET (0 .. N)
  BY <1>1
<1>3. QED BY <1>2, MaxBelow

(* The largest value of a function, or 0.                                  *)
LEMMA MaxRange ==
  ASSUME NEW D, IsFiniteSet(D), NEW f \in [D -> Nat]
  PROVE  LET top == Max({0} \cup {f[i] : i \in D})
         IN  /\ top \in Nat /\ top \in {0} \cup {f[i] : i \in D}
             /\ \A i \in D : f[i] <= top
<1> DEFINE R == {f[i] : i \in D}
           S == R \cup {0}
<1>1. f \in Surjection(D, R)
  BY DEF Surjection
<1>2. IsFiniteSet(R)
  BY <1>1, FS_Surjection
<1>3. IsFiniteSet(S) /\ S \subseteq Nat /\ S # {} /\ S = {0} \cup R
  BY <1>2, FS_AddElement
<1>4. Max(S) \in S /\ \A y \in S : y <= Max(S)
  BY <1>3, MaxFinite
<1>5. QED BY <1>3, <1>4

LEMMA HasMax ==
  ASSUME NEW N \in Nat, NEW s \in SUBSET (1 .. N), s # {}
  PROVE  Max(s) \in s /\ \A y \in s : y <= Max(s)
<1>1. s \in SUBSET (0 .. N)
  OBVIOUS
<1>2. QED BY <1>1, MaxBelow

LEMMA MaxUpto ==
  ASSUME NEW k \in Nat \ {0}
  PROVE  Max(1 .. k) = k /\ (1 .. k) \ {Max(1 .. k)} = 1 .. k - 1
<1>1. 1 .. k \in SUBSET (1 .. k) /\ k \in 1 .. k
  OBVIOUS
<1>2. Max(1 .. k) \in 1 .. k /\ \A y \in 1 .. k : y <= Max(1 .. k)
  BY <1>1, HasMax
<1>3. Max(1 .. k) = k
  BY <1>1, <1>2
<1>4. QED BY <1>3

MaxOf(D) == [t \in SUBSET D |-> Max(t)]

LEMMA MaxIterates ==
  ASSUME NEW N \in Nat, NEW V, NEW c \in V, NEW step, step \in Steps(1 .. N, V)
  PROVE  \E g : FoldOf(g, 1 .. N, V, c, MaxOf(1 .. N), step)
<1>1. IsFiniteSet(1 .. N)
  BY FS_Interval
<1>2. Picks(MaxOf(1 .. N), 1 .. N)
  BY HasMax DEF Picks, MaxOf
<1>3. QED BY <1>1, <1>2, SetIterates

Only(s, S) == FoldLeft(LAMBDA kept, m : IF m \in S THEN Append(kept, m) ELSE kept, <<>>, s)

(* What it keeps of the first k elements.                                  *)
Keeps(p, X, s, S) ==
  /\ p \in [0 .. Len(s) -> Seq(X)] /\ p[0] = <<>>
  /\ \A k \in 1 .. Len(s) : p[k] = IF s[k] \in S THEN Append(p[k - 1], s[k]) ELSE p[k - 1]

LEMMA OnlyKeeps ==
  ASSUME NEW X, NEW s \in Seq(X), NEW S
  PROVE  \E p : Keeps(p, X, s, S) /\ Only(s, S) = p[Len(s)]
<1> DEFINE D == 1 .. Len(s)
           Step(i, v) == IF s[i] \in S THEN Append(v, s[i]) ELSE v
           Fold(g) == [t \in SUBSET D |-> IF t = {} THEN <<>> ELSE Step(Max(t), g[t \ {Max(t)}])]
           iter == CHOOSE g : g = Fold(g)
<1>1. /\ Len(s) \in Nat /\ DOMAIN s = D /\ IsFiniteSet(D) /\ \A i \in D : s[i] \in X
      /\ <<>> \in Seq(X)
  BY FS_Interval
<1>2. Only(s, S) = iter[D]
  BY <1>1 DEF Only, FoldLeft, MapThenFoldSet
<1>3. PICK g \in [SUBSET D -> Seq(X)] :
        /\ g[{}] = <<>>
        /\ \A t \in SUBSET D : t # {} => g[t] = Step(Max(t), g[t \ {Max(t)}])
  <2> DEFINE step == [i \in D |-> [v \in Seq(X) |-> Step(i, v)]]
  <2>1. step \in Steps(D, Seq(X))
    BY <1>1 DEF Steps
  <2> HIDE DEF step
  <2>2. PICK g : FoldOf(g, D, Seq(X), <<>>, MaxOf(D), step)
    BY <1>1, <2>1, MaxIterates
  <2>3. /\ g \in [SUBSET D -> Seq(X)] /\ g[{}] = <<>>
        /\ \A t \in SUBSET D : t # {} => g[t] = step[Max(t)][g[t \ {Max(t)}]]
    BY <2>2 DEF FoldOf, MaxOf
  <2>4. ASSUME NEW t \in SUBSET D, t # {}
        PROVE  g[t] = Step(Max(t), g[t \ {Max(t)}])
    <3>1. Max(t) \in D
      BY <1>1, <2>4, HasMax
    <3>2. g[t \ {Max(t)}] \in Seq(X)
      BY <2>3
    <3>3. step[Max(t)][g[t \ {Max(t)}]] = Step(Max(t), g[t \ {Max(t)}])
      BY <3>1, <3>2 DEF step
    <3>4. QED BY <2>3, <2>4, <3>3
  <2>5. QED BY <2>3, <2>4
<1>4. g = Fold(g)
  BY <1>3
<1>5. iter = Fold(iter)
  BY <1>4
<1> HIDE DEF iter
<1> DEFINE p == [k \in 0 .. Len(s) |-> iter[1 .. k]]
<1>6. iter[{}] = <<>> /\ 1 .. 0 = {}
  BY <1>5
<1>7. \A k \in 1 .. Len(s) : iter[1 .. k] = Step(k, iter[1 .. k - 1])
  <2> TAKE k \in 1 .. Len(s)
  <2>1. k \in Nat \ {0} /\ k <= Len(s) /\ k \in 1 .. k
    BY <1>1
  <2>2. 1 .. k \in SUBSET D /\ 1 .. k # {}
    <3>1. Len(s) \in Nat
      BY <1>1
    <3>2. QED BY <2>1, <3>1
  <2>3. iter[1 .. k] = Step(Max(1 .. k), iter[(1 .. k) \ {Max(1 .. k)}])
    BY <1>5, <2>2
  <2>4. QED BY <2>1, <2>3, MaxUpto
<1>8. p[0] = <<>> /\ \A k \in 1 .. Len(s) : p[k] = Step(k, p[k - 1])
  BY <1>1, <1>6, <1>7
<1> HIDE DEF p
<1>9. \A k \in Nat : k <= Len(s) => p[k] \in Seq(X)
  <2> DEFINE T == {k \in Nat : k <= Len(s) => p[k] \in Seq(X)}
  <2>1. 0 \in T
    BY <1>1, <1>8
  <2>2. ASSUME NEW k \in Nat, k \in T
        PROVE  k + 1 \in T
    <3>1. SUFFICES ASSUME k + 1 <= Len(s)
                   PROVE  p[k + 1] \in Seq(X)
      OBVIOUS
    <3>2. k + 1 \in D /\ (k + 1) - 1 = k /\ p[k] \in Seq(X)
      BY <1>1, <2>2, <3>1
    <3>3. s[k + 1] \in X /\ p[k + 1] = Step(k + 1, p[k])
      BY <1>1, <1>8, <3>2
    <3>4. QED BY <3>2, <3>3
  <2> HIDE DEF T
  <2>3. \A k \in Nat : k \in T
    BY <2>1, <2>2, Inductively
  <2>4. QED BY <2>3 DEF T
<1>10. p \in [0 .. Len(s) -> Seq(X)]
  BY <1>1, <1>9 DEF p
<1>11. Only(s, S) = p[Len(s)]
  BY <1>1, <1>2 DEF p
<1>12. QED BY <1>8, <1>10, <1>11 DEF Keeps

LEMMA Juxtaposed ==
  ASSUME NEW X
  PROVE  /\ \A v \in Seq(X) : v \o <<>> = v /\ <<>> \o v = v
         /\ \A v, w \in Seq(X) : \A m \in X : Append(v \o w, m) = v \o Append(w, m)
         /\ \A v \in Seq(X) : \A m \in X : v \o <<m>> = Append(v, m)
  OBVIOUS

(* A member that passes from one sequence to the one before it.            *)
PassesOn(b, p, d, m) ==
  /\ b \o p \o Append(d, m) = Append(b \o p \o d, m)
  /\ b \o Append(p, m) \o d = b \o p \o (<<m>> \o d)
  /\ Append(b, m) \o p \o d = b \o (<<m>> \o p) \o d
  /\ Append(b, m) \o d = b \o (<<m>> \o d)

LEMMA Passed ==
  ASSUME NEW X, NEW b \in Seq(X), NEW p \in Seq(X), NEW d \in Seq(X), NEW m \in X
  PROVE  PassesOn(b, p, d, m)
<1> DEFINE bp == b \o p
<1>0. bp \in Seq(X)
  OBVIOUS
<1> HIDE DEF bp
<1>1. Append(bp \o d, m) = bp \o Append(d, m)
  BY <1>0, Juxtaposed
<1>2. <<m>> \in Seq(X) /\ Append(p, m) = p \o <<m>> /\ Append(b, m) = b \o <<m>>
  OBVIOUS
<1>3. \A u, v, w \in Seq(X) : (u \o v) \o w = u \o (v \o w)
  OBVIOUS
<1>4. \A u, v \in Seq(X) : u \o v \in Seq(X)
  OBVIOUS
<1> DEFINE o == <<m>>
<1> HIDE DEF o
<1>5. o \in Seq(X) /\ Append(p, m) = p \o o /\ Append(b, m) = b \o o
  BY <1>2 DEF o
<1>6. b \o (p \o o) \o d = b \o p \o (o \o d)
  <2>1. b \o (p \o o) = bp \o o
    BY <1>3, <1>5 DEF bp
  <2>2. (bp \o o) \o d = bp \o (o \o d)
    BY <1>0, <1>3, <1>5
  <2>3. QED BY <2>1, <2>2 DEF bp
<1>7. (b \o o) \o p \o d = b \o (o \o p) \o d
  <2>1. (b \o o) \o p = b \o (o \o p)
    BY <1>3, <1>5
  <2>2. QED BY <2>1
<1>8. (b \o o) \o d = b \o (o \o d)
  BY <1>3, <1>4, <1>5
<1>9. QED BY <1>1, <1>5, <1>6, <1>7, <1>8 DEF o, bp, PassesOn

LEMMA KeepsType ==
  ASSUME NEW X, NEW s \in Seq(X), NEW S, NEW p, Keeps(p, X, s, S), NEW k \in 0 .. Len(s)
  PROVE  p[k] \in Seq(X)
<1>1. p \in [0 .. Len(s) -> Seq(X)]
  BY DEF Keeps
<1>2. QED BY <1>1

Splits(X, s, t, S) == /\ Only(s, S) \in Seq(X) /\ Only(t, S) \in Seq(X)
                      /\ Only(s \o t, S) = Only(s, S) \o Only(t, S)

LEMMA OnlyConcat ==
  ASSUME NEW X, NEW s \in Seq(X), NEW t \in Seq(X), NEW S
  PROVE  Splits(X, s, t, S)
<1> DEFINE u == s \o t
<1>1. PICK p : Keeps(p, X, s, S) /\ Only(s, S) = p[Len(s)]
  BY OnlyKeeps
<1>2. PICK q : Keeps(q, X, t, S) /\ Only(t, S) = q[Len(t)]
  BY OnlyKeeps
<1>3. /\ u \in Seq(X) /\ Len(u) = Len(s) + Len(t) /\ Len(s) \in Nat /\ Len(t) \in Nat
      /\ \A i \in 1 .. Len(s) : u[i] = s[i] /\ s[i] \in X
      /\ \A i \in 1 .. Len(t) : u[Len(s) + i] = t[i] /\ t[i] \in X
  OBVIOUS
<1> HIDE DEF u
<1>4. PICK r : Keeps(r, X, u, S) /\ Only(u, S) = r[Len(u)]
  BY <1>3, OnlyKeeps
<1>8. p[Len(s)] \in Seq(X) /\ q[Len(t)] \in Seq(X)
  <2>1. Len(s) \in 0 .. Len(s) /\ Len(t) \in 0 .. Len(t)
    BY <1>3
  <2>2. QED BY <1>1, <1>2, <2>1, KeepsType
<1>5. \A k \in Nat : k <= Len(s) => r[k] = p[k]
  <2> DEFINE T == {k \in Nat : k <= Len(s) => r[k] = p[k]}
  <2>1. 0 \in T
    BY <1>1, <1>4 DEF Keeps
  <2>2. ASSUME NEW k \in Nat, k \in T
        PROVE  k + 1 \in T
    <3> SUFFICES ASSUME k + 1 <= Len(s)
                 PROVE  r[k + 1] = p[k + 1]
      OBVIOUS
    <3>1. k + 1 \in 1 .. Len(s) /\ k + 1 \in 1 .. Len(u) /\ (k + 1) - 1 = k
      BY <1>3
    <3>2. r[k] = p[k] /\ u[k + 1] = s[k + 1]
      BY <1>3, <2>2, <3>1
    <3>3. QED BY <1>1, <1>4, <3>1, <3>2 DEF Keeps
  <2> HIDE DEF T
  <2>3. \A k \in Nat : k \in T
    BY <2>1, <2>2, Inductively
  <2>4. QED BY <2>3 DEF T
<1>6. PICK n, m, v : n = Len(s) /\ m = Len(t) /\ v = p[n]
  OBVIOUS
<1>7. /\ n \in Nat /\ m \in Nat /\ v \in Seq(X) /\ Len(u) = n + m /\ r[n] = v
      /\ \A i \in 1 .. m : u[n + i] = t[i] /\ t[i] \in X
      /\ q[0] = <<>> /\ \A i \in 0 .. m : q[i] \in Seq(X)
  <2>1. q[0] = <<>> /\ \A i \in 0 .. Len(t) : q[i] \in Seq(X)
    BY <1>2, KeepsType DEF Keeps
  <2>2. n \in Nat /\ m \in Nat /\ v \in Seq(X) /\ Len(u) = n + m
    BY <1>3, <1>6, <1>8
  <2>3. r[n] = v
    BY <1>5, <1>6, <2>2
  <2>4. \A i \in 1 .. m : u[n + i] = t[i] /\ t[i] \in X
    BY <1>3, <1>6
  <2>5. QED BY <1>6, <2>1, <2>2, <2>3, <2>4
<1>9. \A i \in 1 .. m : r[n + i] = IF t[i] \in S THEN Append(r[n + (i - 1)], t[i]) ELSE r[n + (i - 1)]
  <2>1. TAKE i \in 1 .. m
  <2>2. n + i \in 1 .. Len(u) /\ (n + i) - 1 = n + (i - 1) /\ u[n + i] = t[i]
    BY <1>7
  <2>3. r[n + i] = IF u[n + i] \in S THEN Append(r[(n + i) - 1], u[n + i]) ELSE r[(n + i) - 1]
    BY <1>4, <2>2 DEF Keeps
  <2>4. QED BY <2>2, <2>3
<1>10. \A i \in 1 .. m : q[i] = IF t[i] \in S THEN Append(q[i - 1], t[i]) ELSE q[i - 1]
  BY <1>2, <1>6 DEF Keeps
<1> DEFINE w == [k \in 0 .. m |-> r[n + k]]
<1>11. /\ w[0] = v
       /\ \A i \in 1 .. m : w[i] = IF t[i] \in S THEN Append(w[i - 1], t[i]) ELSE w[i - 1]
  <2>1. \A i \in 0 .. m : w[i] = r[n + i]
    OBVIOUS
  <2>2. \A i \in 1 .. m : i \in 0 .. m /\ i - 1 \in 0 .. m
    BY <1>7
  <2>3. n + 0 = n /\ 0 \in 0 .. m
    BY <1>7
  <2>4. QED BY <1>7, <1>9, <2>1, <2>2, <2>3
<1>12. w[m] = r[n + m]
  BY <1>7
<1> HIDE DEF w
<1>13. \A k \in Nat : k <= m => w[k] = v \o q[k]
  <2> DEFINE T == {k \in Nat : k <= m => w[k] = v \o q[k]}
  <2>1. 0 \in T
    <3>1. v \o <<>> = v
      BY <1>7, Juxtaposed
    <3>2. QED BY <1>7, <1>11, <3>1
  <2>2. ASSUME NEW k \in Nat, k \in T
        PROVE  k + 1 \in T
    <3> SUFFICES ASSUME k + 1 <= m
                 PROVE  w[k + 1] = v \o q[k + 1]
      OBVIOUS
    <3>1. k + 1 \in 1 .. m /\ (k + 1) - 1 = k /\ k \in 0 .. m
      BY <1>7
    <3>2. w[k] = v \o q[k] /\ t[k + 1] \in X /\ q[k] \in Seq(X)
      BY <1>7, <2>2, <3>1
    <3>3. w[k + 1] = IF t[k + 1] \in S THEN Append(v \o q[k], t[k + 1]) ELSE v \o q[k]
      BY <1>11, <3>1, <3>2
    <3>4. q[k + 1] = IF t[k + 1] \in S THEN Append(q[k], t[k + 1]) ELSE q[k]
      BY <1>10, <3>1
    <3>5. Append(v \o q[k], t[k + 1]) = v \o Append(q[k], t[k + 1])
      BY <1>7, <3>2, Juxtaposed
    <3>6. QED BY <3>3, <3>4, <3>5
  <2> HIDE DEF T
  <2>3. \A k \in Nat : k \in T
    BY <2>1, <2>2, Inductively
  <2>4. QED BY <2>3 DEF T
<1>14. r[n + m] = v \o q[m]
  <2>1. m \in Nat /\ m <= m
    BY <1>7
  <2>2. QED BY <1>12, <1>13, <2>1
<1>15. QED BY <1>1, <1>2, <1>4, <1>6, <1>7, <1>8, <1>14 DEF u, Splits

LEMMA OnlyOne ==
  ASSUME NEW S, NEW m
  PROVE  /\ Only(<<>>, S) = <<>>
         /\ Only(<<m>>, S) = IF m \in S THEN <<m>> ELSE <<>>
<1>1. <<>> \in Seq({m}) /\ Len(<<>>) = 0 /\ <<m>> \in Seq({m}) /\ Len(<<m>>) = 1 /\ <<m>>[1] = m
  OBVIOUS
<1>2. Only(<<>>, S) = <<>>
  <2>1. PICK p : Keeps(p, {m}, <<>>, S) /\ Only(<<>>, S) = p[Len(<<>>)]
    BY <1>1, OnlyKeeps
  <2>2. QED BY <1>1, <2>1 DEF Keeps
<1>3. PICK p : Keeps(p, {m}, <<m>>, S) /\ Only(<<m>>, S) = p[1]
  BY <1>1, OnlyKeeps
<1>4. p[1] = IF m \in S THEN Append(<<>>, m) ELSE <<>>
  <2>1. 1 \in 1 .. Len(<<m>>) /\ 1 - 1 = 0
    BY <1>1
  <2>2. QED BY <1>1, <1>3, <2>1 DEF Keeps
<1>5. QED BY <1>2, <1>3, <1>4

LEMMA OnlyNone == \A S : Only(<<>>, S) = <<>>
  BY OnlyOne

(* At the end and at the front.                                            *)
EndingStep(X, s, S) ==
  \A m \in X : Only(Append(s, m), S) = IF m \in S THEN Append(Only(s, S), m) ELSE Only(s, S)
LeadingStep(X, s, S) ==
  s # <<>> => /\ Tail(s) \in Seq(X) /\ Head(s) \in X /\ Only(Tail(s), S) \in Seq(X)
              /\ Only(s, S) = IF Head(s) \in S THEN <<Head(s)>> \o Only(Tail(s), S)
                             ELSE Only(Tail(s), S)

LEMMA OnlyEnds ==
  ASSUME NEW X, NEW s \in Seq(X), NEW S
  PROVE  Only(s, S) \in Seq(X) /\ EndingStep(X, s, S) /\ LeadingStep(X, s, S)
<1>0. \A a, b \in Seq(X) : Splits(X, a, b, S)
  BY OnlyConcat
<1>1. Only(s, S) \in Seq(X)
  BY <1>0 DEF Splits
<1>2. ASSUME NEW m \in X
      PROVE  Only(Append(s, m), S) = IF m \in S THEN Append(Only(s, S), m) ELSE Only(s, S)
  <2> DEFINE t == <<m>>
  <2>1. t \in Seq(X) /\ Append(s, m) = s \o t
    OBVIOUS
  <2> HIDE DEF t
  <2>2. Only(s \o t, S) = Only(s, S) \o Only(t, S)
    BY <2>1, <1>0 DEF Splits
  <2>3. Only(s, S) \o <<m>> = Append(Only(s, S), m) /\ Only(s, S) \o <<>> = Only(s, S)
    BY <1>1
  <2>4. QED BY <2>1, <2>2, <2>3, OnlyOne DEF t
<1>3. ASSUME s # <<>>
      PROVE  /\ Tail(s) \in Seq(X) /\ Head(s) \in X /\ Only(Tail(s), S) \in Seq(X)
             /\ Only(s, S) = IF Head(s) \in S THEN <<Head(s)>> \o Only(Tail(s), S)
                             ELSE Only(Tail(s), S)
  <2> DEFINE h == <<Head(s)>>
             t == Tail(s)
  <2>1. t \in Seq(X) /\ Head(s) \in X /\ h \in Seq(X)
    BY <1>3
  <2>2. s = h \o t
    BY <1>3
  <2> HIDE DEF h, t
  <2>3. Only(t, S) \in Seq(X) /\ Only(h \o t, S) = Only(h, S) \o Only(t, S)
    BY <2>1, <1>0 DEF Splits
  <2>4. <<>> \o Only(t, S) = Only(t, S)
    BY <2>3
  <2>5. Only(<<Head(s)>>, S) = IF Head(s) \in S THEN <<Head(s)>> ELSE <<>>
    BY OnlyOne
  <2>6. QED BY <2>1, <2>2, <2>3, <2>4, <2>5 DEF h, t
<1>4. QED BY <1>1, <1>2, <1>3 DEF EndingStep, LeadingStep
-----------------------------------------------------------------------------
(* A sequence from behind.                                                 *)
FromBehind(X, b) ==
  /\ Reverse(b) \in Seq(X) /\ Reverse(Reverse(b)) = b
  /\ b # <<>> => /\ Last(b) \in X /\ Front(b) \in Seq(X)
                 /\ Reverse(b) = <<Last(b)>> \o Reverse(Front(b))

LEMMA Reversed ==
  ASSUME NEW X, NEW b \in Seq(X)
  PROVE  FromBehind(X, b)
<1>1. PICK n \in Nat : n = Len(b) /\ DOMAIN b = 1 .. n /\ \A i \in 1 .. n : b[i] \in X
  OBVIOUS
<1>2. /\ Reverse(b) \in Seq(X) /\ Len(Reverse(b)) = n
      /\ \A i \in 1 .. n : Reverse(b)[i] = b[(n - i) + 1]
  <2>1. \A i \in 1 .. n : (n - i) + 1 \in 1 .. n
    BY <1>1
  <2>2. QED BY <1>1, <2>1 DEF Reverse
<1>3. Reverse(Reverse(b)) = b
  <2> DEFINE r == Reverse(b)
             rr == Reverse(r)
  <2>1. r \in Seq(X) /\ Len(r) = n /\ \A i \in 1 .. n : r[i] = b[(n - i) + 1]
    BY <1>2
  <2> HIDE DEF r
  <2>2. rr = [i \in 1 .. n |-> r[(n - i) + 1]]
    BY <2>1 DEF Reverse
  <2>3. \A i \in 1 .. n : r[(n - i) + 1] = b[i]
    <3>1. TAKE i \in 1 .. n
    <3>2. (n - i) + 1 \in 1 .. n /\ (n - ((n - i) + 1)) + 1 = i
      BY <1>1
    <3>3. QED BY <2>1, <3>2
  <2>4. rr = [i \in 1 .. n |-> b[i]]
    BY <2>2, <2>3
  <2>5. b = [i \in 1 .. n |-> b[i]]
    BY <1>1
  <2>6. QED BY <2>4, <2>5 DEF r
<1>4. ASSUME b # <<>>
      PROVE  /\ Last(b) \in X /\ Front(b) \in Seq(X)
             /\ Reverse(b) = <<Last(b)>> \o Reverse(Front(b))
  <2>1. n \in Nat \ {0} /\ n \in 1 .. n /\ n - 1 \in Nat
    BY <1>1, <1>4
  <2>2. Last(b) = b[n] /\ Last(b) \in X
    BY <1>1, <2>1 DEF Last
  <2> DEFINE f == Front(b)
             o == <<Last(b)>>
  <2>3. f \in Seq(X) /\ Len(f) = n - 1 /\ \A i \in 1 .. n - 1 : f[i] = b[i]
    BY <1>1, <2>1 DEF Front
  <2>4. o \in Seq(X) /\ Len(o) = 1 /\ o[1] = b[n]
    BY <2>2
  <2> HIDE DEF f, o
  <2> DEFINE g == Reverse(f)
  <2>5. g \in Seq(X) /\ Len(g) = n - 1 /\ \A i \in 1 .. n - 1 : g[i] = b[n - i]
    <3>1. \A i \in 1 .. n - 1 : ((n - 1) - i) + 1 = n - i /\ n - i \in 1 .. n - 1
      BY <2>1
    <3>2. g = [i \in 1 .. n - 1 |-> f[((n - 1) - i) + 1]]
      BY <2>3 DEF Reverse
    <3>3. \A i \in 1 .. n - 1 : f[((n - 1) - i) + 1] = b[n - i] /\ b[n - i] \in X
      <4>1. TAKE i \in 1 .. n - 1
      <4>2. n - i \in 1 .. n
        BY <2>1
      <4>3. QED BY <1>1, <2>3, <3>1, <4>2
    <3>4. g = [i \in 1 .. n - 1 |-> b[n - i]]
      BY <3>2, <3>3
    <3> HIDE DEF g
    <3>5. QED BY <2>1, <3>3, <3>4
  <2> HIDE DEF g
  <2>6. o \o g \in Seq(X) /\ Len(o \o g) = n
    <3>1. o \o g \in Seq(X) /\ Len(o \o g) = Len(o) + Len(g)
      BY <2>4, <2>5, ConcatProperties
    <3>2. 1 + (n - 1) = n
      BY <2>1
    <3>3. QED BY <2>4, <2>5, <3>1, <3>2
  <2>7. ASSUME NEW i \in 1 .. n
        PROVE  (o \o g)[i] = Reverse(b)[i]
    <3>1. Reverse(b)[i] = b[(n - i) + 1]
      BY <1>2
    <3>2. CASE i = 1
      <4>1. (n - i) + 1 = n
        BY <2>1, <3>2
      <4>2. (o \o g)[1] = o[1]
        BY <2>4, <2>5, <2>6, ConcatProperties
      <4>3. QED BY <2>4, <3>1, <3>2, <4>1, <4>2
    <3>3. CASE i # 1
      <4>1. i - 1 \in 1 .. n - 1 /\ n - (i - 1) = (n - i) + 1
        BY <2>1, <3>3
      <4>2. (o \o g)[i] = g[i - 1]
        <5>1. i \in 1 .. Len(o) + Len(g) /\ ~(i <= Len(o)) /\ i - Len(o) = i - 1
          BY <2>1, <2>4, <2>5, <4>1
        <5>2. \A k \in 1 .. Len(o) + Len(g) : (o \o g)[k] = IF k <= Len(o) THEN o[k] ELSE g[k - Len(o)]
          BY <2>4, <2>5, ConcatProperties
        <5>3. QED BY <5>1, <5>2
      <4>3. QED BY <2>5, <3>1, <4>1, <4>2
    <3>4. QED BY <3>2, <3>3
  <2>8. o \o g = Reverse(b)
    BY <1>2, <2>6, <2>7, SeqEqual
  <2>9. QED BY <2>2, <2>3, <2>8 DEF f, g, o
<1>5. QED BY <1>2, <1>3, <1>4 DEF FromBehind

-----------------------------------------------------------------------------
(* Induction over sequences, over a set of them.                           *)
LEMMA SeqInductively ==
  ASSUME NEW X, NEW S, <<>> \in S,
         \A s \in Seq(X) : \A m \in X : s \in S => Append(s, m) \in S
  PROVE  \A s \in Seq(X) : s \in S
<1> DEFINE T == {n \in Nat : \A s \in Seq(X) : Len(s) = n => s \in S}
<1>1. 0 \in T
  OBVIOUS
<1>2. ASSUME NEW n \in Nat, n \in T
      PROVE  n + 1 \in T
  <2> SUFFICES ASSUME NEW s \in Seq(X), Len(s) = n + 1
               PROVE  s \in S
    OBVIOUS
  <2> DEFINE f == [i \in 1 .. n |-> s[i]]
  <2>1. n + 1 \in 1 .. Len(s) /\ \A i \in 1 .. n : i \in 1 .. Len(s)
    OBVIOUS
  <2>2. f \in Seq(X) /\ Len(f) = n /\ s[n + 1] \in X
    BY <2>1
  <2>3. s = Append(f, s[n + 1])
    <3>1. Append(f, s[n + 1]) \in Seq(X) /\ Len(Append(f, s[n + 1])) = n + 1
      BY <2>2
    <3>2. ASSUME NEW i \in 1 .. n + 1
          PROVE  s[i] = Append(f, s[n + 1])[i]
      BY <2>2
    <3>3. QED BY <3>1, <3>2, SeqEqual
  <2>4. f \in S
    BY <1>2, <2>2
  <2>5. QED BY <2>2, <2>3, <2>4
<1> HIDE DEF T
<1>3. \A n \in Nat : n \in T
  BY <1>1, <1>2, Inductively
<1>4. QED BY <1>3 DEF T

(* What is kept are members of both sets; all, when nothing is outside;    *)
(* and to choose twice is to choose once.                                  *)
LEMMA OnlyInside ==
  ASSUME NEW X, NEW s \in Seq(X), NEW A
  PROVE  Only(s, A) \in Seq(X \cap A) /\ (X \subseteq A => Only(s, A) = s)
<1> DEFINE T == {t \in Seq(X) : Only(t, A) \in Seq(X \cap A) /\ (X \subseteq A => Only(t, A) = t)}
<1>1. <<>> \in T
  <2>1. \A Y : <<>> \in Seq(Y)
    OBVIOUS
  <2>2. QED BY <2>1, OnlyNone
<1>2. ASSUME NEW t \in Seq(X), NEW m \in X, t \in T
      PROVE  Append(t, m) \in T
  <2>1. EndingStep(X, t, A)
    BY OnlyEnds
  <2>2. Only(Append(t, m), A) = IF m \in A THEN Append(Only(t, A), m) ELSE Only(t, A)
    BY <2>1 DEF EndingStep
  <2>3. Only(t, A) \in Seq(X \cap A) /\ (X \subseteq A => Only(t, A) = t) /\ Append(t, m) \in Seq(X)
    BY <1>2
  <2>4. Only(Append(t, m), A) \in Seq(X \cap A)
    <3>1. CASE m \in A
      <4>1. m \in X \cap A
        BY <3>1
      <4>2. QED BY <2>2, <2>3, <3>1, <4>1
    <3>2. CASE m \notin A
      BY <2>2, <2>3, <3>2
    <3>3. QED BY <3>1, <3>2
  <2>5. X \subseteq A => Only(Append(t, m), A) = Append(t, m)
    BY <2>2, <2>3
  <2>6. QED BY <2>3, <2>4, <2>5
<1> HIDE DEF T
<1>3. s \in T
  BY <1>1, <1>2, SeqInductively
<1>4. QED BY <1>3 DEF T

LEMMA OnlyTwice ==
  ASSUME NEW X, NEW s \in Seq(X), NEW A, NEW B, X \cap B \subseteq A
  PROVE  Only(Only(s, A), B) = Only(s, B)
<1> DEFINE T == {t \in Seq(X) : Only(Only(t, A), B) = Only(t, B)}
<1>1. <<>> \in T
  BY OnlyNone
<1>2. ASSUME NEW t \in Seq(X), NEW m \in X, t \in T
      PROVE  Append(t, m) \in T
  <2>1. EndingStep(X, t, A) /\ EndingStep(X, t, B) /\ Only(t, A) \in Seq(X)
    BY OnlyEnds
  <2>2. EndingStep(X, Only(t, A), B)
    BY <2>1, OnlyEnds
  <2>3. /\ Only(Append(t, m), A) = IF m \in A THEN Append(Only(t, A), m) ELSE Only(t, A)
        /\ Only(Append(t, m), B) = IF m \in B THEN Append(Only(t, B), m) ELSE Only(t, B)
        /\ Only(Append(Only(t, A), m), B) =
             IF m \in B THEN Append(Only(Only(t, A), B), m) ELSE Only(Only(t, A), B)
    BY <2>1, <2>2 DEF EndingStep
  <2>4. m \in B => m \in A
    OBVIOUS
  <2>5. Only(Only(t, A), B) = Only(t, B) /\ Append(t, m) \in Seq(X)
    BY <1>2
  <2>6. Only(Only(Append(t, m), A), B) = Only(Append(t, m), B)
    BY <2>3, <2>4, <2>5
  <2>7. QED BY <2>5, <2>6
<1> HIDE DEF T
<1>3. s \in T
  BY <1>1, <1>2, SeqInductively
<1>4. QED BY <1>3 DEF T

(* A member of a sequence is one of its values.                            *)
LEMMA Valued ==
  ASSUME NEW X, NEW s \in Seq(X), NEW Y, \A i \in DOMAIN s : s[i] \in Y
  PROVE  s \in Seq(Y)
  OBVIOUS

-----------------------------------------------------------------------------
(* Sums over a finite set: in whatever order the elements are picked.      *)
SumOf(f, S) == MapThenSumSet(LAMBDA x : f[x], S)
Summable(f, D) == IsFiniteSet(D) /\ \A x \in D : f[x] \in Nat

PickOf(D) == [t \in SUBSET D |-> CHOOSE x \in t : TRUE]

(* Induction over the subsets of a finite set.                             *)
LEMMA BySize ==
  ASSUME NEW D, IsFiniteSet(D), NEW T, {} \in T,
         \A s \in SUBSET D : s # {} /\ (\A x \in s : s \ {x} \in T) => s \in T
  PROVE  \A s \in SUBSET D : s \in T
<1> DEFINE N == {n \in Nat : \A s \in SUBSET D : Cardinality(s) = n => s \in T}
<1>1. \A s \in SUBSET D : IsFiniteSet(s) /\ Cardinality(s) \in Nat
  BY FS_Subset, FS_CardinalityType
<1>2. 0 \in N
  <2>1. \A s \in SUBSET D : Cardinality(s) = 0 => s = {}
    BY <1>1, FS_EmptySet
  <2>2. QED BY <2>1
<1>3. ASSUME NEW n \in Nat, n \in N
      PROVE  n + 1 \in N
  <2> SUFFICES ASSUME NEW s \in SUBSET D, Cardinality(s) = n + 1
               PROVE  s \in T
    OBVIOUS
  <2>1. Cardinality({}) = 0
    BY FS_EmptySet
  <2>2. s # {}
    BY <2>1
  <2>3. \A x \in s : Cardinality(s \ {x}) = n /\ s \ {x} \in SUBSET D
    BY <1>1, Removed
  <2>4. QED BY <1>3, <2>2, <2>3
<1> HIDE DEF N
<1>4. \A n \in Nat : n \in N
  BY <1>2, <1>3, Inductively
<1>5. QED BY <1>1, <1>4 DEF N

AnyOf(t) == CHOOSE x \in t : TRUE
SumsOf(g, f, D) ==
  /\ g \in [SUBSET D -> Nat] /\ g[{}] = 0
  /\ \A t \in SUBSET D : t # {} => g[t] = f[AnyOf(t)] + g[t \ {AnyOf(t)}]
  /\ \A d \in SUBSET D : SumOf(f, d) = g[d]

LEMMA SumPicks ==
  ASSUME NEW D, NEW f, Summable(f, D)
  PROVE  \E g : SumsOf(g, f, D)
<1>0. IsFiniteSet(D) /\ \A x \in D : f[x] \in Nat
  BY DEF Summable
<1>1. PICK g \in [SUBSET D -> Nat] :
        /\ g[{}] = 0
        /\ \A t \in SUBSET D : t # {} => g[t] = f[CHOOSE x \in t : TRUE] + g[t \ {CHOOSE x \in t : TRUE}]
  <2> DEFINE step == [i \in D |-> [v \in Nat |-> f[i] + v]]
  <2>1. step \in Steps(D, Nat)
    BY <1>0 DEF Steps
  <2>2. Picks(PickOf(D), D)
    BY DEF Picks, PickOf
  <2> HIDE DEF step
  <2>3. PICK g : FoldOf(g, D, Nat, 0, PickOf(D), step)
    BY <1>0, <2>1, <2>2, SetIterates
  <2>4. /\ g \in [SUBSET D -> Nat] /\ g[{}] = 0
        /\ \A t \in SUBSET D : t # {} =>
             g[t] = step[CHOOSE x \in t : TRUE][g[t \ {CHOOSE x \in t : TRUE}]]
    BY <2>3 DEF FoldOf, PickOf
  <2>5. ASSUME NEW t \in SUBSET D, t # {}
        PROVE  g[t] = f[CHOOSE x \in t : TRUE] + g[t \ {CHOOSE x \in t : TRUE}]
    <3>1. (CHOOSE x \in t : TRUE) \in D /\ g[t \ {CHOOSE x \in t : TRUE}] \in Nat
      BY <2>4, <2>5
    <3>2. QED BY <2>4, <2>5, <3>1 DEF step
  <2>6. QED BY <2>4, <2>5
<1>2. ASSUME NEW d \in SUBSET D
      PROVE  SumOf(f, d) = g[d]
  <2> DEFINE Fold(h) == [t \in SUBSET d |->
                           IF t = {} THEN 0
                           ELSE LET x == CHOOSE x \in t : TRUE IN f[x] + h[t \ {x}]]
             iter == CHOOSE h : h = Fold(h)
             part == [t \in SUBSET d |-> g[t]]
  <2>1. SumOf(f, d) = iter[d]
    BY DEF SumOf, MapThenSumSet, MapThenFoldSet
  <2>2. part = Fold(part)
    BY <1>1
  <2>3. iter = Fold(iter)
    BY <2>2
  <2> HIDE DEF iter
  <2> DEFINE T == {s \in SUBSET d : iter[s] = g[s]}
  <2>4. {} \in T
    BY <1>1, <2>3
  <2>5. ASSUME NEW s \in SUBSET d, s # {}, \A x \in s : s \ {x} \in T
        PROVE  s \in T
    <3>1. PICK x \in s : x = CHOOSE y \in s : TRUE
      BY <2>5
    <3>2. iter[s \ {x}] = g[s \ {x}] /\ s \ {x} \in SUBSET d
      BY <2>5
    <3>3. iter[s] = f[x] + iter[s \ {x}]
      BY <2>3, <2>5, <3>1
    <3>4. g[s] = f[x] + g[s \ {x}]
      BY <1>1, <2>5, <3>1
    <3>5. QED BY <3>2, <3>3, <3>4
  <2>6. IsFiniteSet(d)
    BY <1>0, FS_Subset
  <2> HIDE DEF T
  <2>7. d \in T
    BY <2>4, <2>5, <2>6, BySize
  <2>8. QED BY <2>1, <2>7 DEF T
<1> HIDE DEF SumOf
<1>3. SumsOf(g, f, D)
  BY <1>1, <1>2 DEF SumsOf, AnyOf
<1>4. QED BY <1>3

LEMMA SumNone ==
  ASSUME NEW f
  PROVE  SumOf(f, {}) = 0
<1>1. IsFiniteSet({})
  BY FS_EmptySet
<1>2. Summable(f, {})
  BY <1>1 DEF Summable
<1>3. PICK g : SumsOf(g, f, {})
  BY <1>2, SumPicks
<1>4. QED BY <1>3 DEF SumsOf

LEMMA SumNat ==
  ASSUME NEW D, NEW f, Summable(f, D), NEW S \in SUBSET D
  PROVE  SumOf(f, S) \in Nat
<1>1. PICK g : SumsOf(g, f, D)
  BY SumPicks
<1>2. QED BY <1>1 DEF SumsOf

(* Any element may be the one that is taken out.                           *)
LEMMA SumTaken ==
  ASSUME NEW D, NEW f, Summable(f, D), NEW S \in SUBSET D, NEW a \in S
  PROVE  SumOf(f, S) = f[a] + SumOf(f, S \ {a})
<1>0. PICK g : SumsOf(g, f, D)
  BY SumPicks
<1>1. /\ g \in [SUBSET D -> Nat]
      /\ \A t \in SUBSET D : t # {} => AnyOf(t) \in t /\ g[t] = f[AnyOf(t)] + g[t \ {AnyOf(t)}]
      /\ \A d \in SUBSET D : SumOf(f, d) = g[d]
  BY <1>0 DEF SumsOf, AnyOf
<1>2. IsFiniteSet(D) /\ \A x \in D : f[x] \in Nat
  BY DEF Summable
<1> DEFINE T == {s \in SUBSET D : \A x \in s : g[s] = f[x] + g[s \ {x}]}
<1>3. {} \in T
  OBVIOUS
<1>4. ASSUME NEW s \in SUBSET D, s # {}, \A x \in s : s \ {x} \in T
      PROVE  s \in T
  <2> SUFFICES ASSUME NEW x \in s
               PROVE  g[s] = f[x] + g[s \ {x}]
    OBVIOUS
  <2>1. PICK y \in s : y = AnyOf(s)
    BY <1>1
  <2>2. g[s] = f[y] + g[s \ {y}]
    BY <1>1, <2>1
  <2>3. CASE x = y
    BY <2>2, <2>3
  <2>4. CASE x # y
    <3>1. x \in s \ {y} /\ y \in s \ {x} /\ s \ {y} \in T /\ s \ {x} \in T
      BY <1>4, <2>4
    <3>2. g[s \ {y}] = f[x] + g[(s \ {y}) \ {x}]
      BY <3>1
    <3>3. g[s \ {x}] = f[y] + g[(s \ {x}) \ {y}]
      BY <3>1
    <3>4. (s \ {x}) \ {y} = (s \ {y}) \ {x}
      OBVIOUS
    <3>5. g[(s \ {x}) \ {y}] = g[(s \ {y}) \ {x}]
      BY <3>4
    <3>6. f[x] \in Nat /\ f[y] \in Nat /\ g[(s \ {x}) \ {y}] \in Nat
      BY <1>1, <1>2
    <3> DEFINE rest == g[(s \ {x}) \ {y}]
    <3>7. g[s \ {x}] = f[y] + rest /\ g[s] = f[y] + (f[x] + rest)
      BY <2>2, <3>2, <3>3, <3>5
    <3>8. rest \in Nat
      BY <3>6
    <3> HIDE DEF rest
    <3>9. QED BY <3>6, <3>7, <3>8
  <2>5. QED BY <2>3, <2>4
<1> HIDE DEF T
<1>5. S \in T
  BY <1>2, <1>3, <1>4, BySize
<1>6. g[S] = f[a] + g[S \ {a}]
  BY <1>5 DEF T
<1>7. QED BY <1>1, <1>6

(* Two disjoint sets add up.                                               *)
LEMMA SumJoined ==
  ASSUME NEW D, NEW f, Summable(f, D), NEW A \in SUBSET D, NEW B \in SUBSET D, A \cap B = {}
  PROVE  SumOf(f, A \cup B) = SumOf(f, A) + SumOf(f, B)
<1>0. IsFiniteSet(A)
  BY FS_Subset DEF Summable
<1> DEFINE T == {s \in SUBSET A : SumOf(f, s \cup B) = SumOf(f, s) + SumOf(f, B)}
<1>1. {} \in T
  BY SumNone, SumNat
<1>2. ASSUME NEW s \in SUBSET A, s # {}, \A x \in s : s \ {x} \in T
      PROVE  s \in T
  <2>1. PICK x \in s : TRUE
    BY <1>2
  <2>2. SumOf(f, (s \ {x}) \cup B) = SumOf(f, s \ {x}) + SumOf(f, B)
    BY <1>2
  <2>3. s \in SUBSET D /\ s \cup B \in SUBSET D /\ x \in s \cup B /\ (s \cup B) \ {x} = (s \ {x}) \cup B
    OBVIOUS
  <2>4. SumOf(f, s) = f[x] + SumOf(f, s \ {x})
    BY <2>3, SumTaken
  <2>5. SumOf(f, s \cup B) = f[x] + SumOf(f, (s \cup B) \ {x})
    BY <2>3, SumTaken
  <2>6. f[x] \in Nat /\ SumOf(f, s \ {x}) \in Nat /\ SumOf(f, B) \in Nat
    BY <2>3, SumNat DEF Summable
  <2>7. SumOf(f, (s \cup B) \ {x}) = SumOf(f, (s \ {x}) \cup B)
    BY <2>3
  <2> HIDE DEF SumOf
  <2>9. SumOf(f, s \cup B) = SumOf(f, s) + SumOf(f, B)
    BY <2>2, <2>4, <2>5, <2>6, <2>7
  <2>8. QED BY <2>9
<1> HIDE DEF T
<1>3. A \in T
  BY <1>0, <1>1, <1>2, BySize
<1>4. QED BY <1>3 DEF T

LEMMA SumMore ==
  ASSUME NEW D, NEW f, Summable(f, D), NEW A \in SUBSET D, NEW B \in SUBSET A
  PROVE  SumOf(f, B) <= SumOf(f, A)
<1>1. B \in SUBSET D /\ A \ B \in SUBSET D /\ B \cap (A \ B) = {} /\ A = B \cup (A \ B)
  OBVIOUS
<1>2. SumOf(f, B \cup (A \ B)) = SumOf(f, B) + SumOf(f, A \ B)
  BY <1>1, SumJoined
<1>3. SumOf(f, B) \in Nat /\ SumOf(f, A \ B) \in Nat
  BY <1>1, SumNat
<1>4. SumOf(f, A) = SumOf(f, B \cup (A \ B))
  BY <1>1
<1>5. QED BY <1>2, <1>3, <1>4

(* Two functions that agree on a set have one sum over it.                 *)
LEMMA SumSame ==
  ASSUME NEW D, NEW f, Summable(f, D), NEW g, \A x \in D : g[x] = f[x]
  PROVE  SumOf(g, D) = SumOf(f, D)
<1>0. Summable(g, D) /\ IsFiniteSet(D)
  BY DEF Summable
<1> DEFINE T == {s \in SUBSET D : SumOf(g, s) = SumOf(f, s)}
<1>1. {} \in T
  BY SumNone
<1>2. ASSUME NEW s \in SUBSET D, s # {}, \A x \in s : s \ {x} \in T
      PROVE  s \in T
  <2>1. PICK x \in s : TRUE
    BY <1>2
  <2>2. SumOf(f, s) = f[x] + SumOf(f, s \ {x})
    BY SumTaken
  <2>3. SumOf(g, s) = g[x] + SumOf(g, s \ {x})
    BY <1>0, SumTaken
  <2>4. SumOf(g, s \ {x}) = SumOf(f, s \ {x})
    BY <1>2
  <2>5. QED BY <2>2, <2>3, <2>4
<1> HIDE DEF T
<1>3. D \in T
  BY <1>0, <1>1, <1>2, BySize
<1>4. QED BY <1>3 DEF T

(* One value more or less.                                                 *)
LEMMA SumAdded ==
  ASSUME NEW D, NEW f, Summable(f, D), NEW g, NEW a \in D, NEW v \in Int,
         g[a] = f[a] + v, f[a] + v \in Nat, \A x \in D \ {a} : g[x] = f[x]
  PROVE  SumOf(g, D) = SumOf(f, D) + v
<1>1. Summable(g, D) /\ Summable(f, D \ {a})
  <2>1. IsFiniteSet(D) /\ IsFiniteSet(D \ {a})
    BY Removed DEF Summable
  <2>2. \A x \in D : f[x] \in Nat
    BY DEF Summable
  <2>3. \A x \in D : g[x] \in Nat
    BY <2>2
  <2>4. QED BY <2>1, <2>2, <2>3 DEF Summable
<1>2. SumOf(f, D) = f[a] + SumOf(f, D \ {a})
  BY SumTaken
<1>3. SumOf(g, D) = g[a] + SumOf(g, D \ {a})
  BY <1>1, SumTaken
<1>4. SumOf(g, D \ {a}) = SumOf(f, D \ {a})
  BY <1>1, SumSame
<1>5. f[a] \in Nat /\ SumOf(f, D \ {a}) \in Nat
  BY <1>1, SumNat DEF Summable
<1>6. QED BY <1>2, <1>3, <1>4, <1>5

LEMMA SumZero ==
  ASSUME NEW D, IsFiniteSet(D), NEW f, \A x \in D : f[x] = 0
  PROVE  SumOf(f, D) = 0
<1> DEFINE T == {s \in SUBSET D : SumOf(f, s) = 0}
<1>0. Summable(f, D)
  BY DEF Summable
<1>1. {} \in T
  BY SumNone
<1>2. ASSUME NEW s \in SUBSET D, s # {}, \A x \in s : s \ {x} \in T
      PROVE  s \in T
  <2>1. PICK x \in s : TRUE
    BY <1>2
  <2>2. SumOf(f, s) = f[x] + SumOf(f, s \ {x})
    BY <1>0, SumTaken
  <2>3. SumOf(f, s \ {x}) = 0 /\ f[x] = 0
    BY <1>2
  <2>4. QED BY <2>2, <2>3
<1> HIDE DEF T
<1>3. D \in T
  BY <1>1, <1>2, BySize
<1>4. QED BY <1>3 DEF T

-----------------------------------------------------------------------------
(* Powers of two, by counting subsets.                                     *)
LEMMA PowerZero == 2 ^ 0 = 1
<1>1. IsFiniteSet({}) /\ Cardinality({}) = 0
  BY FS_EmptySet
<1>2. Cardinality(SUBSET {}) = 2 ^ Cardinality({})
  BY <1>1, FS_SUBSET
<1>3. SUBSET {} = {{}} /\ Cardinality({{}}) = 1
  BY FS_Singleton
<1>4. QED BY <1>1, <1>2, <1>3

LEMMA PowerNext ==
  ASSUME NEW n \in Nat
  PROVE  2 ^ n \in Nat \ {0} /\ 2 ^ (n + 1) = 2 * 2 ^ n
<1> DEFINE A == 1 .. n
           B == 1 .. n + 1
           With == {s \cup {n + 1} : s \in SUBSET A}
           put == [s \in SUBSET A |-> s \cup {n + 1}]
<1>1. IsFiniteSet(A) /\ Cardinality(A) = n /\ IsFiniteSet(B) /\ Cardinality(B) = n + 1
  BY FS_Interval
<1>2. IsFiniteSet(SUBSET A) /\ Cardinality(SUBSET A) = 2 ^ n
  BY <1>1, FS_SUBSET
<1>3. IsFiniteSet(SUBSET B) /\ Cardinality(SUBSET B) = 2 ^ (n + 1)
  BY <1>1, FS_SUBSET
<1>4. B = A \cup {n + 1} /\ n + 1 \notin A
  OBVIOUS
<1> HIDE DEF A, B
<1>5. SUBSET B = (SUBSET A) \cup With /\ (SUBSET A) \cap With = {}
  <2>1. ASSUME NEW s \in SUBSET B
        PROVE  s \in SUBSET A \/ s \in With
    <3>1. CASE n + 1 \in s
      <4>1. s \ {n + 1} \in SUBSET A /\ s = (s \ {n + 1}) \cup {n + 1}
        BY <1>4, <3>1
      <4>2. QED BY <4>1
    <3>2. CASE n + 1 \notin s
      BY <1>4, <3>2
    <3>3. QED BY <3>1, <3>2
  <2>2. \A s \in SUBSET A : s \in SUBSET B /\ s \cup {n + 1} \in SUBSET B
    BY <1>4
  <2>3. \A s \in With : n + 1 \in s
    OBVIOUS
  <2>4. (SUBSET A) \cap With = {}
    BY <1>4, <2>3
  <2> HIDE DEF With
  <2>5. SUBSET B \subseteq (SUBSET A) \cup With
    BY <2>1
  <2>6. (SUBSET A) \cup With \subseteq SUBSET B
    BY <2>2 DEF With
  <2>7. QED BY <2>4, <2>5, <2>6
<1>6. put \in Bijection(SUBSET A, With)
  <2>1. \A s, t \in SUBSET A : s \cup {n + 1} = t \cup {n + 1} => s = t
    BY <1>4
  <2>2. put \in [SUBSET A -> With] /\ \A s \in SUBSET A : put[s] = s \cup {n + 1}
    OBVIOUS
  <2>3. \A t \in With : \E s \in SUBSET A : put[s] = t
    OBVIOUS
  <2> HIDE DEF put, With
  <2>4. \A s, t \in SUBSET A : put[s] = put[t] => s = t
    BY <2>1, <2>2
  <2>5. QED BY <2>2, <2>3, <2>4 DEF Bijection, Injection, Surjection, IsInjective
<1>7. IsFiniteSet(With) /\ Cardinality(With) = Cardinality(SUBSET A)
  BY <1>2, <1>6, FS_Bijection DEF ExistsBijection
<1>8. Cardinality((SUBSET A) \cup With) = Cardinality(SUBSET A) + Cardinality(With)
  <2>1. Cardinality((SUBSET A) \cup With)
          = Cardinality(SUBSET A) + Cardinality(With) - Cardinality((SUBSET A) \cap With)
    BY <1>2, <1>7, FS_Union
  <2>2. Cardinality((SUBSET A) \cap With) = 0 /\ Cardinality(SUBSET A) \in Nat
    BY <1>2, <1>5, FS_EmptySet, FS_CardinalityType
  <2>3. QED BY <1>7, <2>1, <2>2
<1>9. Cardinality(SUBSET A) \in Nat /\ Cardinality(SUBSET A) # 0
  BY <1>2, FS_CardinalityType, FS_EmptySet
<1> DEFINE p == 2 ^ n
           q == 2 ^ (n + 1)
<1>10. p \in Nat /\ p # 0 /\ q = p + p
  <2>1. Cardinality(SUBSET B) = Cardinality((SUBSET A) \cup With)
    BY <1>5
  <2>2. QED BY <1>2, <1>3, <1>7, <1>8, <1>9, <2>1
<1> HIDE DEF p, q
<1>11. p \in Nat \ {0} /\ q = 2 * p
  BY <1>10
<1>12. QED BY <1>11 DEF p, q

LEMMA PowerGrows ==
  ASSUME NEW m \in Nat, NEW n \in Nat, m <= n
  PROVE  2 ^ m <= 2 ^ n
<1> DEFINE T == {j \in Nat : 2 ^ m <= 2 ^ (m + j)}
<1>0. 2 ^ m \in Nat
  BY PowerNext
<1>1. 0 \in T
  BY <1>0
<1>2. ASSUME NEW j \in Nat, j \in T
      PROVE  j + 1 \in T
  <2>1. m + j \in Nat /\ m + (j + 1) = (m + j) + 1
    OBVIOUS
  <2>2. 2 ^ (m + j) \in Nat /\ 2 ^ ((m + j) + 1) = 2 * 2 ^ (m + j)
    BY <2>1, PowerNext
  <2>3. 2 ^ m <= 2 ^ (m + j)
    BY <1>2
  <2>4. 2 ^ m <= 2 ^ (m + (j + 1))
    BY <1>0, <2>1, <2>2, <2>3
  <2>5. QED BY <2>4
<1> HIDE DEF T
<1>3. n - m \in T
  BY <1>1, <1>2, Inductively
<1>4. m + (n - m) = n
  OBVIOUS
<1>5. QED BY <1>3, <1>4 DEF T

LEMMA PowerAbove ==
  ASSUME NEW n \in Nat
  PROVE  n < 2 ^ n
<1> DEFINE T == {j \in Nat : j < 2 ^ j}
<1>1. 0 \in T
  BY PowerZero
<1>2. ASSUME NEW j \in Nat, j \in T
      PROVE  j + 1 \in T
  <2>1. 2 ^ j \in Nat /\ 2 ^ (j + 1) = 2 * 2 ^ j /\ j < 2 ^ j
    BY <1>2, PowerNext
  <2>2. j + 1 < 2 ^ (j + 1)
    BY <2>1
  <2>3. QED BY <2>2
<1> HIDE DEF T
<1>3. n \in T
  BY <1>1, <1>2, Inductively
<1>4. QED BY <1>3 DEF T
=============================================================================
