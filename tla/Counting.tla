------------------------------ MODULE Counting ------------------------------
(* How many places of a list, or hands of some processes, hold one of a    *)
(* set of values, and how a step changes that number.  The proofs that an  *)
(* entry of a queue is at one place rest on these lemmas.                  *)
(* The rest is for data that grows: induction over a set of numbers, the   *)
(* functions that a recursion on numbers defines, and their sums.          *)
EXTENDS FiniteSetTheorems, SequenceTheorems, TLAPS

Spots(s, V) == {i \in DOMAIN s : s[i] \in V}
Holders(f, V) == {w \in DOMAIN f : f[w] \in V}
ZeroOne(b) == IF b THEN 1 ELSE 0

LEMMA SpotsFinite ==
  ASSUME NEW S, NEW s \in Seq(S), NEW V
  PROVE  IsFiniteSet(Spots(s, V)) /\ Cardinality(Spots(s, V)) \in Nat
  <1>1. Len(s) \in Nat /\ DOMAIN s = 1..Len(s)
    BY LenProperties
  <1>2. IsFiniteSet(DOMAIN s)
    BY <1>1, FS_Interval
  <1>3. IsFiniteSet(Spots(s, V))
    BY <1>2, FS_Subset DEF Spots
  <1>4. QED BY <1>3, FS_CardinalityType

LEMMA SpotsEmpty ==
  ASSUME NEW V
  PROVE  Spots(<<>>, V) = {} /\ Cardinality(Spots(<<>>, V)) = 0
  BY FS_EmptySet DEF Spots

LEMMA SpotsNone ==
  ASSUME NEW S, NEW s \in Seq(S), NEW V
  PROVE  Cardinality(Spots(s, V)) = 0 <=> \A i \in DOMAIN s : s[i] \notin V
  <1>1. Cardinality(Spots(s, V)) = 0 <=> Spots(s, V) = {}
    BY SpotsFinite, FS_EmptySet
  <1>2. QED BY <1>1 DEF Spots

LEMMA SpotsAppend ==
  ASSUME NEW S, NEW s \in Seq(S), NEW x \in S, NEW V
  PROVE  Cardinality(Spots(Append(s, x), V)) = Cardinality(Spots(s, V)) + ZeroOne(x \in V)
  <1>1. /\ Len(s) \in Nat /\ DOMAIN s = 1..Len(s)
        /\ DOMAIN Append(s, x) = 1..(Len(s) + 1)
        /\ Append(s, x)[Len(s) + 1] = x
        /\ \A i \in 1..Len(s) : Append(s, x)[i] = s[i]
    BY AppendProperties, LenProperties
  <1>2. CASE x \in V
    <2>1. Spots(Append(s, x), V) = Spots(s, V) \union {Len(s) + 1}
      BY <1>1, <1>2 DEF Spots
    <2>2. Len(s) + 1 \notin Spots(s, V)
      BY <1>1 DEF Spots
    <2>3. QED BY <1>2, <2>1, <2>2, SpotsFinite, FS_AddElement DEF ZeroOne
  <1>3. CASE x \notin V
    <2>1. Spots(Append(s, x), V) = Spots(s, V)
      BY <1>1, <1>3 DEF Spots
    <2>2. QED BY <1>3, <2>1, SpotsFinite DEF ZeroOne
  <1>4. QED BY <1>2, <1>3

(* The spots of the tail are one to the left of where they were.           *)
LEMMA SpotsTail ==
  ASSUME NEW S, NEW s \in Seq(S), s # <<>>, NEW V
  PROVE  Cardinality(Spots(Tail(s), V)) + ZeroOne(Head(s) \in V) = Cardinality(Spots(s, V))
  <1>1. /\ Len(s) \in Nat \ {0} /\ DOMAIN s = 1..Len(s) /\ Head(s) = s[1]
        /\ Tail(s) \in Seq(S) /\ DOMAIN Tail(s) = 1..(Len(s) - 1)
        /\ \A i \in 1..(Len(s) - 1) : Tail(s)[i] = s[i + 1]
    BY EmptySeq, LenProperties, HeadTailProperties
  <1> DEFINE f == [i \in Spots(Tail(s), V) |-> i + 1]
             rest == Spots(s, V) \ {1}
  <1>2. \A i \in Spots(Tail(s), V) : i \in 1..(Len(s) - 1) /\ i + 1 \in rest
    BY <1>1 DEF Spots
  <1>3. \A j \in rest : j - 1 \in Spots(Tail(s), V) /\ f[j - 1] = j
    BY <1>1 DEF Spots
  <1>4. f \in Bijection(Spots(Tail(s), V), rest)
    <2>1. f \in [Spots(Tail(s), V) -> rest]
      BY <1>2
    <2>2. \A a, b \in DOMAIN f : f[a] = f[b] => a = b
      BY <1>2
    <2>3. QED BY <1>3, <2>1, <2>2 DEF Bijection, Injection, Surjection, IsInjective
  <1>5. Cardinality(rest) = Cardinality(Spots(Tail(s), V))
    <2>1. IsFiniteSet(Spots(Tail(s), V))
      BY <1>1, SpotsFinite
    <2>2. ExistsBijection(Spots(Tail(s), V), rest)
      BY <1>4 DEF ExistsBijection
    <2> HIDE DEF f, rest
    <2>3. QED BY <2>1, <2>2, FS_Bijection
  <1>6. IsFiniteSet(Spots(s, V)) /\ Cardinality(Spots(s, V)) \in Nat
        /\ Cardinality(Spots(Tail(s), V)) \in Nat
    BY <1>1, SpotsFinite
  <1>7. 1 \in Spots(s, V) <=> Head(s) \in V
    BY <1>1 DEF Spots
  <1>8. Cardinality(rest) = IF 1 \in Spots(s, V) THEN Cardinality(Spots(s, V)) - 1
                            ELSE Cardinality(Spots(s, V))
    BY <1>6, FS_RemoveElement
  <1>9. QED BY <1>5, <1>6, <1>7, <1>8 DEF ZeroOne

(* One process changes what it holds.                                      *)
LEMMA HoldersExcept ==
  ASSUME NEW f, NEW g, NEW w \in DOMAIN f, NEW x, NEW V, IsFiniteSet(Holders(f, V)),
         DOMAIN g = DOMAIN f, g[w] = x, \A v \in DOMAIN f \ {w} : g[v] = f[v]
  PROVE  /\ IsFiniteSet(Holders(g, V))
         /\ Cardinality(Holders(g, V)) \in Nat /\ Cardinality(Holders(f, V)) \in Nat
         /\ Cardinality(Holders(g, V)) + ZeroOne(f[w] \in V)
              = Cardinality(Holders(f, V)) + ZeroOne(x \in V)
  <1>1. DOMAIN g = DOMAIN f /\ g[w] = x /\ \A v \in DOMAIN f \ {w} : g[v] = f[v]
    OBVIOUS
  <1>2. Cardinality(Holders(f, V)) \in Nat
    BY FS_CardinalityType
  <1>3. w \in Holders(f, V) <=> f[w] \in V
    BY DEF Holders
  <1>4. CASE x \in V
    <2>1. Holders(g, V) = Holders(f, V) \union {w}
      BY <1>1, <1>4 DEF Holders
    <2>2. /\ IsFiniteSet(Holders(g, V))
          /\ Cardinality(Holders(g, V)) = IF w \in Holders(f, V) THEN Cardinality(Holders(f, V))
                                          ELSE Cardinality(Holders(f, V)) + 1
      BY <2>1, FS_AddElement
    <2>3. QED BY <1>2, <1>3, <1>4, <2>2 DEF ZeroOne
  <1>5. CASE x \notin V
    <2> DEFINE rest == Holders(f, V) \ {w}
    <2>1. Holders(g, V) = rest
      BY <1>1, <1>5 DEF Holders
    <2>2. /\ IsFiniteSet(rest)
          /\ Cardinality(rest) = IF w \in Holders(f, V) THEN Cardinality(Holders(f, V)) - 1
                                 ELSE Cardinality(Holders(f, V))
      BY FS_RemoveElement
    <2> HIDE DEF rest
    <2>3. Cardinality(rest) \in Nat
      BY <2>2, FS_CardinalityType
    <2>4. QED BY <1>2, <1>3, <1>5, <2>1, <2>2, <2>3 DEF ZeroOne
  <1>6. QED BY <1>4, <1>5

LEMMA HoldersConstant ==
  ASSUME NEW f, NEW V, \A w \in DOMAIN f : f[w] \notin V
  PROVE  IsFiniteSet(Holders(f, V)) /\ Cardinality(Holders(f, V)) = 0
  <1>1. Holders(f, V) = {}
    BY DEF Holders
  <1>2. QED BY <1>1, FS_EmptySet

(* In how many of some sets a value is.                                    *)
LEMMA OneMoreIf ==
  ASSUME NEW S, IsFiniteSet(S), NEW x, x \notin S, NEW e, NEW A,
         NEW T, T = S \union {y \in {x} : e \in A}
  PROVE  IsFiniteSet(T) /\ Cardinality(T) = Cardinality(S) + ZeroOne(e \in A)
  <1>1. CASE e \in A
    <2>1. T = S \union {x}
      BY <1>1
    <2>2. IsFiniteSet(T) /\ Cardinality(T) = Cardinality(S) + 1
      BY <2>1, FS_AddElement
    <2>3. QED BY <1>1, <2>2 DEF ZeroOne
  <1>2. CASE e \notin A
    <2>1. T = S
      BY <1>2
    <2>2. Cardinality(S) \in Nat
      BY FS_CardinalityType
    <2>3. ZeroOne(e \in A) = 0
      BY <1>2 DEF ZeroOne
    <2>4. Cardinality(S) + ZeroOne(e \in A) = Cardinality(S)
      BY <2>2, <2>3
    <2>5. QED BY <2>1, <2>4, Zenon
  <1>3. QED BY <1>1, <1>2

LEMMA InTwoSets ==
  ASSUME NEW e, NEW A, NEW B
  PROVE  Cardinality({k \in 1..2 : e \in <<A, B>>[k]}) = ZeroOne(e \in A) + ZeroOne(e \in B)
  <1>0. PICK none : none = {}
    OBVIOUS
  <1>1. PICK one : one = none \union {y \in {1} : e \in A}
    OBVIOUS
  <1>2. PICK two : two = one \union {y \in {2} : e \in B}
    OBVIOUS
  <1>3. IsFiniteSet(none) /\ Cardinality(none) = 0 /\ 1 \notin none
    BY <1>0, FS_EmptySet
  <1>4. IsFiniteSet(one) /\ Cardinality(one) = ZeroOne(e \in A)
    <2>1. IsFiniteSet(one) /\ Cardinality(one) = Cardinality(none) + ZeroOne(e \in A)
      BY <1>1, <1>3, OneMoreIf
    <2>2. QED BY <1>3, <2>1 DEF ZeroOne
  <1>5. 2 \notin one
    BY <1>0, <1>1
  <1>6. Cardinality(two) = Cardinality(one) + ZeroOne(e \in B)
    BY <1>2, <1>4, <1>5, OneMoreIf
  <1>7. two = {k \in 1..2 : e \in <<A, B>>[k]}
    BY <1>0, <1>1, <1>2
  <1>8. QED BY <1>4, <1>6, <1>7

LEMMA InFourSets ==
  ASSUME NEW e, NEW A, NEW B, NEW C, NEW D
  PROVE  Cardinality({k \in 1..4 : e \in <<A, B, C, D>>[k]})
           = ZeroOne(e \in A) + ZeroOne(e \in B) + ZeroOne(e \in C) + ZeroOne(e \in D)
  <1>1. PICK two : two = {k \in 1..2 : e \in <<A, B>>[k]}
    OBVIOUS
  <1>2. PICK three : three = two \union {y \in {3} : e \in C}
    OBVIOUS
  <1>3. PICK four : four = three \union {y \in {4} : e \in D}
    OBVIOUS
  <1>4. IsFiniteSet(two) /\ Cardinality(two) = ZeroOne(e \in A) + ZeroOne(e \in B)
    <2>1. 1 \in Int /\ 2 \in Int
      OBVIOUS
    <2>2. IsFiniteSet(two)
      BY <1>1, <2>1, FS_Interval, FS_Subset
    <2>3. QED BY <1>1, <2>2, InTwoSets
  <1>5. 3 \notin two /\ 4 \notin three
    BY <1>1, <1>2
  <1>6. IsFiniteSet(three) /\ Cardinality(three) = Cardinality(two) + ZeroOne(e \in C)
    BY <1>2, <1>4, <1>5, OneMoreIf
  <1>7. Cardinality(four) = Cardinality(three) + ZeroOne(e \in D)
    BY <1>3, <1>5, <1>6, OneMoreIf
  <1>8. four = {k \in 1..4 : e \in <<A, B, C, D>>[k]}
    <2>1. \A k \in 1..2 : <<A, B>>[k] = <<A, B, C, D>>[k]
      OBVIOUS
    <2>2. <<A, B, C, D>>[3] = C /\ <<A, B, C, D>>[4] = D
      OBVIOUS
    <2>3. \A k : k \in 1..4 <=> k \in 1..2 \/ k = 3 \/ k = 4
      OBVIOUS
    <2>4. QED BY <1>1, <1>2, <1>3, <2>1, <2>2, <2>3
  <1>9. QED BY <1>4, <1>6, <1>7, <1>8

-----------------------------------------------------------------------------
(* Induction.  The rule for an operator cannot be used by the provers here; *)
(* for a set of numbers it follows from what is known of well-foundedness,  *)
(* and with it that a function defined by recursion exists.                 *)

LEMMA SetInduction ==
  ASSUME NEW S \in SUBSET Nat, 0 \in S, \A n \in S : n + 1 \in S
  PROVE  S = Nat
  <1> DEFINE T == Nat \ S
             R == OpToRel(<, Nat)
  <1>1. SUFFICES ASSUME T # {} PROVE FALSE
    OBVIOUS
  <1>2. IsWellFoundedOn(R, Nat)
    BY NatLessThanWellFounded
  <1>3. PICK x \in T : \A y \in T : ~(<<y, x>> \in R)
    <2> HIDE DEF R
    <2>1. T \subseteq Nat /\ T # {}
      BY <1>1
    <2> HIDE DEF T
    <2>2. QED BY <1>2, <2>1, WFMin
  <1>4. \A u, v \in Nat : u < v => <<u, v>> \in R
    BY DEF OpToRel
  <1> HIDE DEF R
  <1>5. x \in Nat /\ x - 1 \in Nat /\ x - 1 < x
    OBVIOUS
  <1>6. x - 1 \in S
    BY <1>3, <1>4, <1>5
  <1>7. (x - 1) + 1 \in S
    BY <1>6
  <1>8. QED BY <1>5, <1>7

(* Repeating a step n times, n being told to the step, defines a function.  *)
Repeats(g, V, c, step, n) ==
  /\ g \in [0..n -> V] /\ g[0] = c
  /\ \A i \in 0..(n - 1) : g[i + 1] = step[<<g[i], i>>]

LEMMA RepeatsAgree ==
  ASSUME NEW V, NEW c \in V, NEW step \in [V \X Nat -> V],
         NEW n \in Nat, NEW m \in Nat, n <= m, NEW g, NEW h,
         Repeats(g, V, c, step, n), Repeats(h, V, c, step, m)
  PROVE  \A i \in 0..n : g[i] = h[i]
  <1> DEFINE S == {i \in Nat : i <= n => g[i] = h[i]}
  <1>1. 0 \in S
    BY DEF Repeats
  <1>2. \A i \in S : i + 1 \in S
    <2>1. SUFFICES ASSUME NEW i \in S, i + 1 <= n PROVE g[i + 1] = h[i + 1]
      OBVIOUS
    <2>2. i \in 0..(n - 1) /\ i \in 0..(m - 1) /\ g[i] = h[i]
      BY <2>1
    <2>3. QED BY <2>2 DEF Repeats
  <1> HIDE DEF S
  <1>3. S = Nat
    <2>1. S \in SUBSET Nat BY DEF S
    <2>2. QED BY <1>1, <1>2, <2>1, SetInduction
  <1>4. QED BY <1>3 DEF S

Iterates(g, V, c, step) ==
  /\ g \in [Nat -> V] /\ g[0] = c
  /\ \A i \in Nat : g[i + 1] = step[<<g[i], i>>]

LEMMA Repetition ==
  ASSUME NEW V, NEW c \in V, NEW step \in [V \X Nat -> V]
  PROVE  \E g : Iterates(g, V, c, step)
  <1> DEFINE S == {n \in Nat : \E g : Repeats(g, V, c, step, n)}
  <1>1. 0 \in S
    <2>1. Repeats([i \in 0..0 |-> c], V, c, step, 0)
      BY DEF Repeats
    <2>2. QED BY <2>1
  <1>2. \A n \in S : n + 1 \in S
    <2>1. SUFFICES ASSUME NEW n \in Nat, NEW g, Repeats(g, V, c, step, n)
                   PROVE  \E h : Repeats(h, V, c, step, n + 1)
      OBVIOUS
    <2> DEFINE h == [i \in 0..(n + 1) |-> IF i = n + 1 THEN step[<<g[n], n>>] ELSE g[i]]
    <2>2. g[n] \in V
      BY <2>1 DEF Repeats
    <2>3. h \in [0..(n + 1) -> V] /\ h[0] = c
      BY <2>1, <2>2 DEF Repeats
    <2>4. ASSUME NEW i \in 0..((n + 1) - 1) PROVE h[i + 1] = step[<<h[i], i>>]
      <3>1. CASE i = n
        <4>1. n # n + 1 /\ n \in 0..(n + 1) /\ n + 1 \in 0..(n + 1)
          OBVIOUS
        <4>2. h[n + 1] = step[<<g[n], n>>] /\ h[n] = g[n]
          BY <4>1
        <4>3. QED BY <3>1, <4>2
      <3>2. CASE i # n
        <4>1. i \in 0..(n - 1) /\ h[i] = g[i] /\ h[i + 1] = g[i + 1]
          BY <3>2
        <4>2. QED BY <4>1, <2>1 DEF Repeats
      <3>3. QED BY <3>1, <3>2
    <2> HIDE DEF h
    <2>5. QED BY <2>3, <2>4 DEF Repeats
  <1>3. S = Nat
    <2>1. S \in SUBSET Nat OBVIOUS
    <2> HIDE DEF S
    <2>2. QED BY <1>1, <1>2, <2>1, SetInduction
  <1> DEFINE G(n) == CHOOSE g : Repeats(g, V, c, step, n)
             all == [n \in Nat |-> G(n)[n]]
  <1>4. ASSUME NEW n \in Nat PROVE Repeats(G(n), V, c, step, n)
    BY <1>3
  <1> HIDE DEF G, S
  <1>5. all \in [Nat -> V]
    <2>1. ASSUME NEW n \in Nat PROVE G(n)[n] \in V
      BY <1>4 DEF Repeats
    <2>2. QED BY <2>1
  <1>6. all[0] = c
    BY <1>4 DEF Repeats
  <1>7. ASSUME NEW i \in Nat PROVE all[i + 1] = step[<<all[i], i>>]
    <2>1. Repeats(G(i), V, c, step, i) /\ Repeats(G(i + 1), V, c, step, i + 1)
      BY <1>4
    <2>2. G(i)[i] = G(i + 1)[i]
      <3>1. i <= i + 1 /\ i + 1 \in Nat /\ i \in 0..i OBVIOUS
      <3>2. ASSUME NEW a, NEW b, Repeats(a, V, c, step, i), Repeats(b, V, c, step, i + 1)
            PROVE  \A j \in 0..i : a[j] = b[j]
        BY <3>1, <3>2, RepeatsAgree
      <3>3. QED BY <2>1, <3>1, <3>2
    <2>3. G(i + 1)[i + 1] = step[<<G(i + 1)[i], i>>]
      <3>1. i \in 0..((i + 1) - 1) OBVIOUS
      <3>2. QED BY <2>1, <3>1 DEF Repeats
    <2>4. QED BY <2>2, <2>3
  <1> HIDE DEF all
  <1>8. QED BY <1>5, <1>6, <1>7 DEF Iterates
-----------------------------------------------------------------------------
(* Sums over an interval, as the folds of the module Functions compute them.*)

(* The sum over the members of s below k, written down in order. *)
Upward(T, f, s, N) ==
  /\ T \in [Nat -> Nat] /\ T[0] = 0
  /\ \A k \in Nat : T[k + 1] = T[k] + IF k < N /\ k \in s THEN f[k] ELSE 0

LEMMA UpwardExists ==
  ASSUME NEW N \in Nat, NEW f, \A k \in 0..(N - 1) : f[k] \in Nat, NEW s
  PROVE  \E T : Upward(T, f, s, N)
  <1> DEFINE step == [p \in Nat \X Nat |-> p[1] + IF p[2] < N /\ p[2] \in s THEN f[p[2]] ELSE 0]
  <1>1. step \in [Nat \X Nat -> Nat]
    <2>1. ASSUME NEW p \in Nat \X Nat
          PROVE  p[1] + (IF p[2] < N /\ p[2] \in s THEN f[p[2]] ELSE 0) \in Nat
      <3>1. p[1] \in Nat /\ p[2] \in Nat OBVIOUS
      <3>2. CASE p[2] < N /\ p[2] \in s
        <4>1. p[2] \in 0..(N - 1) BY <3>1, <3>2
        <4>2. f[p[2]] \in Nat BY <4>1
        <4>3. QED BY <3>1, <3>2, <4>2
      <3>3. CASE ~(p[2] < N /\ p[2] \in s)
        BY <3>1, <3>3
      <3>4. QED BY <3>2, <3>3
    <2>2. QED BY <2>1
  <1>2. \A a, b \in Nat : step[<<a, b>>] = a + IF b < N /\ b \in s THEN f[b] ELSE 0
    OBVIOUS
  <1> HIDE DEF step
  <1>3. PICK T : Iterates(T, Nat, 0, step)
    BY <1>1, Repetition
  <1>4. \A k \in Nat : T[k] \in Nat
    BY <1>3 DEF Iterates
  <1>5. Upward(T, f, s, N)
    BY <1>2, <1>3, <1>4 DEF Upward, Iterates
  <1>6. QED BY <1>5

LEMMA UpwardEmpty ==
  ASSUME NEW N \in Nat, NEW f, NEW T, Upward(T, f, {}, N)
  PROVE  \A k \in Nat : T[k] = 0
  <1> DEFINE S == {k \in Nat : T[k] = 0}
  <1>1. 0 \in S /\ \A k \in S : k + 1 \in S
    BY DEF Upward
  <1>2. S \in SUBSET Nat OBVIOUS
  <1> HIDE DEF S
  <1>3. S = Nat BY <1>1, <1>2, SetInduction
  <1>4. QED BY <1>3 DEF S

(* Taking one member out takes its term out. *)
LEMMA UpwardRemove ==
  ASSUME NEW N \in Nat, NEW f, \A k \in 0..(N - 1) : f[k] \in Nat,
         NEW s, NEW x \in s, x \in 0..(N - 1), NEW T, NEW U,
         Upward(T, f, s, N), Upward(U, f, s \ {x}, N)
  PROVE  T[N] = f[x] + U[N]
  <1> DEFINE S == {k \in Nat : T[k] = U[k] + IF x < k THEN f[x] ELSE 0}
  <1>0. x \in Nat /\ x < N /\ f[x] \in Nat
    OBVIOUS
  <1>1. 0 \in S
    BY <1>0 DEF Upward
  <1>2. ASSUME NEW k \in S PROVE k + 1 \in S
    <2>1. /\ k \in Nat /\ T[k] \in Nat /\ U[k] \in Nat
          /\ T[k + 1] = T[k] + IF k < N /\ k \in s THEN f[k] ELSE 0
          /\ U[k + 1] = U[k] + IF k < N /\ k \in s \ {x} THEN f[k] ELSE 0
      BY DEF Upward
    <2>2. k < N => f[k] \in Nat
      BY <2>1
    <2>3. CASE k = x
      BY <1>0, <2>1, <2>3
    <2>4. CASE k # x
      <3>1. x < k + 1 <=> x < k
        BY <1>0, <2>1, <2>4
      <3>2. (k \in s) <=> (k \in s \ {x})
        BY <2>4
      <3>3. CASE k < N /\ k \in s
        BY <1>0, <2>1, <2>2, <3>1, <3>2, <3>3
      <3>4. CASE ~(k < N /\ k \in s)
        BY <1>0, <2>1, <3>1, <3>2, <3>4
      <3>5. QED BY <3>3, <3>4
    <2>5. QED BY <2>3, <2>4
  <1>3. S \in SUBSET Nat OBVIOUS
  <1> HIDE DEF S
  <1>4. S = Nat BY <1>1, <1>2, <1>3, SetInduction
  <1>5. N \in S
    BY <1>4
  <1>6. U[N] \in Nat
    BY DEF Upward
  <1>7. QED BY <1>0, <1>5, <1>6 DEF S

LEMMA UpwardUnique ==
  ASSUME NEW N \in Nat, NEW f, NEW s, NEW T, NEW U, Upward(T, f, s, N), Upward(U, f, s, N)
  PROVE  T[N] = U[N]
  <1> DEFINE S == {k \in Nat : T[k] = U[k]}
  <1>1. 0 \in S /\ \A k \in S : k + 1 \in S
    BY DEF Upward
  <1>2. S \in SUBSET Nat OBVIOUS
  <1> HIDE DEF S
  <1>3. S = Nat BY <1>1, <1>2, SetInduction
  <1>4. N \in S BY <1>3
  <1>5. QED BY <1>4 DEF S

LEMMA SumIsUpward ==
  ASSUME NEW N \in Nat, NEW f, \A k \in 0..(N - 1) : f[k] \in Nat,
         NEW T, Upward(T, f, 0..(N - 1), N)
  PROVE  SumFunctionOnSet(f, 0..(N - 1)) = T[N]
  <1> DEFINE D == 0..(N - 1)
             All(s) == CHOOSE U : Upward(U, f, s, N)
             Rec(g) == g = [s \in SUBSET D |->
                              IF s = {} THEN 0
                              ELSE f[CHOOSE x \in s : TRUE] + g[s \ {CHOOSE x \in s : TRUE}]]
             iter == CHOOSE g : Rec(g)
             h == [s \in SUBSET D |-> All(s)[N]]
  <1>1. ASSUME NEW s PROVE Upward(All(s), f, s, N)
    BY UpwardExists
  <1> HIDE DEF All
  <1>2. All({})[N] = 0
    BY <1>1, UpwardEmpty
  <1>3. ASSUME NEW s \in SUBSET D, NEW x \in s
        PROVE  All(s)[N] = f[x] + All(s \ {x})[N]
    <2>1. Upward(All(s), f, s, N) /\ Upward(All(s \ {x}), f, s \ {x}, N)
      BY <1>1
    <2>2. x \in 0..(N - 1)
      OBVIOUS
    <2>3. ASSUME NEW P, NEW Q, Upward(P, f, s, N), Upward(Q, f, s \ {x}, N)
          PROVE  P[N] = f[x] + Q[N]
      <3> HIDE DEF D
      <3>1. QED BY <2>2, <2>3, UpwardRemove
    <2>4. QED BY <2>1, <2>3
  <1>4. \A s : s # {} => (CHOOSE x \in s : TRUE) \in s
    OBVIOUS
  <1> DEFINE pick(s) == CHOOSE x \in s : TRUE
  <1>5. Rec(h)
    <2> HIDE DEF pick, D
    <2>1. ASSUME NEW s \in SUBSET D
          PROVE  h[s] = IF s = {} THEN 0 ELSE f[pick(s)] + h[s \ {pick(s)}]
      <3>1. CASE s = {}
        BY <1>2, <3>1
      <3>2. CASE s # {}
        <4>1. pick(s) \in s
          BY <1>4, <3>2 DEF pick
        <4>2. s \ {pick(s)} \in SUBSET D
          OBVIOUS
        <4>3. QED BY <1>3, <3>2, <4>1, <4>2
      <3>3. QED BY <3>1, <3>2
    <2>2. h = [s \in SUBSET D |-> h[s]]
      OBVIOUS
    <2> HIDE DEF h
    <2>3. h = [s \in SUBSET D |-> IF s = {} THEN 0 ELSE f[pick(s)] + h[s \ {pick(s)}]]
      BY <2>1, <2>2
    <2>4. QED BY <2>3 DEF pick
  <1>6. Rec(iter)
    <2> HIDE DEF Rec
    <2>1. QED BY <1>5
  <1>7. SumFunctionOnSet(f, D) = iter[D]
    BY DEF SumFunctionOnSet, FoldFunctionOnSet, MapThenFoldSet
  <1>8. iter[{}] = All({})[N]
    <2>1. {} \in SUBSET D OBVIOUS
    <2> HIDE DEF iter
    <2>2. iter[{}] = 0 BY <1>6, <2>1
    <2>3. QED BY <1>2, <2>2
  <1>9. ASSUME NEW s \in SUBSET D, s # {}, iter[s \ {pick(s)}] = All(s \ {pick(s)})[N]
        PROVE  iter[s] = All(s)[N]
    <2> HIDE DEF iter
    <2>1. iter[s] = f[pick(s)] + iter[s \ {pick(s)}]
      BY <1>6, <1>9
    <2>2. pick(s) \in s
      BY <1>4, <1>9
    <2>3. All(s)[N] = f[pick(s)] + All(s \ {pick(s)})[N]
      <3> HIDE DEF pick
      <3>1. QED BY <1>3, <2>2
    <2>4. QED BY <1>9, <2>1, <2>3
  <1> DEFINE S == {n \in Nat : \A s \in SUBSET D : Cardinality(s) = n => iter[s] = All(s)[N]}
  <1>10. IsFiniteSet(D) /\ \A s \in SUBSET D : IsFiniteSet(s)
    <2>1. IsFiniteSet(D)
      BY FS_Interval
    <2> HIDE DEF D
    <2>2. QED BY <2>1, FS_Subset
  <1> HIDE DEF iter, D
  <1>11. 0 \in S
    BY <1>8, <1>10, FS_EmptySet
  <1>12. ASSUME NEW n \in S PROVE n + 1 \in S
    <2>1. SUFFICES ASSUME NEW s \in SUBSET D, Cardinality(s) = n + 1
                   PROVE  iter[s] = All(s)[N]
      OBVIOUS
    <2>2. s # {}
      <3>1. n \in Nat BY DEF S
      <3>2. Cardinality({}) = 0 BY FS_EmptySet
      <3>3. n + 1 # 0 BY <3>1
      <3> HIDE DEF S
      <3>4. CASE s = {} BY <2>1, <3>2, <3>3, <3>4
      <3>5. QED BY <3>4
    <2>3. pick(s) \in s
      BY <1>4, <2>2
    <2> HIDE DEF pick
    <2>4. Cardinality(s \ {pick(s)}) = (n + 1) - 1
      BY <1>10, <2>1, <2>3, FS_RemoveElement
    <2>5. s \ {pick(s)} \in SUBSET D /\ Cardinality(s \ {pick(s)}) = n
      BY <2>4
    <2>6. iter[s \ {pick(s)}] = All(s \ {pick(s)})[N]
      BY <2>5
    <2>7. QED BY <1>9, <2>2, <2>6
  <1>13. S = Nat
    <2>1. S \in SUBSET Nat OBVIOUS
    <2> HIDE DEF S
    <2>2. QED BY <1>11, <1>12, <2>1, SetInduction
  <1>14. iter[D] = All(D)[N]
    <2>1. Cardinality(D) \in Nat /\ D \in SUBSET D
      BY <1>10, FS_CardinalityType
    <2>2. Cardinality(D) \in S
      BY <1>13, <2>1
    <2>3. QED BY <2>1, <2>2
  <1>15. All(D)[N] = T[N]
    <2>1. Upward(T, f, D, N)
      BY DEF D
    <2>2. QED BY <1>1, <2>1, UpwardUnique
  <1>16. QED BY <1>7, <1>14, <1>15 DEF D

(* The sum over an interval that starts at zero, entry by entry.           *)
LEMMA SumOfNone ==
  ASSUME NEW f
  PROVE  SumFunctionOnSet(f, 0..(0 - 1)) = 0
  <1>1. \A k \in 0..(0 - 1) : f[k] \in Nat
    OBVIOUS
  <1>2. PICK T : Upward(T, f, 0..(0 - 1), 0)
    BY <1>1, UpwardExists
  <1>3. QED BY <1>1, <1>2, SumIsUpward DEF Upward

LEMMA SumOfMore ==
  ASSUME NEW N \in Nat, NEW f, \A k \in 0..N : f[k] \in Nat
  PROVE  /\ SumFunctionOnSet(f, 0..(N - 1)) \in Nat
         /\ SumFunctionOnSet(f, 0..N) = SumFunctionOnSet(f, 0..(N - 1)) + f[N]
  <1>1. \A k \in 0..(N - 1) : f[k] \in Nat
    OBVIOUS
  <1>2. PICK T : Upward(T, f, 0..(N - 1), N)
    BY <1>1, UpwardExists
  <1>3. PICK U : Upward(U, f, 0..((N + 1) - 1), N + 1)
    <2>1. \A k \in 0..((N + 1) - 1) : f[k] \in Nat OBVIOUS
    <2>2. N + 1 \in Nat OBVIOUS
    <2>3. QED BY <2>1, <2>2, UpwardExists
  <1>4. SumFunctionOnSet(f, 0..(N - 1)) = T[N] /\ T[N] \in Nat
    BY <1>1, <1>2, SumIsUpward DEF Upward
  <1>5. SumFunctionOnSet(f, 0..((N + 1) - 1)) = U[N + 1]
    <2>1. \A k \in 0..((N + 1) - 1) : f[k] \in Nat OBVIOUS
    <2>2. N + 1 \in Nat OBVIOUS
    <2>3. QED BY <1>3, <2>1, <2>2, SumIsUpward
  <1>6. U[N + 1] = U[N] + f[N]
    <2>1. N < N + 1 /\ N \in 0..((N + 1) - 1) OBVIOUS
    <2>2. QED BY <1>3, <2>1 DEF Upward
  <1>7. T[N] = U[N]
    <2> DEFINE S == {k \in Nat : k <= N => T[k] = U[k]}
    <2>1. 0 \in S
      BY <1>2, <1>3 DEF Upward
    <2>2. ASSUME NEW k \in S PROVE k + 1 \in S
      <3>1. SUFFICES ASSUME k + 1 <= N PROVE T[k + 1] = U[k + 1]
        OBVIOUS
      <3>2. /\ k < N /\ k \in 0..(N - 1) /\ k \in Nat
            /\ k < N + 1 /\ k \in 0..((N + 1) - 1) /\ T[k] = U[k]
        BY <3>1
      <3>3. QED BY <1>2, <1>3, <3>2 DEF Upward
    <2>3. S \in SUBSET Nat OBVIOUS
    <2> HIDE DEF S
    <2>4. N \in S BY <2>1, <2>2, <2>3, SetInduction
    <2>5. QED BY <2>4 DEF S
  <1>8. (N + 1) - 1 = N
    OBVIOUS
  <1>9. QED BY <1>4, <1>5, <1>6, <1>7, <1>8
=============================================================================
