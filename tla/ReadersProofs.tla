---------------------------- MODULE ReadersProofs ----------------------------
(***************************************************************************)
(* What the readers of files return, for every file and every bound: the   *)
(* recap of the transcripts (recap.py), the rows of the bridge's logs, the *)
(* pages of a transcript and the units of a handoff ticket.  Each reads a  *)
(* file of any length in a loop, so each proof needs induction over data,  *)
(* which is said here of sets of numbers and of finite sets.               *)
(***************************************************************************)
EXTENDS Integers, Recap, BridgeLog, Transcript, HandoffBoard, FiniteSetsExt,
        SequenceTheorems, FiniteSetTheorems, WellFoundedInduction, TLAPS

-----------------------------------------------------------------------------
(* Induction, said of sets *)

\* A set of numbers that holds 0, and with a number the next one, holds all of them.
LEMMA NumbersByInduction ==
  ASSUME NEW P, 0 \in P, \A n \in Nat : n \in P => n + 1 \in P
  PROVE  \A n \in Nat : n \in P
<1> DEFINE Q == {n \in Nat : n \notin P}
<1> SUFFICES ASSUME Q # {} PROVE FALSE OBVIOUS
<1>1. Q \subseteq Nat OBVIOUS
<1> HIDE DEF Q
<1>2. PICK m \in Q : \A x \in Q : ~(<<x, m>> \in OpToRel(<, Nat)) BY <1>1, NatLessThanWellFounded, WFMin
<1>3. m \in Nat /\ m # 0 /\ m \notin P BY <1>2 DEF Q
<1>4. m - 1 \in Nat /\ (m - 1) + 1 = m /\ m - 1 < m BY <1>3
<1>5. m - 1 \notin Q BY <1>2, <1>3, <1>4 DEF OpToRel
<1>6. m - 1 \in P BY <1>4, <1>5 DEF Q
<1> QED BY <1>3, <1>4, <1>6

\* A set of subsets of a finite set that holds the empty one, and with one that with an element
\* more, holds all of them.
LEMMA SubsetsByInduction ==
  ASSUME NEW S, IsFiniteSet(S), NEW P, {} \in P, \A T \in SUBSET S : \A x \in S \ T : T \in P => T \union {x} \in P
  PROVE  \A T \in SUBSET S : T \in P
<1> DEFINE N == {n \in Nat : \A T \in SUBSET S : Cardinality(T) = n => T \in P}
<1>1. \A T \in SUBSET S : IsFiniteSet(T) /\ Cardinality(T) \in Nat BY FS_Subset, FS_CardinalityType
<1>2. 0 \in N
  <2>1. ASSUME NEW T \in SUBSET S, Cardinality(T) = 0 PROVE T \in P
    <3>1. T = {} BY <1>1, <2>1, FS_EmptySet
    <3> QED BY <3>1
  <2> QED BY <2>1
<1>3. ASSUME NEW n \in Nat, n \in N PROVE n + 1 \in N
  <2>1. ASSUME NEW T \in SUBSET S, Cardinality(T) = n + 1 PROVE T \in P
    <3>1. T # {} BY <1>1, <2>1, FS_EmptySet
    <3>2. PICK x \in T : TRUE BY <3>1
    <3>3. PICK U : U = T \ {x} OBVIOUS
    <3>4. Cardinality(U) = n
      <4>1. Cardinality(U) = Cardinality(T) - 1 BY <1>1, <3>2, <3>3, FS_RemoveElement
      <4> QED BY <2>1, <4>1
    <3>5. U \in SUBSET S /\ x \in S \ U /\ T = U \union {x} BY <3>2, <3>3
    <3>6. U \in P BY <1>3, <3>4, <3>5
    <3> QED BY <3>5, <3>6
  <2> QED BY <2>1
<1> HIDE DEF N
<1>4. \A n \in Nat : n \in N BY <1>2, <1>3, NumbersByInduction
<1> QED BY <1>1, <1>4 DEF N

-----------------------------------------------------------------------------
(* Sums *)

\* What a sum over the subsets of S is by its definition: that of none is 0, that of others is one
\* of its elements' number more than that of the rest.
AnyOf(T) == CHOOSE x \in T : TRUE
IsSum(g, S, w) ==
  /\ IsFiniteSet(S) /\ (\A x \in S : w[x] \in Nat) /\ DOMAIN g = SUBSET S
  /\ \A T \in SUBSET S : g[T] \in Nat /\ g[T] = IF T = {} THEN 0 ELSE w[AnyOf(T)] + g[T \ {AnyOf(T)}]

\* There is such a sum.
LEMMA SumsExist ==
  ASSUME NEW S, IsFiniteSet(S), NEW w, \A x \in S : w[x] \in Nat
  PROVE  \E g : /\ g = [T \in SUBSET S |-> IF T = {} THEN 0 ELSE w[AnyOf(T)] + g[T \ {AnyOf(T)}]]
                /\ IsSum(g, S, w)
<1> DEFINE UpTo(n) == {T \in SUBSET S : Cardinality(T) <= n}
           IsSumTo(g, n) == \A T \in UpTo(n) : g[T] \in Nat /\ g[T] = IF T = {} THEN 0 ELSE w[AnyOf(T)] + g[T \ {AnyOf(T)}]
           N == {n \in Nat : \E g : IsSumTo(g, n)}
<1>1. \A T \in SUBSET S : IsFiniteSet(T) /\ Cardinality(T) \in Nat BY FS_Subset, FS_CardinalityType
<1>2. \A T \in SUBSET S : T # {} => AnyOf(T) \in T /\ T \ {AnyOf(T)} \in SUBSET S BY DEF AnyOf
<1>3. \A T \in SUBSET S : T # {} => Cardinality(T \ {AnyOf(T)}) = Cardinality(T) - 1 BY <1>1, <1>2, FS_RemoveElement
<1>4. 0 \in N
  <2>1. \A T \in UpTo(0) : T = {}
    <3>1. ASSUME NEW T \in SUBSET S, Cardinality(T) <= 0 PROVE T = {}
      <4>1. Cardinality(T) = 0 BY <1>1, <3>1
      <4> QED BY <1>1, <4>1, FS_EmptySet
    <3> QED BY <3>1
  <2>2. IsSumTo([T \in SUBSET S |-> 0], 0) BY <2>1
  <2> QED BY <2>2
<1>5. ASSUME NEW n \in Nat, n \in N PROVE n + 1 \in N
  <2>1. PICK g : IsSumTo(g, n) BY <1>5
  <2> DEFINE h == [T \in SUBSET S |-> IF T = {} THEN 0 ELSE w[AnyOf(T)] + g[T \ {AnyOf(T)}]]
  <2>2. \A T \in UpTo(n) : h[T] = g[T] BY <2>1
  <2>3. ASSUME NEW T \in UpTo(n + 1), T # {} PROVE h[T] \in Nat /\ h[T] = w[AnyOf(T)] + h[T \ {AnyOf(T)}]
    <3>1. PICK U : U = T \ {AnyOf(T)} OBVIOUS
    <3>2. AnyOf(T) \in S /\ U \in SUBSET S /\ Cardinality(U) = Cardinality(T) - 1 BY <1>2, <1>3, <2>3, <3>1
    <3>3. Cardinality(T) \in Nat /\ Cardinality(T) <= n + 1 BY <1>1
    <3>4. U \in UpTo(n) BY <3>2, <3>3
    <3>5. h[U] = g[U] /\ g[U] \in Nat BY <2>1, <2>2, <3>4
    <3>6. h[T] = w[AnyOf(T)] + g[U] BY <2>3, <3>1
    <3>7. w[AnyOf(T)] \in Nat BY <3>2
    <3> QED BY <3>1, <3>5, <3>6, <3>7
  <2>4. {} \in UpTo(n + 1) => h[{}] = 0 OBVIOUS
  <2> HIDE DEF h
  <2>5. \A T \in UpTo(n + 1) : h[T] \in Nat /\ h[T] = IF T = {} THEN 0 ELSE w[AnyOf(T)] + h[T \ {AnyOf(T)}]
    <3> SUFFICES ASSUME NEW T \in UpTo(n + 1) PROVE h[T] \in Nat /\ h[T] = IF T = {} THEN 0 ELSE w[AnyOf(T)] + h[T \ {AnyOf(T)}]
      OBVIOUS
    <3>1. CASE T = {} BY <2>4, <3>1
    <3>2. CASE T # {} BY <2>3, <3>2
    <3> QED BY <3>1, <3>2
  <2>6. \E f : IsSumTo(f, n + 1)
    <3> WITNESS h
    <3> QED BY <2>5
  <2>7. n + 1 \in Nat OBVIOUS
  <2> QED BY <2>6, <2>7
<1> HIDE DEF N
<1>6. Cardinality(S) \in N BY <1>1, <1>4, <1>5, NumbersByInduction
<1>7. PICK g : IsSumTo(g, Cardinality(S)) BY <1>6 DEF N
<1>8. UpTo(Cardinality(S)) = SUBSET S BY <1>1, FS_Subset
<1> DEFINE h == [T \in SUBSET S |-> g[T]]
<1>9. \A T \in SUBSET S : h[T] = g[T] /\ h[T] \in Nat BY <1>7, <1>8
<1>10. \A T \in SUBSET S : T # {} => h[T \ {AnyOf(T)}] = g[T \ {AnyOf(T)}] BY <1>2
<1>11. \A T \in SUBSET S : h[T] = IF T = {} THEN 0 ELSE w[AnyOf(T)] + h[T \ {AnyOf(T)}] BY <1>7, <1>8, <1>9, <1>10
<1>12. DOMAIN h = SUBSET S /\ h = [T \in SUBSET S |-> h[T]] OBVIOUS
<1> HIDE DEF h
<1>13. h = [T \in SUBSET S |-> IF T = {} THEN 0 ELSE w[AnyOf(T)] + h[T \ {AnyOf(T)}]] BY <1>11, <1>12
<1> QED BY <1>9, <1>11, <1>12, <1>13 DEF IsSum

\* It is the same in whatever order the elements are taken.
LEMMA SumsSplit ==
  ASSUME NEW S, NEW w, NEW g, IsSum(g, S, w), NEW W \in SUBSET S, NEW y \in W
  PROVE  g[W] = w[y] + g[W \ {y}]
<1>0. IsFiniteSet(S) /\ \A x \in S : w[x] \in Nat BY DEF IsSum
<1> DEFINE N == {n \in Nat : \A T \in SUBSET S : Cardinality(T) = n => \A x \in T : g[T] = w[x] + g[T \ {x}]}
<1>1. \A T \in SUBSET S : IsFiniteSet(T) /\ Cardinality(T) \in Nat BY <1>0, FS_Subset, FS_CardinalityType
<1>2. \A T \in SUBSET S : g[T] \in Nat BY DEF IsSum
<1>3. 0 \in N
  <2>1. \A T \in SUBSET S : Cardinality(T) = 0 => T = {} BY <1>1, FS_EmptySet
  <2> QED BY <2>1
<1>4. ASSUME NEW n \in Nat, n \in N PROVE n + 1 \in N
  <2>1. ASSUME NEW T \in SUBSET S, Cardinality(T) = n + 1, NEW x \in T PROVE g[T] = w[x] + g[T \ {x}]
    <3>1. PICK c : c = AnyOf(T) OBVIOUS
    <3>2. c \in T /\ g[T] = w[c] + g[T \ {c}] BY <2>1, <3>1 DEF AnyOf, IsSum
    <3>3. CASE c = x BY <3>2, <3>3
    <3>4. CASE c # x
      <4>1. PICK A, B : A = T \ {c} /\ B = T \ {x} OBVIOUS
      <4>2. Cardinality(A) = Cardinality(T) - 1 /\ Cardinality(B) = Cardinality(T) - 1 BY <1>1, <3>2, <4>1, FS_RemoveElement
      <4>3. Cardinality(A) = n /\ Cardinality(B) = n /\ x \in A /\ c \in B /\ A \in SUBSET S /\ B \in SUBSET S
        BY <2>1, <3>2, <3>4, <4>1, <4>2
      <4>4. g[A] = w[x] + g[A \ {x}] /\ g[B] = w[c] + g[B \ {c}] BY <1>4, <4>3
      <4>5. A \ {x} = B \ {c} /\ A \ {x} \in SUBSET S BY <4>1
      <4>6. w[x] \in Nat /\ w[c] \in Nat /\ g[A \ {x}] \in Nat BY <1>0, <1>2, <3>2, <4>5
      <4>7. g[T] = w[c] + g[A] /\ g[A \ {x}] = g[B \ {c}] BY <3>2, <4>1, <4>5
      <4>8. g[T] = w[x] + g[B] BY <4>4, <4>6, <4>7
      <4> QED BY <4>1, <4>8
    <3> QED BY <3>3, <3>4
  <2> QED BY <2>1
<1> HIDE DEF N
<1>5. \A n \in Nat : n \in N BY <1>3, <1>4, NumbersByInduction
<1> QED BY <1>1, <1>5 DEF N

\* Two numberings that are the same on U.
SameOn(U, w, v) == \A x \in U : w[x] = v[x]

\* It depends on nothing but the elements and their numbers.
LEMMA SumsAgree ==
  ASSUME NEW S, NEW w, NEW g, NEW R, NEW v, NEW h, IsSum(g, S, w), IsSum(h, R, v),
         NEW U \in SUBSET (S \cap R), SameOn(U, w, v)
  PROVE  g[U] = h[U]
<1>0. IsFiniteSet(S) /\ \A x \in S : w[x] \in Nat BY DEF IsSum
<1> DEFINE P == {T \in SUBSET U : g[T] = h[T]}
<1>1. {} \in P BY DEF IsSum
<1>2. ASSUME NEW T \in SUBSET U, NEW x \in U \ T, T \in P PROVE T \union {x} \in P
  <2>1. PICK A : A = T \union {x} OBVIOUS
  <2>2. A \in SUBSET S /\ A \in SUBSET R /\ A \in SUBSET U /\ x \in A /\ A \ {x} = T BY <2>1
  <2>3. g[A] = w[x] + g[A \ {x}] BY <2>2, SumsSplit
  <2>4. h[A] = v[x] + h[A \ {x}] BY <2>2, SumsSplit
  <2>5. w[x] = v[x] /\ g[T] = h[T] BY <1>2 DEF SameOn
  <2>6. g[A] = h[A] BY <2>2, <2>3, <2>4, <2>5
  <2> QED BY <2>1, <2>2, <2>6
<1>3. IsFiniteSet(U) BY <1>0, FS_Subset
<1> HIDE DEF P
<1>4. \A T \in SUBSET U : T \in P BY <1>1, <1>2, <1>3, SubsetsByInduction
<1> QED BY <1>4 DEF P

\* D is made of two parts.
Parts2(D, A, B) == D = A \union B /\ A \cap B = {}

\* The sum of two parts.
LEMMA SumsOfParts ==
  ASSUME NEW S, NEW w, NEW g, NEW D, NEW A, NEW B, IsSum(g, S, w), Parts2(D, A, B), D \in SUBSET S
  PROVE  g[D] = g[A] + g[B]
<1>0. IsFiniteSet(S) /\ \A x \in S : w[x] \in Nat BY DEF IsSum
<1> DEFINE P == {T \in SUBSET B : g[A \union T] = g[A] + g[T]}
<1>1. \A T \in SUBSET S : g[T] \in Nat BY DEF IsSum
<1>7. A \cap B = {} /\ D = A \union B /\ A \in SUBSET S /\ B \in SUBSET S BY DEF Parts2
<1>2. {} \in P
  <2>1. A \union {} = A /\ g[{}] = 0 /\ g[A] \in Nat BY <1>1, <1>7 DEF IsSum
  <2> QED BY <2>1
<1>3. ASSUME NEW T \in SUBSET B, NEW x \in B \ T, T \in P PROVE T \union {x} \in P
  <2>1. PICK C, E : C = T \union {x} /\ E = A \union (T \union {x}) OBVIOUS
  <2>2. C \in SUBSET S /\ E \in SUBSET S /\ x \in C /\ x \in E /\ C \ {x} = T /\ E \ {x} = A \union T BY <1>7, <2>1
  <2>3. g[C] = w[x] + g[T]
    <3>1. g[C] = w[x] + g[C \ {x}] BY <2>2, SumsSplit
    <3> QED BY <2>2, <3>1
  <2>6. g[E] = w[x] + g[A \union T]
    <3>1. g[E] = w[x] + g[E \ {x}] BY <2>2, SumsSplit
    <3> QED BY <2>2, <3>1
  <2>4. w[x] \in Nat /\ g[T] \in Nat /\ g[A] \in Nat /\ g[A \union T] = g[A] + g[T] BY <1>0, <1>1, <1>3, <1>7
  <2>5. g[E] = g[A] + g[C] BY <2>3, <2>4, <2>6
  <2> QED BY <2>1, <2>5
<1>4. IsFiniteSet(B) BY <1>0, <1>7, FS_Subset
<1> HIDE DEF P
<1>5. \A T \in SUBSET B : T \in P BY <1>2, <1>3, <1>4, SubsetsByInduction
<1> QED BY <1>5, <1>7 DEF P

\* Whatever is defined like a sum is one: its values are numbers.
LEMMA SumsAreNumbers ==
  ASSUME NEW S, IsFiniteSet(S), NEW w, \A x \in S : w[x] \in Nat, NEW g, DOMAIN g = SUBSET S,
         \A T \in SUBSET S : g[T] = IF T = {} THEN 0 ELSE w[AnyOf(T)] + g[T \ {AnyOf(T)}]
  PROVE  IsSum(g, S, w)
<1> DEFINE N == {n \in Nat : \A T \in SUBSET S : Cardinality(T) = n => g[T] \in Nat}
<1>1. \A T \in SUBSET S : IsFiniteSet(T) /\ Cardinality(T) \in Nat BY FS_Subset, FS_CardinalityType
<1>2. 0 \in N
  <2>1. {} \in SUBSET S OBVIOUS
  <2>2. g[{}] = 0 BY <2>1
  <2>3. \A T \in SUBSET S : Cardinality(T) = 0 => T = {} BY <1>1, FS_EmptySet
  <2>4. ASSUME NEW T \in SUBSET S, Cardinality(T) = 0 PROVE g[T] \in Nat
    <3>1. g[T] = 0 BY <2>2, <2>3, <2>4
    <3> QED BY <3>1
  <2> QED BY <2>4
<1>3. ASSUME NEW n \in Nat, n \in N PROVE n + 1 \in N
  <2>1. ASSUME NEW T \in SUBSET S, Cardinality(T) = n + 1 PROVE g[T] \in Nat
    <3>1. PICK A : A = T \ {AnyOf(T)} OBVIOUS
    <3>2. T # {} BY <1>1, <2>1, FS_EmptySet
    <3>3. AnyOf(T) \in T BY <3>2 DEF AnyOf
    <3>4. Cardinality(A) = Cardinality(T) - 1 BY <1>1, <3>1, <3>3, FS_RemoveElement
    <3>5. Cardinality(A) = n /\ A \in SUBSET S BY <2>1, <3>1, <3>4
    <3>6. g[A] \in Nat /\ w[AnyOf(T)] \in Nat BY <1>3, <3>3, <3>5
    <3>7. g[T] = w[AnyOf(T)] + g[A] BY <3>1, <3>2
    <3> QED BY <3>6, <3>7
  <2> QED BY <2>1
<1> HIDE DEF N
<1>4. \A n \in Nat : n \in N BY <1>2, <1>3, NumbersByInduction
<1>5. \A T \in SUBSET S : g[T] \in Nat BY <1>1, <1>4 DEF N
<1> QED BY <1>5 DEF IsSum

\* The library's sum of numbers is such a sum.
LEMMA SumSetIsSum ==
  ASSUME NEW S \in SUBSET Nat, NEW g, IsSum(g, S, [x \in S |-> x])
  PROVE  \A T \in SUBSET S : SumSet(T) = g[T]
<1> SUFFICES ASSUME NEW T \in SUBSET S PROVE SumSet(T) = g[T] OBVIOUS
<1> DEFINE w == [x \in T |-> x]
           Eq(f) == f = [U \in SUBSET T |-> IF U = {} THEN 0 ELSE (CHOOSE x \in U : TRUE) + f[U \ {CHOOSE x \in U : TRUE}]]
<1>0. IsFiniteSet(S) BY DEF IsSum
<1>1. IsFiniteSet(T) /\ \A x \in T : w[x] \in Nat BY <1>0, FS_Subset
<1>2. PICK f : /\ f = [U \in SUBSET T |-> IF U = {} THEN 0 ELSE w[AnyOf(U)] + f[U \ {AnyOf(U)}]]
               /\ IsSum(f, T, w)
  BY <1>1, SumsExist
<1>3. Eq(f)
  <2>1. DOMAIN f = SUBSET T /\ f = [U \in SUBSET T |-> f[U]] BY <1>2
  <2>2. \A U \in SUBSET T : f[U] = IF U = {} THEN 0 ELSE w[AnyOf(U)] + f[U \ {AnyOf(U)}] BY <1>2
  <2>3. \A U \in SUBSET T : U # {} => w[AnyOf(U)] = AnyOf(U) BY DEF AnyOf
  <2>4. \A U \in SUBSET T : f[U] = IF U = {} THEN 0 ELSE AnyOf(U) + f[U \ {AnyOf(U)}] BY <2>2, <2>3
  <2>5. \A U \in SUBSET T : f[U] = IF U = {} THEN 0 ELSE (CHOOSE x \in U : TRUE) + f[U \ {CHOOSE x \in U : TRUE}]
    BY <2>4 DEF AnyOf
  <2> QED BY <2>1, <2>5
<1>4. Eq(CHOOSE h : Eq(h))
  <2> HIDE DEF Eq
  <2> QED BY <1>3, Zenon
<1>5. PICK h : h = (CHOOSE o : Eq(o)) OBVIOUS
<1>6. SumSet(T) = h[T] BY <1>5, Zenon DEF SumSet, FoldSet, MapThenFoldSet
<1>7. IsSum(h, T, w)
  <2>1. h = [U \in SUBSET T |-> IF U = {} THEN 0 ELSE (CHOOSE x \in U : TRUE) + h[U \ {CHOOSE x \in U : TRUE}]]
    BY <1>4, <1>5
  <2>2. \A U \in SUBSET T : h[U] = IF U = {} THEN 0 ELSE AnyOf(U) + h[U \ {AnyOf(U)}] BY <2>1 DEF AnyOf
  <2>3. \A U \in SUBSET T : U # {} => w[AnyOf(U)] = AnyOf(U) BY DEF AnyOf
  <2>4. \A U \in SUBSET T : h[U] = IF U = {} THEN 0 ELSE w[AnyOf(U)] + h[U \ {AnyOf(U)}] BY <2>2, <2>3
  <2>5. DOMAIN h = SUBSET T BY <2>1
  <2> HIDE DEF w
  <2> QED BY <1>1, <2>4, <2>5, SumsAreNumbers
<1>8. h[T] = g[T]
  <2>1. PICK u, v : u = w /\ v = [x \in S |-> x] OBVIOUS
  <2>2. /\ \A x \in S : v[x] \in Nat
        /\ \A x \in T : u[x] \in Nat /\ u[x] = v[x]
    BY <2>1
  <2>3. IsSum(h, T, u) /\ IsSum(g, S, v) BY <1>7, <2>1
  <2>4. IsFiniteSet(S) /\ IsFiniteSet(T) /\ T \subseteq S BY <1>0, <1>1
  <2> HIDE DEF w
  <2>5. SameOn(T, v, u) BY <2>2 DEF SameOn
  <2>6. T \in SUBSET (S \cap T) OBVIOUS
  <2>7. g[T] = h[T] BY <2>3, <2>5, <2>6, SumsAgree
  <2> QED BY <2>7
<1> QED BY <1>6, <1>8

\* So is its sum of a function's values.
LEMMA SumFunctionIsSum ==
  ASSUME NEW S, NEW w, NEW g, IsSum(g, S, w), NEW T \in SUBSET S, NEW v, DOMAIN v = T, SameOn(T, w, v)
  PROVE  SumFunction(v) = g[T]
<1> DEFINE Eq(f) == f = [U \in SUBSET T |-> IF U = {} THEN 0 ELSE v[CHOOSE x \in U : TRUE] + f[U \ {CHOOSE x \in U : TRUE}]]
<1>0. IsFiniteSet(S) /\ \A x \in S : w[x] \in Nat BY DEF IsSum
<1>1. IsFiniteSet(T) /\ \A x \in T : v[x] \in Nat BY <1>0, FS_Subset DEF SameOn
<1>2. PICK f : /\ f = [U \in SUBSET T |-> IF U = {} THEN 0 ELSE v[AnyOf(U)] + f[U \ {AnyOf(U)}]]
               /\ IsSum(f, T, v)
  BY <1>1, SumsExist
<1>3. Eq(f)
  <2>1. f = [U \in SUBSET T |-> IF U = {} THEN 0 ELSE v[AnyOf(U)] + f[U \ {AnyOf(U)}]] BY <1>2
  <2> QED BY <2>1, Zenon DEF AnyOf
<1>4. Eq(CHOOSE h : Eq(h))
  <2> HIDE DEF Eq
  <2> QED BY <1>3, Zenon
<1>5. PICK h : h = (CHOOSE o : Eq(o)) OBVIOUS
<1>6. SumFunction(v) = h[T] BY <1>5, Zenon DEF SumFunction, SumFunctionOnSet, FoldFunctionOnSet, MapThenFoldSet
<1>7. IsSum(h, T, v)
  <2>1. h = [U \in SUBSET T |-> IF U = {} THEN 0 ELSE v[CHOOSE x \in U : TRUE] + h[U \ {CHOOSE x \in U : TRUE}]]
    BY <1>4, <1>5
  <2>2. \A U \in SUBSET T : h[U] = IF U = {} THEN 0 ELSE v[AnyOf(U)] + h[U \ {AnyOf(U)}] BY <2>1 DEF AnyOf
  <2>3. DOMAIN h = SUBSET T BY <2>1
  <2> QED BY <1>1, <2>2, <2>3, SumsAreNumbers
<1>8. T \in SUBSET (S \cap T) OBVIOUS
<1>9. g[T] = h[T] BY <1>7, <1>8, SumsAgree
<1> QED BY <1>6, <1>9

\* The sum of numbers: nothing of none, and that of two parts.
LEMMA SumSetOfParts ==
  ASSUME NEW A \in SUBSET Nat, NEW B \in SUBSET Nat, IsFiniteSet(A), IsFiniteSet(B), A \cap B = {}
  PROVE  /\ SumSet(A) \in Nat /\ SumSet(B) \in Nat
         /\ SumSet(A \union B) = SumSet(A) + SumSet(B)
<1>1. PICK S : S = A \union B OBVIOUS
<1>2. IsFiniteSet(S) /\ S \in SUBSET Nat /\ A \in SUBSET S /\ B \in SUBSET S BY <1>1, FS_Union
<1>3. PICK w : w = [x \in S |-> x] OBVIOUS
<1>4. \A x \in S : w[x] \in Nat BY <1>2, <1>3
<1>5. PICK g : IsSum(g, S, w) BY <1>2, <1>4, SumsExist
<1>6. \A T \in SUBSET S : SumSet(T) = g[T] BY <1>2, <1>3, <1>5, SumSetIsSum
<1>7. g[S] = g[A] + g[B]
  <2>1. S \in SUBSET S /\ A \in SUBSET S /\ B \in SUBSET S /\ Parts2(S, A, B) BY <1>1, <1>2 DEF Parts2
  <2> QED BY <1>5, <2>1, SumsOfParts
<1>8. g[A] \in Nat /\ g[B] \in Nat BY <1>2, <1>5 DEF IsSum
<1>9. S \in SUBSET S OBVIOUS
<1>10. SumSet(S) = g[S] /\ SumSet(A) = g[A] /\ SumSet(B) = g[B] BY <1>2, <1>6, <1>9
<1> QED BY <1>1, <1>7, <1>8, <1>10

\* The sum of no numbers is 0.
LEMMA SumSetOfNone == SumSet({}) = 0
<1>1. IsFiniteSet({}) BY FS_EmptySet
<1>2. SumSet({}) \in Nat /\ SumSet({} \union {}) = SumSet({}) + SumSet({}) BY <1>1, SumSetOfParts
<1>3. {} \union {} = {} OBVIOUS
<1>4. SumSet({}) = SumSet({}) + SumSet({}) BY <1>2, <1>3
<1>5. PICK n \in Nat : n = SumSet({}) BY <1>2
<1>6. n = n + n BY <1>4, <1>5
<1>7. n = 0
  <2> HIDE <1>5
  <2> QED BY <1>6, SMTT(60)
<1> QED BY <1>5, <1>7, Zenon

\* The sum of a function's values is a number, 0 for none, and with a value more that much more.
LEMMA SumFunctionIsNumber ==
  ASSUME NEW v, IsFiniteSet(DOMAIN v), \A x \in DOMAIN v : v[x] \in Nat
  PROVE  SumFunction(v) \in Nat /\ (DOMAIN v = {} => SumFunction(v) = 0)
<1>1. PICK g : IsSum(g, DOMAIN v, v) BY SumsExist
<1>2. DOMAIN v \in SUBSET DOMAIN v /\ SameOn(DOMAIN v, v, v) BY DEF SameOn
<1>3. SumFunction(v) = g[DOMAIN v] BY <1>1, <1>2, SumFunctionIsSum
<1>4. g[DOMAIN v] \in Nat /\ (DOMAIN v = {} => g[DOMAIN v] = 0) BY <1>1, <1>2 DEF IsSum
<1> QED BY <1>3, <1>4

\* A value more adds itself to the sum of a function's values.
LEMMA SumFunctionOfOneMore ==
  ASSUME NEW M, NEW x, NEW u, NEW v, x \notin M, IsFiniteSet(M), DOMAIN u = M, DOMAIN v = M \union {x},
         SameOn(M, v, u), \A y \in M \union {x} : v[y] \in Nat
  PROVE  SumFunction(v) = SumFunction(u) + v[x]
<1>1. PICK S : S = M \union {x} OBVIOUS
<1>2. IsFiniteSet(S) /\ M \in SUBSET S /\ S \in SUBSET S /\ x \in S /\ S \ {x} = M BY <1>1, FS_AddElement
<1>3. PICK g : IsSum(g, S, v) BY <1>1, <1>2, SumsExist
<1>4. DOMAIN v = S /\ SameOn(S, v, v) BY <1>1 DEF SameOn
<1>5. SumFunction(v) = g[S] BY <1>2, <1>3, <1>4, SumFunctionIsSum
<1>6. SumFunction(u) = g[M] BY <1>2, <1>3, SumFunctionIsSum
<1>7. g[S] = v[x] + g[S \ {x}] BY <1>2, <1>3, SumsSplit
<1>8. v[x] \in Nat /\ g[M] \in Nat BY <1>2, <1>3 DEF IsSum
<1>9. g[S] = v[x] + g[M] BY <1>2, <1>7
<1> QED BY <1>5, <1>6, <1>8, <1>9

-----------------------------------------------------------------------------
(* The history recap *)

\* What a part of the recap may be.
RecapShares == [session : {"s1", "s2"}, project : {"p1", "p2"}, log : TurnLogs, turns : SUBSET RecapTurns]
RecapRows == [machine : Nat, session : {"s1", "s2"}, tokens : Nat]

\* The transcripts; a line is as old as its transcript, or older.
LogsAreDated ==
  /\ hour \in 0..MaxHour /\ DOMAIN logs = TurnLogs /\ DOMAIN mtime = TurnLogs
  /\ \A f \in TurnLogs :
       /\ IsFiniteSet(logs[f]) /\ logs[f] \subseteq [turn : RecapTurns, ts : 0..MaxHour] /\ mtime[f] \in Int
       /\ \A l \in logs[f] : l.ts <= hour /\ mtime[f] >= l.ts - MtimeSkew

RecapShape ==
  /\ recap \in [place : {"rest", "read", "merge", "done"}, until : 0..MaxHour, todo : SUBSET TurnLogs,
                seen : SUBSET RecapTurns, shares : SUBSET RecapShares, active : SUBSET (0..MaxHour),
                tokens : Nat, cost : Nat \union {Unknown}, unpriced : BOOLEAN,
                sessions : SUBSET RecapRows, merged : SUBSET Remotes]
  /\ IsFiniteSet(recap.seen) /\ IsFiniteSet(recap.shares) /\ IsFiniteSet(recap.merged) /\ IsFiniteSet(AllRows)
  /\ \A sh \in recap.shares : IsFiniteSet(sh.turns)
  /\ AllRows \subseteq RecapRows

\* What is still to be counted is in a transcript that is still to be read.
TurnsAreFound ==
  /\ recap.place \in {"rest", "read"} => recap.merged = {}
  /\ recap.place \in {"merge", "done"} => recap.todo = {}
  /\ recap.place # "rest" =>
       \A l \in atStart : InWindow(l) => l.turn \in recap.seen \/ \E f \in recap.todo : l \in logs[f]
  /\ \A t \in recap.seen : \E l \in RecapLines : l.turn = t /\ InWindow(l)

\* What is added up, and what is shown of it.
TurnsAreAdded ==
  /\ recap.tokens = SumSet(recap.seen) + MergedTokens
  /\ recap.place \in {"merge", "done"} => recap.sessions = Top(AllRows)
  /\ recap.cost # Unknown => ~recap.unpriced

RecapIInv == LogsAreDated /\ RecapShape /\ TurnsAreFound /\ TurnsAreAdded

\* Of rows with numbers, larger is a strict order.
LEMMA LargerIsAnOrder ==
  ASSUME NEW o \in RecapRows, NEW p \in RecapRows, NEW r \in RecapRows
  PROVE  ~Larger(o, o) /\ (Larger(o, p) /\ Larger(p, r) => Larger(o, r))
<1>1. \A q \in RecapRows : q.tokens \in Nat /\ q.machine \in Nat /\ q.session \in {"s1", "s2"} BY DEF RecapRows
<1> QED BY <1>1 DEF Larger

\* The largest rows of two sets are among the largest of the one and the other set: what fell out of
\* a machine's list has as many larger rows in it.
LEMMA TopOfTop ==
  ASSUME NEW X \in SUBSET RecapRows, NEW Y \in SUBSET RecapRows, IsFiniteSet(X), IsFiniteSet(Y)
  PROVE  Top(Top(X) \union Y) = Top(X \union Y)
<1> DEFINE Over(S, r) == {o \in S : Larger(o, r)}
<1>1. PICK Z, W : Z = X \union Y /\ W = Top(X) \union Y OBVIOUS
<1>2. /\ Top(X) \subseteq X /\ W \subseteq Z /\ Z \subseteq RecapRows
      /\ IsFiniteSet(Z) /\ IsFiniteSet(W) /\ IsFiniteSet(X)
  <2>1. Top(X) \subseteq X BY DEF Top
  <2>2. IsFiniteSet(Z) BY <1>1, FS_Union
  <2> QED BY <1>1, <2>1, <2>2, FS_Subset
<1>3. \A S : \A r : IsFiniteSet(S) => IsFiniteSet(Over(S, r)) /\ Cardinality(Over(S, r)) \in Nat
  BY FS_Subset, FS_CardinalityType
<1>4. \A S : \A r : r \in Top(S) <=> r \in S /\ Cardinality(Over(S, r)) < TopN BY DEF Top
<1>5. TopN \in Nat BY RecapAssumption
<1>6. ASSUME NEW S, NEW T, S \subseteq T, IsFiniteSet(T), NEW r PROVE Cardinality(Over(S, r)) <= Cardinality(Over(T, r))
  <2>1. Over(S, r) \subseteq Over(T, r) BY <1>6
  <2>2. IsFiniteSet(Over(T, r)) BY <1>3, <1>6
  <2> HIDE DEF Over
  <2> QED BY <2>1, <2>2, FS_Subset
<1> HIDE DEF Over
<1>7. ASSUME NEW r \in Top(Z) PROVE r \in Top(W)
  <2>1. r \in Z /\ Cardinality(Over(Z, r)) < TopN BY <1>4
  <2>2. Cardinality(Over(X, r)) <= Cardinality(Over(Z, r)) /\ Cardinality(Over(W, r)) <= Cardinality(Over(Z, r))
    <3>1. X \subseteq Z BY <1>1
    <3> QED BY <1>2, <1>6, <3>1
  <2>3. Cardinality(Over(X, r)) \in Nat /\ Cardinality(Over(W, r)) \in Nat /\ Cardinality(Over(Z, r)) \in Nat BY <1>2, <1>3
  <2>4. Cardinality(Over(X, r)) < TopN /\ Cardinality(Over(W, r)) < TopN BY <1>5, <2>1, <2>2, <2>3
  <2>5. r \in W BY <1>1, <1>4, <2>1, <2>4
  <2> QED BY <1>4, <2>4, <2>5
<1>8. ASSUME NEW r \in Top(W) PROVE r \in Top(Z)
  <2>1. r \in W /\ Cardinality(Over(W, r)) < TopN BY <1>4
  <2>2. r \in RecapRows BY <1>2, <2>1
  <2> DEFINE Lost == Over(X \ Top(X), r)
  <2>3. Lost = {}
    <3> SUFFICES ASSUME Lost # {} PROVE FALSE OBVIOUS
    <3> DEFINE Ranks == {Cardinality(Over(X, o)) : o \in Lost}
    <3>1. Lost \subseteq X /\ \A o \in Lost : o \notin Top(X) /\ Larger(o, r) BY DEF Over
    <3>2. Ranks \subseteq Nat /\ Ranks # {}
      <4> HIDE DEF Lost
      <4> QED BY <1>2, <1>3
    <3> HIDE DEF Lost
    <3>3. PICK n \in Ranks : \A m \in Ranks : ~(<<m, n>> \in OpToRel(<, Nat))
      <4> HIDE DEF Ranks
      <4> QED BY <3>2, NatLessThanWellFounded, WFMin
    <3>4. PICK o \in Lost : Cardinality(Over(X, o)) = n BY <3>3
    <3>5. \A p \in Lost : ~(Cardinality(Over(X, p)) < Cardinality(Over(X, o)))
      <4> SUFFICES ASSUME NEW p \in Lost, Cardinality(Over(X, p)) < Cardinality(Over(X, o)) PROVE FALSE OBVIOUS
      <4>1. Cardinality(Over(X, p)) \in Ranks OBVIOUS
      <4>2. Cardinality(Over(X, p)) \in Nat /\ n \in Nat BY <3>2, <3>3, <4>1
      <4> QED BY <3>3, <3>4, <4>1, <4>2 DEF OpToRel
    <3>6. Cardinality(Over(X, o)) \in Nat /\ Cardinality(Over(X, o)) >= TopN
      <4>1. Cardinality(Over(X, o)) \in Nat BY <1>2, <1>3
      <4>2. ~(Cardinality(Over(X, o)) < TopN) BY <1>4, <3>1
      <4> QED BY <1>5, <4>1, <4>2
    <3>7. ASSUME NEW p \in Over(X, o) PROVE p \in Over(W, r)
      <4>1. p \in X /\ Larger(p, o) /\ Larger(o, r) /\ p \in RecapRows /\ o \in RecapRows /\ o \in X BY <3>1 DEF Over
      <4>2. Larger(p, r) BY <2>2, <4>1, LargerIsAnOrder
      <4>3. Over(X, p) \subseteq Over(X, o) \ {p}
        <5> SUFFICES ASSUME NEW q \in Over(X, p) PROVE q \in Over(X, o) /\ q # p OBVIOUS
        <5>1. q \in X /\ Larger(q, p) /\ q \in RecapRows BY DEF Over
        <5>2. Larger(q, o) /\ q # p BY <4>1, <5>1, LargerIsAnOrder
        <5> QED BY <5>1, <5>2 DEF Over
      <4>4. Cardinality(Over(X, p)) < Cardinality(Over(X, o))
        <5>1. IsFiniteSet(Over(X, o)) /\ Cardinality(Over(X, o)) \in Nat /\ Cardinality(Over(X, p)) \in Nat BY <1>2, <1>3
        <5>2. PICK U : U = Over(X, o) \ {p} OBVIOUS
        <5>3. IsFiniteSet(U) /\ Cardinality(U) = Cardinality(Over(X, o)) - 1 BY <3>7, <5>1, <5>2, FS_RemoveElement
        <5>4. Cardinality(Over(X, p)) <= Cardinality(U) BY <4>3, <5>2, <5>3, FS_Subset
        <5> QED BY <5>1, <5>3, <5>4
      <4>5. p \notin Lost BY <3>5, <4>4
      <4>6. p \in Top(X) BY <4>1, <4>2, <4>5 DEF Lost, Over
      <4> QED BY <1>1, <4>2, <4>6 DEF Over
    <3>8. Cardinality(Over(X, o)) <= Cardinality(Over(W, r))
      <4>1. Over(X, o) \subseteq Over(W, r) BY <3>7
      <4>2. IsFiniteSet(Over(W, r)) BY <1>2, <1>3
      <4> QED BY <4>1, <4>2, FS_Subset
    <3>9. Cardinality(Over(W, r)) \in Nat BY <1>2, <1>3
    <3> QED BY <1>5, <2>1, <3>6, <3>8, <3>9
  <2>4. Over(Z, r) = Over(W, r) BY <1>1, <1>2, <2>3 DEF Over
  <2> QED BY <1>2, <1>4, <2>1, <2>4
<1> QED BY <1>1, <1>7, <1>8

\* The rows of the sessions are rows, of finitely many sessions.
LEMMA SessionRowsAreRows ==
  ASSUME NEW shares \in SUBSET RecapShares, IsFiniteSet(shares), \A sh \in shares : IsFiniteSet(sh.turns)
  PROVE  SessionRows(shares, 0) \in SUBSET RecapRows /\ IsFiniteSet(SessionRows(shares, 0))
<1> DEFINE Of(s) == {sh \in shares : sh.session = s}
           Row(s) == [machine |-> 0, session |-> s, tokens |-> SharedTokens(Of(s))]
           Named == {sh.session : sh \in shares}
<1>1. ASSUME NEW s PROVE SharedTokens(Of(s)) \in Nat
  <2>1. PICK T : T = Of(s) OBVIOUS
  <2>2. IsFiniteSet(T) /\ T \subseteq shares BY <2>1, FS_Subset
  <2>3. \A sh \in T : SumSet(sh.turns) \in Nat
    <3> SUFFICES ASSUME NEW sh \in T PROVE SumSet(sh.turns) \in Nat OBVIOUS
    <3>1. PICK ts : ts = sh.turns OBVIOUS
    <3>2. ts \in SUBSET Nat /\ IsFiniteSet(ts) BY <2>2, <3>1, RecapAssumption DEF RecapShares
    <3>3. IsFiniteSet({}) BY FS_EmptySet
    <3>4. SumSet(ts) \in Nat BY <3>2, <3>3, SumSetOfParts
    <3> QED BY <3>1, <3>4
  <2>4. PICK v : v = [sh \in T |-> SumSet(sh.turns)] OBVIOUS
  <2>5. DOMAIN v = T /\ \A sh \in T : v[sh] \in Nat BY <2>3, <2>4
  <2>6. SumFunction(v) \in Nat BY <2>2, <2>5, SumFunctionIsNumber
  <2> QED BY <2>1, <2>4, <2>6 DEF SharedTokens
<1>2. SessionRows(shares, 0) = {Row(s) : s \in Named} BY DEF SessionRows
<1>3. Named \subseteq {"s1", "s2"} BY DEF RecapShares
<1> HIDE DEF Named
<1>4. \A s \in Named : Row(s) \in RecapRows
  <2> SUFFICES ASSUME NEW s \in Named PROVE Row(s) \in RecapRows OBVIOUS
  <2>1. PICK n : n = SharedTokens(Of(s)) OBVIOUS
  <2>2. n \in Nat /\ s \in {"s1", "s2"} BY <1>1, <1>3, <2>1
  <2>3. [machine |-> 0, session |-> s, tokens |-> n] \in RecapRows BY <2>2 DEF RecapRows
  <2> QED BY <2>1, <2>3
<1>5. IsFiniteSet({Row(s) : s \in Named})
  <2>1. PICK a, b : a = Row("s1") /\ b = Row("s2") OBVIOUS
  <2>2. IsFiniteSet({a, b})
    <3>1. IsFiniteSet({}) /\ IsFiniteSet({a}) BY FS_EmptySet, FS_Singleton
    <3>2. IsFiniteSet({a} \union {b}) BY <3>1, FS_AddElement
    <3>3. {a} \union {b} = {a, b} OBVIOUS
    <3> QED BY <3>2, <3>3
  <2>3. {Row(s) : s \in Named} \subseteq {a, b} BY <1>3, <2>1
  <2> QED BY <2>2, <2>3, FS_Subset
<1>6. PICK rows : rows = {Row(s) : s \in Named} OBVIOUS
<1>7. rows \in SUBSET RecapRows BY <1>4, <1>6
<1> QED BY <1>2, <1>5, <1>6, <1>7

\* What was pushed by one machine more.
LEMMA MergedOneMore ==
  ASSUME NEW merged \in SUBSET Remotes, IsFiniteSet(merged), NEW remote \in Remotes, remote \notin merged
  PROVE  /\ SumFunction([r \in merged |-> r.tokens]) \in Nat
         /\ SumFunction([r \in merged \union {remote} |-> r.tokens]) = SumFunction([r \in merged |-> r.tokens]) + remote.tokens
<1>1. PICK u, v : u = [r \in merged |-> r.tokens] /\ v = [r \in merged \union {remote} |-> r.tokens] OBVIOUS
<1>2. DOMAIN u = merged /\ \A r \in DOMAIN u : u[r] \in Nat BY <1>1, RecapAssumption
<1>3. DOMAIN v = merged \union {remote} /\ (\A y \in merged \union {remote} : v[y] \in Nat) /\ v[remote] = remote.tokens
  BY <1>1, RecapAssumption
<1>4. SameOn(merged, v, u) BY <1>1 DEF SameOn
<1>5. SumFunction(u) \in Nat BY <1>2, SumFunctionIsNumber
<1>6. SumFunction(v) = SumFunction(u) + v[remote]
  <2>1. DOMAIN u = merged /\ DOMAIN v = merged \union {remote} BY <1>2, <1>3
  <2>2. \A y \in merged \union {remote} : v[y] \in Nat BY <1>3
  <2> HIDE DEF SameOn
  <2> QED BY <1>4, <2>1, <2>2, SumFunctionOfOneMore, ZenonT(60)
<1> QED BY <1>1, <1>3, <1>5, <1>6

\* At rest nothing is added up.
LEMMA NothingYet == recap = NoRecap => AllRows = {} /\ MergedTokens = 0 /\ SumSet(recap.seen) = 0
<1> SUFFICES ASSUME recap = NoRecap PROVE AllRows = {} /\ MergedTokens = 0 /\ SumSet(recap.seen) = 0 OBVIOUS
<1>1. recap.merged = {} /\ recap.seen = {} /\ recap.shares = {} BY DEF NoRecap
<1>2. AllRows = {} BY <1>1 DEF AllRows, SessionRows
<1>3. PICK v : v = [r \in recap.merged |-> r.tokens] OBVIOUS
<1>4. DOMAIN v = {} /\ IsFiniteSet({}) BY <1>1, <1>3, FS_EmptySet
<1>5. SumFunction(v) = 0 BY <1>4, SumFunctionIsNumber
<1> QED BY <1>1, <1>2, <1>3, <1>5, SumSetOfNone DEF MergedTokens

\* Before a recap begins, nothing is counted.
LEMMA RecapInitial == RecapInit => RecapIInv
<1> SUFFICES ASSUME RecapInit PROVE RecapIInv OBVIOUS
<1> USE DEF RecapInit
<1>1. IsFiniteSet({}) BY FS_EmptySet
<1>2. MaxHour \in Nat BY RecapAssumption
<1>3. LogsAreDated BY <1>1, <1>2, RecapAssumption DEF LogsAreDated
<1>4. AllRows = {} /\ MergedTokens = 0 /\ SumSet(recap.seen) = 0 BY NothingYet
<1>5. RecapShape BY <1>1, <1>2, <1>4 DEF RecapShape, NoRecap
<1>6. TurnsAreFound BY DEF TurnsAreFound, NoRecap
<1>7. TurnsAreAdded BY <1>4 DEF TurnsAreAdded, NoRecap
<1> QED BY <1>3, <1>5, <1>6, <1>7 DEF RecapIInv

\* The sessions go on while a request adds up.
LEMMA SessionsGoOn ==
  ASSUME RecapIInv, \/ RecapTick
                    \/ \E f \in TurnLogs, turn \in RecapTurns, ts \in 0..MaxHour, lag \in 0..MtimeSkew :
                         WriteTurn(f, turn, ts, lag)
  PROVE  RecapIInv'
<1> USE DEF RecapIInv
<1>1. MaxHour \in Nat /\ MtimeSkew \in Nat BY RecapAssumption
<1>2. recap' = recap /\ atStart' = atStart BY DEF RecapTick, WriteTurn
<1>3. LogsAreDated' /\ \A f \in TurnLogs : logs[f] \subseteq logs'[f]
  <2>1. CASE RecapTick
    <3>1. hour' = hour + 1 /\ hour < MaxHour /\ logs' = logs /\ mtime' = mtime BY <2>1 DEF RecapTick
    <3>2. hour' \in 0..MaxHour BY <1>1, <3>1 DEF LogsAreDated
    <3>3. \A f \in TurnLogs : \A l \in logs'[f] : l.ts <= hour' /\ mtime'[f] >= l.ts - MtimeSkew
      <4> SUFFICES ASSUME NEW f \in TurnLogs, NEW l \in logs[f] PROVE l.ts <= hour' /\ mtime[f] >= l.ts - MtimeSkew BY <3>1
      <4>1. l.ts \in 0..MaxHour /\ hour \in 0..MaxHour BY DEF LogsAreDated
      <4> QED BY <1>1, <3>1, <4>1 DEF LogsAreDated
    <3> QED BY <3>1, <3>2, <3>3 DEF LogsAreDated
  <2>2. ASSUME NEW f \in TurnLogs, NEW turn \in RecapTurns, NEW ts \in 0..MaxHour, NEW lag \in 0..MtimeSkew,
               WriteTurn(f, turn, ts, lag)
        PROVE  LogsAreDated' /\ \A g \in TurnLogs : logs[g] \subseteq logs'[g]
    <3> DEFINE line == [turn |-> turn, ts |-> ts]
    <3>1. /\ hour' = hour /\ logs' = [logs EXCEPT ![f] = @ \union {line}] /\ mtime' = [mtime EXCEPT ![f] = hour - lag]
          /\ ts = hour \/ line \in RecapLines
      BY <2>2 DEF WriteTurn
    <3>2. line \in [turn : RecapTurns, ts : 0..MaxHour] /\ line.ts = ts /\ lag \in Nat /\ lag <= MtimeSkew BY <1>1
    <3>3. ts <= hour /\ hour \in 0..MaxHour
      <4>1. CASE ts = hour BY <4>1 DEF LogsAreDated
      <4>2. CASE line \in RecapLines BY <4>2, <3>2 DEF RecapLines, LogsAreDated
      <4> QED BY <3>1, <4>1, <4>2
    <3> HIDE DEF line
    <3>4. ASSUME NEW g \in TurnLogs, NEW l \in logs'[g] PROVE l.ts <= hour' /\ mtime'[g] >= l.ts - MtimeSkew
      <4>1. CASE g # f
        <5>1. logs'[g] = logs[g] /\ mtime'[g] = mtime[g] BY <3>1, <4>1 DEF LogsAreDated
        <5> QED BY <3>1, <5>1 DEF LogsAreDated
      <4>2. CASE g = f
        <5>1. logs'[g] = logs[f] \union {line} /\ mtime'[g] = hour - lag BY <3>1, <4>2 DEF LogsAreDated
        <5>2. l.ts <= hour /\ l.ts \in 0..MaxHour BY <3>2, <3>3, <5>1 DEF LogsAreDated
        <5> QED BY <1>1, <3>1, <3>2, <3>3, <5>1, <5>2
      <4> QED BY <4>1, <4>2
    <3>5. ASSUME NEW g \in TurnLogs
          PROVE  /\ IsFiniteSet(logs'[g]) /\ logs'[g] \subseteq [turn : RecapTurns, ts : 0..MaxHour]
                 /\ mtime'[g] \in Int /\ logs[g] \subseteq logs'[g]
      <4>1. CASE g # f
        <5>1. logs'[g] = logs[g] /\ mtime'[g] = mtime[g] BY <3>1, <4>1 DEF LogsAreDated
        <5> QED BY <5>1 DEF LogsAreDated
      <4>2. CASE g = f
        <5>1. logs'[g] = logs[f] \union {line} /\ mtime'[g] = hour - lag BY <3>1, <4>2 DEF LogsAreDated
        <5>2. IsFiniteSet(logs[f]) /\ logs[f] \subseteq [turn : RecapTurns, ts : 0..MaxHour] BY DEF LogsAreDated
        <5>3. IsFiniteSet(logs'[g]) BY <5>1, <5>2, FS_AddElement
        <5>4. mtime'[g] \in Int BY <3>2, <3>3, <5>1
        <5> QED BY <3>2, <4>2, <5>1, <5>2, <5>3, <5>4
      <4> QED BY <4>1, <4>2
    <3>6. DOMAIN logs' = TurnLogs /\ DOMAIN mtime' = TurnLogs BY <3>1 DEF LogsAreDated
    <3>7. hour' \in 0..MaxHour BY <3>1, <3>3
    <3> QED BY <3>4, <3>5, <3>6, <3>7 DEF LogsAreDated
  <2>3. ASSUME RecapTick PROVE \A f \in TurnLogs : logs[f] \subseteq logs'[f] BY <2>3 DEF RecapTick
  <2> QED BY <2>1, <2>2, <2>3
<1>4. RecapShape' BY <1>2 DEF RecapShape, AllRows
<1>5. TurnsAreFound'
  <2>1. RecapLines \subseteq RecapLines' BY <1>3 DEF RecapLines
  <2>2. \A l : InWindow(l)' <=> InWindow(l) BY <1>2 DEF InWindow
  <2>3. \A t \in recap.seen : \E l \in RecapLines' : l.turn = t /\ InWindow(l) BY <2>1 DEF TurnsAreFound
  <2>4. recap.place # "rest" =>
          \A l \in atStart : InWindow(l) => l.turn \in recap.seen \/ \E f \in recap.todo : l \in logs'[f]
    BY <1>3 DEF TurnsAreFound, RecapShape
  <2>5. /\ recap.place \in {"rest", "read"} => recap.merged = {}
        /\ recap.place \in {"merge", "done"} => recap.todo = {}
    BY DEF TurnsAreFound
  <2> QED BY <1>2, <2>2, <2>3, <2>4, <2>5 DEF TurnsAreFound
<1>6. TurnsAreAdded' BY <1>2 DEF TurnsAreAdded, AllRows, MergedTokens
<1> QED BY <1>3, <1>4, <1>5, <1>6

\* A request begins with what may hold a turn of its window.
LEMMA RecapStarts ==
  ASSUME RecapIInv, StartRecap
  PROVE  RecapIInv'
<1> USE DEF RecapIInv
<1> DEFINE todo == {f \in TurnLogs : MayHold(f, hour - WindowSpan)}
<1>1. /\ recap' = [NoRecap EXCEPT !.place = "read", !.until = hour, !.todo = todo]
      /\ hour' = hour /\ logs' = logs /\ mtime' = mtime /\ atStart' = RecapLines
  BY DEF StartRecap
<1>2. LogsAreDated' BY <1>1 DEF LogsAreDated
<1> DEFINE new == [NoRecap EXCEPT !.place = "read", !.until = hour, !.todo = todo]
<1>3. /\ recap'.place = "read" /\ recap'.until = hour /\ recap'.todo = todo /\ recap'.seen = {}
      /\ recap'.shares = {} /\ recap'.merged = {} /\ recap'.tokens = 0 /\ recap'.cost = 0
      /\ recap'.unpriced = FALSE /\ recap'.sessions = {} /\ recap'.active = {}
  BY <1>1 DEF NoRecap
<1>4. IsFiniteSet({}) /\ hour \in 0..MaxHour BY FS_EmptySet DEF LogsAreDated
<1>5. AllRows' = {} BY <1>3 DEF AllRows, SessionRows
<1>6. MergedTokens' = 0
  <2>1. PICK v : v = [r \in recap'.merged |-> r.tokens] OBVIOUS
  <2>2. DOMAIN v = {} BY <1>3, <2>1
  <2>3. SumFunction(v) = 0 BY <1>4, <2>2, SumFunctionIsNumber
  <2> QED BY <2>1, <2>3 DEF MergedTokens
<1>7. RecapShape'
  <2>1. recap' \in [place : {"rest", "read", "merge", "done"}, until : 0..MaxHour, todo : SUBSET TurnLogs,
                seen : SUBSET RecapTurns, shares : SUBSET RecapShares, active : SUBSET (0..MaxHour),
                tokens : Nat, cost : Nat \union {Unknown}, unpriced : BOOLEAN,
                sessions : SUBSET RecapRows, merged : SUBSET Remotes]
    BY <1>1, <1>4 DEF NoRecap
  <2> QED BY <1>3, <1>4, <1>5, <2>1 DEF RecapShape
<1>8. TurnsAreFound'
  <2>1. ASSUME NEW l \in RecapLines, l.ts >= hour - WindowSpan PROVE \E f \in todo : l \in logs[f]
    <3>1. PICK f \in TurnLogs : l \in logs[f] BY DEF RecapLines
    <3>2. mtime[f] >= l.ts - MtimeSkew /\ mtime[f] \in Int /\ l.ts \in 0..MaxHour /\ hour \in 0..MaxHour BY <3>1 DEF LogsAreDated
    <3>3. WindowSpan \in Nat /\ MtimeSkew \in Nat /\ MaxHour \in Nat BY RecapAssumption
    <3>4. mtime[f] >= hour - WindowSpan - MtimeSkew BY <2>1, <3>2, <3>3
    <3>5. MayHold(f, hour - WindowSpan) BY <3>1, <3>4 DEF MayHold
    <3> QED BY <3>1, <3>5
  <2>2. \A l : InWindow(l)' => l.ts >= hour - WindowSpan BY <1>3 DEF InWindow
  <2> QED BY <1>1, <1>3, <2>1, <2>2 DEF TurnsAreFound
<1>9. TurnsAreAdded' BY <1>3, <1>6, SumSetOfNone DEF TurnsAreAdded
<1> QED BY <1>2, <1>7, <1>8, <1>9

\* A transcript is read.
LEMMA TranscriptIsRead ==
  ASSUME RecapIInv, NEW f \in TurnLogs, ReadTranscript(f)
  PROVE  RecapIInv'
<1> USE DEF RecapIInv
<1> DEFINE new == NewTurns(f)
           share == [session |-> SessionOf[f], project |-> ProjectOf[f], log |-> f, turns |-> new]
           inTime == {l.ts : l \in {k \in logs[f] : InWindow(k)}}
<1>1. /\ recap.place = "read" /\ f \in recap.todo /\ hour' = hour /\ logs' = logs /\ mtime' = mtime /\ atStart' = atStart
      /\ recap' = [recap EXCEPT !.todo = @ \ {f}, !.seen = @ \union new, !.shares = @ \union {share},
                     !.active = IF f = "nested" THEN @ ELSE @ \union inTime,
                     !.tokens = @ + SumSet(new)]
  BY DEF ReadTranscript
<1>2. LogsAreDated' BY <1>1 DEF LogsAreDated
<1>3. IsFiniteSet(new) /\ new \subseteq RecapTurns /\ new \cap recap.seen = {} /\ inTime \subseteq 0..MaxHour
  <2>1. IsFiniteSet(logs[f]) /\ logs[f] \subseteq [turn : RecapTurns, ts : 0..MaxHour] BY DEF LogsAreDated
  <2>2. PICK T : T = {k \in logs[f] : InWindow(k)} OBVIOUS
  <2>3. IsFiniteSet(T) BY <2>1, <2>2, FS_Subset
  <2>4. IsFiniteSet({l.turn : l \in T})
    <3>1. PICK D, h : D = {l.turn : l \in T} /\ h = [l \in T |-> l.turn] OBVIOUS
    <3>2. h \in Surjection(T, D) BY <3>1 DEF Surjection
    <3> QED BY <2>3, <3>1, <3>2, FS_Surjection
  <2>5. NewOfTranscript(f) = {l.turn : l \in T} BY <2>2 DEF NewOfTranscript
  <2>6. IsFiniteSet(NewOfTranscript(f)) BY <2>4, <2>5
  <2>7. new \subseteq NewOfTranscript(f) /\ new \cap recap.seen = {} BY DEF NewTurns
  <2>8. NewOfTranscript(f) \subseteq RecapTurns /\ inTime \subseteq 0..MaxHour BY <2>1 DEF NewOfTranscript
  <2>9. IsFiniteSet(new) BY <2>6, <2>7, FS_Subset
  <2> QED BY <2>7, <2>8, <2>9
<1>4. /\ recap'.place = "read" /\ recap'.until = recap.until /\ recap'.todo = recap.todo \ {f}
      /\ recap'.seen = recap.seen \union new /\ recap'.shares = recap.shares \union {share}
      /\ recap'.tokens = recap.tokens + SumSet(new) /\ recap'.cost = recap.cost /\ recap'.unpriced = recap.unpriced
      /\ recap'.sessions = recap.sessions /\ recap'.merged = recap.merged /\ recap'.active \subseteq recap.active \union inTime
  BY <1>1 DEF RecapShape
<1>5. share \in RecapShares BY <1>3 DEF RecapShares, SessionOf, ProjectOf, TurnLogs
<1>6. SumSet(recap.seen) \in Nat /\ SumSet(new) \in Nat /\ SumSet(recap.seen \union new) = SumSet(recap.seen) + SumSet(new)
  <2>1. PICK A, B : A = recap.seen /\ B = new OBVIOUS
  <2>2. A \in SUBSET Nat /\ B \in SUBSET Nat /\ IsFiniteSet(A) /\ IsFiniteSet(B) /\ A \cap B = {}
    BY <1>3, <2>1, RecapAssumption DEF RecapShape
  <2>3. SumSet(A) \in Nat /\ SumSet(B) \in Nat /\ SumSet(A \union B) = SumSet(A) + SumSet(B) BY <2>2, SumSetOfParts
  <2> QED BY <2>1, <2>3
<1> HIDE DEF new, inTime
<1>7. IsFiniteSet(recap'.seen) /\ IsFiniteSet(recap'.shares) /\ \A sh \in recap'.shares : IsFiniteSet(sh.turns)
  <2>4. IsFiniteSet(recap.seen) /\ IsFiniteSet(recap.shares) BY DEF RecapShape
  <2>5. PICK A, B : A = recap.seen /\ B = recap.shares OBVIOUS
  <2>6. IsFiniteSet(A \union new) /\ IsFiniteSet(B \union {share}) BY <1>3, <2>4, <2>5, FS_Union, FS_AddElement
  <2>1. IsFiniteSet(recap'.seen) BY <1>4, <2>5, <2>6
  <2>2. IsFiniteSet(recap'.shares) BY <1>4, <2>5, <2>6
  <2>3. share.turns = new OBVIOUS
  <2> QED BY <1>3, <1>4, <2>1, <2>2, <2>3 DEF RecapShape
<1>8. recap'.shares \subseteq RecapShares BY <1>4, <1>5 DEF RecapShape
<1>9. AllRows' \subseteq RecapRows /\ IsFiniteSet(AllRows')
  <2>1. PICK shares : shares = recap'.shares OBVIOUS
  <2>2. SessionRows(shares, 0) \in SUBSET RecapRows /\ IsFiniteSet(SessionRows(shares, 0)) BY <1>7, <1>8, <2>1, SessionRowsAreRows
  <2>3. recap'.merged = {} BY <1>1, <1>4 DEF TurnsAreFound
  <2>4. AllRows' = SessionRows(shares, 0) BY <2>1, <2>3 DEF AllRows
  <2> QED BY <2>2, <2>4
<1>10. RecapShape'
  <2> HIDE DEF share
  <2>1. recap' \in [place : {"rest", "read", "merge", "done"}, until : 0..MaxHour, todo : SUBSET TurnLogs,
                seen : SUBSET RecapTurns, shares : SUBSET RecapShares, active : SUBSET (0..MaxHour),
                tokens : Nat, cost : Nat \union {Unknown}, unpriced : BOOLEAN,
                sessions : SUBSET RecapRows, merged : SUBSET Remotes]
    <3>1. recap.tokens \in Nat BY DEF RecapShape
    <3>2. recap.tokens + SumSet(new) \in Nat BY <1>6, <3>1
    <3> QED BY <1>1, <1>3, <1>5, <3>2 DEF RecapShape
  <2>2. IsFiniteSet(recap'.merged) BY <1>4 DEF RecapShape
  <2> QED BY <1>7, <1>9, <2>1, <2>2 DEF RecapShape
<1>11. TurnsAreFound'
  <2>1. \A l : InWindow(l)' <=> InWindow(l) BY <1>4 DEF InWindow
  <2>2. RecapLines' = RecapLines BY <1>1 DEF RecapLines
  <2>3. \A l \in logs[f] : InWindow(l) => l.turn \in recap.seen \union new BY DEF new, NewTurns, NewOfTranscript
  <2>4. ASSUME NEW l \in atStart, InWindow(l)
        PROVE  l.turn \in recap'.seen \/ \E g \in recap'.todo : l \in logs[g]
    BY <1>1, <1>4, <2>3, <2>4 DEF TurnsAreFound
  <2>5. ASSUME NEW t \in recap'.seen PROVE \E l \in RecapLines : l.turn = t /\ InWindow(l)
    <3>1. CASE t \in recap.seen BY <3>1 DEF TurnsAreFound
    <3>2. CASE t \in new BY <3>2 DEF new, NewTurns, NewOfTranscript, RecapLines
    <3> QED BY <1>4, <3>1, <3>2
  <2>6. recap'.merged = {} BY <1>1, <1>4 DEF TurnsAreFound
  <2>7. recap'.place = "read" BY <1>4
  <2> QED BY <1>1, <2>1, <2>2, <2>4, <2>5, <2>6, <2>7 DEF TurnsAreFound
<1>12. TurnsAreAdded'
  <2>1. MergedTokens' = MergedTokens /\ MergedTokens = 0
    <3>1. recap'.merged = recap.merged /\ recap.merged = {} BY <1>1, <1>4 DEF TurnsAreFound
    <3>2. PICK v : v = [r \in {} |-> r.tokens] OBVIOUS
    <3>3. DOMAIN v = {} /\ IsFiniteSet({}) BY <3>2, FS_EmptySet
    <3>4. SumFunction(v) = 0 BY <3>3, SumFunctionIsNumber
    <3>5. v = [r \in recap.merged |-> r.tokens] BY <3>1, <3>2
    <3> QED BY <3>1, <3>4, <3>5 DEF MergedTokens
  <2>2. recap'.tokens = SumSet(recap'.seen) + MergedTokens'
    <3>1. recap.tokens = SumSet(recap.seen) BY <1>6, <2>1 DEF TurnsAreAdded
    <3> QED BY <1>4, <1>6, <2>1, <3>1
  <2>3. recap'.place = "read" /\ (recap'.cost # Unknown => ~recap'.unpriced) BY <1>4 DEF TurnsAreAdded
  <2> QED BY <2>2, <2>3 DEF TurnsAreAdded
<1> QED BY <1>2, <1>10, <1>11, <1>12

\* The rows and the cost are made.
LEMMA RollupIsMade ==
  ASSUME RecapIInv, NEW priced \in BOOLEAN, Rollup(priced)
  PROVE  RecapIInv'
<1> USE DEF RecapIInv
<1>1. /\ recap.place = "read" /\ recap.todo = {} /\ hour' = hour /\ logs' = logs /\ mtime' = mtime /\ atStart' = atStart
      /\ recap' = [recap EXCEPT !.place = "merge", !.cost = IF priced THEN recap.tokens ELSE Unknown,
                            !.unpriced = ~priced /\ recap.tokens > 0,
                            !.sessions = Top(SessionRows(recap.shares, 0))]
  BY DEF Rollup
<1>2. LogsAreDated' BY <1>1 DEF LogsAreDated
<1>3. /\ recap'.place = "merge" /\ recap'.until = recap.until /\ recap'.todo = {} /\ recap'.seen = recap.seen
      /\ recap'.shares = recap.shares /\ recap'.merged = recap.merged /\ recap'.tokens = recap.tokens
      /\ recap'.cost = (IF priced THEN recap.tokens ELSE Unknown) /\ recap'.unpriced = (~priced /\ recap.tokens > 0)
      /\ recap'.sessions = Top(SessionRows(recap.shares, 0)) /\ recap'.active = recap.active
  BY <1>1 DEF RecapShape
<1>4. recap.merged = {} BY <1>1 DEF TurnsAreFound
<1>5. AllRows' = AllRows /\ AllRows = SessionRows(recap.shares, 0) BY <1>3, <1>4 DEF AllRows
<1>6. recap'.sessions = Top(AllRows') /\ recap'.sessions \subseteq RecapRows BY <1>3, <1>5 DEF Top, RecapShape
<1>7. RecapShape'
  <2>1. recap.tokens \in Nat BY DEF RecapShape
  <2>2. recap'.unpriced \in BOOLEAN BY <1>3, Zenon
  <2>3. recap'.cost \in Nat \union {Unknown} BY <1>3, <2>1
  <2>4. recap' = [recap EXCEPT !.place = recap'.place, !.cost = recap'.cost, !.unpriced = recap'.unpriced,
                  !.sessions = recap'.sessions] BY <1>1, <1>3 DEF RecapShape
  <2>5. recap' \in [place : {"rest", "read", "merge", "done"}, until : 0..MaxHour, todo : SUBSET TurnLogs,
                seen : SUBSET RecapTurns, shares : SUBSET RecapShares, active : SUBSET (0..MaxHour),
                tokens : Nat, cost : Nat \union {Unknown}, unpriced : BOOLEAN,
                sessions : SUBSET RecapRows, merged : SUBSET Remotes]
    <3>1. recap'.place \in {"rest", "read", "merge", "done"} BY <1>3
    <3> QED BY <1>6, <2>2, <2>3, <2>4, <3>1, ZenonT(60) DEF RecapShape
  <2> QED BY <1>3, <1>5, <2>5 DEF RecapShape
<1>8. TurnsAreFound'
  <2>1. \A l : InWindow(l)' <=> InWindow(l) BY <1>3 DEF InWindow
  <2>2. RecapLines' = RecapLines BY <1>1 DEF RecapLines
  <2> QED BY <1>1, <1>3, <2>1, <2>2 DEF TurnsAreFound
<1>9. TurnsAreAdded'
  <2>1. MergedTokens' = MergedTokens BY <1>3 DEF MergedTokens
  <2>2. recap'.cost # Unknown => ~recap'.unpriced BY <1>3, Zenon
  <2> QED BY <1>3, <1>6, <2>1, <2>2 DEF TurnsAreAdded
<1> QED BY <1>2, <1>7, <1>8, <1>9

\* What another machine pushed is folded in.
LEMMA RemoteIsMerged ==
  ASSUME RecapIInv, NEW remote \in Remotes, MergeRemote(remote)
  PROVE  RecapIInv'
<1> USE DEF RecapIInv
<1>1. /\ recap.place = "merge" /\ (\A r \in recap.merged : r.machine < remote.machine)
      /\ hour' = hour /\ logs' = logs /\ mtime' = mtime /\ atStart' = atStart
      /\ recap' = [recap EXCEPT !.merged = @ \union {remote}, !.tokens = @ + remote.tokens,
                 !.cost = MergedCost(recap.cost, remote.cost), !.unpriced = @ \/ remote.unpriced,
                 !.sessions = Top(recap.sessions \union remote.sessions)]
  BY DEF MergeRemote
<1>2. /\ remote.machine \in Nat /\ remote.tokens \in Nat /\ remote.cost \in Nat \union {Unknown}
      /\ remote.unpriced \in BOOLEAN /\ (remote.unpriced => remote.cost = Unknown)
      /\ IsFiniteSet(remote.sessions) /\ remote.sessions \subseteq RecapRows
  BY RecapAssumption DEF RecapRows
<1>3. LogsAreDated' BY <1>1 DEF LogsAreDated
<1>4. /\ recap'.place = "merge" /\ recap'.until = recap.until /\ recap'.todo = recap.todo /\ recap'.seen = recap.seen
      /\ recap'.shares = recap.shares /\ recap'.merged = recap.merged \union {remote}
      /\ recap'.tokens = recap.tokens + remote.tokens /\ recap'.cost = MergedCost(recap.cost, remote.cost)
      /\ recap'.unpriced = (recap.unpriced \/ remote.unpriced)
      /\ recap'.sessions = Top(recap.sessions \union remote.sessions) /\ recap'.active = recap.active
  BY <1>1 DEF RecapShape
<1>5. remote \notin recap.merged BY <1>1, <1>2
<1>6. AllRows' = AllRows \union remote.sessions BY <1>4 DEF AllRows
<1>7. recap'.sessions = Top(AllRows') /\ recap'.sessions \subseteq RecapRows
  <2>1. PICK X, Y : X = AllRows /\ Y = remote.sessions OBVIOUS
  <2>2. X \in SUBSET RecapRows /\ IsFiniteSet(X) /\ Y \in SUBSET RecapRows /\ IsFiniteSet(Y) BY <1>2, <2>1 DEF RecapShape
  <2>3. Top(Top(X) \union Y) = Top(X \union Y) BY <2>2, TopOfTop
  <2>4. recap.sessions = Top(X) BY <1>1, <2>1 DEF TurnsAreAdded
  <2>5. recap'.sessions = Top(X \union Y) BY <1>4, <2>1, <2>3, <2>4
  <2>6. Top(X \union Y) \subseteq X \union Y BY DEF Top
  <2> QED BY <1>6, <2>1, <2>2, <2>5, <2>6
<1>8. MergedTokens' = MergedTokens + remote.tokens /\ MergedTokens \in Nat
  <2>1. PICK merged : merged = recap.merged OBVIOUS
  <2>2. merged \in SUBSET Remotes /\ IsFiniteSet(merged) /\ remote \notin merged BY <1>5, <2>1 DEF RecapShape
  <2>3. /\ SumFunction([r \in merged |-> r.tokens]) \in Nat
        /\ SumFunction([r \in merged \union {remote} |-> r.tokens]) = SumFunction([r \in merged |-> r.tokens]) + remote.tokens
    BY <2>2, MergedOneMore
  <2>4. recap'.merged = merged \union {remote} BY <1>4, <2>1
  <2> QED BY <2>1, <2>3, <2>4 DEF MergedTokens
<1>9. recap.cost \in Nat \union {Unknown} /\ recap.unpriced \in BOOLEAN /\ recap.tokens \in Nat /\ Unknown \notin Nat
  BY DEF RecapShape, Unknown
<1>10. recap'.cost \in Nat \union {Unknown} /\ recap'.unpriced \in BOOLEAN /\ (recap'.cost # Unknown => ~recap'.unpriced)
  <2>1. recap'.unpriced \in BOOLEAN BY <1>4, Zenon
  <2>2. CASE Unknown \in {recap.cost, remote.cost}
    <3>1. recap'.cost = Unknown BY <1>4, <2>2 DEF MergedCost
    <3> QED BY <2>1, <3>1
  <2>3. CASE Unknown \notin {recap.cost, remote.cost}
    <3>1. recap'.cost = recap.cost + remote.cost BY <1>4, <2>3 DEF MergedCost
    <3>2. recap.cost \in Nat /\ remote.cost \in Nat BY <1>2, <1>9, <2>3
    <3>3. recap'.cost \in Nat BY <3>1, <3>2
    <3>4. ~recap.unpriced BY <2>3 DEF TurnsAreAdded
    <3>5. ~remote.unpriced BY <1>2, <2>3
    <3>6. ~recap'.unpriced BY <1>4, <3>4, <3>5, Zenon
    <3> QED BY <2>1, <3>3, <3>6
  <2> QED BY <2>2, <2>3
<1>11. RecapShape'
  <2>1. recap' = [recap EXCEPT !.merged = recap'.merged, !.tokens = recap'.tokens, !.cost = recap'.cost,
                  !.unpriced = recap'.unpriced, !.sessions = recap'.sessions] BY <1>1, <1>4 DEF RecapShape
  <2>2. recap'.tokens \in Nat BY <1>2, <1>4, <1>9
  <2>3. recap'.merged \subseteq Remotes /\ IsFiniteSet(recap'.merged) BY <1>4, FS_AddElement DEF RecapShape
  <2>4. recap' \in [place : {"rest", "read", "merge", "done"}, until : 0..MaxHour, todo : SUBSET TurnLogs,
                seen : SUBSET RecapTurns, shares : SUBSET RecapShares, active : SUBSET (0..MaxHour),
                tokens : Nat, cost : Nat \union {Unknown}, unpriced : BOOLEAN,
                sessions : SUBSET RecapRows, merged : SUBSET Remotes]
    BY <1>7, <1>10, <2>1, <2>2, <2>3, ZenonT(60) DEF RecapShape
  <2>5. AllRows' \subseteq RecapRows /\ IsFiniteSet(AllRows')
    <3>1. IsFiniteSet(AllRows) /\ AllRows \subseteq RecapRows BY DEF RecapShape
    <3> QED BY <1>2, <1>6, <3>1, FS_Union
  <2> QED BY <1>4, <2>3, <2>4, <2>5 DEF RecapShape
<1>12. TurnsAreFound'
  <2>1. \A l : InWindow(l)' <=> InWindow(l) BY <1>4 DEF InWindow
  <2>2. RecapLines' = RecapLines BY <1>1 DEF RecapLines
  <2> QED BY <1>1, <1>4, <2>1, <2>2 DEF TurnsAreFound
<1>13. TurnsAreAdded'
  <2>1. SumSet(recap.seen) \in Nat
    <3>1. PICK A : A = recap.seen OBVIOUS
    <3>2. A \in SUBSET Nat /\ IsFiniteSet(A) /\ IsFiniteSet({}) BY <3>1, RecapAssumption, FS_EmptySet DEF RecapShape
    <3>3. SumSet(A) \in Nat BY <3>2, SumSetOfParts
    <3> QED BY <3>1, <3>3
  <2>2. recap.tokens = SumSet(recap.seen) + MergedTokens BY DEF TurnsAreAdded
  <2>3. recap'.tokens = SumSet(recap'.seen) + MergedTokens' BY <1>2, <1>4, <1>8, <2>1, <2>2
  <2> QED BY <1>7, <1>10, <2>3 DEF TurnsAreAdded
<1> QED BY <1>3, <1>11, <1>12, <1>13

\* The answer, and the next request.
LEMMA RecapIsAnswered ==
  ASSUME RecapIInv, AnswerRecap \/ AskAgain
  PROVE  RecapIInv'
<1> USE DEF RecapIInv
<1>1. hour' = hour /\ logs' = logs /\ mtime' = mtime BY DEF AnswerRecap, AskAgain
<1>2. LogsAreDated' BY <1>1 DEF LogsAreDated
<1>3. CASE AnswerRecap
  <2>1. recap.place = "merge" /\ recap' = [recap EXCEPT !.place = "done"] /\ atStart' = atStart BY <1>3 DEF AnswerRecap
  <2>2. /\ recap'.place = "done" /\ recap'.until = recap.until /\ recap'.todo = recap.todo /\ recap'.seen = recap.seen
        /\ recap'.shares = recap.shares /\ recap'.merged = recap.merged /\ recap'.tokens = recap.tokens
        /\ recap'.cost = recap.cost /\ recap'.unpriced = recap.unpriced /\ recap'.sessions = recap.sessions
    BY <2>1 DEF RecapShape
  <2>3. AllRows' = AllRows /\ MergedTokens' = MergedTokens BY <2>2 DEF AllRows, MergedTokens
  <2>4. RecapShape' BY <2>1, <2>2, <2>3 DEF RecapShape
  <2>5. \A l : InWindow(l)' <=> InWindow(l) BY <2>2 DEF InWindow
  <2>6. RecapLines' = RecapLines BY <1>1 DEF RecapLines
  <2>7. TurnsAreFound' BY <1>1, <2>1, <2>2, <2>5, <2>6 DEF TurnsAreFound
  <2>8. TurnsAreAdded' BY <2>1, <2>2, <2>3 DEF TurnsAreAdded
  <2> QED BY <1>2, <2>4, <2>7, <2>8
<1>4. CASE AskAgain
  <2>1. recap' = NoRecap BY <1>4 DEF AskAgain
  <2>2. recap'.merged = {} /\ recap'.seen = {} /\ recap'.shares = {} /\ recap'.place = "rest" /\ recap'.tokens = 0
        /\ recap'.cost = 0 /\ recap'.unpriced = FALSE /\ recap'.todo = {}
    BY <2>1 DEF NoRecap
  <2>3. AllRows' = {} BY <2>2 DEF AllRows, SessionRows
  <2>4. IsFiniteSet({}) /\ MaxHour \in Nat BY FS_EmptySet, RecapAssumption
  <2>5. MergedTokens' = 0
    <3>1. PICK v : v = [r \in recap'.merged |-> r.tokens] OBVIOUS
    <3>2. DOMAIN v = {} BY <2>2, <3>1
    <3>3. SumFunction(v) = 0 BY <2>4, <3>2, SumFunctionIsNumber
    <3> QED BY <3>1, <3>3 DEF MergedTokens
  <2>6. RecapShape' BY <2>1, <2>3, <2>4 DEF RecapShape, NoRecap
  <2>7. TurnsAreFound' BY <2>2 DEF TurnsAreFound
  <2>8. TurnsAreAdded' BY <2>2, <2>5, SumSetOfNone DEF TurnsAreAdded
  <2> QED BY <1>2, <2>6, <2>7, <2>8
<1> QED BY <1>3, <1>4

\* The inductive invariant of the recap, preserved by every step and while nothing of it changes.
LEMMA RecapStep == RecapIInv /\ [RecapNext]_recapVars => RecapIInv'
<1> SUFFICES ASSUME RecapIInv, [RecapNext]_recapVars PROVE RecapIInv' OBVIOUS
<1>1. CASE RecapTick BY <1>1, SessionsGoOn
<1>2. CASE \E f \in TurnLogs, turn \in RecapTurns, ts \in 0..MaxHour, lag \in 0..MtimeSkew :
             WriteTurn(f, turn, ts, lag)
  BY <1>2, SessionsGoOn
<1>3. CASE StartRecap BY <1>3, RecapStarts
<1>4. CASE \E f \in TurnLogs : ReadTranscript(f) BY <1>4, TranscriptIsRead
<1>5. CASE \E priced \in BOOLEAN : Rollup(priced) BY <1>5, RollupIsMade
<1>6. CASE \E remote \in Remotes : MergeRemote(remote) BY <1>6, RemoteIsMerged
<1>7. CASE AnswerRecap \/ AskAgain BY <1>7, RecapIsAnswered
<1>8. CASE UNCHANGED recapVars
  BY <1>8 DEF recapVars, RecapIInv, LogsAreDated, RecapShape, TurnsAreFound, TurnsAreAdded, AllRows, MergedTokens,
              InWindow, RecapLines
<1> QED BY <1>1, <1>2, <1>3, <1>4, <1>5, <1>6, <1>7, <1>8 DEF RecapNext

\* What is counted is what the logs that were read hold, in every behaviour.
LEMMA RecapInvariance == RecapSpec => []RecapIInv
<1> QED BY RecapInitial, RecapStep, PTL DEF RecapSpec

\* A recap counts every turn of its window that was written when the request began, none from
\* outside and each once, whatever transcripts hold it and however they grow meanwhile; its rows are
\* the largest of all the machines', whatever each of them cut off; and its cost is a number only
\* when no machine found the model without a price.
THEOREM RecapCounts == RecapSpec => [](RecapTypeOK /\ RecapIsOfItsWindow)
<1>1. RecapIInv => RecapTypeOK BY DEF RecapIInv, LogsAreDated, RecapShape, RecapTypeOK
<1>2. RecapIInv => RecapIsOfItsWindow BY DEF RecapIInv, TurnsAreFound, TurnsAreAdded, RecapIsOfItsWindow
<1> QED BY <1>1, <1>2, RecapInvariance, PTL

-----------------------------------------------------------------------------
(* The log of the CLI bridge *)

BridgeEntries == [log : BridgeLogs, size : {"some", "huge", "all"}, link : BOOLEAN]
BridgeExtracts == [status : {"ok"}, log : BridgeLogs, wait : Int, source : {"measured", "estimated"}]
BridgeKeys == BridgeLogs \X {"some", "huge", "all"}

\* What may be cached for a key: an extract only of the key's own log, and of one that can be shown.
ExtractOf(k, e) ==
  /\ e.status \in {"ok", "unreadable", "invalid"}
  /\ e.status = "ok" => /\ e \in BridgeExtracts /\ e.log = k[1] /\ bridgeRecord[k[1]].well /\ ~bridgeRecord[k[1]].big
                        /\ e.wait <= MaxFinite
CacheOfExtracts(c) == DOMAIN c \subseteq BridgeKeys /\ \A k \in DOMAIN c : ExtractOf(k, c[k])

\* What is listed is still to do or counted; enough shown ends the loop.
ReadShape(s) ==
  /\ s.at \in {"idle", "screen", "parse", "trim", "answered", "failed"}
  /\ DOMAIN s = DOMAIN NotReading
  /\ s.todo \in SUBSET BridgeEntries /\ s.touched \subseteq BridgeKeys
  /\ s.recent \in Seq(BridgeExtracts)
  /\ s.listed \subseteq BridgeLogs /\ s.linked \subseteq BridgeLogs
  /\ s.skipped \in [scanned : Nat, oversize : Nat, unreadable : Nat, invalid : Nat]
  /\ CacheOfExtracts(s.kept)

ReadCounts(s) ==
  /\ s.skipped.scanned = Len(s.recent) + s.skipped.oversize + s.skipped.unreadable + s.skipped.invalid
  /\ Len(s.recent) <= RecentCap
  /\ s.at \in {"screen", "parse"} =>
       \/ Len(s.recent) < RecentCap /\ s.skipped.scanned + Cardinality(s.todo) = Cardinality(s.listed)
       \/ s.at = "screen" /\ Len(s.recent) = RecentCap /\ s.todo = {}
  /\ s.at = "parse" => s.todo # {} /\ Screened(NextLog(s.todo)) = "none"
  /\ s.at \in {"trim", "answered"} =>
       s.skipped.scanned = Cardinality(s.listed) \/ Len(s.recent) = RecentCap

\* What is shown comes before what is to do, and was in a log that could be shown.
ReadOrder(s) ==
  /\ \A e \in s.todo : e.log \in s.listed /\ (~e.link => e.log \notin s.linked)
  /\ \A d, e \in s.todo : d.log = e.log => d = e
  /\ \A i \in 1..Len(s.recent) :
       LET f == s.recent[i].log IN
       /\ f \in s.listed \ s.linked /\ bridgeRecord[f].well /\ ~bridgeRecord[f].big
       /\ s.recent[i].wait <= MaxFinite
       /\ \A e \in s.todo : f > e.log
  /\ \A i, j \in 1..Len(s.recent) : i < j => s.recent[i].log > s.recent[j].log

BridgeIInv ==
  /\ bridgeRecord \in [BridgeLogs -> BridgeRecords]
  /\ grown \in [BridgeLogs -> [phase : Phases, link : BOOLEAN]]
  /\ CacheOfExtracts(parsed)
  /\ DOMAIN looker = BridgeReaders
  /\ \A r \in BridgeReaders : ReadShape(looker[r]) /\ ReadCounts(looker[r]) /\ ReadOrder(looker[r])

\* There is a newest one of the entries to do, and the others are older.
LEMMA NextLogIsNewest ==
  ASSUME NEW todo \in SUBSET BridgeEntries, todo # {}
  PROVE  NextLog(todo) \in todo /\ \A d \in todo : NextLog(todo).log >= d.log
<1> DEFINE Ages == {MaxFinite - e.log : e \in todo}
<1>0. MaxFinite \in Nat /\ BridgeLogs \subseteq 0..MaxFinite BY BridgeAssumption
<1>1. \A e \in todo : e.log \in Nat /\ e.log <= MaxFinite
  <2> SUFFICES ASSUME NEW e \in todo PROVE e.log \in Nat /\ e.log <= MaxFinite OBVIOUS
  <2>1. PICK f : f = e.log OBVIOUS
  <2>2. f \in 0..MaxFinite BY <1>0, <2>1 DEF BridgeEntries
  <2>3. f \in Nat /\ f <= MaxFinite BY <1>0, <2>2
  <2> QED BY <2>1, <2>3
<1>2. Ages \subseteq Nat /\ Ages # {} BY <1>0, <1>1
<1>3. PICK n \in Ages : \A m \in Ages : ~(<<m, n>> \in OpToRel(<, Nat))
  <2> HIDE DEF Ages
  <2> QED BY <1>2, NatLessThanWellFounded, WFMin
<1>4. PICK e \in todo : n = MaxFinite - e.log BY <1>3
<1>5. \A d \in todo : e.log >= d.log
  <2> SUFFICES ASSUME NEW d \in todo, ~(e.log >= d.log) PROVE FALSE OBVIOUS
  <2>1. PICK m : m = MaxFinite - d.log OBVIOUS
  <2>2. m \in Ages /\ m \in Nat /\ n \in Nat /\ m < n BY <1>0, <1>1, <1>4, <2>1
  <2> QED BY <1>3, <2>2 DEF OpToRel
<1>6. \E d \in todo : \A c \in todo : d.log >= c.log BY <1>5
<1> QED BY <1>6 DEF NextLog

\* A set of entries is finite.
LEMMA EntriesAreFinite == IsFiniteSet(BridgeLogs) /\ \A T \in SUBSET BridgeEntries : IsFiniteSet(T)
<1>1. IsFiniteSet(0..MaxFinite) BY BridgeAssumption, FS_Interval
<1>2. IsFiniteSet(BridgeLogs) BY <1>1, BridgeAssumption, FS_Subset
<1>3. IsFiniteSet({"some", "huge", "all"}) /\ IsFiniteSet({TRUE, FALSE})
  <2>1. IsFiniteSet({}) BY FS_EmptySet
  <2>2. IsFiniteSet({} \union {"some"}) BY <2>1, FS_AddElement
  <2>3. IsFiniteSet(({} \union {"some"}) \union {"huge"}) BY <2>2, FS_AddElement
  <2>4. IsFiniteSet((({} \union {"some"}) \union {"huge"}) \union {"all"}) BY <2>3, FS_AddElement
  <2>5. ((({} \union {"some"}) \union {"huge"}) \union {"all"}) = {"some", "huge", "all"} OBVIOUS
  <2>6. IsFiniteSet({} \union {TRUE}) BY <2>1, FS_AddElement
  <2>7. IsFiniteSet(({} \union {TRUE}) \union {FALSE}) BY <2>6, FS_AddElement
  <2>8. ({} \union {TRUE}) \union {FALSE} = {TRUE, FALSE} OBVIOUS
  <2> QED BY <2>4, <2>5, <2>7, <2>8
<1>4. PICK A, B, C : A = BridgeLogs /\ B = {"some", "huge", "all"} /\ C = {TRUE, FALSE} OBVIOUS
<1>5. IsFiniteSet(A \X B) BY <1>2, <1>3, <1>4, FS_Product
<1>6. IsFiniteSet((A \X B) \X C) BY <1>3, <1>4, <1>5, FS_Product
<1> DEFINE h == [p \in (A \X B) \X C |-> [log |-> p[1][1], size |-> p[1][2], link |-> p[2]]]
<1>7. h \in Surjection((A \X B) \X C, BridgeEntries)
  <2>1. \A p \in (A \X B) \X C : h[p] \in BridgeEntries
    <3> SUFFICES ASSUME NEW p \in (A \X B) \X C PROVE h[p] \in BridgeEntries OBVIOUS
    <3>1. p[1][1] \in A /\ p[1][2] \in B /\ p[2] \in C OBVIOUS
    <3>2. p[2] \in BOOLEAN BY <1>4, <3>1
    <3>3. h[p] = [log |-> p[1][1], size |-> p[1][2], link |-> p[2]] OBVIOUS
    <3> QED BY <1>4, <3>1, <3>2, <3>3 DEF BridgeEntries
  <2>2. ASSUME NEW e \in BridgeEntries PROVE \E p \in (A \X B) \X C : h[p] = e
    <3> DEFINE p == <<<<e.log, e.size>>, e.link>>
    <3>1. e.link \in C BY <1>4 DEF BridgeEntries
    <3>2. p \in (A \X B) \X C BY <1>4, <3>1 DEF BridgeEntries
    <3>3. e = [log |-> e.log, size |-> e.size, link |-> e.link] BY DEF BridgeEntries
    <3>4. h[p] = [log |-> e.log, size |-> e.size, link |-> e.link] BY <3>2
    <3> QED BY <3>2, <3>3, <3>4
  <2> QED BY <2>1, <2>2 DEF Surjection
<1> HIDE DEF h
<1>8. IsFiniteSet(BridgeEntries) BY <1>6, <1>7, FS_Surjection
<1> QED BY <1>2, <1>8, FS_Subset

\* What is done is one of what was to do, the newest.
LEMMA OneLess ==
  ASSUME NEW todo \in SUBSET BridgeEntries, todo # {}
  PROVE  /\ Cardinality(todo) \in Nat /\ Cardinality(todo \ {NextLog(todo)}) = Cardinality(todo) - 1
         /\ Cardinality(todo \ {NextLog(todo)}) \in Nat
<1>1. PICK n : n = NextLog(todo) OBVIOUS
<1>2. n \in todo BY <1>1, NextLogIsNewest
<1>3. IsFiniteSet(todo) BY EntriesAreFinite
<1>4. IsFiniteSet(todo \ {n}) /\ Cardinality(todo \ {n}) = Cardinality(todo) - 1 BY <1>2, <1>3, FS_RemoveElement
<1>5. Cardinality(todo) \in Nat /\ Cardinality(todo \ {n}) \in Nat BY <1>3, <1>4, FS_CardinalityType
<1> QED BY <1>1, <1>4, <1>5

\* What a skip leaves.
LEMMA SkipFields ==
  ASSUME NEW s, NEW why, NEW t, ReadShape(s), why \in {"oversize", "unreadable", "invalid"}, t = Skip(s, why)
  PROVE  /\ t.at = "screen" /\ t.todo = s.todo \ {NextLog(s.todo)} /\ t.recent = s.recent
         /\ t.touched = s.touched /\ t.kept = s.kept /\ t.listed = s.listed /\ t.linked = s.linked
         /\ DOMAIN t = DOMAIN s
         /\ t.skipped \in [scanned : Nat, oversize : Nat, unreadable : Nat, invalid : Nat]
         /\ t.skipped.scanned = s.skipped.scanned + 1
         /\ t.skipped.oversize + t.skipped.unreadable + t.skipped.invalid
              = s.skipped.oversize + s.skipped.unreadable + s.skipped.invalid + 1
<1>1. DOMAIN s = {"at", "todo", "recent", "touched", "kept", "listed", "linked", "skipped"} BY DEF ReadShape, NotReading
<1>2. PICK q : q = s.skipped OBVIOUS
<1>3. q \in [scanned : Nat, oversize : Nat, unreadable : Nat, invalid : Nat] BY <1>2 DEF ReadShape
<1>4. PICK p : p = [q EXCEPT !.scanned = @ + 1, ![why] = @ + 1] OBVIOUS
<1>5. t = [s EXCEPT !.at = "screen", !.todo = s.todo \ {NextLog(s.todo)}, !.skipped = p]
  <2>1. t = [s EXCEPT !.at = "screen", !.todo = @ \ {NextLog(@)},
                      !.skipped.scanned = @ + 1, !.skipped[why] = @ + 1]
    BY DEF Skip
  <2>2. t = [s EXCEPT !.at = "screen", !.todo = @ \ {NextLog(@)}, !.skipped = p] BY <1>1, <1>2, <1>3, <1>4, <2>1
  <2> QED BY <1>1, <2>2
<1>6. /\ t.at = "screen" /\ t.todo = s.todo \ {NextLog(s.todo)} /\ t.recent = s.recent
      /\ t.touched = s.touched /\ t.kept = s.kept /\ t.listed = s.listed /\ t.linked = s.linked
      /\ DOMAIN t = DOMAIN s /\ t.skipped = p
  BY <1>1, <1>5
<1>7. /\ p \in [scanned : Nat, oversize : Nat, unreadable : Nat, invalid : Nat]
      /\ p.scanned = q.scanned + 1
      /\ p.oversize + p.unreadable + p.invalid = q.oversize + q.unreadable + q.invalid + 1
  <2>1. CASE why = "oversize"
    <3>1. p = [q EXCEPT !.scanned = q.scanned + 1, !.oversize = q.oversize + 1] BY <1>4, <2>1
    <3>2. /\ p.scanned = q.scanned + 1 /\ p.oversize = q.oversize + 1 /\ p.unreadable = q.unreadable /\ p.invalid = q.invalid
          /\ DOMAIN p = {"scanned", "oversize", "unreadable", "invalid"}
      BY <1>3, <3>1
    <3>3. q.scanned \in Nat /\ q.oversize \in Nat /\ q.unreadable \in Nat /\ q.invalid \in Nat BY <1>3
    <3>5. p = [scanned |-> p.scanned, oversize |-> p.oversize, unreadable |-> p.unreadable, invalid |-> p.invalid]
      BY <1>3, <3>1
    <3>6. p.scanned \in Nat /\ p.oversize \in Nat /\ p.unreadable \in Nat /\ p.invalid \in Nat BY <3>2, <3>3
    <3>4. p \in [scanned : Nat, oversize : Nat, unreadable : Nat, invalid : Nat] BY <3>5, <3>6
    <3> QED BY <3>2, <3>3, <3>4
  <2>2. CASE why = "unreadable"
    <3>1. p = [q EXCEPT !.scanned = q.scanned + 1, !.unreadable = q.unreadable + 1] BY <1>4, <2>2
    <3>2. /\ p.scanned = q.scanned + 1 /\ p.unreadable = q.unreadable + 1 /\ p.oversize = q.oversize /\ p.invalid = q.invalid
          /\ DOMAIN p = {"scanned", "oversize", "unreadable", "invalid"}
      BY <1>3, <3>1
    <3>3. q.scanned \in Nat /\ q.oversize \in Nat /\ q.unreadable \in Nat /\ q.invalid \in Nat BY <1>3
    <3>5. p = [scanned |-> p.scanned, oversize |-> p.oversize, unreadable |-> p.unreadable, invalid |-> p.invalid]
      BY <1>3, <3>1
    <3>6. p.scanned \in Nat /\ p.oversize \in Nat /\ p.unreadable \in Nat /\ p.invalid \in Nat BY <3>2, <3>3
    <3>4. p \in [scanned : Nat, oversize : Nat, unreadable : Nat, invalid : Nat] BY <3>5, <3>6
    <3> QED BY <3>2, <3>3, <3>4
  <2>3. CASE why = "invalid"
    <3>1. p = [q EXCEPT !.scanned = q.scanned + 1, !.invalid = q.invalid + 1] BY <1>4, <2>3
    <3>2. /\ p.scanned = q.scanned + 1 /\ p.invalid = q.invalid + 1 /\ p.oversize = q.oversize /\ p.unreadable = q.unreadable
          /\ DOMAIN p = {"scanned", "oversize", "unreadable", "invalid"}
      BY <1>3, <3>1
    <3>3. q.scanned \in Nat /\ q.oversize \in Nat /\ q.unreadable \in Nat /\ q.invalid \in Nat BY <1>3
    <3>5. p = [scanned |-> p.scanned, oversize |-> p.oversize, unreadable |-> p.unreadable, invalid |-> p.invalid]
      BY <1>3, <3>1
    <3>6. p.scanned \in Nat /\ p.oversize \in Nat /\ p.unreadable \in Nat /\ p.invalid \in Nat BY <3>2, <3>3
    <3>4. p \in [scanned : Nat, oversize : Nat, unreadable : Nat, invalid : Nat] BY <3>5, <3>6
    <3> QED BY <3>2, <3>3, <3>4
  <2> QED BY <2>1, <2>2, <2>3
<1> QED BY <1>2, <1>6, <1>7

\* What an entry leaves that is shown.
ShownLeaves(s, e, t) ==
  /\ t.at = "screen" /\ t.recent = Append(s.recent, e)
  /\ t.todo = (IF Len(Append(s.recent, e)) >= RecentCap THEN {} ELSE s.todo \ {NextLog(s.todo)})
  /\ t.touched = s.touched \union {Key(NextLog(s.todo))} /\ t.kept = s.kept
  /\ t.listed = s.listed /\ t.linked = s.linked /\ DOMAIN t = DOMAIN s
  /\ t.skipped \in [scanned : Nat, oversize : Nat, unreadable : Nat, invalid : Nat]
  /\ t.skipped.scanned = s.skipped.scanned + 1 /\ t.skipped.oversize = s.skipped.oversize
  /\ t.skipped.unreadable = s.skipped.unreadable /\ t.skipped.invalid = s.skipped.invalid

\* A read takes an entry to show so.
LEMMA ShownFields ==
  ASSUME NEW s, NEW e, NEW t, ReadShape(s), e.status = "ok", t = Took(s, e)
  PROVE  ShownLeaves(s, e, t)
<1>1. DOMAIN s = {"at", "todo", "recent", "touched", "kept", "listed", "linked", "skipped"} BY DEF ReadShape, NotReading
<1>2. PICK q : q = s.skipped OBVIOUS
<1>3. q \in [scanned : Nat, oversize : Nat, unreadable : Nat, invalid : Nat] BY <1>2 DEF ReadShape
<1>4. PICK p : p = [q EXCEPT !.scanned = @ + 1] OBVIOUS
<1>5. PICK more : more = Append(s.recent, e) OBVIOUS
<1>6. PICK u : u = [s EXCEPT !.at = "screen", !.todo = s.todo \ {NextLog(s.todo)}, !.skipped = p, !.recent = more] OBVIOUS
<1>7. /\ u.recent = more /\ u.todo = s.todo \ {NextLog(s.todo)} /\ DOMAIN u = DOMAIN s /\ u.touched = s.touched
      /\ u.at = "screen" /\ u.kept = s.kept /\ u.listed = s.listed /\ u.linked = s.linked /\ u.skipped = p
  BY <1>1, <1>6
<1>8. u = [s EXCEPT !.at = "screen", !.todo = @ \ {NextLog(@)}, !.skipped.scanned = @ + 1, !.recent = Append(@, e)]
  BY <1>1, <1>2, <1>4, <1>5, <1>6
<1>9. t = [u EXCEPT !.touched = @ \union {Key(NextLog(s.todo))}, !.todo = IF Len(u.recent) >= RecentCap THEN {} ELSE @]
  BY <1>8 DEF Took
<1>10. /\ t.at = "screen" /\ t.recent = more /\ t.touched = s.touched \union {Key(NextLog(s.todo))} /\ t.kept = s.kept
       /\ t.todo = (IF Len(more) >= RecentCap THEN {} ELSE s.todo \ {NextLog(s.todo)})
       /\ t.listed = s.listed /\ t.linked = s.linked /\ DOMAIN t = DOMAIN s /\ t.skipped = p
  BY <1>1, <1>7, <1>9
<1>11. /\ p \in [scanned : Nat, oversize : Nat, unreadable : Nat, invalid : Nat]
       /\ p.scanned = q.scanned + 1 /\ p.oversize = q.oversize /\ p.unreadable = q.unreadable /\ p.invalid = q.invalid
  BY <1>3, <1>4
<1> QED BY <1>2, <1>5, <1>10, <1>11 DEF ShownLeaves

\* What an entry leaves that was looked at and is not shown.
LEMMA DroppedFields ==
  ASSUME NEW s, NEW e, NEW t, ReadShape(s), e.status \in {"unreadable", "invalid"}, Len(s.recent) < RecentCap, t = Took(s, e)
  PROVE  /\ t.at = "screen" /\ t.todo = s.todo \ {NextLog(s.todo)} /\ t.recent = s.recent
         /\ t.touched = s.touched \union {Key(NextLog(s.todo))} /\ t.kept = s.kept
         /\ t.listed = s.listed /\ t.linked = s.linked /\ DOMAIN t = DOMAIN s
         /\ t.skipped \in [scanned : Nat, oversize : Nat, unreadable : Nat, invalid : Nat]
         /\ t.skipped.scanned = s.skipped.scanned + 1
         /\ t.skipped.oversize + t.skipped.unreadable + t.skipped.invalid
              = s.skipped.oversize + s.skipped.unreadable + s.skipped.invalid + 1
<1>1. PICK u : u = Skip(s, e.status) OBVIOUS
<1>2. PICK why : why = e.status OBVIOUS
<1>3. why \in {"oversize", "unreadable", "invalid"} /\ u = Skip(s, why) /\ e.status # "ok" BY <1>1, <1>2
<1>4. /\ u.at = "screen" /\ u.todo = s.todo \ {NextLog(s.todo)} /\ u.recent = s.recent
      /\ u.touched = s.touched /\ u.kept = s.kept /\ u.listed = s.listed /\ u.linked = s.linked
      /\ DOMAIN u = DOMAIN s
      /\ u.skipped \in [scanned : Nat, oversize : Nat, unreadable : Nat, invalid : Nat]
      /\ u.skipped.scanned = s.skipped.scanned + 1
      /\ u.skipped.oversize + u.skipped.unreadable + u.skipped.invalid
           = s.skipped.oversize + s.skipped.unreadable + s.skipped.invalid + 1
  BY <1>3, SkipFields
<1>5. DOMAIN u = {"at", "todo", "recent", "touched", "kept", "listed", "linked", "skipped"} BY <1>4 DEF ReadShape, NotReading
<1>6. t = [u EXCEPT !.touched = @ \union {Key(NextLog(s.todo))}, !.todo = IF Len(u.recent) >= RecentCap THEN {} ELSE @]
  BY <1>1, <1>3 DEF Took
<1>7. ~(Len(u.recent) >= RecentCap)
  <2>1. Len(s.recent) \in Nat /\ RecentCap \in Nat BY LenProperties, BridgeAssumption DEF ReadShape
  <2> QED BY <1>4, <2>1
<1>8. t = [u EXCEPT !.touched = @ \union {Key(NextLog(s.todo))}, !.todo = u.todo] BY <1>5, <1>6, <1>7
<1>9. /\ t.at = u.at /\ t.todo = u.todo /\ t.recent = u.recent /\ t.touched = u.touched \union {Key(NextLog(s.todo))}
      /\ t.kept = u.kept /\ t.listed = u.listed /\ t.linked = u.linked /\ t.skipped = u.skipped /\ DOMAIN t = DOMAIN u
  BY <1>5, <1>8
<1> QED BY <1>4, <1>9

\* A read of a reader is sound.
ReadIsSound(s) == ReadShape(s) /\ ReadCounts(s) /\ ReadOrder(s)

\* It stays so when the next log is counted as skipped.
LEMMA SkippedIsCounted ==
  ASSUME NEW s, NEW t, ReadIsSound(s), s.at \in {"screen", "parse"}, s.todo # {},
         t.at = "screen", t.todo = s.todo \ {NextLog(s.todo)}, t.recent = s.recent,
         t.touched \subseteq s.touched \union {Key(NextLog(s.todo))}, t.kept = s.kept,
         t.listed = s.listed, t.linked = s.linked, DOMAIN t = DOMAIN s,
         t.skipped \in [scanned : Nat, oversize : Nat, unreadable : Nat, invalid : Nat],
         t.skipped.scanned = s.skipped.scanned + 1,
         t.skipped.oversize + t.skipped.unreadable + t.skipped.invalid
           = s.skipped.oversize + s.skipped.unreadable + s.skipped.invalid + 1
  PROVE  ReadIsSound(t)
<1> USE DEF ReadIsSound
<1>1. s.todo \in SUBSET BridgeEntries /\ t.todo \subseteq s.todo BY DEF ReadShape
<1>2. NextLog(s.todo) \in BridgeEntries BY <1>1, NextLogIsNewest
<1>3. Key(NextLog(s.todo)) \in BridgeKeys BY <1>2 DEF Key, BridgeKeys, BridgeEntries
<1>4. ReadShape(t) BY <1>1, <1>3 DEF ReadShape
<1>5. Len(s.recent) < RecentCap /\ s.skipped.scanned + Cardinality(s.todo) = Cardinality(s.listed) BY DEF ReadCounts
<1>6. Cardinality(s.todo) \in Nat /\ Cardinality(t.todo) = Cardinality(s.todo) - 1 BY <1>1, OneLess
<1>7. s.skipped \in [scanned : Nat, oversize : Nat, unreadable : Nat, invalid : Nat] /\ Len(s.recent) \in Nat /\ RecentCap \in Nat
  BY LenProperties, BridgeAssumption DEF ReadShape
<1>8. t.skipped.scanned + Cardinality(t.todo) = Cardinality(s.listed)
  <2>1. PICK a, c, d : a = s.skipped.scanned /\ c = Cardinality(s.todo) /\ d = Cardinality(s.listed) OBVIOUS
  <2>2. a \in Nat /\ c \in Nat /\ a + c = d BY <1>5, <1>6, <1>7, <2>1
  <2>3. (a + 1) + (c - 1) = d BY <2>2
  <2> QED BY <1>6, <2>1, <2>3
<1>9. t.skipped.scanned = Len(t.recent) + t.skipped.oversize + t.skipped.unreadable + t.skipped.invalid
  <2>1. s.skipped.scanned = Len(s.recent) + s.skipped.oversize + s.skipped.unreadable + s.skipped.invalid BY DEF ReadCounts
  <2>2. PICK a, b, c, x, y, z : /\ a = s.skipped.oversize /\ b = s.skipped.unreadable /\ c = s.skipped.invalid
                                /\ x = t.skipped.oversize /\ y = t.skipped.unreadable /\ z = t.skipped.invalid OBVIOUS
  <2>3. a \in Nat /\ b \in Nat /\ c \in Nat /\ x \in Nat /\ y \in Nat /\ z \in Nat BY <1>7, <2>2
  <2>4. x + y + z = a + b + c + 1 BY <2>2
  <2>5. s.skipped.scanned = Len(s.recent) + a + b + c BY <2>1, <2>2
  <2>6. PICK m, k : m = Len(s.recent) /\ k = s.skipped.scanned OBVIOUS
  <2>7. m \in Nat /\ k = m + a + b + c BY <1>7, <2>5, <2>6
  <2>8. k + 1 = m + x + y + z BY <2>3, <2>4, <2>7
  <2> QED BY <2>2, <2>6, <2>8
<1>10. ReadCounts(t) BY <1>5, <1>8, <1>9 DEF ReadCounts
<1>11. ReadOrder(t) BY <1>1 DEF ReadOrder
<1> QED BY <1>4, <1>10, <1>11

\* It stays so when the next log is shown.
LEMMA ShownIsCounted ==
  ASSUME NEW s, NEW t, ReadIsSound(s), s.at \in {"screen", "parse"}, s.todo # {},
         Screened(NextLog(s.todo)) = "none",
         NEW e, ExtractOf(Key(NextLog(s.todo)), e), e.status = "ok", t = Took(s, e)
  PROVE  ReadIsSound(t)
<1> USE DEF ReadIsSound
<1>0. /\ t.at = "screen" /\ t.recent = Append(s.recent, e)
      /\ t.todo = (IF Len(Append(s.recent, e)) >= RecentCap THEN {} ELSE s.todo \ {NextLog(s.todo)})
      /\ t.touched = s.touched \union {Key(NextLog(s.todo))} /\ t.kept = s.kept
      /\ t.listed = s.listed /\ t.linked = s.linked /\ DOMAIN t = DOMAIN s
      /\ t.skipped \in [scanned : Nat, oversize : Nat, unreadable : Nat, invalid : Nat]
      /\ t.skipped.scanned = s.skipped.scanned + 1 /\ t.skipped.oversize = s.skipped.oversize
      /\ t.skipped.unreadable = s.skipped.unreadable /\ t.skipped.invalid = s.skipped.invalid
  <2>1. ReadShape(s) OBVIOUS
  <2>2. ShownLeaves(s, e, t) BY <2>1, ShownFields
  <2> QED BY <2>2 DEF ShownLeaves
<1>1. PICK n : n = NextLog(s.todo) OBVIOUS
<1>2. s.todo \in SUBSET BridgeEntries /\ n \in s.todo /\ n \in BridgeEntries /\ \A d \in s.todo : n.log >= d.log
  <2>1. s.todo \in SUBSET BridgeEntries BY DEF ReadShape
  <2> QED BY <1>1, <2>1, NextLogIsNewest
<1>3. Key(n) \in BridgeKeys /\ Key(n)[1] = n.log BY <1>2 DEF Key, BridgeKeys, BridgeEntries
<1>4. /\ e \in BridgeExtracts /\ e.log = n.log /\ bridgeRecord[n.log].well /\ ~bridgeRecord[n.log].big
      /\ e.wait <= MaxFinite
  BY <1>1, <1>3 DEF ExtractOf
<1>5. t.todo \subseteq s.todo \ {n} BY <1>0, <1>1
<1>6. ReadShape(t)
  <2>1. t.recent \in Seq(BridgeExtracts) BY <1>0, <1>4, AppendProperties DEF ReadShape
  <2> QED BY <1>0, <1>1, <1>2, <1>3, <1>5, <2>1 DEF ReadShape
<1>7. s.recent \in Seq(BridgeExtracts) /\ Len(s.recent) \in Nat /\ Len(t.recent) = Len(s.recent) + 1 /\ RecentCap \in Nat
  BY <1>0, <1>4, AppendProperties, LenProperties, BridgeAssumption DEF ReadShape
<1>8. Len(s.recent) < RecentCap /\ s.skipped.scanned + Cardinality(s.todo) = Cardinality(s.listed) BY DEF ReadCounts
<1>9. ReadCounts(t)
  <2>1. Cardinality(s.todo) \in Nat /\ Cardinality(s.todo \ {n}) = Cardinality(s.todo) - 1 BY <1>1, <1>2, OneLess
  <2>2. s.skipped \in [scanned : Nat, oversize : Nat, unreadable : Nat, invalid : Nat] BY DEF ReadShape
  <2>3. t.skipped.scanned = Len(t.recent) + t.skipped.oversize + t.skipped.unreadable + t.skipped.invalid
    <3>1. s.skipped.scanned = Len(s.recent) + s.skipped.oversize + s.skipped.unreadable + s.skipped.invalid BY DEF ReadCounts
    <3>2. PICK a, b, c : a = s.skipped.oversize /\ b = s.skipped.unreadable /\ c = s.skipped.invalid OBVIOUS
    <3>3. a \in Nat /\ b \in Nat /\ c \in Nat /\ s.skipped.scanned = Len(s.recent) + a + b + c BY <2>2, <3>1, <3>2
    <3>4. t.skipped.scanned = Len(t.recent) + a + b + c BY <1>0, <1>7, <3>3
    <3> QED BY <1>0, <3>2, <3>4
  <2>4. CASE Len(t.recent) >= RecentCap
    <3>1. t.todo = {} /\ Len(t.recent) = RecentCap BY <1>0, <1>7, <1>8, <2>4
    <3> QED BY <1>0, <1>7, <2>3, <3>1 DEF ReadCounts
  <2>5. CASE ~(Len(t.recent) >= RecentCap)
    <3>1. t.todo = s.todo \ {n} /\ Len(t.recent) < RecentCap BY <1>0, <1>1, <1>7, <2>5
    <3>3. PICK a, c, d : a = s.skipped.scanned /\ c = Cardinality(s.todo) /\ d = Cardinality(s.listed) OBVIOUS
    <3>4. a \in Nat /\ c \in Nat /\ a + c = d BY <1>8, <2>1, <2>2, <3>3
    <3>5. (a + 1) + (c - 1) = d BY <3>4
    <3>2. t.skipped.scanned + Cardinality(t.todo) = Cardinality(s.listed) BY <1>0, <2>1, <3>1, <3>3, <3>5
    <3> QED BY <1>0, <1>7, <2>3, <3>1, <3>2 DEF ReadCounts
  <2> QED BY <2>4, <2>5
<1>10. ReadOrder(t)
  <2>1. \A d \in t.todo : d.log \in t.listed /\ (~d.link => d.log \notin t.linked) BY <1>0, <1>5 DEF ReadOrder
  <2>2. \A c, d \in t.todo : c.log = d.log => c = d BY <1>5 DEF ReadOrder
  <2>3. \A i \in 1..Len(s.recent) : t.recent[i] = s.recent[i] BY <1>0, <1>4, <1>7, AppendProperties
  <2>4. t.recent[Len(s.recent) + 1] = e BY <1>0, <1>4, <1>7, AppendProperties
  <2>5. n.log \in s.listed \ s.linked
    <3>1. ~n.link BY <1>1 DEF Screened
    <3> QED BY <1>2, <3>1 DEF ReadOrder
  <2>6. \A d \in t.todo : n.log > d.log
    <3> SUFFICES ASSUME NEW d \in t.todo PROVE n.log > d.log OBVIOUS
    <3>1. d \in s.todo /\ d # n BY <1>5
    <3>2. d.log # n.log /\ n.log >= d.log BY <1>2, <3>1 DEF ReadOrder
    <3>3. PICK x, y : x = d.log /\ y = n.log OBVIOUS
    <3>4. x \in BridgeLogs /\ y \in BridgeLogs BY <1>2, <3>1, <3>3 DEF BridgeEntries
    <3>5. BridgeLogs \subseteq 0..MaxFinite BY BridgeAssumption
    <3>6. x \in Int /\ y \in Int BY <3>4, <3>5
    <3> QED BY <3>2, <3>3, <3>6
  <2>7. \A i \in 1..Len(t.recent) : i \in 1..Len(s.recent) \/ i = Len(s.recent) + 1 BY <1>7
  <2>8. ASSUME NEW i \in 1..Len(t.recent)
        PROVE  /\ t.recent[i].log \in t.listed \ t.linked
               /\ bridgeRecord[t.recent[i].log].well /\ ~bridgeRecord[t.recent[i].log].big
               /\ t.recent[i].wait <= MaxFinite
               /\ \A d \in t.todo : t.recent[i].log > d.log
    <3>1. CASE i \in 1..Len(s.recent) BY <1>0, <1>5, <2>3, <3>1 DEF ReadOrder
    <3>2. CASE i = Len(s.recent) + 1 BY <1>0, <1>4, <2>4, <2>5, <2>6, <3>2
    <3> QED BY <2>7, <3>1, <3>2
  <2>9. ASSUME NEW i \in 1..Len(t.recent), NEW j \in 1..Len(t.recent), i < j
        PROVE  t.recent[i].log > t.recent[j].log
    <3>1. CASE j \in 1..Len(s.recent)
      <4>1. i \in 1..Len(s.recent) BY <1>7, <2>9, <3>1
      <4> QED BY <2>3, <2>9, <3>1, <4>1 DEF ReadOrder
    <3>2. CASE j = Len(s.recent) + 1
      <4>1. i \in 1..Len(s.recent) BY <1>7, <2>9, <3>2
      <4>2. s.recent[i].log > n.log BY <1>2, <4>1 DEF ReadOrder
      <4> QED BY <1>4, <2>3, <2>4, <3>2, <4>1, <4>2
    <3> QED BY <2>7, <3>1, <3>2
  <2> QED BY <2>1, <2>2, <2>8, <2>9 DEF ReadOrder
<1> QED BY <1>6, <1>9, <1>10

\* So it stays so when the extract of the next log is taken, whatever it is.
LEMMA TakenIsCounted ==
  ASSUME NEW s, NEW t, ReadIsSound(s), s.at \in {"screen", "parse"}, s.todo # {},
         Screened(NextLog(s.todo)) = "none",
         NEW e, ExtractOf(Key(NextLog(s.todo)), e), t = Took(s, e)
  PROVE  ReadIsSound(t)
<1>1. CASE e.status = "ok" BY <1>1, ShownIsCounted
<1>2. CASE e.status # "ok"
  <2>1. e.status \in {"unreadable", "invalid"} BY <1>2 DEF ExtractOf
  <2>2. Len(s.recent) < RecentCap /\ ReadShape(s) BY DEF ReadIsSound, ReadCounts
  <2>3. /\ t.at = "screen" /\ t.todo = s.todo \ {NextLog(s.todo)} /\ t.recent = s.recent
        /\ t.touched = s.touched \union {Key(NextLog(s.todo))} /\ t.kept = s.kept
        /\ t.listed = s.listed /\ t.linked = s.linked /\ DOMAIN t = DOMAIN s
        /\ t.skipped \in [scanned : Nat, oversize : Nat, unreadable : Nat, invalid : Nat]
        /\ t.skipped.scanned = s.skipped.scanned + 1
        /\ t.skipped.oversize + t.skipped.unreadable + t.skipped.invalid
              = s.skipped.oversize + s.skipped.unreadable + s.skipped.invalid + 1
    BY <2>1, <2>2, DroppedFields
  <2> QED BY <2>3, SkippedIsCounted
<1> QED BY <1>1, <1>2

\* Before a poll of the bridge begins, no log is held and no row was made.
LEMMA BridgeInitial == BridgeInit => BridgeIInv
<1> SUFFICES ASSUME BridgeInit PROVE BridgeIInv OBVIOUS
<1> USE DEF BridgeInit
<1>1. CacheOfExtracts(<<>>) BY DEF CacheOfExtracts
<1>2. ReadShape(NotReading)
  <2>1. <<>> \in Seq(BridgeExtracts) OBVIOUS
  <2> QED BY <1>1, <2>1 DEF ReadShape, NotReading
<1>3. ReadCounts(NotReading) BY BridgeAssumption DEF ReadCounts, NotReading
<1>4. ReadOrder(NotReading) BY DEF ReadOrder, NotReading
<1>5. grown \in [BridgeLogs -> [phase : Phases, link : BOOLEAN]] BY DEF Phases
<1> QED BY <1>1, <1>2, <1>3, <1>4, <1>5 DEF BridgeIInv, ReadIsSound

\* The same said with one name for a reader's part.
LEMMA BridgeInvariant ==
  BridgeIInv <=> /\ bridgeRecord \in [BridgeLogs -> BridgeRecords]
                 /\ grown \in [BridgeLogs -> [phase : Phases, link : BOOLEAN]]
                 /\ CacheOfExtracts(parsed) /\ DOMAIN looker = BridgeReaders
                 /\ \A r \in BridgeReaders : ReadIsSound(looker[r])
BY DEF BridgeIInv, ReadIsSound

\* The writer goes on.
LEMMA LogsGoOn ==
  ASSUME BridgeIInv, NEW f \in BridgeLogs,
         \/ WriteLog(f, "absent", "partial") \/ WriteLog(f, "partial", "whole") \/ WriteLog(f, "whole", "pruned")
         \/ SwapForLink(f)
  PROVE  BridgeIInv'
<1>1. bridgeRecord' = bridgeRecord /\ parsed' = parsed /\ looker' = looker BY DEF WriteLog, SwapForLink
<1>2. grown' \in [BridgeLogs -> [phase : Phases, link : BOOLEAN]]
  <2>1. ASSUME NEW to \in Phases, grown' = [grown EXCEPT ![f].phase = to] PROVE grown' \in [BridgeLogs -> [phase : Phases, link : BOOLEAN]]
    BY <2>1 DEF BridgeIInv
  <2>2. CASE grown' = [grown EXCEPT ![f].link = TRUE] BY <2>2, Zenon DEF BridgeIInv
  <2> QED BY <2>1, <2>2 DEF WriteLog, SwapForLink, Phases
<1>3. /\ CacheOfExtracts(parsed)' /\ \A r \in BridgeReaders : ReadIsSound(looker[r])'
  BY <1>1, BridgeInvariant, SMTT(60) DEF CacheOfExtracts, ExtractOf, ReadIsSound, ReadShape, ReadCounts, ReadOrder
<1> QED BY <1>1, <1>2, <1>3 DEF BridgeIInv, ReadIsSound

\* One reader takes a step and the others stay where they are.
LEMMA OneReader ==
  ASSUME BridgeIInv, NEW r \in BridgeReaders, bridgeRecord' = bridgeRecord, grown' = grown,
         NEW t, looker' = [looker EXCEPT ![r] = t], ReadIsSound(t), CacheOfExtracts(parsed')
  PROVE  BridgeIInv'
<1>1. looker'[r] = t /\ DOMAIN looker' = BridgeReaders /\ \A q \in BridgeReaders \ {r} : looker'[q] = looker[q] BY DEF BridgeIInv
<1>2. \A q \in BridgeReaders : ReadIsSound(looker'[q]) BY <1>1 DEF BridgeIInv, ReadIsSound
<1>3. \A q \in BridgeReaders : ReadIsSound(looker[q])'
  <2> SUFFICES ASSUME NEW q \in BridgeReaders PROVE ReadIsSound(looker[q])' OBVIOUS
  <2>0. ReadIsSound(looker'[q]) BY <1>2
  <2>1. ReadShape(looker[q])' BY <2>0 DEF ReadIsSound, ReadShape, CacheOfExtracts, ExtractOf
  <2>2. ReadCounts(looker[q])' BY <2>0 DEF ReadIsSound, ReadCounts
  <2>3. ReadOrder(looker[q])' BY <2>0 DEF ReadIsSound, ReadOrder
  <2> QED BY <2>1, <2>2, <2>3 DEF ReadIsSound
<1>4. CacheOfExtracts(parsed)' BY DEF CacheOfExtracts, ExtractOf
<1> QED BY <1>1, <1>3, <1>4 DEF BridgeIInv, ReadIsSound

\* A reader lists the newest logs, as many entries as logs.
LEMMA ReadBegins == ASSUME BridgeIInv, NEW r \in BridgeReaders, Begin(r) PROVE BridgeIInv'
<1> DEFINE Entry(f) == [log |-> f, size |-> SizeOf(f), link |-> grown[f].link]
<1>1. PICK S : S = NewestLogs(ListedLogs) OBVIOUS
<1>2. PICK E : E = Candidates OBVIOUS
<1>3. S \subseteq BridgeLogs BY <1>1 DEF NewestLogs, ListedLogs
<1>4. E = {Entry(f) : f \in S} BY <1>1, <1>2 DEF Candidates
<1>5. \A f \in S : Entry(f) \in BridgeEntries
  <2> SUFFICES ASSUME NEW f \in S PROVE Entry(f) \in BridgeEntries OBVIOUS
  <2>1. grown[f].link \in BOOLEAN BY <1>3 DEF BridgeIInv
  <2>2. SizeOf(f) \in {"some", "huge", "all"} BY DEF SizeOf
  <2>3. f \in BridgeLogs BY <1>3
  <2> QED BY <2>1, <2>2, <2>3 DEF BridgeEntries
<1>6. \A f \in S : Entry(f).log = f /\ Entry(f).link = grown[f].link OBVIOUS
<1>7. E \in SUBSET BridgeEntries BY <1>4, <1>5
<1>8. {e.log : e \in E} = S BY <1>4, <1>6
<1>9. Cardinality(E) = Cardinality(S)
  <2>1. IsFiniteSet(S) BY <1>3, EntriesAreFinite, FS_Subset
  <2>2. PICK h : h = [f \in S |-> Entry(f)] OBVIOUS
  <2>3. \A f \in S : h[f] = Entry(f) BY <2>2
  <2>4. DOMAIN h = S BY <2>2
  <2> HIDE DEF Entry
  <2>5. h \in Bijection(S, E)
    <3>1. h \in [S -> E] BY <1>4, <2>2
    <3>2. \A f, g \in S : h[f] = h[g] => f = g BY <1>6, <2>3
    <3>3. \A e \in E : \E f \in S : h[f] = e BY <1>4, <2>3
    <3>4. h \in Injection(S, E) BY <2>4, <3>1, <3>2 DEF Injection, IsInjective
    <3>5. h \in Surjection(S, E) BY <3>1, <3>3 DEF Surjection
    <3> QED BY <3>4, <3>5 DEF Bijection
  <2>6. ExistsBijection(S, E) BY <2>5 DEF ExistsBijection
  <2> QED BY <2>1, <2>6, FS_Bijection
<1>10. PICK t : t = [NotReading EXCEPT !.at = "screen", !.todo = E, !.listed = S, !.linked = {f \in BridgeLogs : grown[f].link}] OBVIOUS
<1>11. looker' = [looker EXCEPT ![r] = t] BY <1>2, <1>8, <1>10 DEF Begin
<1>12. /\ t.at = "screen" /\ t.todo = E /\ t.listed = S /\ t.linked = {f \in BridgeLogs : grown[f].link}
       /\ t.recent = <<>> /\ t.touched = {} /\ t.kept = <<>> /\ DOMAIN t = DOMAIN NotReading
       /\ t.skipped = [scanned |-> 0, oversize |-> 0, unreadable |-> 0, invalid |-> 0]
  BY <1>10 DEF NotReading
<1>13. ReadShape(t)
  <2>1. <<>> \in Seq(BridgeExtracts) OBVIOUS
  <2>2. CacheOfExtracts(<<>>) BY DEF CacheOfExtracts
  <2> QED BY <1>3, <1>7, <1>12, <2>1, <2>2 DEF ReadShape
<1>14. ReadCounts(t)
  <2>1. Len(t.recent) = 0 /\ 0 < RecentCap /\ t.skipped.scanned = 0 BY <1>12, BridgeAssumption
  <2>2. IsFiniteSet(S) BY <1>3, EntriesAreFinite, FS_Subset
  <2>3. Cardinality(S) \in Nat BY <2>2, FS_CardinalityType
  <2>4. 0 + Cardinality(t.todo) = Cardinality(t.listed) BY <1>9, <1>12, <2>3
  <2>5. t.skipped.oversize = 0 /\ t.skipped.unreadable = 0 /\ t.skipped.invalid = 0 BY <1>12
  <2>6. t.skipped.scanned = Len(t.recent) + t.skipped.oversize + t.skipped.unreadable + t.skipped.invalid BY <2>1, <2>5
  <2>7. Len(t.recent) <= RecentCap BY <2>1, BridgeAssumption
  <2>8. t.skipped.scanned + Cardinality(t.todo) = Cardinality(t.listed) BY <2>1, <2>4
  <2>9. Len(t.recent) < RecentCap BY <2>1
  <2> QED BY <1>12, <2>6, <2>7, <2>8, <2>9 DEF ReadCounts
<1>15. ReadOrder(t)
  <2>1. \A e \in E : e.log \in S /\ (~e.link => ~grown[e.log].link) BY <1>4, <1>6
  <2>2. \A d, e \in E : d.log = e.log => d = e BY <1>4, <1>6
  <2>3. t.linked = {f \in BridgeLogs : grown[f].link} BY <1>12
  <2>4. \A e \in E : e.log \in t.listed /\ (~e.link => e.log \notin t.linked) BY <1>12, <2>1, <2>3
  <2> QED BY <1>12, <2>2, <2>4 DEF ReadOrder
<1>16. CacheOfExtracts(parsed') BY DEF Begin, BridgeIInv
<1> QED BY <1>11, <1>13, <1>14, <1>15, <1>16, OneReader DEF Begin, ReadIsSound

\* The next log is dropped at a screen, taken from the cache, or left to be parsed.
LEMMA ReadScreens == ASSUME BridgeIInv, NEW r \in BridgeReaders, Screen(r) PROVE BridgeIInv'
<1>1. PICK s : s = looker[r] OBVIOUS
<1>2. PICK n : n = NextLog(s.todo) OBVIOUS
<1>3. ReadIsSound(s) /\ s.at = "screen" /\ s.todo # {} BY <1>1 DEF BridgeIInv, ReadIsSound, Screen
<1>4. bridgeRecord' = bridgeRecord /\ grown' = grown /\ parsed' = parsed BY DEF Screen
<1>5. CacheOfExtracts(parsed) /\ CacheOfExtracts(parsed') BY <1>4 DEF BridgeIInv
<1>6. CASE Screened(n) # "none"
  <2>1. PICK why : why = Screened(n) OBVIOUS
  <2>2. why \in {"oversize", "unreadable", "invalid"} BY <1>6, <2>1 DEF Screened
  <2>3. PICK t : t = Skip(s, why) OBVIOUS
  <2>4. looker' = [looker EXCEPT ![r] = t] BY <1>1, <1>2, <1>6, <2>1, <2>3 DEF Screen
  <2>5. ReadShape(s) BY <1>3 DEF ReadIsSound
  <2>6. /\ t.at = "screen" /\ t.todo = s.todo \ {NextLog(s.todo)} /\ t.recent = s.recent
        /\ t.touched = s.touched /\ t.kept = s.kept /\ t.listed = s.listed /\ t.linked = s.linked
        /\ DOMAIN t = DOMAIN s
        /\ t.skipped \in [scanned : Nat, oversize : Nat, unreadable : Nat, invalid : Nat]
        /\ t.skipped.scanned = s.skipped.scanned + 1
        /\ t.skipped.oversize + t.skipped.unreadable + t.skipped.invalid
             = s.skipped.oversize + s.skipped.unreadable + s.skipped.invalid + 1
    BY <2>2, <2>3, <2>5, SkipFields
  <2>7. t.touched \subseteq s.touched \union {Key(NextLog(s.todo))} BY <2>6
  <2>8. ReadIsSound(t) BY <1>3, <2>6, <2>7, SkippedIsCounted
  <2> QED BY <1>4, <1>5, <2>4, <2>8, OneReader
<1>7. CASE Screened(n) = "none" /\ Key(n) \in DOMAIN parsed
  <2>1. PICK e : e = parsed[Key(n)] OBVIOUS
  <2>2. ExtractOf(Key(n), e) BY <1>5, <1>7, <2>1 DEF CacheOfExtracts
  <2>3. PICK t : t = Took(s, e) OBVIOUS
  <2>4. looker' = [looker EXCEPT ![r] = t] BY <1>1, <1>2, <1>7, <2>1, <2>3 DEF Screen
  <2>5. Screened(NextLog(s.todo)) = "none" /\ ExtractOf(Key(NextLog(s.todo)), e) BY <1>2, <1>7, <2>2
  <2>6. ReadIsSound(t) BY <1>3, <2>3, <2>5, TakenIsCounted
  <2> QED BY <1>4, <1>5, <2>4, <2>6, OneReader
<1>8. CASE Screened(n) = "none" /\ Key(n) \notin DOMAIN parsed
  <2>1. PICK t : t = [s EXCEPT !.at = "parse"] OBVIOUS
  <2>2. looker' = [looker EXCEPT ![r] = t] BY <1>1, <1>2, <1>8, <2>1 DEF Screen
  <2>3. DOMAIN s = {"at", "todo", "recent", "touched", "kept", "listed", "linked", "skipped"}
    BY <1>3 DEF ReadIsSound, ReadShape, NotReading
  <2>4. /\ t.at = "parse" /\ t.todo = s.todo /\ t.recent = s.recent /\ t.touched = s.touched /\ t.kept = s.kept
        /\ t.listed = s.listed /\ t.linked = s.linked /\ t.skipped = s.skipped /\ DOMAIN t = DOMAIN s
    BY <2>1, <2>3
  <2>5. ReadShape(t) BY <1>3, <2>4 DEF ReadIsSound, ReadShape
  <2>6. Screened(NextLog(s.todo)) = "none" BY <1>2, <1>8
  <2>7. ReadCounts(t) BY <1>3, <2>4, <2>6 DEF ReadIsSound, ReadCounts
  <2>8. ReadOrder(t) BY <1>3, <2>4 DEF ReadIsSound, ReadOrder
  <2>9. ReadIsSound(t) BY <2>5, <2>7, <2>8 DEF ReadIsSound
  <2> QED BY <1>4, <1>5, <2>2, <2>9, OneReader
<1> QED BY <1>6, <1>7, <1>8

\* The extract of a log is one of its own, and its wait is a finite number.
LEMMA ExtractIsOfTheLog ==
  ASSUME BridgeIInv, NEW k \in BridgeKeys PROVE ExtractOf(k, RecentEntry(k[1]))
<1>1. PICK f : f = k[1] OBVIOUS
<1>2. PICK b : b = bridgeRecord[f] OBVIOUS
<1>3. PICK e : e = RecentEntry(f) OBVIOUS
<1>4. f \in BridgeLogs /\ f \in 0..MaxFinite /\ MaxFinite \in Nat BY <1>1, BridgeAssumption DEF BridgeKeys
<1>5. b \in BridgeRecords BY <1>2, <1>4 DEF BridgeIInv
<1>6. b \in [well : BOOLEAN, big : BOOLEAN, lock : Int, claim : Nat, took : Nat, began : Nat] BY <1>5, BridgeAssumption
<1>7. PICK lock, claim, took, began : lock = b.lock /\ claim = b.claim /\ took = b.took /\ began = b.began OBVIOUS
<1>8. lock \in Int /\ claim \in Nat /\ took \in Nat /\ began \in Nat BY <1>6, <1>7
<1>9. PICK w : w = IF lock >= 0 THEN lock + claim ELSE IF f - took - began > 0 THEN f - took - began ELSE 0 OBVIOUS
<1>10. w \in Int /\ (lock < 0 => w <= MaxFinite) /\ (~(lock >= 0 /\ lock + claim > MaxFinite) => w <= MaxFinite)
  BY <1>4, <1>8, <1>9
<1>11. CASE grown[f].phase # "whole" \/ grown[f].link \/ b.big
  <2>1. e = [status |-> "unreadable"] BY <1>2, <1>3, <1>11 DEF RecentEntry
  <2> QED BY <1>1, <1>3, <2>1 DEF ExtractOf
<1>12. CASE ~(grown[f].phase # "whole" \/ grown[f].link \/ b.big) /\ (~b.well \/ (lock >= 0 /\ lock + claim > MaxFinite))
  <2>1. e = [status |-> "invalid"] BY <1>2, <1>3, <1>7, <1>12 DEF RecentEntry
  <2> QED BY <1>1, <1>3, <2>1 DEF ExtractOf
<1>13. CASE ~(grown[f].phase # "whole" \/ grown[f].link \/ b.big) /\ ~(~b.well \/ (lock >= 0 /\ lock + claim > MaxFinite))
  <2>1. PICK source : source = IF lock >= 0 THEN "measured" ELSE "estimated" OBVIOUS
  <2>2. e = [status |-> "ok", log |-> f, wait |-> w, source |-> source]
    BY <1>2, <1>3, <1>7, <1>9, <1>13, <2>1 DEF RecentEntry
  <2>3. e \in BridgeExtracts BY <1>4, <1>10, <2>1, <2>2 DEF BridgeExtracts
  <2>4. b.well /\ ~b.big /\ w <= MaxFinite BY <1>10, <1>13
  <2> QED BY <1>1, <1>2, <1>3, <2>2, <2>3, <2>4 DEF ExtractOf
<1> QED BY <1>11, <1>12, <1>13

\* A log is parsed and its extract kept for whoever reads next.
LEMMA ReadParses == ASSUME BridgeIInv, NEW r \in BridgeReaders, Parse(r) PROVE BridgeIInv'
<1>1. PICK s : s = looker[r] OBVIOUS
<1>2. PICK n : n = NextLog(s.todo) OBVIOUS
<1>3. PICK found : found = RecentEntry(n.log) OBVIOUS
<1>4. PICK t : t = Took(s, found) OBVIOUS
<1>5. ReadIsSound(s) /\ s.at = "parse" BY <1>1 DEF BridgeIInv, ReadIsSound, Parse
<1>6. s.todo # {} /\ Screened(n) = "none" /\ s.todo \in SUBSET BridgeEntries
  BY <1>2, <1>5 DEF ReadIsSound, ReadCounts, ReadShape
<1>7. n \in BridgeEntries BY <1>2, <1>6, NextLogIsNewest
<1>8. Key(n) \in BridgeKeys /\ Key(n)[1] = n.log BY <1>7 DEF Key, BridgeKeys, BridgeEntries
<1>9. ExtractOf(Key(n), found) BY <1>3, <1>8, ExtractIsOfTheLog
<1>10. looker' = [looker EXCEPT ![r] = t] BY <1>1, <1>2, <1>3, <1>4 DEF Parse
<1>11. Screened(NextLog(s.todo)) = "none" /\ ExtractOf(Key(NextLog(s.todo)), found) BY <1>2, <1>6, <1>9
<1>12. ReadIsSound(t) BY <1>4, <1>5, <1>6, <1>11, TakenIsCounted
<1>13. CacheOfExtracts(parsed')
  <2>1. PICK key : key = Key(n) OBVIOUS
  <2>2. parsed' = [k \in DOMAIN parsed \union {key} |-> IF k = key THEN found ELSE parsed[k]]
    BY <1>1, <1>2, <1>3, <2>1 DEF Parse
  <2>3. CacheOfExtracts(parsed) BY DEF BridgeIInv
  <2>4. DOMAIN parsed' = DOMAIN parsed \union {key} BY <2>2
  <2>5. ASSUME NEW k \in DOMAIN parsed' PROVE ExtractOf(k, parsed'[k])
    <3>1. CASE k = key BY <1>9, <2>1, <2>2, <3>1
    <3>2. CASE k # key
      <4>1. k \in DOMAIN parsed /\ parsed'[k] = parsed[k] BY <2>2, <3>2
      <4> QED BY <2>3, <4>1 DEF CacheOfExtracts
    <3> QED BY <3>1, <3>2
  <2> QED BY <1>8, <2>1, <2>3, <2>4, <2>5 DEF CacheOfExtracts
<1> QED BY <1>10, <1>12, <1>13, OneReader DEF Parse

\* A read that is over answers, or empties the cache and keeps what it touched, or fails.
LEMMA ReadEnds == ASSUME BridgeIInv, NEW r \in BridgeReaders, FinishRead(r) PROVE BridgeIInv'
<1>1. PICK s : s = looker[r] OBVIOUS
<1>2. ReadIsSound(s) /\ s.at = "screen" /\ s.todo = {} BY <1>1 DEF BridgeIInv, ReadIsSound, FinishRead
<1>3. bridgeRecord' = bridgeRecord /\ grown' = grown /\ parsed' \in {<<>>, parsed} BY DEF FinishRead
<1>4. CacheOfExtracts(parsed) /\ CacheOfExtracts(<<>>) BY DEF BridgeIInv, CacheOfExtracts
<1>5. CacheOfExtracts(parsed') BY <1>3, <1>4
<1>6. s.skipped.scanned = Cardinality(s.listed) \/ Len(s.recent) = RecentCap
  <2>1. CASE s.skipped.scanned + Cardinality(s.todo) = Cardinality(s.listed)
    <3>1. Cardinality(s.todo) = 0 BY <1>2, FS_EmptySet
    <3>2. s.skipped.scanned \in Nat BY <1>2 DEF ReadIsSound, ReadShape
    <3> QED BY <2>1, <3>1, <3>2
  <2> QED BY <1>2, <2>1 DEF ReadIsSound, ReadCounts
<1>7. DOMAIN s = {"at", "todo", "recent", "touched", "kept", "listed", "linked", "skipped"}
  BY <1>2 DEF ReadIsSound, ReadShape, NotReading
<1>8. ASSUME NEW to \in {"answered", "trim", "failed"}, NEW kept, CacheOfExtracts(kept), NEW t,
             t = [s EXCEPT !.at = to, !.kept = kept]
      PROVE  ReadIsSound(t)
  <2>1. /\ t.at = to /\ t.todo = s.todo /\ t.recent = s.recent /\ t.touched = s.touched /\ t.kept = kept
        /\ t.listed = s.listed /\ t.linked = s.linked /\ t.skipped = s.skipped /\ DOMAIN t = DOMAIN s
    BY <1>7, <1>8
  <2>2. ReadShape(t) BY <1>2, <1>8, <2>1 DEF ReadIsSound, ReadShape
  <2>3. ReadCounts(t) BY <1>2, <1>6, <1>8, <2>1 DEF ReadIsSound, ReadCounts
  <2>4. ReadOrder(t) BY <1>2, <2>1 DEF ReadIsSound, ReadOrder
  <2> QED BY <2>2, <2>3, <2>4 DEF ReadIsSound
<1>9. CacheOfExtracts(s.kept) BY <1>2 DEF ReadIsSound, ReadShape
<1>10. CASE looker' = [looker EXCEPT ![r] = [s EXCEPT !.at = "answered"]]
  <2>1. PICK t : t = [s EXCEPT !.at = "answered"] OBVIOUS
  <2>2. t = [s EXCEPT !.at = "answered", !.kept = s.kept] BY <1>7, <2>1
  <2>3. ReadIsSound(t) BY <1>8, <1>9, <2>2
  <2> QED BY <1>3, <1>5, <1>10, <2>1, <2>3, OneReader
<1>11. CASE looker' = [looker EXCEPT ![r] = [s EXCEPT !.at = "failed"]]
  <2>1. PICK t : t = [s EXCEPT !.at = "failed"] OBVIOUS
  <2>2. t = [s EXCEPT !.at = "failed", !.kept = s.kept] BY <1>7, <2>1
  <2>3. ReadIsSound(t) BY <1>8, <1>9, <2>2
  <2> QED BY <1>3, <1>5, <1>11, <2>1, <2>3, OneReader
<1>12. CASE /\ s.touched \subseteq DOMAIN parsed
            /\ looker' = [looker EXCEPT ![r] = [s EXCEPT !.at = "trim", !.kept = Restrict(parsed, s.touched)]]
  <2>1. PICK kept : kept = Restrict(parsed, s.touched) OBVIOUS
  <2>2. kept = [k \in s.touched |-> parsed[k]] BY <2>1 DEF Restrict
  <2>3. CacheOfExtracts(kept) BY <1>4, <1>12, <2>2 DEF CacheOfExtracts
  <2>4. PICK t : t = [s EXCEPT !.at = "trim", !.kept = kept] OBVIOUS
  <2>5. ReadIsSound(t) BY <1>8, <2>3, <2>4
  <2> QED BY <1>3, <1>5, <1>12, <2>1, <2>4, <2>5, OneReader
<1> QED BY <1>1, <1>10, <1>11, <1>12 DEF FinishRead

\* What was kept is given back, over what others cached since.
LEMMA ReadGivesBack == ASSUME BridgeIInv, NEW r \in BridgeReaders, GiveBack(r) PROVE BridgeIInv'
<1>1. PICK s : s = looker[r] OBVIOUS
<1>2. ReadIsSound(s) /\ s.at = "trim" BY <1>1 DEF BridgeIInv, ReadIsSound, GiveBack
<1>3. PICK t : t = [s EXCEPT !.at = "answered", !.kept = <<>>] OBVIOUS
<1>4. looker' = [looker EXCEPT ![r] = t] BY <1>1, <1>3 DEF GiveBack, BridgeIInv
<1>5. DOMAIN s = {"at", "todo", "recent", "touched", "kept", "listed", "linked", "skipped"}
  BY <1>2 DEF ReadIsSound, ReadShape, NotReading
<1>6. /\ t.at = "answered" /\ t.todo = s.todo /\ t.recent = s.recent /\ t.touched = s.touched /\ t.kept = <<>>
      /\ t.listed = s.listed /\ t.linked = s.linked /\ t.skipped = s.skipped /\ DOMAIN t = DOMAIN s
  BY <1>3, <1>5
<1>7. CacheOfExtracts(<<>>) BY DEF CacheOfExtracts
<1>8. ReadShape(t) BY <1>2, <1>6, <1>7 DEF ReadIsSound, ReadShape
<1>9. ReadCounts(t) BY <1>2, <1>6 DEF ReadIsSound, ReadCounts
<1>10. ReadOrder(t) BY <1>2, <1>6 DEF ReadIsSound, ReadOrder
<1>11. ReadIsSound(t) BY <1>8, <1>9, <1>10 DEF ReadIsSound
<1>12. CacheOfExtracts(parsed')
  <2>1. PICK kept : kept = s.kept OBVIOUS
  <2>2. parsed' = [k \in DOMAIN parsed \union DOMAIN kept |-> IF k \in DOMAIN kept THEN kept[k] ELSE parsed[k]]
    BY <1>1, <2>1 DEF GiveBack
  <2>3. CacheOfExtracts(kept) BY <1>2, <2>1 DEF ReadIsSound, ReadShape
  <2>4. CacheOfExtracts(parsed) BY DEF BridgeIInv
  <2>5. DOMAIN parsed' = DOMAIN parsed \union DOMAIN kept BY <2>2
  <2>6. ASSUME NEW k \in DOMAIN parsed' PROVE ExtractOf(k, parsed'[k])
    <3>1. CASE k \in DOMAIN kept
      <4>1. parsed'[k] = kept[k] BY <2>2, <3>1
      <4> QED BY <2>3, <3>1, <4>1 DEF CacheOfExtracts
    <3>2. CASE k \notin DOMAIN kept
      <4>1. k \in DOMAIN parsed /\ parsed'[k] = parsed[k] BY <2>2, <2>5, <3>2
      <4> QED BY <2>4, <4>1 DEF CacheOfExtracts
    <3> QED BY <3>1, <3>2
  <2> QED BY <2>3, <2>4, <2>5, <2>6 DEF CacheOfExtracts
<1> QED BY <1>4, <1>11, <1>12, OneReader DEF GiveBack

\* A reader that answered or failed leaves.
LEMMA ReaderLeaves == ASSUME BridgeIInv, NEW r \in BridgeReaders, LeaveBridge(r) PROVE BridgeIInv'
<1>1. ReadIsSound(NotReading)
  <2>1. CacheOfExtracts(<<>>) BY DEF CacheOfExtracts
  <2>2. ReadShape(NotReading)
    <3>1. <<>> \in Seq(BridgeExtracts) OBVIOUS
    <3> QED BY <2>1, <3>1 DEF ReadShape, NotReading
  <2>3. ReadCounts(NotReading) BY BridgeAssumption DEF ReadCounts, NotReading
  <2>4. ReadOrder(NotReading) BY DEF ReadOrder, NotReading
  <2> QED BY <2>2, <2>3, <2>4 DEF ReadIsSound
<1>2. CacheOfExtracts(parsed') BY DEF LeaveBridge, BridgeIInv
<1>3. PICK t : t = NotReading OBVIOUS
<1>4. looker' = [looker EXCEPT ![r] = t] BY <1>3 DEF LeaveBridge
<1> QED BY <1>1, <1>2, <1>3, <1>4, OneReader DEF LeaveBridge

\* Every step keeps the invariant.
LEMMA BridgeStep == BridgeIInv /\ [BridgeNext]_bridgeVars => BridgeIInv'
<1> SUFFICES ASSUME BridgeIInv, [BridgeNext]_bridgeVars PROVE BridgeIInv' OBVIOUS
<1>1. CASE UNCHANGED bridgeVars
  BY <1>1 DEF bridgeVars, BridgeIInv, ReadShape, ReadCounts, ReadOrder, CacheOfExtracts, ExtractOf
<1>2. CASE \E f \in BridgeLogs : \/ WriteLog(f, "absent", "partial") \/ WriteLog(f, "partial", "whole")
                                 \/ WriteLog(f, "whole", "pruned") \/ SwapForLink(f)
  BY <1>2, LogsGoOn
<1>3. CASE \E r \in BridgeReaders : Begin(r) BY <1>3, ReadBegins
<1>4. CASE \E r \in BridgeReaders : Screen(r) BY <1>4, ReadScreens
<1>5. CASE \E r \in BridgeReaders : Parse(r) BY <1>5, ReadParses
<1>6. CASE \E r \in BridgeReaders : FinishRead(r) BY <1>6, ReadEnds
<1>7. CASE \E r \in BridgeReaders : GiveBack(r) BY <1>7, ReadGivesBack
<1>8. CASE \E r \in BridgeReaders : LeaveBridge(r) BY <1>8, ReaderLeaves
<1> QED BY <1>1, <1>2, <1>3, <1>4, <1>5, <1>6, <1>7, <1>8 DEF BridgeNext

\* The inductive invariant holds in every state, and says what the properties say.
LEMMA BridgeInvariance == BridgeSpec => []BridgeIInv
BY BridgeInitial, BridgeStep, PTL DEF BridgeSpec

\* The types of the bridge, and the accounting of what a read lists.
LEMMA BridgeIInvSays == BridgeIInv => BridgeTypeOK /\ RowsAreAccountedFor
<1> SUFFICES ASSUME BridgeIInv PROVE BridgeTypeOK /\ RowsAreAccountedFor OBVIOUS
<1>1. BridgeTypeOK BY DEF BridgeIInv, BridgeTypeOK, ReadShape, ReadCounts
<1>2. ASSUME NEW r \in BridgeReaders, NEW s, s = looker[r]
      PROVE  /\ s.skipped.scanned = Len(s.recent) + s.skipped.oversize + s.skipped.unreadable + s.skipped.invalid
             /\ s.at = "answered" => s.skipped.scanned = Cardinality(s.listed) \/ Len(s.recent) = RecentCap
             /\ \A i \in 1..Len(s.recent) :
                  /\ s.recent[i].log \in s.listed \ s.linked
                  /\ bridgeRecord[s.recent[i].log].well /\ ~bridgeRecord[s.recent[i].log].big
                  /\ s.recent[i].wait <= MaxFinite
             /\ \A i, j \in 1..Len(s.recent) : i < j => s.recent[i].log > s.recent[j].log
  <2>1. ReadCounts(s) /\ ReadOrder(s) BY <1>2 DEF BridgeIInv
  <2> QED BY <2>1 DEF ReadCounts, ReadOrder
<1>3. RowsAreAccountedFor BY <1>2 DEF RowsAreAccountedFor
<1> QED BY <1>1, <1>3

\* Whatever the logs hold and whenever they are written, pruned or replaced by links: what is shown
\* of the bridge is newest first, of logs that may be shown, and every log listed is accounted for.
THEOREM BridgeAccounts == BridgeSpec => [](BridgeTypeOK /\ RowsAreAccountedFor)
BY BridgeInvariance, BridgeIInvSays, PTL

-----------------------------------------------------------------------------
(* The pages of a transcript *)

\* What a walk has shown lies behind its cursor, and of every line that ends behind it, as each
\* of its turns, that turn or a later one was shown.
WalkShape ==
  /\ pager = [cursor |-> pager.cursor, more |-> pager.more, pages |-> pager.pages, base |-> pager.base,
              shown |-> pager.shown, again |-> pager.again]
  /\ pager.pages \in 0..MaxPages /\ pager.more \in BOOLEAN /\ pager.base \in Nat
  /\ pager.pages > 0 => pager.cursor \in Nat
  /\ pager.pages = 0 => pager.shown = {}

WalkGoesBack ==
  pager.pages > 0 =>
    /\ pager.base <= Whole
    /\ ~pager.more => pager.cursor = 0
    /\ \A p \in pager.shown : p[1] \in 1..Len(turnLines) /\ OffsetOf(p[1]) >= pager.cursor
    /\ \A i \in 1..pager.base : OffsetOf(i + 1) > pager.cursor =>
         \A k \in 1..turnLines[i].turns : \E later \in k..turnLines[i].turns : <<i, later>> \in pager.shown

LinesShape ==
  /\ turnLines \in Seq(LineKinds) /\ Len(turnLines) <= MaxTurnLines
  /\ partial \in Nat
  /\ partial > 0 => Len(turnLines) > 0 /\ partial < turnLines[Len(turnLines)].len

TranscriptIInv == LinesShape /\ WalkShape /\ WalkGoesBack /\ pager.again = {}

\* The bytes before a line, of a list of lines.
BytesBefore(lines, i) == SumFunction([j \in 1..(i - 1) |-> lines[j].len])

\* The bytes before a line and its own are those before the next.
LEMMA BytesAddUp ==
  ASSUME NEW lines \in Seq(LineKinds)
  PROVE  /\ BytesBefore(lines, 1) = 0
         /\ \A i \in 1..(Len(lines) + 1) : BytesBefore(lines, i) \in Nat
         /\ \A i \in 1..Len(lines) : BytesBefore(lines, i + 1) = BytesBefore(lines, i) + lines[i].len
<1>0. Len(lines) \in Nat /\ \A j \in 1..Len(lines) : lines[j].len \in Nat
  <2>1. \A j \in 1..Len(lines) : lines[j] \in LineKinds BY ElementOfSeq
  <2> QED BY <2>1, LenProperties, TranscriptAssumption
<1> DEFINE Before(i) == [j \in 1..(i - 1) |-> lines[j].len]
<1>1. \A i \in 1..(Len(lines) + 1) : 1..(i - 1) \subseteq 1..Len(lines) BY <1>0
<1>2. ASSUME NEW i \in 1..(Len(lines) + 1) PROVE SumFunction(Before(i)) \in Nat /\ (i = 1 => SumFunction(Before(i)) = 0)
  <2>1. PICK v : v = Before(i) OBVIOUS
  <2>2. DOMAIN v = 1..(i - 1) /\ \A x \in DOMAIN v : v[x] \in Nat BY <1>0, <1>1, <2>1
  <2>3. IsFiniteSet(DOMAIN v) BY <1>0, <2>2, FS_Interval
  <2>4. i = 1 => DOMAIN v = {} BY <2>2
  <2> QED BY <2>1, <2>2, <2>3, <2>4, SumFunctionIsNumber
<1>3. ASSUME NEW i \in 1..Len(lines) PROVE SumFunction(Before(i + 1)) = SumFunction(Before(i)) + lines[i].len
  <2>1. PICK u, v, M : u = Before(i) /\ v = Before(i + 1) /\ M = 1..(i - 1) OBVIOUS
  <2>2. i \notin M /\ M \union {i} = 1..i /\ (i + 1) - 1 = i BY <1>0, <2>1
  <2>3. IsFiniteSet(M) BY <1>0, <2>1, FS_Interval
  <2>4. DOMAIN u = M /\ DOMAIN v = M \union {i} BY <2>1, <2>2
  <2>5. \A y \in M \union {i} : v[y] = lines[y].len /\ v[y] \in Nat BY <1>0, <2>1, <2>2
  <2>6. SameOn(M, v, u) BY <2>1, <2>5 DEF SameOn
  <2>7. i \notin M /\ \A y \in M \union {i} : v[y] \in Nat BY <2>2, <2>5
  <2> HIDE DEF Before
  <2>8. SumFunction(v) = SumFunction(u) + v[i]
    <3>1. PICK x : x = i OBVIOUS
    <3>2. x \notin M BY <2>7, <3>1
    <3>3. DOMAIN v = M \union {x} BY <2>4, <3>1
    <3>5. \A y \in M \union {x} : v[y] \in Nat BY <2>7, <3>1
    <3>6. DOMAIN u = M BY <2>4
    <3>4. SumFunction(v) = SumFunction(u) + v[x] BY <2>3, <2>6, <3>2, <3>3, <3>5, <3>6, SumFunctionOfOneMore
    <3> QED BY <3>1, <3>4
  <2> QED BY <2>1, <2>5, <2>8
<1>4. \A i \in 1..(Len(lines) + 1) : BytesBefore(lines, i) = SumFunction(Before(i)) BY DEF BytesBefore
<1>5. 1 \in 1..(Len(lines) + 1) /\ \A i \in 1..Len(lines) : i \in 1..(Len(lines) + 1) /\ i + 1 \in 1..(Len(lines) + 1) BY <1>0
<1> HIDE DEF Before
<1> QED BY <1>2, <1>3, <1>4, <1>5

\* A later line has more bytes before it.
LEMMA BytesGrow ==
  ASSUME NEW lines \in Seq(LineKinds), NEW i \in 1..(Len(lines) + 1), NEW j \in 1..(Len(lines) + 1), i < j
  PROVE  BytesBefore(lines, i) < BytesBefore(lines, j)
<1>0. Len(lines) \in Nat BY LenProperties
<1> DEFINE P == {n \in Nat : i + 1 + n <= Len(lines) + 1 => BytesBefore(lines, i) < BytesBefore(lines, i + 1 + n)}
<1>1. \A k \in 1..Len(lines) : BytesBefore(lines, k) \in Nat /\ BytesBefore(lines, k) < BytesBefore(lines, k + 1)
  <2> SUFFICES ASSUME NEW k \in 1..Len(lines)
               PROVE  BytesBefore(lines, k) \in Nat /\ BytesBefore(lines, k) < BytesBefore(lines, k + 1) OBVIOUS
  <2>1. lines[k] \in LineKinds BY ElementOfSeq
  <2>2. lines[k].len \in Nat /\ lines[k].len > 0 BY <2>1, TranscriptAssumption, SMTT(60)
  <2>3. k \in 1..(Len(lines) + 1) BY <1>0
  <2>4. BytesBefore(lines, k + 1) = BytesBefore(lines, k) + lines[k].len /\ BytesBefore(lines, k) \in Nat BY <2>3, BytesAddUp
  <2> QED BY <2>2, <2>4
<1>2. 0 \in P
  <2>1. i + 1 <= Len(lines) + 1 => i \in 1..Len(lines) BY <1>0
  <2>2. i + 1 + 0 = i + 1 OBVIOUS
  <2> QED BY <1>1, <2>1, <2>2
<1>3. \A n \in Nat : n \in P => n + 1 \in P
  <2> SUFFICES ASSUME NEW n \in Nat, n \in P, i + 1 + (n + 1) <= Len(lines) + 1
               PROVE  BytesBefore(lines, i) < BytesBefore(lines, i + 1 + (n + 1)) OBVIOUS
  <2>1. PICK k : k = i + 1 + n OBVIOUS
  <2>2. k \in 1..Len(lines) /\ i + 1 + (n + 1) = k + 1 /\ k \in 1..(Len(lines) + 1) /\ k + 1 \in 1..(Len(lines) + 1) BY <1>0, <2>1
  <2>3. BytesBefore(lines, i) < BytesBefore(lines, k) BY <1>0, <2>1, <2>2
  <2>4. BytesBefore(lines, k) < BytesBefore(lines, k + 1) BY <1>1, <2>2
  <2>5. BytesBefore(lines, i) \in Nat /\ BytesBefore(lines, k) \in Nat /\ BytesBefore(lines, k + 1) \in Nat BY <2>2, BytesAddUp
  <2> QED BY <2>2, <2>3, <2>4, <2>5
<1>4. \A n \in Nat : n \in P
  <2> HIDE DEF P
  <2> QED BY <1>2, <1>3, NumbersByInduction
<1>5. j - i - 1 \in Nat /\ i + 1 + (j - i - 1) = j BY <1>0
<1>6. j - i - 1 \in P BY <1>4, <1>5
<1> QED BY <1>0, <1>5, <1>6

\* The bytes before a line do not change while lines are written behind it.
LEMMA BytesStay ==
  ASSUME NEW lines \in Seq(LineKinds), NEW k \in LineKinds, NEW i \in 1..(Len(lines) + 1)
  PROVE  BytesBefore(Append(lines, k), i) = BytesBefore(lines, i)
<1>0. Len(lines) \in Nat BY LenProperties
<1>1. PICK more : more = Append(lines, k) OBVIOUS
<1>2. \A j \in 1..(i - 1) : j \in 1..Len(lines) BY <1>0
<1>3. \A j \in 1..Len(lines) : more[j] = lines[j] BY <1>1, AppendProperties
<1>4. [j \in 1..(i - 1) |-> more[j].len] = [j \in 1..(i - 1) |-> lines[j].len] BY <1>2, <1>3
<1> QED BY <1>1, <1>4 DEF BytesBefore

\* The last line, which may be half written, and the lines before it.
LEMMA WholeLines ==
  ASSUME LinesShape
  PROVE  /\ Len(turnLines) \in Nat /\ Whole \in 0..Len(turnLines) /\ partial \in Nat
         /\ partial > 0 => Whole + 1 \in 1..Len(turnLines) /\ Whole + 1 = Len(turnLines)
         /\ partial = 0 => Whole = Len(turnLines)
         /\ \A i \in 1..Whole : i \in 1..Len(turnLines) /\ i + 1 \in 1..(Len(turnLines) + 1)
         /\ Whole + 1 \in 1..(Len(turnLines) + 1)
<1>1. Len(turnLines) \in Nat /\ partial \in Nat BY LenProperties DEF LinesShape
<1>2. partial > 0 => Len(turnLines) > 0 BY DEF LinesShape
<1>3. CASE partial > 0
  <2>1. Whole = Len(turnLines) - 1 BY <1>3 DEF Whole
  <2> QED BY <1>1, <1>2, <1>3, <2>1
<1>4. CASE ~(partial > 0)
  <2>1. Whole = Len(turnLines) BY <1>4 DEF Whole
  <2> QED BY <1>1, <1>4, <2>1
<1> QED BY <1>3, <1>4

\* What the offsets are as numbers.
LEMMA OffsetsAreBytes ==
  ASSUME LinesShape
  PROVE  /\ OffsetOf(1) = 0
         /\ \A i \in 1..(Len(turnLines) + 1) : OffsetOf(i) \in Nat
         /\ \A i, j \in 1..(Len(turnLines) + 1) : i < j => OffsetOf(i) < OffsetOf(j)
         /\ \A i \in 1..Len(turnLines) : i \in 1..(Len(turnLines) + 1) /\ i + 1 \in 1..(Len(turnLines) + 1)
                                          /\ OffsetOf(i) < OffsetOf(i + 1)
<1>1. turnLines \in Seq(LineKinds) /\ Len(turnLines) \in Nat BY LenProperties DEF LinesShape
<1>2. \A i \in 1..(Len(turnLines) + 1) : OffsetOf(i) = BytesBefore(turnLines, i) BY DEF OffsetOf, BytesBefore
<1>3. OffsetOf(1) = BytesBefore(turnLines, 1) BY DEF OffsetOf, BytesBefore
<1>4. OffsetOf(1) = 0 /\ \A i \in 1..(Len(turnLines) + 1) : OffsetOf(i) \in Nat BY <1>1, <1>2, <1>3, BytesAddUp
<1>5. \A i, j \in 1..(Len(turnLines) + 1) : i < j => OffsetOf(i) < OffsetOf(j) BY <1>1, <1>2, BytesGrow
<1>6. \A i \in 1..Len(turnLines) : i \in 1..(Len(turnLines) + 1) /\ i + 1 \in 1..(Len(turnLines) + 1) /\ i < i + 1 BY <1>1
<1> QED BY <1>4, <1>5, <1>6

\* A turn, by its line and its place in that.
TurnsThere == {p \in (1..Len(turnLines)) \X Nat : p[2] \in 1..turnLines[p[1]].turns}

\* They are finitely many.
LEMMA TurnsAreFinite == ASSUME LinesShape PROVE IsFiniteSet(TurnsThere)
<1>1. Len(turnLines) \in Nat /\ \A i \in 1..Len(turnLines) : turnLines[i].turns \in Nat
  <2>1. turnLines \in Seq(LineKinds) BY DEF LinesShape
  <2>2. \A i \in 1..Len(turnLines) : turnLines[i] \in LineKinds BY <2>1, ElementOfSeq
  <2> QED BY <2>1, <2>2, LenProperties, TranscriptAssumption
<1> DEFINE UpTo(n) == {p \in TurnsThere : p[1] <= n}
           N == {n \in Nat : IsFiniteSet(UpTo(n))}
<1>2. 0 \in N
  <2>1. UpTo(0) = {} BY <1>1 DEF TurnsThere
  <2> QED BY <2>1, FS_EmptySet
<1>3. \A n \in Nat : n \in N => n + 1 \in N
  <2> SUFFICES ASSUME NEW n \in Nat, IsFiniteSet(UpTo(n)) PROVE IsFiniteSet(UpTo(n + 1)) OBVIOUS
  <2>1. CASE n + 1 \in 1..Len(turnLines)
    <3>1. PICK t : t = turnLines[n + 1].turns OBVIOUS
    <3>2. PICK h : h = [k \in 1..t |-> <<n + 1, k>>] OBVIOUS
    <3>3. PICK Row : Row = {<<n + 1, k>> : k \in 1..t} OBVIOUS
    <3>4. h \in Surjection(1..t, Row)
      <4>1. h \in [1..t -> Row] BY <3>2, <3>3
      <4>2. \A p \in Row : \E k \in 1..t : h[k] = p BY <3>2, <3>3
      <4> QED BY <4>1, <4>2 DEF Surjection
    <3>5. t \in Nat BY <1>1, <2>1, <3>1
    <3>6. IsFiniteSet(1..t) BY <3>5, FS_Interval
    <3>7. IsFiniteSet(Row) BY <3>4, <3>6, FS_Surjection
    <3>8. UpTo(n + 1) \subseteq UpTo(n) \union Row
      <4> SUFFICES ASSUME NEW p \in UpTo(n + 1), p \notin UpTo(n) PROVE p \in Row OBVIOUS
      <4>1. p \in (1..Len(turnLines)) \X Nat /\ p[2] \in 1..turnLines[p[1]].turns /\ p[1] <= n + 1 /\ ~(p[1] <= n)
        BY DEF TurnsThere
      <4>2. PICK i, k : i = p[1] /\ k = p[2] OBVIOUS
      <4>3. p = <<i, k>> /\ i \in Nat /\ i = n + 1 /\ k \in 1..t BY <1>1, <3>1, <4>1, <4>2
      <4> QED BY <3>3, <4>3
    <3>9. IsFiniteSet(UpTo(n) \union Row) BY <3>7, FS_Union
    <3> HIDE DEF UpTo
    <3> QED BY <3>8, <3>9, FS_Subset
  <2>2. CASE n + 1 \notin 1..Len(turnLines)
    <3>1. UpTo(n + 1) \subseteq UpTo(n)
      <4> SUFFICES ASSUME NEW p \in UpTo(n + 1) PROVE p[1] <= n BY DEF TurnsThere
      <4>1. PICK i : i = p[1] OBVIOUS
      <4>2. i \in 1..Len(turnLines) /\ i <= n + 1 BY <4>1 DEF TurnsThere
      <4>3. i # n + 1 BY <2>2, <4>2
      <4> QED BY <1>1, <4>1, <4>2, <4>3
    <3> QED BY <3>1, FS_Subset
  <2> QED BY <2>1, <2>2
<1>4. \A n \in Nat : n \in N
  <2> HIDE DEF N
  <2> QED BY <1>2, <1>3, NumbersByInduction
<1>5. TurnsThere \subseteq UpTo(Len(turnLines))
  <2> SUFFICES ASSUME NEW p \in TurnsThere PROVE p[1] <= Len(turnLines) OBVIOUS
  <2> QED BY <1>1 DEF TurnsThere
<1>6. IsFiniteSet(UpTo(Len(turnLines))) BY <1>1, <1>4
<1> HIDE DEF UpTo
<1> QED BY <1>5, <1>6, FS_Subset

\* Of some turns there is an oldest one,
LEMMA OldestIsThere ==
  ASSUME LinesShape, NEW S \in SUBSET TurnsThere, S # {}
  PROVE  FirstTurn(S) \in S /\ \A q \in S : ~LaterTurn(FirstTurn(S), q)
<1>1. Len(turnLines) \in Nat BY LenProperties DEF LinesShape
<1>2. \A p \in S : p[1] \in Nat /\ p[2] \in Nat BY <1>1 DEF TurnsThere
<1> DEFINE I == {p[1] : p \in S}
<1>3. I \subseteq Nat /\ I # {} BY <1>2
<1>4. PICK i \in I : \A j \in I : ~(<<j, i>> \in OpToRel(<, Nat))
  <2> HIDE DEF I
  <2> QED BY <1>3, NatLessThanWellFounded, WFMin
<1>5. \A p \in S : ~(p[1] < i) BY <1>2, <1>3, <1>4 DEF OpToRel
<1> DEFINE K == {p[2] : p \in {q \in S : q[1] = i}}
<1>6. K \subseteq Nat /\ K # {} BY <1>2
<1>7. PICK k \in K : \A j \in K : ~(<<j, k>> \in OpToRel(<, Nat))
  <2> HIDE DEF K
  <2> QED BY <1>6, NatLessThanWellFounded, WFMin
<1>8. \A p \in S : p[1] = i => ~(p[2] < k) BY <1>2, <1>6, <1>7 DEF OpToRel
<1>9. PICK o \in S : o[1] = i /\ o[2] = k OBVIOUS
<1>10. \A q \in S : ~LaterTurn(o, q)
  <2> SUFFICES ASSUME NEW q \in S PROVE ~LaterTurn(o, q) OBVIOUS
  <2>1. ~(q[1] < i) /\ (q[1] = i => ~(q[2] < k)) BY <1>5, <1>8
  <2>2. q[1] \in Nat /\ q[2] \in Nat /\ i \in Nat /\ k \in Nat BY <1>2, <1>3, <1>6
  <2> QED BY <1>9, <2>1, <2>2 DEF LaterTurn
<1> QED BY <1>10 DEF FirstTurn

\* and a newest one, which is in the page.
LEMMA NewestIsThere ==
  ASSUME LinesShape, NEW S \in SUBSET TurnsThere, S # {}
  PROVE  LastTurns(S) # {}
<1>1. Len(turnLines) \in Nat /\ \A i \in 1..Len(turnLines) : turnLines[i].turns \in Nat
  <2>1. turnLines \in Seq(LineKinds) BY DEF LinesShape
  <2>2. \A i \in 1..Len(turnLines) : turnLines[i] \in LineKinds BY <2>1, ElementOfSeq
  <2> QED BY <2>1, <2>2, LenProperties, TranscriptAssumption
<1>2. \A p \in S : p[1] \in 1..Len(turnLines) /\ p[2] \in 1..turnLines[p[1]].turns BY DEF TurnsThere
<1> DEFINE I == {Len(turnLines) - p[1] : p \in S}
<1>3. I \subseteq Nat /\ I # {} BY <1>1, <1>2
<1>4. PICK i \in I : \A j \in I : ~(<<j, i>> \in OpToRel(<, Nat))
  <2> HIDE DEF I
  <2> QED BY <1>3, NatLessThanWellFounded, WFMin
<1>5. PICK n : n \in {p[1] : p \in S} /\ i = Len(turnLines) - n BY <1>4
<1>6. ASSUME NEW p \in S PROVE ~(p[1] > n)
  <2>1. PICK m : m = p[1] OBVIOUS
  <2>2. Len(turnLines) - m \in I BY <2>1
  <2>3. m \in 1..Len(turnLines) /\ n \in 1..Len(turnLines) BY <1>2, <1>5, <2>1
  <2>4. Len(turnLines) - m \in Nat /\ i \in Nat /\ ~(Len(turnLines) - m < i) BY <1>3, <1>4, <2>2 DEF OpToRel
  <2> QED BY <1>1, <1>5, <2>1, <2>3, <2>4
<1>7. PICK t : t = turnLines[n].turns OBVIOUS
<1>8. n \in 1..Len(turnLines) /\ t \in Nat BY <1>1, <1>2, <1>5, <1>7
<1>9. \A p \in S : p[1] = n => p[2] \in 1..t BY <1>2, <1>7
<1> DEFINE K == {t - p[2] : p \in {q \in S : q[1] = n}}
<1>10. K \subseteq Nat /\ K # {} BY <1>5, <1>8, <1>9
<1>11. PICK k \in K : \A j \in K : ~(<<j, k>> \in OpToRel(<, Nat))
  <2> HIDE DEF K
  <2> QED BY <1>10, NatLessThanWellFounded, WFMin
<1>12. PICK o \in S : o[1] = n /\ k = t - o[2] BY <1>11
<1>13. ASSUME NEW p \in S, p[1] = n PROVE ~(p[2] > o[2])
  <2>1. PICK m : m = p[2] OBVIOUS
  <2>2. t - m \in K BY <1>13, <2>1
  <2>3. m \in 1..t /\ o[2] \in 1..t BY <1>9, <1>12, <1>13, <2>1
  <2>4. t - m \in Nat /\ k \in Nat /\ ~(t - m < k) BY <1>10, <1>11, <2>2 DEF OpToRel
  <2> QED BY <1>8, <1>12, <2>1, <2>3, <2>4
<1>14. {q \in S : LaterTurn(q, o)} = {} BY <1>6, <1>12, <1>13 DEF LaterTurn
<1>15. Cardinality({q \in S : LaterTurn(q, o)}) = 0 BY <1>14, FS_EmptySet
<1>16. 0 < PageLimit BY TranscriptAssumption
<1> QED BY <1>15, <1>16 DEF LastTurns

\* With a turn the page has all newer ones.
LEMMA NewerOnesToo ==
  ASSUME LinesShape, NEW S \in SUBSET TurnsThere, NEW p \in LastTurns(S), NEW q \in S, LaterTurn(q, p)
  PROVE  q \in LastTurns(S)
<1>0. p \in S BY DEF LastTurns
<1>1. Len(turnLines) \in Nat BY LenProperties DEF LinesShape
<1>2. \A r \in S : r[1] \in Nat /\ r[2] \in Nat BY <1>1 DEF TurnsThere
<1>3. PICK A, B : A = {r \in S : LaterTurn(r, p)} /\ B = {r \in S : LaterTurn(r, q)} OBVIOUS
<1>4. B \subseteq A
  <2> SUFFICES ASSUME NEW r \in S, LaterTurn(r, q) PROVE LaterTurn(r, p) BY <1>3
  <2> QED BY <1>0, <1>2 DEF LaterTurn
<1>5. IsFiniteSet(A)
  <2>1. A \subseteq TurnsThere BY <1>3
  <2> QED BY <2>1, TurnsAreFinite, FS_Subset
<1>6. Cardinality(B) <= Cardinality(A) /\ Cardinality(A) \in Nat /\ Cardinality(B) \in Nat
  BY <1>4, <1>5, FS_Subset, FS_CardinalityType
<1>7. Cardinality(A) < PageLimit BY <1>3 DEF LastTurns
<1>8. Cardinality(B) < PageLimit
  <2>1. PICK a, b : a = Cardinality(A) /\ b = Cardinality(B) OBVIOUS
  <2>2. a \in Nat /\ b \in Nat /\ b <= a /\ a < PageLimit /\ PageLimit \in Nat BY <1>6, <1>7, <2>1, TranscriptAssumption
  <2> QED BY <2>1, <2>2
<1> QED BY <1>3, <1>8 DEF LastTurns

\* What a page tells: its turns are of lines the window holds, from where the page begins on; of
\* every whole line that ends in it behind its beginning, as each of its turns, it has that turn or
\* a later one.
PageIsOfTheWindow(end, got) ==
  /\ got = [turns |-> got.turns, cursor |-> got.cursor, more |-> got.more]
  /\ got.cursor \in Nat /\ got.cursor <= end /\ got.more \in BOOLEAN /\ (~got.more => got.cursor = 0)
  /\ \A p \in got.turns : p[1] \in EndedLines(end) /\ OffsetOf(p[1]) >= got.cursor
  /\ \A i \in 1..Whole : OffsetOf(i + 1) > got.cursor /\ OffsetOf(i + 1) <= end =>
       \A k \in 1..turnLines[i].turns : \E later \in k..turnLines[i].turns : <<i, later>> \in got.turns

\* The lines a window holds are lines there are.
LEMMA EndedAreThere ==
  ASSUME LinesShape, NEW end \in Nat, NEW i \in EndedLines(end)
  PROVE  /\ i \in 1..Len(turnLines)
         /\ OffsetOf(i) \in Nat /\ OffsetOf(i) < end
<1>1. CASE i \in 1..Whole /\ OffsetOf(i + 1) <= end
  <2>1. i \in 1..Len(turnLines) BY <1>1, WholeLines
  <2>2. i \in 1..(Len(turnLines) + 1) /\ i + 1 \in 1..(Len(turnLines) + 1) /\ OffsetOf(i) < OffsetOf(i + 1) BY <2>1, OffsetsAreBytes
  <2>3. OffsetOf(i) \in Nat /\ OffsetOf(i + 1) \in Nat BY <2>2, OffsetsAreBytes
  <2> QED BY <1>1, <2>1, <2>2, <2>3
<1>2. CASE i = Whole + 1 /\ partial > 0 /\ Size <= end
  <2>1. i \in 1..Len(turnLines) /\ partial \in Nat BY <1>2, WholeLines
  <2>2. i \in 1..(Len(turnLines) + 1) BY <2>1, OffsetsAreBytes
  <2>3. OffsetOf(i) \in Nat BY <2>2, OffsetsAreBytes
  <2>4. OffsetOf(i) + partial <= end BY <1>2 DEF Size
  <2> QED BY <1>2, <2>1, <2>3, <2>4
<1> QED BY <1>1, <1>2 DEF EndedLines

\* The turns of the window are turns there are.
LEMMA TurnsAreThere ==
  ASSUME LinesShape, NEW end \in Nat, NEW from \in Nat
  PROVE  /\ Turns(from, end) \in SUBSET TurnsThere
         /\ \A p \in Turns(from, end) : p[1] \in EndedLines(end) /\ OffsetOf(p[1]) >= from
         /\ \A i \in EndedLines(end) : OffsetOf(i) >= from => \A k \in 1..turnLines[i].turns : <<i, k>> \in Turns(from, end)
<1>1. ASSUME NEW p \in Turns(from, end)
      PROVE  p \in TurnsThere /\ p[1] \in EndedLines(end) /\ OffsetOf(p[1]) >= from
  <2>1. PICK i \in EndedLines(end) : OffsetOf(i) >= from /\ p \in {<<i, k>> : k \in 1..turnLines[i].turns} BY DEF Turns
  <2>2. PICK k \in 1..turnLines[i].turns : p = <<i, k>> BY <2>1
  <2>3. i \in 1..Len(turnLines) BY EndedAreThere
  <2>4. turnLines[i].turns \in Nat
    <3>1. turnLines \in Seq(LineKinds) BY DEF LinesShape
    <3>2. turnLines[i] \in LineKinds BY <2>3, <3>1, ElementOfSeq
    <3> QED BY <3>2, TranscriptAssumption
  <2>5. k \in Nat BY <2>4
  <2> QED BY <2>1, <2>2, <2>3, <2>5 DEF TurnsThere
<1>2. ASSUME NEW i \in EndedLines(end), OffsetOf(i) >= from, NEW k \in 1..turnLines[i].turns PROVE <<i, k>> \in Turns(from, end)
  BY <1>2 DEF Turns
<1> QED BY <1>1, <1>2

\* The first whole line that breaks in the window, where the page begins.
LEMMA FirstBreak ==
  ASSUME LinesShape, NEW end \in Nat, NEW start \in Nat, start # 0, start # end, Breaks(start, end) # {}
  PROVE  \E f \in 1..Whole :
           /\ FirstOffset(start, end) = OffsetOf(f + 1) /\ OffsetOf(f + 1) <= end
           /\ f + 1 \in 1..(Len(turnLines) + 1)
<1>0. Whole \in Nat BY WholeLines
<1> DEFINE B == Breaks(start, end)
<1>1. B \subseteq Nat BY <1>0 DEF Breaks
<1>2. PICK n \in B : \A j \in B : ~(<<j, n>> \in OpToRel(<, Nat))
  <2> HIDE DEF B
  <2>1. B # {} BY DEF B
  <2> QED BY <1>1, <2>1, NatLessThanWellFounded, WFMin
<1>3. \A j \in B : n <= j
  <2> SUFFICES ASSUME NEW j \in B PROVE n <= j OBVIOUS
  <2>1. j \in Nat /\ n \in Nat BY <1>1
  <2>2. ~(j < n) BY <1>2, <2>1 DEF OpToRel
  <2> QED BY <2>1, <2>2
<1>4. PICK f : f = CHOOSE i \in B : \A j \in B : i <= j OBVIOUS
<1>5. f \in B BY <1>3, <1>4
<1>6. FirstOffset(start, end) = OffsetOf(1 + f) BY <1>4 DEF FirstOffset
<1>7. f \in 1..Whole /\ OffsetOf(f + 1) - 1 \in start..(end - 1) BY <1>5 DEF Breaks
<1>8. f + 1 \in 1..(Len(turnLines) + 1) BY <1>7, WholeLines
<1>9. OffsetOf(f + 1) \in Nat BY <1>8, OffsetsAreBytes
<1>10. OffsetOf(f + 1) <= end BY <1>7, <1>9
<1>11. 1 + f = f + 1 BY <1>0, <1>7
<1> QED BY <1>6, <1>7, <1>8, <1>10, <1>11

\* Where the lines of a window begin, which is at its first break or at the beginning, a page of
\* them begins or later: it tells what it should.
LEMMA PageOfLines ==
  ASSUME LinesShape, NEW end \in Nat, NEW from \in Nat, from <= end, NEW first \in 1..(Whole + 1), from = OffsetOf(first),
         NEW page, page = LastTurns(Turns(from, end)), NEW cursor, cursor = NextCursor(page, from)
  PROVE  PageIsOfTheWindow(end, [turns |-> page, cursor |-> cursor, more |-> cursor > 0])
<1>0. Len(turnLines) \in Nat /\ Whole \in Nat /\ Whole <= Len(turnLines) BY WholeLines
<1>1. PICK parts : parts = Turns(from, end) OBVIOUS
<1>2. /\ parts \in SUBSET TurnsThere /\ \A p \in parts : p[1] \in EndedLines(end) /\ OffsetOf(p[1]) >= from
      /\ \A i \in EndedLines(end) : OffsetOf(i) >= from => \A k \in 1..turnLines[i].turns : <<i, k>> \in parts
  BY <1>1, TurnsAreThere
<1>3. page \subseteq parts BY <1>1 DEF LastTurns
<1>4. \A i \in EndedLines(end) : i \in 1..Len(turnLines) /\ OffsetOf(i) \in Nat /\ OffsetOf(i) < end BY EndedAreThere
<1>5. first \in 1..(Len(turnLines) + 1) BY <1>0
<1>6. ASSUME NEW i \in 1..Whole, OffsetOf(i + 1) <= end
      PROVE  i \in EndedLines(end) /\ i \in 1..(Len(turnLines) + 1) /\ i + 1 \in 1..(Len(turnLines) + 1)
             /\ OffsetOf(i) \in Nat /\ OffsetOf(i + 1) \in Nat /\ turnLines[i].turns \in Nat
  <2>1. i \in EndedLines(end) BY <1>6 DEF EndedLines
  <2>2. i \in 1..Len(turnLines) BY <1>0
  <2>3. i \in 1..(Len(turnLines) + 1) /\ i + 1 \in 1..(Len(turnLines) + 1) BY <2>2, OffsetsAreBytes
  <2>4. turnLines[i].turns \in Nat
    <3>1. turnLines \in Seq(LineKinds) BY DEF LinesShape
    <3>2. turnLines[i] \in LineKinds BY <2>2, <3>1, ElementOfSeq
    <3> QED BY <3>2, TranscriptAssumption
  <2> QED BY <2>1, <2>3, <2>4, OffsetsAreBytes
<1>7. \A i, j \in 1..(Len(turnLines) + 1) : OffsetOf(i) > OffsetOf(j) => i > j
  <2> SUFFICES ASSUME NEW i \in 1..(Len(turnLines) + 1), NEW j \in 1..(Len(turnLines) + 1), OffsetOf(i) > OffsetOf(j), ~(i > j)
               PROVE  FALSE OBVIOUS
  <2>1. OffsetOf(i) \in Nat /\ OffsetOf(j) \in Nat BY OffsetsAreBytes
  <2>2. CASE i = j BY <2>1, <2>2
  <2>3. CASE i < j
    <3>1. OffsetOf(i) < OffsetOf(j) BY <2>3, OffsetsAreBytes
    <3> QED BY <2>1, <3>1
  <2> QED BY <1>0, <2>2, <2>3
<1>8. \A i, j \in 1..(Len(turnLines) + 1) : i >= j => OffsetOf(i) >= OffsetOf(j)
  <2> SUFFICES ASSUME NEW i \in 1..(Len(turnLines) + 1), NEW j \in 1..(Len(turnLines) + 1), i >= j
               PROVE  OffsetOf(i) >= OffsetOf(j) OBVIOUS
  <2>1. OffsetOf(i) \in Nat /\ OffsetOf(j) \in Nat BY OffsetsAreBytes
  <2>2. CASE i = j BY <2>1, <2>2
  <2>3. CASE j < i
    <3>1. OffsetOf(j) < OffsetOf(i) BY <2>3, OffsetsAreBytes
    <3> QED BY <2>1, <3>1
  <2> QED BY <1>0, <2>2, <2>3
<1> DEFINE Told(c) == \A i \in 1..Whole : OffsetOf(i + 1) > c /\ OffsetOf(i + 1) <= end =>
       \A k \in 1..turnLines[i].turns : \E later \in k..turnLines[i].turns : <<i, later>> \in page
<1>9. CASE page = {}
  <2>1. cursor = from BY <1>9 DEF NextCursor
  <2>2. parts = {} BY <1>1, <1>2, <1>9, NewestIsThere
  <2>3. Told(cursor)
    <3> SUFFICES ASSUME NEW i \in 1..Whole, OffsetOf(i + 1) > cursor, OffsetOf(i + 1) <= end, NEW k \in 1..turnLines[i].turns
                 PROVE  FALSE OBVIOUS
    <3>1. i \in EndedLines(end) /\ i \in 1..(Len(turnLines) + 1) /\ i + 1 \in 1..(Len(turnLines) + 1) BY <1>6
    <3>2. i + 1 > first BY <1>5, <1>7, <2>1, <3>1
    <3>3. OffsetOf(i) >= from BY <1>5, <1>8, <3>1, <3>2
    <3>4. <<i, k>> \in parts BY <1>2, <3>1, <3>3
    <3> QED BY <2>2, <3>4
  <2>4. \A p \in page : p[1] \in EndedLines(end) /\ OffsetOf(p[1]) >= cursor BY <1>9
  <2>5. cursor \in Nat /\ cursor <= end /\ (~(cursor > 0) => cursor = 0) BY <2>1
  <2> HIDE DEF Told
  <2>6. PICK got : got = [turns |-> page, cursor |-> cursor, more |-> cursor > 0] OBVIOUS
  <2>7. got.turns = page /\ got.cursor = cursor /\ got.more = (cursor > 0) BY <2>6
  <2>8. got = [turns |-> got.turns, cursor |-> got.cursor, more |-> got.more] BY <2>6
  <2>9. got.more \in BOOLEAN BY <2>5, <2>7
  <2>10. \A i \in 1..Whole : OffsetOf(i + 1) > got.cursor /\ OffsetOf(i + 1) <= end =>
          \A k \in 1..turnLines[i].turns : \E later \in k..turnLines[i].turns : <<i, later>> \in got.turns
    BY <2>3, <2>7 DEF Told
  <2> QED BY <2>4, <2>5, <2>6, <2>7, <2>8, <2>9, <2>10 DEF PageIsOfTheWindow
<1>10. CASE page # {}
  <2>1. PICK o : o = FirstTurn(page) OBVIOUS
  <2>2. page \in SUBSET TurnsThere BY <1>2, <1>3
  <2>3. o \in page /\ \A q \in page : ~LaterTurn(o, q) BY <1>10, <2>1, <2>2, OldestIsThere
  <2>4. PICK m, n : m = o[1] /\ n = o[2] OBVIOUS
  <2>5. cursor = OffsetOf(m) BY <1>10, <2>1, <2>4 DEF NextCursor
  <2>6. m \in EndedLines(end) /\ OffsetOf(m) >= from BY <1>2, <1>3, <2>3, <2>4
  <2>7. m \in 1..Len(turnLines) /\ OffsetOf(m) \in Nat /\ OffsetOf(m) < end BY <1>4, <2>6
  <2>8. m \in 1..(Len(turnLines) + 1) BY <2>7, OffsetsAreBytes
  <2>9. \A p \in page : p[1] \in EndedLines(end) /\ p[1] \in 1..Len(turnLines) /\ p[2] \in Nat
    BY <1>2, <1>3, <1>4, <2>2 DEF TurnsThere
  <2>10. n \in Nat BY <2>3, <2>4, <2>9
  <2>11. ASSUME NEW p \in page PROVE p[1] \in EndedLines(end) /\ OffsetOf(p[1]) >= cursor
    <3>1. PICK i : i = p[1] OBVIOUS
    <3>2. i \in 1..Len(turnLines) BY <2>9, <3>1
    <3>3. ~(m > i) BY <2>3, <2>4, <3>1 DEF LaterTurn
    <3>4. i \in 1..(Len(turnLines) + 1) /\ i >= m BY <1>0, <2>8, <3>2, <3>3
    <3> QED BY <1>8, <2>5, <2>8, <2>9, <3>1, <3>4
  <2>12. Told(cursor)
    <3> SUFFICES ASSUME NEW i \in 1..Whole, OffsetOf(i + 1) > cursor, OffsetOf(i + 1) <= end, NEW k \in 1..turnLines[i].turns
                 PROVE  \E later \in k..turnLines[i].turns : <<i, later>> \in page OBVIOUS
    <3>1. i \in EndedLines(end) /\ i \in 1..(Len(turnLines) + 1) /\ i + 1 \in 1..(Len(turnLines) + 1) /\ turnLines[i].turns \in Nat
      BY <1>6
    <3>2. i + 1 > m BY <1>7, <2>5, <2>8, <3>1
    <3>3. i >= m BY <1>0, <2>8, <3>1, <3>2
    <3>4. OffsetOf(i) >= OffsetOf(m) BY <1>8, <2>8, <3>1, <3>3
    <3>5. OffsetOf(i) >= from
      <4>1. OffsetOf(i) \in Nat BY <1>4, <3>1
      <4> QED BY <2>6, <2>7, <3>4, <4>1
    <3>6. <<i, k>> \in parts BY <1>2, <3>1, <3>5
    <3>7. PICK t : t = turnLines[i].turns OBVIOUS
    <3>8. t \in Nat /\ k \in 1..t BY <3>1, <3>7
    <3>9. CASE i > m \/ k > n
      <4>1. LaterTurn(<<i, k>>, o) BY <1>0, <2>4, <2>8, <3>1, <3>3, <3>9 DEF LaterTurn
      <4>2. <<i, k>> \in page BY <1>1, <1>2, <2>3, <3>6, <4>1, NewerOnesToo
      <4>3. k \in k..t BY <3>8
      <4> QED BY <3>7, <4>2, <4>3
    <3>10. CASE ~(i > m \/ k > n)
      <4>1. i = m /\ k <= n BY <1>0, <2>8, <2>10, <3>1, <3>3, <3>8, <3>10
      <4>2. o \in TurnsThere /\ o = <<m, n>> BY <2>2, <2>3, <2>4 DEF TurnsThere
      <4>3. n \in 1..t BY <3>7, <4>1, <4>2 DEF TurnsThere
      <4>4. n \in k..t BY <3>8, <4>1, <4>3
      <4> QED BY <2>3, <3>7, <4>1, <4>2, <4>4
    <3> QED BY <3>9, <3>10
  <2>13. cursor \in Nat /\ cursor <= end /\ (~(cursor > 0) => cursor = 0) BY <2>5, <2>7
  <2> HIDE DEF Told
  <2>14. PICK got : got = [turns |-> page, cursor |-> cursor, more |-> cursor > 0] OBVIOUS
  <2>15. got.turns = page /\ got.cursor = cursor /\ got.more = (cursor > 0) BY <2>14
  <2>16. got = [turns |-> got.turns, cursor |-> got.cursor, more |-> got.more] BY <2>14
  <2>17. got.more \in BOOLEAN BY <2>13, <2>15
  <2>18. \A i \in 1..Whole : OffsetOf(i + 1) > got.cursor /\ OffsetOf(i + 1) <= end =>
          \A k \in 1..turnLines[i].turns : \E later \in k..turnLines[i].turns : <<i, later>> \in got.turns
    BY <2>12, <2>15 DEF Told
  <2> QED BY <2>11, <2>13, <2>14, <2>15, <2>16, <2>17, <2>18 DEF PageIsOfTheWindow
<1> QED BY <1>9, <1>10

\* So does every page.
LEMMA PageTellsWhatItShould ==
  ASSUME LinesShape, NEW end \in Nat
  PROVE  PageIsOfTheWindow(end, Page(end))
<1>0. ScanWindow \in Nat /\ ScanWindow > 0 BY TranscriptAssumption
<1>1. PICK start : start = IF end > ScanWindow THEN end - ScanWindow ELSE 0 OBVIOUS
<1>2. start \in Nat /\ start <= end /\ (start > 0 => start # end) BY <1>0, <1>1
<1>3. PICK from : from = FirstOffset(start, end) OBVIOUS
<1>4. PICK page : page = LastTurns(Turns(from, end)) OBVIOUS
<1>5. Page(end) = IF start > 0 /\ Breaks(start, end) = {}
                  THEN [turns |-> {}, cursor |-> start, more |-> TRUE]
                  ELSE [turns |-> page, cursor |-> NextCursor(page, from), more |-> NextCursor(page, from) > 0]
  BY <1>1, <1>3, <1>4 DEF Page
<1>6. CASE start > 0 /\ Breaks(start, end) = {}
  <2>1. PICK got : got = [turns |-> {}, cursor |-> start, more |-> TRUE] OBVIOUS
  <2>2. got.turns = {} /\ got.cursor = start /\ got.more = TRUE BY <2>1
  <2>3. ASSUME NEW i \in 1..Whole, OffsetOf(i + 1) > start, OffsetOf(i + 1) <= end PROVE FALSE
    <3>1. i + 1 \in 1..(Len(turnLines) + 1) BY WholeLines
    <3>2. OffsetOf(i + 1) \in Nat BY <3>1, OffsetsAreBytes
    <3>3. OffsetOf(i + 1) - 1 \in start..(end - 1) BY <1>2, <2>3, <3>2
    <3> QED BY <1>6, <3>3 DEF Breaks
  <2>4. PageIsOfTheWindow(end, got)
    <3>1. got = [turns |-> got.turns, cursor |-> got.cursor, more |-> got.more] BY <2>1
    <3>2. ~got.more => got.cursor = 0 BY <2>2
    <3> QED BY <1>2, <2>2, <2>3, <3>1, <3>2 DEF PageIsOfTheWindow
  <2> QED BY <1>5, <1>6, <2>1, <2>4
<1>7. CASE ~(start > 0 /\ Breaks(start, end) = {})
  <2>1. PICK cursor : cursor = NextCursor(page, from) OBVIOUS
  <2>2. Page(end) = [turns |-> page, cursor |-> cursor, more |-> cursor > 0] BY <1>5, <1>7, <2>1
  <2>3. \E first \in 1..(Whole + 1) : from = OffsetOf(first) /\ from \in Nat /\ from <= end
    <3>1. CASE start = 0
      <4>1. from = 0 BY <1>3, <3>1 DEF FirstOffset
      <4>2. OffsetOf(1) = 0 /\ 1 \in 1..(Whole + 1) BY OffsetsAreBytes, WholeLines
      <4> QED BY <4>1, <4>2
    <3>2. CASE start # 0
      <4>1. start # end /\ Breaks(start, end) # {} BY <1>2, <1>7, <3>2
      <4>2. PICK f \in 1..Whole : from = OffsetOf(f + 1) /\ OffsetOf(f + 1) <= end /\ f + 1 \in 1..(Len(turnLines) + 1)
        BY <1>2, <1>3, <3>2, <4>1, FirstBreak
      <4>3. OffsetOf(f + 1) \in Nat BY <4>2, OffsetsAreBytes
      <4>4. f + 1 \in 1..(Whole + 1) BY WholeLines
      <4> QED BY <4>2, <4>3, <4>4
    <3> QED BY <3>1, <3>2
  <2>4. PICK first \in 1..(Whole + 1) : from = OffsetOf(first) /\ from \in Nat /\ from <= end BY <2>3
  <2> QED BY <1>4, <2>1, <2>2, <2>4, PageOfLines
<1> QED BY <1>6, <1>7

\* While lines are written, what a walk has shown stays as it was.
LEMMA WalkStays ==
  ASSUME TranscriptIInv, LinesShape', pager' = pager, Whole <= Whole', Len(turnLines) <= Len(turnLines)',
         \A i \in 1..Len(turnLines) : turnLines'[i] = turnLines[i],
         \A i \in 1..(Len(turnLines) + 1) : BytesBefore(turnLines', i) = BytesBefore(turnLines, i)
  PROVE  TranscriptIInv'
<1>0. LinesShape /\ WalkShape /\ WalkGoesBack /\ pager.again = {} BY DEF TranscriptIInv
<1>1. Len(turnLines) \in Nat /\ Whole \in Nat /\ Whole <= Len(turnLines) BY <1>0, WholeLines
<1>2. Len(turnLines') \in Nat /\ Whole' \in Nat
  <2>1. turnLines' \in Seq(LineKinds) BY DEF LinesShape
  <2>2. Len(turnLines') \in Nat BY <2>1, LenProperties
  <2>3. partial' > 0 => Len(turnLines') > 0 BY DEF LinesShape
  <2> QED BY <2>2, <2>3 DEF Whole
<1>3. \A i : OffsetOf(i) = BytesBefore(turnLines, i) BY DEF OffsetOf, BytesBefore
<1>4. \A i : OffsetOf(i)' = BytesBefore(turnLines', i) BY DEF OffsetOf, BytesBefore
<1>5. \A i \in 1..(Len(turnLines) + 1) : OffsetOf(i)' = OffsetOf(i) BY <1>3, <1>4
<1>6. WalkShape' BY <1>0 DEF WalkShape
<1>7. WalkGoesBack'
  <2> SUFFICES ASSUME pager.pages > 0 PROVE WalkGoesBack' BY DEF WalkGoesBack
  <2>1. pager.base \in Nat BY <1>0 DEF WalkShape
  <2>2. pager.base <= Whole BY <1>0 DEF WalkGoesBack
  <2>3. pager.base <= Whole' BY <1>1, <1>2, <2>1, <2>2
  <2>4. ASSUME NEW p \in pager.shown PROVE p[1] \in 1..Len(turnLines') /\ OffsetOf(p[1])' >= pager.cursor
    <3>1. p[1] \in 1..Len(turnLines) /\ OffsetOf(p[1]) >= pager.cursor BY <1>0 DEF WalkGoesBack
    <3>2. p[1] \in 1..Len(turnLines') BY <1>1, <1>2, <3>1
    <3>3. p[1] \in 1..(Len(turnLines) + 1) BY <1>1, <3>1
    <3> QED BY <1>5, <3>1, <3>2, <3>3
  <2>5. ASSUME NEW i \in 1..pager.base, OffsetOf(i + 1)' > pager.cursor, NEW k \in 1..turnLines'[i].turns
        PROVE  \E later \in k..turnLines'[i].turns : <<i, later>> \in pager.shown
    <3>1. i \in 1..Len(turnLines) /\ i + 1 \in 1..(Len(turnLines) + 1) BY <1>1, <2>1, <2>2
    <3>2. turnLines'[i] = turnLines[i] /\ OffsetOf(i + 1) > pager.cursor BY <1>5, <2>5, <3>1
    <3> QED BY <1>0, <3>2 DEF WalkGoesBack
  <2>6. ~pager.more => pager.cursor = 0 BY <1>0 DEF WalkGoesBack
  <2> QED BY <2>3, <2>4, <2>5, <2>6 DEF WalkGoesBack
<1> QED BY <1>0, <1>6, <1>7 DEF TranscriptIInv

\* The session writes a line, whole or in part.
LEMMA LineIsWritten ==
  ASSUME TranscriptIInv, NEW k \in LineKinds, NEW bytes \in Nat, bytes < k.len, partial = 0, Len(turnLines) < MaxTurnLines,
         turnLines' = Append(turnLines, k), partial' = bytes, pager' = pager
  PROVE  TranscriptIInv'
<1>0. LinesShape BY DEF TranscriptIInv
<1>1. turnLines \in Seq(LineKinds) /\ Len(turnLines) \in Nat /\ MaxTurnLines \in Nat
  BY <1>0, LenProperties, TranscriptAssumption DEF LinesShape
<1>2. /\ turnLines' \in Seq(LineKinds) /\ Len(turnLines') = Len(turnLines) + 1
      /\ \A i \in 1..Len(turnLines) : turnLines'[i] = turnLines[i]
      /\ turnLines'[Len(turnLines) + 1] = k
  BY <1>1, AppendProperties
<1>3. \A i \in 1..(Len(turnLines) + 1) : BytesBefore(turnLines', i) = BytesBefore(turnLines, i) BY <1>1, BytesStay
<1>4. LinesShape' BY <1>1, <1>2 DEF LinesShape
<1>5. Whole <= Whole' /\ Len(turnLines) <= Len(turnLines') BY <1>1, <1>2 DEF Whole
<1> QED BY <1>2, <1>3, <1>4, <1>5, WalkStays

\* It ends the line it was writing.
LEMMA LineIsEnded == ASSUME TranscriptIInv, EndLine PROVE TranscriptIInv'
<1>0. LinesShape BY DEF TranscriptIInv
<1>1. turnLines' = turnLines /\ partial' = 0 /\ pager' = pager /\ partial > 0 BY DEF EndLine
<1>2. Len(turnLines) \in Nat BY <1>0, LenProperties DEF LinesShape
<1>3. LinesShape' BY <1>0, <1>1 DEF LinesShape
<1>4. Whole <= Whole' /\ Len(turnLines) <= Len(turnLines') BY <1>1, <1>2 DEF Whole
<1> QED BY <1>1, <1>3, <1>4, WalkStays

\* A page is read: at the end of the transcript, or where the one before it begins.
LEMMA PageIsRead ==
  ASSUME TranscriptIInv, NEW end \in Nat, NEW base \in Nat, base <= Whole, ReadPage(end, base), pager.pages < MaxPages,
         pager.pages = 0 => \A i \in 1..base : OffsetOf(i + 1) <= end,
         pager.pages > 0 => end = pager.cursor /\ base = pager.base
  PROVE  TranscriptIInv'
<1>0. LinesShape /\ WalkShape /\ WalkGoesBack /\ pager.again = {} BY DEF TranscriptIInv
<1>1. turnLines' = turnLines /\ partial' = partial BY DEF ReadPage
<1>2. PICK got : got = Page(end) OBVIOUS
<1>3. PageIsOfTheWindow(end, got) BY <1>0, <1>2, PageTellsWhatItShould
<1>4. pager' = [cursor |-> got.cursor, more |-> got.more, pages |-> pager.pages + 1, base |-> base,
                shown |-> pager.shown \union got.turns, again |-> pager.again \union (pager.shown \cap got.turns)]
  BY <1>2 DEF ReadPage
<1>5. /\ pager'.cursor = got.cursor /\ pager'.more = got.more /\ pager'.pages = pager.pages + 1 /\ pager'.base = base
      /\ pager'.shown = pager.shown \union got.turns /\ pager'.again = pager.again \union (pager.shown \cap got.turns)
  BY <1>4
<1>6. pager.pages \in 0..MaxPages /\ MaxPages \in Nat BY <1>0, TranscriptAssumption DEF WalkShape
<1>7. got.cursor \in Nat /\ got.cursor <= end /\ got.more \in BOOLEAN /\ (~got.more => got.cursor = 0)
  BY <1>3 DEF PageIsOfTheWindow
<1>8. Len(turnLines) \in Nat /\ Whole \in Nat /\ Whole <= Len(turnLines) BY <1>0, WholeLines
<1>9. LinesShape' BY <1>0, <1>1 DEF LinesShape
<1>10. WalkShape'
  <2>1. pager' = [cursor |-> pager'.cursor, more |-> pager'.more, pages |-> pager'.pages, base |-> pager'.base,
                  shown |-> pager'.shown, again |-> pager'.again]
    BY <1>4
  <2>2. pager'.pages \in 0..MaxPages /\ pager'.pages # 0 BY <1>5, <1>6
  <2> QED BY <1>5, <1>7, <2>1, <2>2 DEF WalkShape
<1>11. ASSUME NEW p \in got.turns
       PROVE  p[1] \in 1..Len(turnLines) /\ OffsetOf(p[1]) >= got.cursor /\ OffsetOf(p[1]) < end /\ OffsetOf(p[1]) \in Nat
  <2>1. p[1] \in EndedLines(end) /\ OffsetOf(p[1]) >= got.cursor BY <1>3 DEF PageIsOfTheWindow
  <2> QED BY <1>0, <2>1, EndedAreThere
<1>12. ASSUME NEW p \in pager.shown
       PROVE  p[1] \in 1..Len(turnLines) /\ OffsetOf(p[1]) >= end /\ OffsetOf(p[1]) \in Nat
  <2>1. pager.pages > 0 BY <1>0, <1>6 DEF WalkShape
  <2>2. p[1] \in 1..Len(turnLines) /\ OffsetOf(p[1]) >= pager.cursor BY <1>0, <2>1 DEF WalkGoesBack
  <2>3. OffsetOf(p[1]) \in Nat BY <1>0, <2>2, OffsetsAreBytes
  <2> QED BY <2>1, <2>2, <2>3
<1>13. pager'.again = {}
  <2>1. pager.shown \cap got.turns = {}
    <3> SUFFICES ASSUME NEW p \in pager.shown, p \in got.turns PROVE FALSE OBVIOUS
    <3>1. OffsetOf(p[1]) >= end /\ OffsetOf(p[1]) < end /\ OffsetOf(p[1]) \in Nat BY <1>11, <1>12
    <3> QED BY <3>1
  <2> QED BY <1>0, <1>5, <2>1
<1>14. \A i : OffsetOf(i)' = OffsetOf(i) BY <1>1 DEF OffsetOf
<1>15. Whole' = Whole BY <1>1 DEF Whole
<1>16. ASSUME NEW p \in pager'.shown PROVE p[1] \in 1..Len(turnLines) /\ OffsetOf(p[1]) >= got.cursor
  <2>1. CASE p \in pager.shown
    <3>1. p[1] \in 1..Len(turnLines) /\ OffsetOf(p[1]) >= end /\ OffsetOf(p[1]) \in Nat BY <1>12, <2>1
    <3> QED BY <1>7, <3>1
  <2>2. CASE p \in got.turns BY <1>11, <2>2
  <2> QED BY <1>5, <2>1, <2>2
<1>17. ASSUME NEW i \in 1..base, OffsetOf(i + 1) > got.cursor, NEW k \in 1..turnLines[i].turns
       PROVE  \E later \in k..turnLines[i].turns : <<i, later>> \in pager'.shown
  <2>1. i \in 1..Whole /\ i + 1 \in 1..(Len(turnLines) + 1) BY <1>8
  <2>2. OffsetOf(i + 1) \in Nat BY <1>0, <2>1, OffsetsAreBytes
  <2>3. CASE OffsetOf(i + 1) <= end
    <3>1. \E later \in k..turnLines[i].turns : <<i, later>> \in got.turns BY <1>3, <1>17, <2>1, <2>3 DEF PageIsOfTheWindow
    <3> QED BY <1>5, <3>1
  <2>4. CASE ~(OffsetOf(i + 1) <= end)
    <3>1. pager.pages # 0 BY <2>4
    <3>2. pager.pages > 0 BY <1>6, <3>1
    <3>3. OffsetOf(i + 1) > pager.cursor /\ i \in 1..pager.base BY <2>2, <2>4, <3>2
    <3>4. \E later \in k..turnLines[i].turns : <<i, later>> \in pager.shown BY <1>0, <3>2, <3>3 DEF WalkGoesBack
    <3> QED BY <1>5, <3>4
  <2> QED BY <2>3, <2>4
<1>18. WalkGoesBack'
  <2>1. (pager.base)' <= Whole' BY <1>5, <1>15
  <2>2. \A p \in pager'.shown : p[1] \in 1..Len(turnLines)' /\ OffsetOf(p[1])' >= pager'.cursor BY <1>1, <1>5, <1>14, <1>16
  <2>3. \A i \in 1..pager'.base : OffsetOf(i + 1)' > pager'.cursor =>
          \A k \in 1..turnLines'[i].turns : \E later \in k..turnLines'[i].turns : <<i, later>> \in pager'.shown
    BY <1>1, <1>5, <1>14, <1>17
  <2>4. ~pager'.more => pager'.cursor = 0 BY <1>5, <1>7
  <2> QED BY <2>1, <2>2, <2>3, <2>4 DEF WalkGoesBack
<1> QED BY <1>9, <1>10, <1>13, <1>18 DEF TranscriptIInv

\* A walk begins at the end of what is written,
LEMMA WalkBegins == ASSUME TranscriptIInv, Open PROVE TranscriptIInv'
<1>0. LinesShape /\ WalkShape BY DEF TranscriptIInv
<1>1. Whole \in Nat /\ partial \in Nat /\ Whole + 1 \in 1..(Len(turnLines) + 1) BY <1>0, WholeLines
<1>2. OffsetOf(Whole + 1) \in Nat BY <1>0, <1>1, OffsetsAreBytes
<1>3. Size \in Nat /\ Size >= OffsetOf(Whole + 1) BY <1>1, <1>2 DEF Size
<1>4. ASSUME NEW i \in 1..Whole PROVE OffsetOf(i + 1) <= Size
  <2>1. i + 1 \in 1..(Len(turnLines) + 1) /\ i + 1 <= Whole + 1 BY <1>0, <1>1, WholeLines
  <2>2. OffsetOf(i + 1) \in Nat BY <1>0, <2>1, OffsetsAreBytes
  <2>3. CASE i + 1 = Whole + 1 BY <1>2, <1>3, <2>2, <2>3
  <2>4. CASE i + 1 < Whole + 1
    <3>1. OffsetOf(i + 1) < OffsetOf(Whole + 1) BY <1>0, <1>1, <2>1, <2>4, OffsetsAreBytes
    <3> QED BY <1>2, <1>3, <2>2, <3>1
  <2> QED BY <1>1, <2>1, <2>3, <2>4
<1>5. pager.pages = 0 /\ pager.pages < MaxPages BY TranscriptAssumption DEF Open
<1>6. ReadPage(Size, Whole) /\ Whole <= Whole BY <1>1 DEF Open
<1> QED BY <1>1, <1>3, <1>4, <1>5, <1>6, PageIsRead

\* and goes on where the page before begins.
LEMMA WalkGoesOn == ASSUME TranscriptIInv, Older PROVE TranscriptIInv'
<1>0. WalkShape /\ WalkGoesBack BY DEF TranscriptIInv
<1>1. pager.pages > 0 /\ pager.pages < MaxPages /\ ReadPage(pager.cursor, pager.base) BY DEF Older
<1>2. pager.cursor \in Nat /\ pager.base \in Nat /\ pager.pages \in Nat BY <1>0, <1>1 DEF WalkShape
<1>3. pager.base <= Whole BY <1>0, <1>1 DEF WalkGoesBack
<1>4. pager.pages # 0 BY <1>1, <1>2
<1> QED BY <1>1, <1>2, <1>3, <1>4, PageIsRead

\* Every step keeps the invariant.
LEMMA TranscriptStep == TranscriptIInv /\ [TranscriptNext]_transcriptVars => TranscriptIInv'
<1> SUFFICES ASSUME TranscriptIInv, [TranscriptNext]_transcriptVars PROVE TranscriptIInv' OBVIOUS
<1>1. CASE UNCHANGED transcriptVars
  BY <1>1 DEF transcriptVars, TranscriptIInv, LinesShape, WalkShape, WalkGoesBack, Whole, OffsetOf
<1>2. CASE \E k \in LineKinds : AppendLine(k)
  <2>1. PICK k \in LineKinds : AppendLine(k) BY <1>2
  <2>2. k.len \in Nat /\ 0 < k.len BY TranscriptAssumption
  <2> QED BY <2>1, <2>2, LineIsWritten DEF AppendLine
<1>3. CASE \E k \in LineKinds : \E bytes \in 1..k.len : BeginLine(k, bytes)
  <2>1. PICK k \in LineKinds : \E bytes \in 1..k.len : BeginLine(k, bytes) BY <1>3
  <2>2. k.len \in Nat BY TranscriptAssumption
  <2>3. PICK bytes \in 1..k.len : BeginLine(k, bytes) BY <2>1
  <2>4. bytes \in Nat BY <2>2
  <2> QED BY <2>3, <2>4, LineIsWritten DEF BeginLine
<1>4. CASE EndLine BY <1>4, LineIsEnded
<1>5. CASE Open BY <1>5, WalkBegins
<1>6. CASE Older BY <1>6, WalkGoesOn
<1>7. CASE Close
  <2>1. turnLines' = turnLines /\ partial' = partial /\ pager' = NoWalk BY <1>7 DEF Close
  <2>2. LinesShape' BY <2>1 DEF TranscriptIInv, LinesShape
  <2>3. WalkShape' BY <2>1, TranscriptAssumption DEF WalkShape, NoWalk
  <2>4. WalkGoesBack' BY <2>1 DEF WalkGoesBack, NoWalk
  <2>5. (pager.again)' = {} BY <2>1 DEF NoWalk
  <2> QED BY <2>2, <2>3, <2>4, <2>5 DEF TranscriptIInv
<1> QED BY <1>1, <1>2, <1>3, <1>4, <1>5, <1>6, <1>7 DEF TranscriptNext

\* The invariant holds in every state,
LEMMA TranscriptInvariance == TranscriptSpec => []TranscriptIInv
<1>1. TranscriptInit => TranscriptIInv
  <2> SUFFICES ASSUME TranscriptInit PROVE TranscriptIInv OBVIOUS
  <2> USE DEF TranscriptInit
  <2>1. LinesShape BY TranscriptAssumption DEF LinesShape
  <2>2. WalkShape BY TranscriptAssumption DEF WalkShape, NoWalk
  <2>3. WalkGoesBack BY DEF WalkGoesBack, NoWalk
  <2>4. pager.again = {} BY DEF NoWalk
  <2> QED BY <2>1, <2>2, <2>3, <2>4 DEF TranscriptIInv
<1> QED BY <1>1, TranscriptStep, PTL DEF TranscriptSpec

\* and says what the properties say.
LEMMA TranscriptIInvSays == TranscriptIInv => TranscriptTypeOK /\ WalkIsComplete
<1> SUFFICES ASSUME TranscriptIInv PROVE TranscriptTypeOK /\ WalkIsComplete OBVIOUS
<1>1. TranscriptTypeOK BY DEF TranscriptIInv, LinesShape, WalkShape, TranscriptTypeOK
<1>2. ASSUME pager.pages > 0, ~pager.more, NEW i \in 1..pager.base
      PROVE  \A k \in 1..turnLines[i].turns : \E later \in k..turnLines[i].turns : <<i, later>> \in pager.shown
  <2>1. pager.cursor = 0 /\ pager.base <= Whole /\ LinesShape /\ pager.base \in Nat
    BY <1>2 DEF TranscriptIInv, WalkGoesBack, WalkShape
  <2>2. i \in 1..Len(turnLines) BY <2>1, WholeLines
  <2>3. i \in 1..(Len(turnLines) + 1) /\ i + 1 \in 1..(Len(turnLines) + 1) /\ OffsetOf(i) < OffsetOf(i + 1)
    BY <2>1, <2>2, OffsetsAreBytes
  <2>4. OffsetOf(i) \in Nat /\ OffsetOf(i + 1) \in Nat BY <2>1, <2>3, OffsetsAreBytes
  <2>5. OffsetOf(i + 1) > pager.cursor BY <2>1, <2>3, <2>4
  <2> QED BY <1>2, <2>5 DEF TranscriptIInv, WalkGoesBack
<1>3. WalkIsComplete BY <1>2 DEF TranscriptIInv, WalkIsComplete
<1> QED BY <1>1, <1>3

\* Whatever a session writes and whenever its pages are read: no turn is shown twice, and a walk
\* that arrived at the beginning has shown every turn or a later one of its line.
THEOREM WalksAreComplete == TranscriptSpec => [](TranscriptTypeOK /\ WalkIsComplete)
BY TranscriptInvariance, TranscriptIInvSays, PTL

-----------------------------------------------------------------------------
(* The units of a handoff ticket *)

\* Of the first n lines: the gaps, the one of them that is the last, whether a Status section of a
\* gap is open at their end, and the boxes that such sections of a gap hold.
GapsTo(body, n) == {h \in Plain(body, "gap") : h <= n}
LastGap(body, n, g) == g \in GapsTo(body, n) /\ \A h \in GapsTo(body, n) : h <= g
InSection(body, n, g) ==
  \E s \in Plain(body, "status") : g < s /\ s <= n /\ ~\E h \in Plain(body, "heading") : s < h /\ h <= n
BoxesTo(body, n, g, l) == {i \in Plain(body, l) : i <= n /\ LastGap(body, i, g) /\ InSection(body, i - 1, g)}
Rank(body, g) == Cardinality(GapsTo(body, g))

\* What the loop holds after n lines is what these say.
ScanShape(acc) ==
  /\ acc = [fenced |-> acc.fenced, units |-> acc.units, cur |-> acc.cur]
  /\ acc.fenced \in BOOLEAN
  /\ acc.units \in Seq([cat : {"none", "bug"}, done : BOOLEAN])
  /\ acc.cur \in [gap : BOOLEAN, cat : {"none", "bug"}, x : Nat, todo : Nat, inStatus : BOOLEAN]

GapsSay(body, n, acc) ==
  /\ acc.cur.gap <=> GapsTo(body, n) # {}
  /\ acc.cur.inStatus => acc.cur.gap
  /\ Cardinality(GapsTo(body, n)) = Len(acc.units) + (IF acc.cur.gap THEN 1 ELSE 0)

LastSays(body, n, acc) ==
  \A g : LastGap(body, n, g) =>
    /\ acc.cur.inStatus <=> InSection(body, n, g)
    /\ acc.cur.x > 0 <=> BoxesTo(body, n, g, "done") # {}
    /\ acc.cur.todo > 0 <=> BoxesTo(body, n, g, "todo") # {}

OthersSay(body, n, acc) ==
  \A g \in GapsTo(body, n) : ~LastGap(body, n, g) =>
    (acc.units[Rank(body, g)].done <=> BoxesTo(body, n, g, "done") # {} /\ BoxesTo(body, n, g, "todo") = {})

ScanSays(body, n, acc) ==
  /\ acc.fenced <=> InCode(body, n + 1)
  /\ GapsSay(body, n, acc) /\ LastSays(body, n, acc) /\ OthersSay(body, n, acc)

BoardIInv ==
  /\ ticket.body \in Seq(Lines)
  /\ board.listed = "OPEN" /\ ticket.kind = "skill-feedback" => board.units = HandoffUnits(ticket.front, ticket.body)

\* The loop holds something after each number of lines: what one line makes of what it held before.
LEMMA ScanStepByStep ==
  ASSUME NEW body \in Seq(Lines)
  PROVE  /\ UnitScan(body)[0] = [fenced |-> FALSE, units |-> <<>>, cur |-> NoGap]
         /\ \A n \in 1..Len(body) : UnitScan(body)[n] = LineStep(UnitScan(body)[n - 1], body[n])
<1>0. Len(body) \in Nat BY LenProperties
<1>1. PICK none : none = [fenced |-> FALSE, units |-> <<>>, cur |-> NoGap] OBVIOUS
<1> DEFINE Eq(f) == f = [n \in 0..Len(body) |-> IF n = 0 THEN none ELSE LineStep(f[n - 1], body[n])]
           Upto(f, m) == f = [n \in 0..m |-> f[n]] /\ f[0] = none /\ \A n \in 1..m : f[n] = LineStep(f[n - 1], body[n])
           M == {m \in Nat : \E f : Upto(f, m)}
<1>2. 0 \in M
  <2>1. PICK f : f = [n \in {0} |-> none] OBVIOUS
  <2>2. 0..0 = {0} /\ f = [n \in 0..0 |-> f[n]] /\ f[0] = none /\ 1..0 = {} BY <2>1
  <2>3. Upto(f, 0) BY <2>2
  <2> HIDE DEF Upto
  <2> QED BY <2>3
<1>3. \A m \in Nat : m \in M => m + 1 \in M
  <2> HIDE DEF Upto
  <2> SUFFICES ASSUME NEW m \in Nat, NEW f, Upto(f, m) PROVE \E h : Upto(h, m + 1) OBVIOUS
  <2> USE DEF Upto
  <2>1. PICK h : h = [n \in 0..(m + 1) |-> IF n = m + 1 THEN LineStep(f[m], body[m + 1]) ELSE f[n]] OBVIOUS
  <2>2. h = [n \in 0..(m + 1) |-> h[n]] /\ h[m + 1] = LineStep(f[m], body[m + 1]) /\ \A n \in 0..m : h[n] = f[n] BY <2>1
  <2>3. h[0] = none
    <3>1. 0 \in 0..m OBVIOUS
    <3>2. h[0] = f[0] BY <2>2, <3>1, Zenon
    <3> QED BY <3>2
  <2>4. ASSUME NEW n \in 1..(m + 1) PROVE h[n] = LineStep(h[n - 1], body[n])
    <3>1. CASE n = m + 1
      <4>0. m \in 0..m /\ n - 1 = m BY <3>1
      <4>1. h[n - 1] = f[m] BY <2>2, <4>0
      <4> QED BY <2>2, <3>1, <4>0, <4>1
    <3>2. CASE n # m + 1
      <4>1. n \in 1..m /\ n \in 0..m /\ n - 1 \in 0..m BY <3>2
      <4>2. f[n] = LineStep(f[n - 1], body[n]) BY <4>1
      <4> QED BY <2>2, <4>1, <4>2
    <3> QED BY <3>1, <3>2
  <2> QED BY <2>2, <2>3, <2>4
<1>4. \A m \in Nat : m \in M
  <2> HIDE DEF M
  <2> QED BY <1>2, <1>3, NumbersByInduction
<1>5. PICK f : Upto(f, Len(body)) BY <1>0, <1>4
<1>6. Eq(f)
  <2>1. f = [n \in 0..Len(body) |-> f[n]] BY <1>5
  <2>2. ASSUME NEW n \in 0..Len(body) PROVE f[n] = IF n = 0 THEN none ELSE LineStep(f[n - 1], body[n])
    <3>1. CASE n = 0 BY <1>5, <3>1
    <3>2. CASE n # 0
      <4>1. n \in 1..Len(body) BY <1>0, <3>2
      <4> QED BY <1>5, <3>2, <4>1
    <3> QED BY <3>1, <3>2
  <2> QED BY <2>1, <2>2
<1>7. Eq(CHOOSE h : Eq(h))
  <2> HIDE DEF Eq
  <2> QED BY <1>6, Zenon
<1>8. PICK g : g = (CHOOSE o : Eq(o)) OBVIOUS
<1>9. UnitScan(body) = g BY <1>1, <1>8, Zenon DEF UnitScan
<1>10. g = [n \in 0..Len(body) |-> IF n = 0 THEN none ELSE LineStep(g[n - 1], body[n])] BY <1>7, <1>8
<1>11. g[0] = none /\ \A n \in 1..Len(body) : g[n] = LineStep(g[n - 1], body[n])
  <2> HIDE DEF Eq
  <2>1. \A n \in 0..Len(body) : g[n] = IF n = 0 THEN none ELSE LineStep(g[n - 1], body[n]) BY <1>10
  <2>2. 0 \in 0..Len(body) /\ \A n \in 1..Len(body) : n \in 0..Len(body) /\ n # 0 BY <1>0
  <2> QED BY <2>1, <2>2
<1> QED BY <1>1, <1>9, <1>11

\* Whether a line is in code is told by the fences before it: each opens or closes one.
LEMMA CodeLineByLine ==
  ASSUME NEW body \in Seq(Lines), NEW n \in Nat
  PROVE  /\ ~InCode(body, 1)
         /\ InCode(body, n + 2) <=> IF body[n + 1] = "fence" THEN ~InCode(body, n + 1) ELSE InCode(body, n + 1)
<1> DEFINE F(i) == {j \in 1..(i - 1) : body[j] = "fence"}
<1>1. \A i \in Nat : IsFiniteSet(F(i)) /\ Cardinality(F(i)) \in Nat
  <2> SUFFICES ASSUME NEW i \in Nat PROVE IsFiniteSet(F(i)) /\ Cardinality(F(i)) \in Nat OBVIOUS
  <2>1. IsFiniteSet(1..(i - 1)) BY FS_Interval
  <2>2. F(i) \subseteq 1..(i - 1) OBVIOUS
  <2> HIDE DEF F
  <2>3. IsFiniteSet(F(i)) BY <2>1, <2>2, FS_Subset
  <2> QED BY <2>3, FS_CardinalityType
<1>2. ~InCode(body, 1)
  <2>1. F(1) = {} OBVIOUS
  <2>2. Cardinality(F(1)) = 0 BY <2>1, FS_EmptySet
  <2>3. InCode(body, 1) <=> Cardinality(F(1)) % 2 = 1 BY DEF InCode
  <2> QED BY <2>2, <2>3
<1>3. PICK A, B : A = F(n + 1) /\ B = F(n + 2) OBVIOUS
<1>4. PICK a, b : a = Cardinality(A) /\ b = Cardinality(B) OBVIOUS
<1>5. (InCode(body, n + 1) <=> a % 2 = 1) /\ (InCode(body, n + 2) <=> b % 2 = 1) BY <1>3, <1>4 DEF InCode
<1>6. a \in Nat /\ b \in Nat /\ IsFiniteSet(A)
  <2> HIDE DEF F
  <2>1. n + 1 \in Nat /\ n + 2 \in Nat OBVIOUS
  <2> QED BY <1>1, <1>3, <1>4, <2>1
<1>7. n + 1 \notin A BY <1>3
<1>8. CASE body[n + 1] = "fence"
  <2>1. B = A \union {n + 1} BY <1>3, <1>8
  <2>2. b = a + 1 BY <1>4, <1>6, <1>7, <2>1, FS_AddElement
  <2>3. b % 2 = 1 <=> ~(a % 2 = 1) BY <1>6, <2>2
  <2> QED BY <1>2, <1>5, <1>8, <2>3
<1>9. CASE body[n + 1] # "fence"
  <2>1. B = A BY <1>3, <1>9
  <2> QED BY <1>2, <1>4, <1>5, <1>9, <2>1
<1> QED BY <1>8, <1>9

\* What the sets of the first n lines gain by one more.
LEMMA OneMoreLine ==
  ASSUME NEW body \in Seq(Lines), NEW n \in 0..(Len(body) - 1)
  PROVE  /\ n + 1 \in Plain(body, "gap") => GapsTo(body, n + 1) = GapsTo(body, n) \union {n + 1}
         /\ n + 1 \notin Plain(body, "gap") =>
              /\ GapsTo(body, n + 1) = GapsTo(body, n)
              /\ \A g : LastGap(body, n + 1, g) <=> LastGap(body, n, g)
         /\ n + 1 \notin Plain(body, "status") /\ n + 1 \notin Plain(body, "heading") =>
              \A g : InSection(body, n + 1, g) <=> InSection(body, n, g)
         /\ \A l \in {"done", "todo"} : n + 1 \notin Plain(body, l) =>
              \A g : BoxesTo(body, n + 1, g, l) = BoxesTo(body, n, g, l)
<1>0. n \in Nat /\ Len(body) \in Nat BY LenProperties
<1>1. \A l : Plain(body, l) \subseteq Nat BY LenProperties DEF Plain
<1>2. ASSUME n + 1 \notin Plain(body, "gap") PROVE GapsTo(body, n + 1) = GapsTo(body, n)
  BY <1>0, <1>1, <1>2 DEF GapsTo
<1>3. ASSUME n + 1 \in Plain(body, "gap") PROVE GapsTo(body, n + 1) = GapsTo(body, n) \union {n + 1}
  BY <1>0, <1>1, <1>3 DEF GapsTo
<1>4. ASSUME n + 1 \notin Plain(body, "gap"), NEW g PROVE LastGap(body, n + 1, g) <=> LastGap(body, n, g)
  BY <1>2, <1>4 DEF LastGap
<1>5. ASSUME n + 1 \notin Plain(body, "status"), n + 1 \notin Plain(body, "heading"), NEW g
      PROVE  InSection(body, n + 1, g) <=> InSection(body, n, g)
  <2>1. \A s \in Plain(body, "status") : s <= n + 1 <=> s <= n BY <1>0, <1>1, <1>5
  <2>2. \A s \in Plain(body, "heading") : s <= n + 1 <=> s <= n BY <1>0, <1>1, <1>5
  <2> QED BY <2>1, <2>2 DEF InSection
<1>6. ASSUME NEW l \in {"done", "todo"}, n + 1 \notin Plain(body, l), NEW g
      PROVE  BoxesTo(body, n + 1, g, l) = BoxesTo(body, n, g, l)
  <2>1. \A i \in Plain(body, l) : i <= n + 1 <=> i <= n BY <1>0, <1>1, <1>6
  <2> QED BY <2>1 DEF BoxesTo
<1> QED BY <1>2, <1>3, <1>4, <1>5, <1>6

\* A box is gained by the gap that it follows, if a Status section of it is open.
LEMMA BoxIsGained ==
  ASSUME NEW body \in Seq(Lines), NEW n \in 0..(Len(body) - 1), NEW l \in {"done", "todo"}, NEW g,
         n + 1 \in Plain(body, l)
  PROVE  /\ LastGap(body, n + 1, g) /\ InSection(body, n, g) => n + 1 \in BoxesTo(body, n + 1, g, l)
         /\ ~(LastGap(body, n + 1, g) /\ InSection(body, n, g)) => BoxesTo(body, n + 1, g, l) = BoxesTo(body, n, g, l)
<1>0. n \in Nat /\ DOMAIN body = 1..Len(body) /\ Len(body) \in Nat BY LenProperties
<1>1. Plain(body, l) \subseteq Nat BY <1>0 DEF Plain
<1>2. \A i \in Plain(body, l) : i <= n + 1 <=> i <= n \/ i = n + 1 BY <1>0, <1>1
<1>3. (n + 1) - 1 = n /\ n + 1 <= n + 1 BY <1>0
<1> QED BY <1>2, <1>3 DEF BoxesTo

\* A line that is no fence is what it reads outside of code, and nothing in it.
LEMMA WhatALineIs ==
  ASSUME NEW body \in Seq(Lines), NEW n \in 0..(Len(body) - 1), NEW l, l # "fence"
  PROVE  n + 1 \in Plain(body, l) <=> body[n + 1] = l /\ ~InCode(body, n + 1)
<1>1. n + 1 \in 1..Len(body) /\ DOMAIN body = 1..Len(body) BY LenProperties
<1> QED BY <1>1 DEF Plain

\* The gaps are finitely many, and the place of one among them is the number of those up to it.
LEMMA GapsAndRanks ==
  ASSUME NEW body \in Seq(Lines), NEW n \in Nat, NEW g \in GapsTo(body, n)
  PROVE  /\ IsFiniteSet(GapsTo(body, n)) /\ Cardinality(GapsTo(body, n)) \in Nat /\ Rank(body, g) \in Nat
         /\ Rank(body, g) > 0
         /\ LastGap(body, n, g) => Rank(body, g) = Cardinality(GapsTo(body, n))
         /\ ~LastGap(body, n, g) => Rank(body, g) < Cardinality(GapsTo(body, n))
<1>0. Len(body) \in Nat /\ DOMAIN body = 1..Len(body) BY LenProperties
<1>1. \A m : GapsTo(body, m) \subseteq 1..Len(body) BY <1>0 DEF GapsTo, Plain
<1>2. \A m : IsFiniteSet(GapsTo(body, m))
  <2>1. IsFiniteSet(1..Len(body)) BY <1>0, FS_Interval
  <2> QED BY <1>1, <2>1, FS_Subset
<1>3. \A m : Cardinality(GapsTo(body, m)) \in Nat BY <1>2, FS_CardinalityType
<1>4. g \in Nat /\ g \in GapsTo(body, g) BY <1>0, <1>1 DEF GapsTo
<1>5. PICK A, B : A = GapsTo(body, g) /\ B = GapsTo(body, n) OBVIOUS
<1>6. IsFiniteSet(A) /\ IsFiniteSet(B) /\ Cardinality(A) \in Nat /\ Cardinality(B) \in Nat BY <1>2, <1>3, <1>5
<1>7. Cardinality(A) # 0 BY <1>4, <1>5, <1>6, FS_EmptySet
<1>8. A \subseteq B
  <2> SUFFICES ASSUME NEW h \in A PROVE h \in B OBVIOUS
  <2>1. h \in Nat /\ h <= g /\ g <= n /\ h \in Plain(body, "gap") BY <1>0, <1>1, <1>5 DEF GapsTo
  <2>2. h <= n BY <1>4, <2>1
  <2> QED BY <1>5, <2>1, <2>2 DEF GapsTo
<1>9. ASSUME LastGap(body, n, g) PROVE A = B
  <2>1. \A h \in B : h \in Plain(body, "gap") /\ h <= g BY <1>5, <1>9 DEF LastGap, GapsTo
  <2> QED BY <1>5, <1>8, <2>1 DEF GapsTo
<1>10. ASSUME ~LastGap(body, n, g) PROVE Cardinality(A) < Cardinality(B)
  <2>1. PICK h \in B : ~(h <= g) BY <1>5, <1>10 DEF LastGap
  <2>2. h \notin A BY <1>5, <2>1 DEF GapsTo
  <2>3. A \subseteq B \ {h} BY <1>8, <2>2
  <2>4. IsFiniteSet(B \ {h}) /\ Cardinality(B \ {h}) = Cardinality(B) - 1 BY <1>6, <2>1, FS_RemoveElement
  <2>5. Cardinality(A) <= Cardinality(B \ {h}) BY <2>3, <2>4, FS_Subset
  <2>6. PICK a, b : a = Cardinality(A) /\ b = Cardinality(B) OBVIOUS
  <2>7. a \in Nat /\ b \in Nat /\ a <= b - 1 BY <1>6, <2>4, <2>5, <2>6
  <2> QED BY <2>6, <2>7
<1>11. Rank(body, g) = Cardinality(A) BY <1>5 DEF Rank
<1> QED BY <1>5, <1>6, <1>7, <1>9, <1>10, <1>11

\* What is the same after a line that says nothing of the units.
SaidNothing(acc, t) ==
  /\ t.units = acc.units /\ t.cur.gap = acc.cur.gap /\ t.cur.inStatus = acc.cur.inStatus
  /\ t.cur.x = acc.cur.x /\ t.cur.todo = acc.cur.todo

\* What a line that begins a section, or holds a box, changes of the gap the loop is in.
SectionIs(acc, t, open) ==
  /\ t.units = acc.units /\ t.cur.gap = acc.cur.gap /\ t.cur.inStatus = open
  /\ t.cur.x = acc.cur.x /\ t.cur.todo = acc.cur.todo
BoxCounted(acc, t, x, todo) ==
  /\ t.units = acc.units /\ t.cur.gap = acc.cur.gap /\ t.cur.inStatus = acc.cur.inStatus
  /\ t.cur.x = acc.cur.x + x /\ t.cur.todo = acc.cur.todo + todo
NewGap(acc, t) == t.units = Flush(acc.units, acc.cur) /\ t.cur = [NoGap EXCEPT !.gap = TRUE]

\* What a line makes of the loop, kind by kind.
LineMakes(acc, l, t) ==
  /\ l = "fence" => t.fenced = ~acc.fenced /\ SaidNothing(acc, t)
  /\ l # "fence" => t.fenced = acc.fenced
  /\ l # "fence" /\ acc.fenced => SaidNothing(acc, t)
  /\ ~acc.fenced =>
       /\ l \in {"category", "owner"} => SaidNothing(acc, t)
       /\ l = "gap" => NewGap(acc, t)
       /\ l = "status" => IF acc.cur.gap THEN SectionIs(acc, t, TRUE) ELSE SaidNothing(acc, t)
       /\ l = "heading" => IF acc.cur.gap THEN SectionIs(acc, t, FALSE) ELSE SaidNothing(acc, t)
       /\ l = "done" => IF acc.cur.inStatus THEN BoxCounted(acc, t, 1, 0) ELSE SaidNothing(acc, t)
       /\ l = "todo" => IF acc.cur.inStatus THEN BoxCounted(acc, t, 0, 1) ELSE SaidNothing(acc, t)

\* Each line makes that of the loop.
LEMMA LineFields ==
  ASSUME NEW acc, NEW l \in Lines, NEW t, ScanShape(acc), t = LineStep(acc, l)
  PROVE  ScanShape(t) /\ LineMakes(acc, l, t)
<1>1. PICK fenced, units, cur : fenced = acc.fenced /\ units = acc.units /\ cur = acc.cur OBVIOUS
<1>2. /\ acc = [fenced |-> fenced, units |-> units, cur |-> cur] /\ fenced \in BOOLEAN
      /\ units \in Seq([cat : {"none", "bug"}, done : BOOLEAN])
      /\ cur \in [gap : BOOLEAN, cat : {"none", "bug"}, x : Nat, todo : Nat, inStatus : BOOLEAN]
  BY <1>1 DEF ScanShape
<1>3. ASSUME t = [fenced |-> fenced, units |-> units, cur |-> cur] PROVE ScanShape(t) /\ SaidNothing(acc, t) /\ t.fenced = fenced
  BY <1>1, <1>2, <1>3 DEF ScanShape, SaidNothing
<1>4. CASE l = "fence"
  <2>1. t = [acc EXCEPT !.fenced = ~@] BY <1>4 DEF LineStep
  <2>2. t = [fenced |-> ~fenced, units |-> units, cur |-> cur] BY <1>2, <2>1
  <2>3. t.fenced = ~acc.fenced BY <1>1, <2>2
  <2>5. PICK other : other = ~fenced OBVIOUS
  <2>6. other \in BOOLEAN BY <2>5
  <2>7. t = [fenced |-> other, units |-> units, cur |-> cur] BY <2>2, <2>5
  <2>8. ScanShape(t) BY <1>2, <2>6, <2>7 DEF ScanShape
  <2>9. SaidNothing(acc, t) BY <1>1, <2>7 DEF SaidNothing
  <2>4. ScanShape(t) /\ SaidNothing(acc, t) BY <2>8, <2>9
  <2> QED BY <1>4, <2>3, <2>4 DEF LineMakes
<1>5. CASE l # "fence" /\ fenced
  <2>1. t = acc BY <1>1, <1>5 DEF LineStep
  <2> QED BY <1>1, <1>2, <1>3, <1>5, <2>1 DEF LineMakes
<1>6. ASSUME l # "fence", ~fenced PROVE t = UnitStep(acc, l)
  BY <1>1, <1>6 DEF LineStep
<1>7. CASE l = "gap" /\ ~fenced
  <2>1. t = [acc EXCEPT !.units = Flush(acc.units, acc.cur), !.cur = [NoGap EXCEPT !.gap = TRUE]]
    BY <1>6, <1>7 DEF UnitStep
  <2>2. PICK new, more : new = [NoGap EXCEPT !.gap = TRUE] /\ more = Flush(units, cur) OBVIOUS
  <2>3. t = [fenced |-> fenced, units |-> more, cur |-> new] BY <1>1, <1>2, <2>1, <2>2
  <2>4. new = [gap |-> TRUE, cat |-> "none", x |-> 0, todo |-> 0, inStatus |-> FALSE] BY <2>2 DEF NoGap
  <2>5. more \in Seq([cat : {"none", "bug"}, done : BOOLEAN])
    <3>1. CASE cur.gap
      <4>1. PICK u : u = [cat |-> cur.cat, done |-> cur.x > 0 /\ cur.todo = 0] OBVIOUS
      <4>2. u \in [cat : {"none", "bug"}, done : BOOLEAN] BY <1>2, <4>1
      <4>3. more = Append(units, u) BY <2>2, <3>1, <4>1 DEF Flush
      <4> QED BY <1>2, <4>2, <4>3, AppendProperties
    <3>2. CASE ~cur.gap BY <1>2, <2>2, <3>2 DEF Flush
    <3> QED BY <3>1, <3>2
  <2>8. new \in [gap : BOOLEAN, cat : {"none", "bug"}, x : Nat, todo : Nat, inStatus : BOOLEAN] BY <2>4
  <2>6. ScanShape(t) BY <1>2, <2>3, <2>5, <2>8 DEF ScanShape
  <2>7. NewGap(acc, t) /\ t.fenced = fenced BY <1>1, <2>2, <2>3 DEF NewGap
  <2> QED BY <1>1, <1>7, <2>6, <2>7 DEF LineMakes
<1>8. ASSUME NEW cat \in {"none", "bug"}, NEW x \in Nat, NEW todo \in Nat, NEW in \in BOOLEAN,
             t = [fenced |-> fenced, units |-> units,
                  cur |-> [gap |-> cur.gap, cat |-> cat, x |-> x, todo |-> todo, inStatus |-> in]]
      PROVE  /\ ScanShape(t) /\ t.fenced = fenced /\ t.units = units /\ t.cur.gap = cur.gap
             /\ t.cur.x = x /\ t.cur.todo = todo /\ t.cur.inStatus = in
  <2>1. PICK c : c = [gap |-> cur.gap, cat |-> cat, x |-> x, todo |-> todo, inStatus |-> in] OBVIOUS
  <2>2. /\ c \in [gap : BOOLEAN, cat : {"none", "bug"}, x : Nat, todo : Nat, inStatus : BOOLEAN]
        /\ c.gap = cur.gap /\ c.x = x /\ c.todo = todo /\ c.inStatus = in
    BY <1>2, <2>1
  <2>3. t = [fenced |-> fenced, units |-> units, cur |-> c] BY <1>8, <2>1
  <2> QED BY <1>2, <2>2, <2>3 DEF ScanShape
<1>9. cur = [gap |-> cur.gap, cat |-> cur.cat, x |-> cur.x, todo |-> cur.todo, inStatus |-> cur.inStatus]
      /\ cur.x \in Nat /\ cur.todo \in Nat /\ cur.cat \in {"none", "bug"} /\ cur.inStatus \in BOOLEAN
  BY <1>2
<1>10. CASE l = "category" /\ ~fenced
  <2>1. CASE cur.gap
    <3>1. t = [acc EXCEPT !.cur.cat = "bug"] BY <1>1, <1>6, <1>10, <2>1 DEF UnitStep
    <3>2. t = [fenced |-> fenced, units |-> units,
               cur |-> [gap |-> cur.gap, cat |-> "bug", x |-> cur.x, todo |-> cur.todo, inStatus |-> cur.inStatus]]
      <4>1. PICK c : c = [cur EXCEPT !.cat = "bug"] OBVIOUS
      <4>2. t = [acc EXCEPT !.cur = c] BY <1>1, <3>1, <4>1
      <4>3. t = [fenced |-> fenced, units |-> units, cur |-> c] BY <1>2, <4>2
      <4>4. c = [gap |-> cur.gap, cat |-> "bug", x |-> cur.x, todo |-> cur.todo, inStatus |-> cur.inStatus] BY <1>9, <4>1
      <4> QED BY <4>3, <4>4
    <3>3. ScanShape(t) /\ SaidNothing(acc, t) /\ t.fenced = fenced BY <1>1, <1>8, <1>9, <3>2 DEF SaidNothing
    <3> QED BY <1>1, <1>10, <3>3 DEF LineMakes
  <2>2. CASE ~cur.gap
    <3>1. t = acc BY <1>1, <1>6, <1>10, <2>2 DEF UnitStep
    <3> QED BY <1>1, <1>2, <1>3, <1>10, <3>1 DEF LineMakes
  <2> QED BY <2>1, <2>2
<1>11. CASE l = "owner" /\ ~fenced
  <2>1. t = acc BY <1>6, <1>11 DEF UnitStep
  <2> QED BY <1>1, <1>2, <1>3, <1>11, <2>1 DEF LineMakes
<1>12. CASE l = "status" /\ ~fenced
  <2>1. CASE cur.gap
    <3>1. t = [acc EXCEPT !.cur.inStatus = TRUE] BY <1>1, <1>6, <1>12, <2>1 DEF UnitStep
    <3>2. t = [fenced |-> fenced, units |-> units,
               cur |-> [gap |-> cur.gap, cat |-> cur.cat, x |-> cur.x, todo |-> cur.todo, inStatus |-> TRUE]]
      <4>1. PICK c : c = [cur EXCEPT !.inStatus = TRUE] OBVIOUS
      <4>2. t = [acc EXCEPT !.cur = c] BY <1>1, <3>1, <4>1
      <4>3. t = [fenced |-> fenced, units |-> units, cur |-> c] BY <1>2, <4>2
      <4>4. c = [gap |-> cur.gap, cat |-> cur.cat, x |-> cur.x, todo |-> cur.todo, inStatus |-> TRUE] BY <1>9, <4>1
      <4> QED BY <4>3, <4>4
    <3>4. PICK in : in = TRUE OBVIOUS
    <3>5. in \in BOOLEAN BY <3>4
    <3>6. t = [fenced |-> fenced, units |-> units,
               cur |-> [gap |-> cur.gap, cat |-> cur.cat, x |-> cur.x, todo |-> cur.todo, inStatus |-> in]]
      BY <3>2, <3>4
    <3>7. /\ ScanShape(t) /\ t.fenced = fenced /\ t.units = units /\ t.cur.gap = cur.gap
          /\ t.cur.x = cur.x /\ t.cur.todo = cur.todo /\ t.cur.inStatus = in
      BY <1>8, <1>9, <3>5, <3>6
    <3>3. ScanShape(t) /\ SectionIs(acc, t, TRUE) /\ t.fenced = fenced BY <1>1, <3>4, <3>7 DEF SectionIs
    <3> QED BY <1>1, <1>12, <2>1, <3>3 DEF LineMakes
  <2>2. CASE ~cur.gap
    <3>1. t = acc BY <1>1, <1>6, <1>12, <2>2 DEF UnitStep
    <3> QED BY <1>1, <1>2, <1>3, <1>12, <2>2, <3>1 DEF LineMakes
  <2> QED BY <2>1, <2>2
<1>13. CASE l = "heading" /\ ~fenced
  <2>1. CASE cur.gap
    <3>1. t = [acc EXCEPT !.cur.inStatus = FALSE] BY <1>1, <1>6, <1>13, <2>1 DEF UnitStep
    <3>2. t = [fenced |-> fenced, units |-> units,
               cur |-> [gap |-> cur.gap, cat |-> cur.cat, x |-> cur.x, todo |-> cur.todo, inStatus |-> FALSE]]
      <4>1. PICK c : c = [cur EXCEPT !.inStatus = FALSE] OBVIOUS
      <4>2. t = [acc EXCEPT !.cur = c] BY <1>1, <3>1, <4>1
      <4>3. t = [fenced |-> fenced, units |-> units, cur |-> c] BY <1>2, <4>2
      <4>4. c = [gap |-> cur.gap, cat |-> cur.cat, x |-> cur.x, todo |-> cur.todo, inStatus |-> FALSE] BY <1>9, <4>1
      <4> QED BY <4>3, <4>4
    <3>4. PICK in : in = FALSE OBVIOUS
    <3>5. in \in BOOLEAN BY <3>4
    <3>6. t = [fenced |-> fenced, units |-> units,
               cur |-> [gap |-> cur.gap, cat |-> cur.cat, x |-> cur.x, todo |-> cur.todo, inStatus |-> in]]
      BY <3>2, <3>4
    <3>7. /\ ScanShape(t) /\ t.fenced = fenced /\ t.units = units /\ t.cur.gap = cur.gap
          /\ t.cur.x = cur.x /\ t.cur.todo = cur.todo /\ t.cur.inStatus = in
      BY <1>8, <1>9, <3>5, <3>6
    <3>3. ScanShape(t) /\ SectionIs(acc, t, FALSE) /\ t.fenced = fenced BY <1>1, <3>4, <3>7 DEF SectionIs
    <3> QED BY <1>1, <1>13, <2>1, <3>3 DEF LineMakes
  <2>2. CASE ~cur.gap
    <3>1. t = acc BY <1>1, <1>6, <1>13, <2>2 DEF UnitStep
    <3> QED BY <1>1, <1>2, <1>3, <1>13, <2>2, <3>1 DEF LineMakes
  <2> QED BY <2>1, <2>2
<1>14. CASE l = "done" /\ ~fenced
  <2>1. CASE cur.inStatus
    <3>1. t = [acc EXCEPT !.cur.x = @ + 1] BY <1>1, <1>6, <1>14, <2>1 DEF UnitStep
    <3>2. t = [fenced |-> fenced, units |-> units,
               cur |-> [gap |-> cur.gap, cat |-> cur.cat, x |-> cur.x + 1, todo |-> cur.todo, inStatus |-> cur.inStatus]]
      <4>1. PICK c : c = [cur EXCEPT !.x = @ + 1] OBVIOUS
      <4>2. t = [acc EXCEPT !.cur = c] BY <1>1, <3>1, <4>1
      <4>3. t = [fenced |-> fenced, units |-> units, cur |-> c] BY <1>2, <4>2
      <4>4. c = [gap |-> cur.gap, cat |-> cur.cat, x |-> cur.x + 1, todo |-> cur.todo, inStatus |-> cur.inStatus] BY <1>9, <4>1
      <4> QED BY <4>3, <4>4
    <3>3. cur.x + 1 \in Nat /\ cur.todo + 0 = cur.todo BY <1>9
    <3>4. ScanShape(t) /\ BoxCounted(acc, t, 1, 0) /\ t.fenced = fenced BY <1>1, <1>8, <1>9, <3>2, <3>3 DEF BoxCounted
    <3> QED BY <1>1, <1>14, <2>1, <3>4 DEF LineMakes
  <2>2. CASE ~cur.inStatus
    <3>1. t = acc BY <1>1, <1>6, <1>14, <2>2 DEF UnitStep
    <3> QED BY <1>1, <1>2, <1>3, <1>14, <2>2, <3>1 DEF LineMakes
  <2> QED BY <2>1, <2>2
<1>15. CASE l = "todo" /\ ~fenced
  <2>1. CASE cur.inStatus
    <3>1. t = [acc EXCEPT !.cur.todo = @ + 1] BY <1>1, <1>6, <1>15, <2>1 DEF UnitStep
    <3>2. t = [fenced |-> fenced, units |-> units,
               cur |-> [gap |-> cur.gap, cat |-> cur.cat, x |-> cur.x, todo |-> cur.todo + 1, inStatus |-> cur.inStatus]]
      <4>1. PICK c : c = [cur EXCEPT !.todo = @ + 1] OBVIOUS
      <4>2. t = [acc EXCEPT !.cur = c] BY <1>1, <3>1, <4>1
      <4>3. t = [fenced |-> fenced, units |-> units, cur |-> c] BY <1>2, <4>2
      <4>4. c = [gap |-> cur.gap, cat |-> cur.cat, x |-> cur.x, todo |-> cur.todo + 1, inStatus |-> cur.inStatus] BY <1>9, <4>1
      <4> QED BY <4>3, <4>4
    <3>3. cur.todo + 1 \in Nat /\ cur.x + 0 = cur.x BY <1>9
    <3>4. ScanShape(t) /\ BoxCounted(acc, t, 0, 1) /\ t.fenced = fenced BY <1>1, <1>8, <1>9, <3>2, <3>3 DEF BoxCounted
    <3> QED BY <1>1, <1>15, <2>1, <3>4 DEF LineMakes
  <2>2. CASE ~cur.inStatus
    <3>1. t = acc BY <1>1, <1>6, <1>15, <2>2 DEF UnitStep
    <3> QED BY <1>1, <1>2, <1>3, <1>15, <2>2, <3>1 DEF LineMakes
  <2> QED BY <2>1, <2>2
<1>16. ScanShape(t) BY <1>4, <1>5, <1>7, <1>10, <1>11, <1>12, <1>13, <1>14, <1>15 DEF Lines
<1>17. LineMakes(acc, l, t) BY <1>4, <1>5, <1>7, <1>10, <1>11, <1>12, <1>13, <1>14, <1>15 DEF Lines
<1> QED BY <1>16, <1>17

\* A line that is no gap leaves the units before the last one as they were.
LEMMA OthersStay ==
  ASSUME NEW body \in Seq(Lines), NEW n \in 0..(Len(body) - 1), NEW acc, NEW t,
         GapsSay(body, n, acc), OthersSay(body, n, acc), n + 1 \notin Plain(body, "gap"),
         t.units = acc.units, t.cur.gap = acc.cur.gap, t.cur.inStatus => t.cur.gap, LastSays(body, n + 1, t)
  PROVE  GapsSay(body, n + 1, t) /\ LastSays(body, n + 1, t) /\ OthersSay(body, n + 1, t)
<1>1. GapsTo(body, n + 1) = GapsTo(body, n) /\ \A g : LastGap(body, n + 1, g) <=> LastGap(body, n, g) BY OneMoreLine
<1>2. GapsSay(body, n + 1, t) BY <1>1 DEF GapsSay
<1>3. ASSUME NEW g, ~LastGap(body, n, g), NEW l \in {"done", "todo"} PROVE BoxesTo(body, n + 1, g, l) = BoxesTo(body, n, g, l)
  <2>1. CASE n + 1 \notin Plain(body, l) BY <2>1, OneMoreLine
  <2>2. CASE n + 1 \in Plain(body, l)
    <3>1. ~LastGap(body, n + 1, g) BY <1>1, <1>3
    <3> QED BY <2>2, <3>1, BoxIsGained
  <2> QED BY <2>1, <2>2
<1>4. OthersSay(body, n + 1, t)
  <2> SUFFICES ASSUME NEW g \in GapsTo(body, n), ~LastGap(body, n, g)
               PROVE  t.units[Rank(body, g)].done <=>
                        BoxesTo(body, n + 1, g, "done") # {} /\ BoxesTo(body, n + 1, g, "todo") = {}
    BY <1>1 DEF OthersSay
  <2>1. BoxesTo(body, n + 1, g, "done") = BoxesTo(body, n, g, "done") BY <1>3
  <2>2. BoxesTo(body, n + 1, g, "todo") = BoxesTo(body, n, g, "todo") BY <1>3
  <2> QED BY <2>1, <2>2 DEF OthersSay
<1> QED BY <1>2, <1>4

\* A line that is neither a gap nor a heading nor a box that counts says nothing.
LEMMA QuietLine ==
  ASSUME NEW body \in Seq(Lines), NEW n \in 0..(Len(body) - 1), NEW acc, NEW t,
         GapsSay(body, n, acc), LastSays(body, n, acc), OthersSay(body, n, acc), SaidNothing(acc, t),
         n + 1 \notin Plain(body, "gap"),
         acc.cur.gap => n + 1 \notin Plain(body, "status") /\ n + 1 \notin Plain(body, "heading"),
         acc.cur.inStatus => n + 1 \notin Plain(body, "done") /\ n + 1 \notin Plain(body, "todo")
  PROVE  GapsSay(body, n + 1, t) /\ LastSays(body, n + 1, t) /\ OthersSay(body, n + 1, t)
<1>1. GapsTo(body, n + 1) = GapsTo(body, n) /\ \A g : LastGap(body, n + 1, g) <=> LastGap(body, n, g) BY OneMoreLine
<1>2. LastSays(body, n + 1, t)
  <2> SUFFICES ASSUME NEW g, LastGap(body, n, g)
               PROVE  /\ t.cur.inStatus <=> InSection(body, n + 1, g)
                      /\ t.cur.x > 0 <=> BoxesTo(body, n + 1, g, "done") # {}
                      /\ t.cur.todo > 0 <=> BoxesTo(body, n + 1, g, "todo") # {}
    BY <1>1 DEF LastSays
  <2>1. acc.cur.gap BY DEF LastGap, GapsSay
  <2>2. InSection(body, n + 1, g) <=> InSection(body, n, g) BY <2>1, OneMoreLine
  <2>3. acc.cur.inStatus <=> InSection(body, n, g) BY DEF LastSays
  <2>4. ASSUME NEW l \in {"done", "todo"} PROVE BoxesTo(body, n + 1, g, l) = BoxesTo(body, n, g, l)
    <3>1. CASE n + 1 \notin Plain(body, l) BY <3>1, OneMoreLine
    <3>2. CASE n + 1 \in Plain(body, l)
      <4>1. ~InSection(body, n, g) BY <2>3, <3>2
      <4> QED BY <3>2, <4>1, BoxIsGained
    <3> QED BY <3>1, <3>2
  <2>5. BoxesTo(body, n + 1, g, "done") = BoxesTo(body, n, g, "done") BY <2>4
  <2>6. BoxesTo(body, n + 1, g, "todo") = BoxesTo(body, n, g, "todo") BY <2>4
  <2> QED BY <2>2, <2>5, <2>6 DEF LastSays, SaidNothing
<1>3. t.cur.inStatus => t.cur.gap BY DEF GapsSay, SaidNothing
<1> QED BY <1>2, <1>3, OthersStay DEF SaidNothing

\* A Status heading opens a section of the gap, any other one closes it.
LEMMA SectionLine ==
  ASSUME NEW body \in Seq(Lines), NEW n \in 0..(Len(body) - 1), NEW acc, NEW t, NEW open \in BOOLEAN,
         GapsSay(body, n, acc), LastSays(body, n, acc), OthersSay(body, n, acc), acc.cur.gap, SectionIs(acc, t, open),
         n + 1 \notin Plain(body, "gap"), n + 1 \notin Plain(body, "done"), n + 1 \notin Plain(body, "todo"),
         open => n + 1 \in Plain(body, "status"), ~open => n + 1 \in Plain(body, "heading")
  PROVE  GapsSay(body, n + 1, t) /\ LastSays(body, n + 1, t) /\ OthersSay(body, n + 1, t)
<1>0. n \in Nat /\ DOMAIN body = 1..Len(body) BY LenProperties
<1>1. GapsTo(body, n + 1) = GapsTo(body, n) /\ \A g : LastGap(body, n + 1, g) <=> LastGap(body, n, g) BY OneMoreLine
<1>2. LastSays(body, n + 1, t)
  <2> SUFFICES ASSUME NEW g, LastGap(body, n, g)
               PROVE  /\ t.cur.inStatus <=> InSection(body, n + 1, g)
                      /\ t.cur.x > 0 <=> BoxesTo(body, n + 1, g, "done") # {}
                      /\ t.cur.todo > 0 <=> BoxesTo(body, n + 1, g, "todo") # {}
    BY <1>1 DEF LastSays
  <2>1. BoxesTo(body, n + 1, g, "done") = BoxesTo(body, n, g, "done") BY OneMoreLine
  <2>2. BoxesTo(body, n + 1, g, "todo") = BoxesTo(body, n, g, "todo") BY OneMoreLine
  <2>3. g \in Nat /\ g <= n BY <1>0, LenProperties DEF LastGap, GapsTo, Plain
  <2>4. \A i \in DOMAIN body : i \in Nat BY <1>0
  <2>5. CASE open
    <3>1. n + 1 \in Plain(body, "status") /\ g < n + 1 /\ n + 1 <= n + 1 BY <1>0, <2>3, <2>5
    <3>2. ~\E h \in Plain(body, "heading") : n + 1 < h /\ h <= n + 1 BY <1>0, <2>4 DEF Plain
    <3>3. InSection(body, n + 1, g) BY <3>1, <3>2 DEF InSection
    <3> QED BY <2>1, <2>2, <2>5, <3>3 DEF LastSays, SectionIs
  <2>6. CASE ~open
    <3>1. n + 1 \in Plain(body, "heading") /\ n + 1 \notin Plain(body, "status") BY <2>6 DEF Plain
    <3>2. ~InSection(body, n + 1, g)
      <4> SUFFICES ASSUME NEW s \in Plain(body, "status"), s <= n + 1 PROVE \E h \in Plain(body, "heading") : s < h /\ h <= n + 1
        BY DEF InSection
      <4>1. s # n + 1 /\ s \in Nat BY <2>4, <3>1 DEF Plain
      <4>2. s < n + 1 /\ n + 1 <= n + 1 BY <1>0, <4>1
      <4> QED BY <3>1, <4>2
    <3> QED BY <2>1, <2>2, <2>6, <3>2 DEF LastSays, SectionIs
  <2> QED BY <2>5, <2>6
<1>3. t.cur.inStatus => t.cur.gap BY DEF SectionIs
<1> QED BY <1>2, <1>3, OthersStay DEF SectionIs

\* A box counts for the gap in a Status section of it.
LEMMA BoxLine ==
  ASSUME NEW body \in Seq(Lines), NEW n \in 0..(Len(body) - 1), NEW acc, NEW t, NEW l \in {"done", "todo"},
         GapsSay(body, n, acc), LastSays(body, n, acc), OthersSay(body, n, acc), acc.cur.inStatus,
         acc.cur.x \in Nat, acc.cur.todo \in Nat,
         l = "done" => BoxCounted(acc, t, 1, 0), l = "todo" => BoxCounted(acc, t, 0, 1), n + 1 \in Plain(body, l)
  PROVE  GapsSay(body, n + 1, t) /\ LastSays(body, n + 1, t) /\ OthersSay(body, n + 1, t)
<1>0. \A k : k # l => n + 1 \notin Plain(body, k) BY DEF Plain
<1>1. /\ n + 1 \notin Plain(body, "gap") /\ n + 1 \notin Plain(body, "status") /\ n + 1 \notin Plain(body, "heading")
  BY <1>0
<1>2. GapsTo(body, n + 1) = GapsTo(body, n) /\ \A g : LastGap(body, n + 1, g) <=> LastGap(body, n, g) BY <1>1, OneMoreLine
<1>3. LastSays(body, n + 1, t)
  <2> SUFFICES ASSUME NEW g, LastGap(body, n, g)
               PROVE  /\ t.cur.inStatus <=> InSection(body, n + 1, g)
                      /\ t.cur.x > 0 <=> BoxesTo(body, n + 1, g, "done") # {}
                      /\ t.cur.todo > 0 <=> BoxesTo(body, n + 1, g, "todo") # {}
    BY <1>2 DEF LastSays
  <2>1. InSection(body, n + 1, g) <=> InSection(body, n, g) BY <1>1, OneMoreLine
  <2>2. InSection(body, n, g) BY DEF LastSays
  <2>3. n + 1 \in BoxesTo(body, n + 1, g, l) BY <1>2, <2>2, BoxIsGained
  <2>4. BoxesTo(body, n + 1, g, l) # {} BY <2>3
  <2>5. CASE l = "done"
    <3>1. n + 1 \notin Plain(body, "todo") BY <1>0, <2>5
    <3>2. BoxesTo(body, n + 1, g, "todo") = BoxesTo(body, n, g, "todo") BY <3>1, OneMoreLine
    <3>3. t.cur.x = acc.cur.x + 1 /\ t.cur.todo = acc.cur.todo + 0 /\ t.cur.inStatus = acc.cur.inStatus BY <2>5 DEF BoxCounted
    <3>4. t.cur.x > 0 /\ t.cur.todo = acc.cur.todo BY <3>3
    <3> QED BY <2>1, <2>2, <2>4, <2>5, <3>2, <3>3, <3>4 DEF LastSays
  <2>6. CASE l = "todo"
    <3>1. n + 1 \notin Plain(body, "done") BY <1>0, <2>6
    <3>2. BoxesTo(body, n + 1, g, "done") = BoxesTo(body, n, g, "done") BY <3>1, OneMoreLine
    <3>3. t.cur.x = acc.cur.x + 0 /\ t.cur.todo = acc.cur.todo + 1 /\ t.cur.inStatus = acc.cur.inStatus BY <2>6 DEF BoxCounted
    <3>4. t.cur.todo > 0 /\ t.cur.x = acc.cur.x BY <3>3
    <3> QED BY <2>1, <2>2, <2>4, <2>6, <3>2, <3>3, <3>4 DEF LastSays
  <2> QED BY <2>5, <2>6
<1>4. t.units = acc.units /\ t.cur.gap = acc.cur.gap /\ t.cur.inStatus = acc.cur.inStatus BY DEF BoxCounted
<1>5. t.cur.inStatus => t.cur.gap BY <1>4 DEF GapsSay
<1> QED BY <1>1, <1>3, <1>4, <1>5, OthersStay

\* A gap ends the one before, whose unit is what was counted, and begins with nothing.
LEMMA GapLine ==
  ASSUME NEW body \in Seq(Lines), NEW n \in 0..(Len(body) - 1), NEW acc, NEW t, ScanShape(acc),
         GapsSay(body, n, acc), LastSays(body, n, acc), OthersSay(body, n, acc), NewGap(acc, t),
         n + 1 \in Plain(body, "gap")
  PROVE  GapsSay(body, n + 1, t) /\ LastSays(body, n + 1, t) /\ OthersSay(body, n + 1, t)
<1>0. n \in Nat /\ n + 1 \in Nat /\ DOMAIN body = 1..Len(body) /\ \A i \in DOMAIN body : i \in Nat BY LenProperties
<1>1. GapsTo(body, n + 1) = GapsTo(body, n) \union {n + 1} BY OneMoreLine
<1>2. \A l \in {"done", "todo"} : n + 1 \notin Plain(body, l) BY DEF Plain
<1>3. \A h \in GapsTo(body, n) : h \in Nat /\ h <= n BY <1>0 DEF GapsTo, Plain
<1>4. n + 1 \notin GapsTo(body, n) BY <1>0, <1>3
<1>5. \A g : LastGap(body, n + 1, g) <=> g = n + 1
  <2>1. LastGap(body, n + 1, n + 1) BY <1>0, <1>1, <1>3 DEF LastGap
  <2>2. ASSUME NEW g, LastGap(body, n + 1, g) PROVE g = n + 1
    <3>1. g \in GapsTo(body, n + 1) /\ n + 1 <= g BY <1>1, <2>2 DEF LastGap
    <3>2. g \in GapsTo(body, n) => g \in Nat /\ g <= n BY <1>3
    <3> QED BY <1>0, <1>1, <3>1, <3>2
  <2> QED BY <2>1, <2>2
<1>6. t.cur.gap = TRUE /\ t.cur.inStatus = FALSE /\ t.cur.x = 0 /\ t.cur.todo = 0 BY DEF NewGap, NoGap
<1>7. acc.units \in Seq([cat : {"none", "bug"}, done : BOOLEAN]) /\ Len(acc.units) \in Nat BY LenProperties DEF ScanShape
<1>8. PICK u : u = [cat |-> acc.cur.cat, done |-> acc.cur.x > 0 /\ acc.cur.todo = 0] OBVIOUS
<1>9. u \in [cat : {"none", "bug"}, done : BOOLEAN] /\ (u.done <=> acc.cur.x > 0 /\ acc.cur.todo = 0) BY <1>8 DEF ScanShape
<1>10. t.units = IF acc.cur.gap THEN Append(acc.units, u) ELSE acc.units BY <1>8 DEF NewGap, Flush
<1>11. /\ acc.cur.gap => /\ Len(t.units) = Len(acc.units) + 1 /\ t.units[Len(acc.units) + 1] = u
                        /\ \A i \in 1..Len(acc.units) : t.units[i] = acc.units[i]
  BY <1>7, <1>9, <1>10, AppendProperties
<1>12. GapsSay(body, n + 1, t)
  <2>1. IsFiniteSet(GapsTo(body, n)) /\ Cardinality(GapsTo(body, n)) \in Nat
    <3>1. IsFiniteSet(1..Len(body)) BY LenProperties, FS_Interval
    <3>2. GapsTo(body, n) \subseteq 1..Len(body) BY <1>0 DEF GapsTo, Plain
    <3>3. IsFiniteSet(GapsTo(body, n)) BY <3>1, <3>2, FS_Subset
    <3> QED BY <3>3, FS_CardinalityType
  <2>2. Cardinality(GapsTo(body, n + 1)) = Cardinality(GapsTo(body, n)) + 1 BY <1>1, <1>4, <2>1, FS_AddElement
  <2>3. CASE acc.cur.gap
    <3>1. Cardinality(GapsTo(body, n)) = Len(acc.units) + 1 BY <2>3 DEF GapsSay
    <3> QED BY <1>1, <1>6, <1>7, <1>11, <2>2, <2>3, <3>1 DEF GapsSay
  <2>4. CASE ~acc.cur.gap
    <3>1. Cardinality(GapsTo(body, n)) = Len(acc.units) BY <1>7, <2>4 DEF GapsSay
    <3>2. t.units = acc.units BY <1>10, <2>4
    <3> QED BY <1>1, <1>6, <1>7, <2>2, <3>1, <3>2 DEF GapsSay
  <2> QED BY <2>3, <2>4
<1>13. LastSays(body, n + 1, t)
  <2>1. ~InSection(body, n + 1, n + 1)
    <3>1. \A s \in Plain(body, "status") : s \in Nat BY <1>0 DEF Plain
    <3> QED BY <1>0, <3>1 DEF InSection
  <2>2. ASSUME NEW l \in {"done", "todo"} PROVE BoxesTo(body, n + 1, n + 1, l) = {}
    <3> SUFFICES ASSUME NEW i \in BoxesTo(body, n + 1, n + 1, l) PROVE FALSE OBVIOUS
    <3>1. i \in Plain(body, l) /\ i <= n + 1 /\ n + 1 \in GapsTo(body, i) BY DEF BoxesTo, LastGap
    <3>2. i \in Nat /\ n + 1 <= i BY <1>0, <3>1 DEF GapsTo, Plain
    <3>3. i = n + 1 BY <1>0, <3>1, <3>2
    <3> QED BY <1>2, <3>1, <3>3
  <2>3. BoxesTo(body, n + 1, n + 1, "done") = {} /\ BoxesTo(body, n + 1, n + 1, "todo") = {} BY <2>2
  <2> QED BY <1>5, <1>6, <2>1, <2>3 DEF LastSays
<1>14. OthersSay(body, n + 1, t)
  <2> SUFFICES ASSUME NEW g \in GapsTo(body, n + 1), ~LastGap(body, n + 1, g)
               PROVE  t.units[Rank(body, g)].done <=>
                        BoxesTo(body, n + 1, g, "done") # {} /\ BoxesTo(body, n + 1, g, "todo") = {}
    BY DEF OthersSay
  <2>1. g \in GapsTo(body, n) BY <1>1, <1>5
  <2>2. BoxesTo(body, n + 1, g, "done") = BoxesTo(body, n, g, "done") BY <1>2, OneMoreLine
  <2>3. BoxesTo(body, n + 1, g, "todo") = BoxesTo(body, n, g, "todo") BY <1>2, OneMoreLine
  <2>4. acc.cur.gap BY <2>1 DEF GapsSay
  <2>5. Cardinality(GapsTo(body, n)) = Len(acc.units) + 1 BY <2>4 DEF GapsSay
  <2>6. Rank(body, g) \in Nat /\ Rank(body, g) > 0 BY <1>0, <2>1, GapsAndRanks
  <2>7. CASE LastGap(body, n, g)
    <3>1. Rank(body, g) = Len(acc.units) + 1 BY <1>0, <2>1, <2>5, <2>7, GapsAndRanks
    <3>2. t.units[Rank(body, g)].done <=> acc.cur.x > 0 /\ acc.cur.todo = 0 BY <1>9, <1>11, <2>4, <3>1
    <3>3. acc.cur.todo \in Nat BY DEF ScanShape
    <3>4. acc.cur.todo = 0 <=> ~(acc.cur.todo > 0) BY <3>3
    <3>5. (acc.cur.x > 0 <=> BoxesTo(body, n, g, "done") # {}) /\ (acc.cur.todo > 0 <=> BoxesTo(body, n, g, "todo") # {})
      BY <2>7 DEF LastSays
    <3> QED BY <2>2, <2>3, <3>2, <3>4, <3>5
  <2>8. CASE ~LastGap(body, n, g)
    <3>1. Rank(body, g) < Len(acc.units) + 1 BY <1>0, <2>1, <2>5, <2>8, GapsAndRanks
    <3>2. Rank(body, g) \in 1..Len(acc.units) BY <1>7, <2>6, <3>1
    <3>3. t.units[Rank(body, g)] = acc.units[Rank(body, g)] BY <1>11, <2>4, <3>2
    <3>4. acc.units[Rank(body, g)].done <=> BoxesTo(body, n, g, "done") # {} /\ BoxesTo(body, n, g, "todo") = {}
      BY <2>1, <2>8 DEF OthersSay
    <3> QED BY <2>2, <2>3, <3>3, <3>4
  <2> QED BY <2>7, <2>8
<1> QED BY <1>12, <1>13, <1>14

\* One more line: what the loop holds goes on saying what the lines before it hold.
LEMMA ScanGoesOn ==
  ASSUME NEW body \in Seq(Lines), NEW n \in 0..(Len(body) - 1), NEW acc, NEW t,
         ScanShape(acc), ScanSays(body, n, acc), t = LineStep(acc, body[n + 1])
  PROVE  ScanShape(t) /\ ScanSays(body, n + 1, t)
<1>0. n \in Nat /\ n + 1 \in 1..Len(body) /\ DOMAIN body = 1..Len(body) BY LenProperties
<1>1. PICK l : l = body[n + 1] OBVIOUS
<1>2. l \in Lines BY <1>0, <1>1, ElementOfSeq
<1>31. ScanShape(t) /\ LineMakes(acc, l, t) BY <1>1, <1>2, LineFields
<1>3. /\ l = "fence" => t.fenced = ~acc.fenced /\ SaidNothing(acc, t)
      /\ l # "fence" => t.fenced = acc.fenced
      /\ l # "fence" /\ acc.fenced => SaidNothing(acc, t)
      /\ ~acc.fenced =>
           /\ l \in {"category", "owner"} => SaidNothing(acc, t)
           /\ l = "gap" => NewGap(acc, t)
           /\ l = "status" => IF acc.cur.gap THEN SectionIs(acc, t, TRUE) ELSE SaidNothing(acc, t)
           /\ l = "heading" => IF acc.cur.gap THEN SectionIs(acc, t, FALSE) ELSE SaidNothing(acc, t)
           /\ l = "done" => IF acc.cur.inStatus THEN BoxCounted(acc, t, 1, 0) ELSE SaidNothing(acc, t)
           /\ l = "todo" => IF acc.cur.inStatus THEN BoxCounted(acc, t, 0, 1) ELSE SaidNothing(acc, t)
  BY <1>31 DEF LineMakes
<1>4. /\ GapsSay(body, n, acc) /\ LastSays(body, n, acc) /\ OthersSay(body, n, acc)
      /\ acc.fenced <=> InCode(body, n + 1)
      /\ acc.cur.inStatus => acc.cur.gap
  BY DEF ScanSays, GapsSay
<1>5. /\ acc.fenced \in BOOLEAN /\ acc.cur.gap \in BOOLEAN /\ acc.cur.inStatus \in BOOLEAN
      /\ acc.cur.x \in Nat /\ acc.cur.todo \in Nat
  BY DEF ScanShape
<1>6. \A k : k # "fence" => (n + 1 \in Plain(body, k) <=> l = k /\ ~acc.fenced) BY <1>1, <1>4, WhatALineIs
<1>7. t.fenced <=> InCode(body, (n + 1) + 1)
  <2>1. InCode(body, n + 2) <=> IF l = "fence" THEN ~InCode(body, n + 1) ELSE InCode(body, n + 1)
    BY <1>0, <1>1, CodeLineByLine
  <2>2. (n + 1) + 1 = n + 2 BY <1>0
  <2> QED BY <1>3, <1>4, <1>5, <2>1, <2>2
<1>8. GapsSay(body, n + 1, t) /\ LastSays(body, n + 1, t) /\ OthersSay(body, n + 1, t)
  <2>1. CASE SaidNothing(acc, t) /\ ~(l = "gap" /\ ~acc.fenced)
               /\ (acc.cur.gap => ~(l \in {"status", "heading"} /\ ~acc.fenced))
               /\ (acc.cur.inStatus => ~(l \in {"done", "todo"} /\ ~acc.fenced))
    <3>1. n + 1 \notin Plain(body, "gap") BY <1>6, <2>1
    <3>2. acc.cur.gap => n + 1 \notin Plain(body, "status") /\ n + 1 \notin Plain(body, "heading") BY <1>6, <2>1
    <3>3. acc.cur.inStatus => n + 1 \notin Plain(body, "done") /\ n + 1 \notin Plain(body, "todo") BY <1>6, <2>1
    <3> QED BY <1>4, <2>1, <3>1, <3>2, <3>3, QuietLine
  <2>2. CASE l = "gap" /\ ~acc.fenced
    <3>1. n + 1 \in Plain(body, "gap") /\ NewGap(acc, t) BY <1>3, <1>6, <2>2
    <3> QED BY <1>4, <3>1, GapLine
  <2>3. CASE l = "status" /\ ~acc.fenced /\ acc.cur.gap
    <3>1. SectionIs(acc, t, TRUE) BY <1>3, <2>3
    <3>2. /\ n + 1 \in Plain(body, "status") /\ n + 1 \notin Plain(body, "gap")
          /\ n + 1 \notin Plain(body, "done") /\ n + 1 \notin Plain(body, "todo")
      BY <1>6, <2>3
    <3> QED BY <1>4, <2>3, <3>1, <3>2, SectionLine
  <2>4. CASE l = "heading" /\ ~acc.fenced /\ acc.cur.gap
    <3>1. SectionIs(acc, t, FALSE) BY <1>3, <2>4
    <3>2. /\ n + 1 \in Plain(body, "heading") /\ n + 1 \notin Plain(body, "gap")
          /\ n + 1 \notin Plain(body, "done") /\ n + 1 \notin Plain(body, "todo")
      BY <1>6, <2>4
    <3> QED BY <1>4, <2>4, <3>1, <3>2, SectionLine
  <2>5. CASE l = "done" /\ ~acc.fenced /\ acc.cur.inStatus
    <3>1. n + 1 \in Plain(body, "done") /\ BoxCounted(acc, t, 1, 0) BY <1>3, <1>6, <2>5
    <3> QED BY <1>4, <1>5, <2>5, <3>1, BoxLine
  <2>6. CASE l = "todo" /\ ~acc.fenced /\ acc.cur.inStatus
    <3>1. n + 1 \in Plain(body, "todo") /\ BoxCounted(acc, t, 0, 1) BY <1>3, <1>6, <2>6
    <3> QED BY <1>4, <1>5, <2>6, <3>1, BoxLine
  <2> QED BY <1>2, <1>3, <1>4, <1>5, <2>1, <2>2, <2>3, <2>4, <2>5, <2>6 DEF Lines
<1> QED BY <1>31, <1>7, <1>8 DEF ScanSays

\* After each number of lines the loop holds what those lines hold.
LEMMA ScanIsOfTheBody ==
  ASSUME NEW body \in Seq(Lines)
  PROVE  \A n \in 0..Len(body) : ScanShape(UnitScan(body)[n]) /\ ScanSays(body, n, UnitScan(body)[n])
<1>0. Len(body) \in Nat /\ DOMAIN body = 1..Len(body) BY LenProperties
<1> DEFINE M == {n \in Nat : n <= Len(body) => ScanShape(UnitScan(body)[n]) /\ ScanSays(body, n, UnitScan(body)[n])}
<1>1. 0 \in M
  <2>1. PICK acc : acc = UnitScan(body)[0] OBVIOUS
  <2>2. acc = [fenced |-> FALSE, units |-> <<>>, cur |-> NoGap] BY <2>1, ScanStepByStep
  <2>3. PICK none, unit : none = NoGap /\ unit = [cat : {"none", "bug"}, done : BOOLEAN] OBVIOUS
  <2>4. none \in [gap : BOOLEAN, cat : {"none", "bug"}, x : Nat, todo : Nat, inStatus : BOOLEAN]
        /\ none.gap = FALSE /\ none.inStatus = FALSE
    BY <2>3 DEF NoGap
  <2>5. <<>> \in Seq(unit) /\ Len(<<>>) = 0 BY EmptySeq
  <2>6. acc = [fenced |-> FALSE, units |-> <<>>, cur |-> none] BY <2>2, <2>3
  <2>7. acc.fenced = FALSE /\ acc.units = <<>> /\ acc.cur = none BY <2>6
  <2>8. ScanShape(acc) BY <2>3, <2>4, <2>5, <2>6, <2>7 DEF ScanShape
  <2>9. GapsTo(body, 0) = {} BY <1>0 DEF GapsTo, Plain
  <2>10. GapsSay(body, 0, acc)
    <3>1. Cardinality(GapsTo(body, 0)) = 0 BY <2>9, FS_EmptySet
    <3>2. acc.cur.gap = FALSE /\ acc.cur.inStatus = FALSE /\ Len(acc.units) = 0 BY <2>4, <2>5, <2>7
    <3> QED BY <2>9, <3>1, <3>2 DEF GapsSay
  <2>11. LastSays(body, 0, acc) BY <2>9 DEF LastSays, LastGap
  <2>12. OthersSay(body, 0, acc) BY <2>9 DEF OthersSay
  <2>13. acc.fenced <=> InCode(body, 0 + 1) BY <2>7, CodeLineByLine
  <2>14. ScanSays(body, 0, acc) BY <2>10, <2>11, <2>12, <2>13 DEF ScanSays
  <2> QED BY <2>1, <2>8, <2>14
<1>2. \A n \in Nat : n \in M => n + 1 \in M
  <2> SUFFICES ASSUME NEW n \in Nat, n \in M, n + 1 <= Len(body)
               PROVE  ScanShape(UnitScan(body)[n + 1]) /\ ScanSays(body, n + 1, UnitScan(body)[n + 1])
    OBVIOUS
  <2>1. PICK acc, t : acc = UnitScan(body)[n] /\ t = UnitScan(body)[n + 1] OBVIOUS
  <2>2. n \in 0..(Len(body) - 1) /\ n + 1 \in 1..Len(body) /\ n <= Len(body) /\ (n + 1) - 1 = n BY <1>0
  <2>3. ScanShape(acc) /\ ScanSays(body, n, acc) BY <2>1, <2>2
  <2>4. t = LineStep(acc, body[n + 1]) BY <2>1, <2>2, ScanStepByStep
  <2>5. ScanShape(t) /\ ScanSays(body, n + 1, t) BY <2>2, <2>3, <2>4, ScanGoesOn
  <2> QED BY <2>1, <2>5
<1>3. \A n \in Nat : n \in M
  <2> HIDE DEF M
  <2> QED BY <1>1, <1>2, NumbersByInduction
<1> QED BY <1>0, <1>3

\* The boxes of a gap, said of the body itself, are those the loop has counted for it.
LEMMA BoxesOfAGap ==
  ASSUME NEW body \in Seq(Lines), NEW g \in Plain(body, "gap"), NEW l \in {"done", "todo"}
  PROVE  TicketStatus(body, g) \cap Plain(body, l) = BoxesTo(body, Len(body), g, l)
<1>0. Len(body) \in Nat /\ DOMAIN body = 1..Len(body) BY LenProperties
<1>1. \A k : Plain(body, k) \subseteq 1..Len(body) BY <1>0 DEF Plain
<1>2. g \in 1..Len(body) BY <1>1
<1> DEFINE inGap == {i \in g..Len(body) : \A h \in {k \in Plain(body, "gap") : k > g} : i < h}
<1>3. ASSUME NEW i \in 1..Len(body) PROVE i \in inGap <=> LastGap(body, i, g)
  <2>1. \A h \in Plain(body, "gap") : h \in Nat BY <1>0, <1>1
  <2>2. i \in inGap <=> g <= i /\ \A h \in Plain(body, "gap") : h > g => i < h BY <1>0, <1>2
  <2>3. LastGap(body, i, g) <=> g <= i /\ \A h \in Plain(body, "gap") : h <= i => h <= g BY DEF LastGap, GapsTo
  <2>4. \A h \in Plain(body, "gap") : (h > g => i < h) <=> (h <= i => h <= g) BY <1>0, <1>2, <2>1
  <2> HIDE DEF inGap
  <2> QED BY <2>2, <2>3, <2>4
<1>4. ASSUME NEW i \in Plain(body, l), LastGap(body, i, g)
      PROVE  InSection(body, i - 1, g) <=>
               \E s \in Plain(body, "status") \cap inGap : s < i /\ ~\E h \in Plain(body, "heading") : s < h /\ h < i
  <2>0. i \in 1..Len(body) /\ \A h \in Plain(body, "heading") : h <= i - 1 <=> h < i BY <1>0, <1>1
  <2>1. ASSUME NEW s \in Plain(body, "status"), s < i PROVE s \in inGap <=> g < s
    <3>0. s \in 1..Len(body) /\ s # g BY <1>1 DEF Plain
    <3>1. s \in inGap <=> LastGap(body, s, g) BY <1>3, <3>0
    <3>2. s \in inGap => g <= s OBVIOUS
    <3>3. ASSUME g < s PROVE LastGap(body, s, g)
      <4>1. \A h \in Plain(body, "gap") : h \in Nat /\ (h <= s => h <= i) BY <1>0, <1>1, <2>0, <2>1, <3>0
      <4>2. g \in GapsTo(body, s) BY <1>2, <3>0, <3>3 DEF GapsTo
      <4> QED BY <1>4, <4>1, <4>2 DEF LastGap, GapsTo
    <3> HIDE DEF inGap
    <3> QED BY <1>2, <3>0, <3>1, <3>2, <3>3
  <2>2. \A s \in Plain(body, "status") : s <= i - 1 <=> s < i BY <1>0, <1>1, <2>0
  <2> HIDE DEF inGap
  <2> QED BY <2>0, <2>1, <2>2 DEF InSection
<1>5. TicketStatus(body, g) = {i \in inGap : \E s \in Plain(body, "status") \cap inGap :
                                 s < i /\ ~\E h \in Plain(body, "heading") : s < h /\ h < i}
  BY DEF TicketStatus
<1>6. \A i \in Plain(body, l) : i \in 1..Len(body) /\ i <= Len(body) BY <1>0, <1>1
<1> HIDE DEF inGap
<1> QED BY <1>3, <1>4, <1>5, <1>6 DEF BoxesTo

\* At the end of the body the units are its gaps.
LEMMA UnitsOfABody ==
  ASSUME NEW body \in Seq(Lines), NEW acc, ScanShape(acc), ScanSays(body, Len(body), acc), NEW us,
         us = Flush(acc.units, acc.cur)
  PROVE  /\ Len(us) = Cardinality(Plain(body, "gap"))
         /\ \A g \in Plain(body, "gap") :
              us[Rank(body, g)].done <=>
                BoxesTo(body, Len(body), g, "done") # {} /\ BoxesTo(body, Len(body), g, "todo") = {}
<1>0. Len(body) \in Nat /\ DOMAIN body = 1..Len(body) BY LenProperties
<1>1. GapsTo(body, Len(body)) = Plain(body, "gap") BY <1>0 DEF GapsTo, Plain
<1>2. /\ GapsSay(body, Len(body), acc) /\ LastSays(body, Len(body), acc) /\ OthersSay(body, Len(body), acc)
  BY DEF ScanSays
<1>3. acc.units \in Seq([cat : {"none", "bug"}, done : BOOLEAN]) /\ Len(acc.units) \in Nat BY LenProperties DEF ScanShape
<1>4. PICK u : u = [cat |-> acc.cur.cat, done |-> acc.cur.x > 0 /\ acc.cur.todo = 0] OBVIOUS
<1>5. u \in [cat : {"none", "bug"}, done : BOOLEAN] /\ (u.done <=> acc.cur.x > 0 /\ acc.cur.todo = 0) BY <1>4 DEF ScanShape
<1>6. us = IF acc.cur.gap THEN Append(acc.units, u) ELSE acc.units BY <1>4 DEF Flush
<1>7. acc.cur.gap => /\ Len(us) = Len(acc.units) + 1 /\ us[Len(acc.units) + 1] = u
                     /\ \A i \in 1..Len(acc.units) : us[i] = acc.units[i]
  BY <1>3, <1>5, <1>6, AppendProperties
<1>8. CASE ~acc.cur.gap
  <2>1. Plain(body, "gap") = {} BY <1>1, <1>2, <1>8 DEF GapsSay
  <2>2. Cardinality(GapsTo(body, Len(body))) = Len(acc.units) BY <1>2, <1>3, <1>8 DEF GapsSay
  <2> QED BY <1>1, <1>6, <1>8, <2>1, <2>2
<1>9. CASE acc.cur.gap
  <2>1. Cardinality(Plain(body, "gap")) = Len(acc.units) + 1 BY <1>1, <1>2, <1>9 DEF GapsSay
  <2>2. ASSUME NEW g \in Plain(body, "gap")
        PROVE  us[Rank(body, g)].done <=>
                 BoxesTo(body, Len(body), g, "done") # {} /\ BoxesTo(body, Len(body), g, "todo") = {}
    <3>1. Rank(body, g) \in Nat /\ Rank(body, g) > 0 BY <1>0, <1>1, GapsAndRanks
    <3>2. CASE LastGap(body, Len(body), g)
      <4>1. Rank(body, g) = Len(acc.units) + 1 BY <1>0, <1>1, <2>1, <3>2, GapsAndRanks
      <4>2. us[Rank(body, g)].done <=> acc.cur.x > 0 /\ acc.cur.todo = 0 BY <1>5, <1>7, <1>9, <4>1
      <4>3. acc.cur.todo \in Nat BY DEF ScanShape
      <4>4. acc.cur.todo = 0 <=> ~(acc.cur.todo > 0) BY <4>3
      <4>5. (acc.cur.x > 0 <=> BoxesTo(body, Len(body), g, "done") # {})
            /\ (acc.cur.todo > 0 <=> BoxesTo(body, Len(body), g, "todo") # {})
        BY <1>2, <3>2 DEF LastSays
      <4> QED BY <4>2, <4>4, <4>5
    <3>3. CASE ~LastGap(body, Len(body), g)
      <4>1. Rank(body, g) < Len(acc.units) + 1 BY <1>0, <1>1, <2>1, <3>3, GapsAndRanks
      <4>2. Rank(body, g) \in 1..Len(acc.units) BY <1>3, <3>1, <4>1
      <4>3. us[Rank(body, g)] = acc.units[Rank(body, g)] BY <1>7, <1>9, <4>2
      <4> QED BY <1>1, <1>2, <3>3, <4>3 DEF OthersSay
    <3> QED BY <3>2, <3>3
  <2> QED BY <1>7, <1>9, <2>1, <2>2
<1> QED BY <1>8, <1>9

\* The board holds the units of the body as it stands, or nothing.
LEMMA BoardInitial ==
  ASSUME BoardInit
  PROVE  BoardIInv
<1>1. ticket \in Tickets /\ board = Unread BY DEF BoardInit
<1>2. ticket.body = <<>>
  <2>1. \E k, g, c, o, p : ticket = Ticket(k, g, c, o, p) BY <1>1, Zenon DEF Tickets
  <2>2. PICK k, g, c, o, p : ticket = Ticket(k, g, c, o, p) BY <2>1
  <2>3. PICK front : front = [category |-> c, owner |-> o, suspected |-> p] OBVIOUS
  <2>4. ticket = [kind |-> k, signal |-> g, suffix |-> "", body |-> <<>>, front |-> front]
    BY <2>2, <2>3, Zenon DEF Ticket
  <2> QED BY <2>4
<1>3. board.listed = "unread" BY <1>1 DEF Unread
<1> QED BY <1>2, <1>3, EmptySeq DEF BoardIInv

\* Whatever is written or renamed, and whenever the board is collected.
LEMMA BoardInvariance ==
  ASSUME BoardIInv, [BoardNext]_boardVars
  PROVE  BoardIInv'
<1>1. CASE UNCHANGED boardVars BY <1>1 DEF boardVars, BoardIInv
<1>2. ASSUME NEW l \in Lines, WriteLine(l) PROVE BoardIInv'
  <2>1. ticket' = [ticket EXCEPT !.body = Append(@, l)] /\ board' = Unread BY <1>2 DEF WriteLine
  <2>2. board'.listed = "unread" BY <2>1 DEF Unread
  <2>3. ticket.body \in Seq(Lines) BY DEF BoardIInv
  <2>4. Append(ticket.body, l) \in Seq(Lines) BY <2>3, AppendProperties
  <2> QED BY <2>1, <2>2, <2>4 DEF BoardIInv
<1>3. ASSUME NEW suffix, Rename(suffix) PROVE BoardIInv'
  <2>1. ticket' = [ticket EXCEPT !.suffix = suffix] /\ board' = Unread BY <1>3 DEF Rename
  <2>2. board'.listed = "unread" BY <2>1 DEF Unread
  <2> QED BY <2>1, <2>2 DEF BoardIInv
<1>4. CASE CollectHandoff
  <2>1. ticket' = ticket BY <1>4 DEF CollectHandoff
  <2>2. ASSUME board'.listed = "OPEN", ticket'.kind = "skill-feedback" PROVE board'.units = HandoffUnits(ticket'.front, ticket'.body)
    <3>1. CASE Listed(ticket) # "OPEN"
      <4>1. PICK how : how = Listed(ticket) OBVIOUS
      <4>2. board' = [listed |-> how, units |-> <<>>] BY <1>4, <3>1, <4>1 DEF CollectHandoff
      <4> QED BY <2>2, <3>1, <4>1, <4>2
    <3>2. CASE Listed(ticket) = "OPEN"
      <4>1. PICK us, pr, cl, n : us = HandoffUnits(ticket.front, ticket.body) /\ pr = TicketProgress(ticket.body)
                                 /\ cl = HandoffClassify(ticket) /\ n = TicketPriority(ticket.kind)
        OBVIOUS
      <4>2. board' = [listed |-> "OPEN", units |-> us, progress |-> pr, class |-> cl, priority |-> n]
        BY <1>4, <2>1, <2>2, <3>2, <4>1 DEF CollectHandoff
      <4> QED BY <2>1, <4>1, <4>2
    <3> QED BY <3>1, <3>2
  <2> QED BY <2>1, <2>2 DEF BoardIInv
<1> QED BY <1>1, <1>2, <1>3, <1>4 DEF BoardNext

\* The units that a pass holds are the gaps of the body.
LEMMA UnitsAreOfTheGaps ==
  ASSUME BoardIInv
  PROVE  UnitsAreTheGaps
<1> SUFFICES ASSUME board.listed = "OPEN", ticket.kind = "skill-feedback", ticket.front.category \in {"none", "mixed"}
             PROVE  LET body == ticket.body
                        gaps == Plain(body, "gap")
                        boxes(g, l) == TicketStatus(body, g) \cap Plain(body, l)
                    IN  /\ Len(board.units) = Cardinality(gaps)
                        /\ \A g \in gaps :
                             board.units[Cardinality({h \in gaps : h <= g})].done <=>
                               boxes(g, "done") # {} /\ boxes(g, "todo") = {}
  BY DEF UnitsAreTheGaps
<1>1. PICK body, us, acc : body = ticket.body /\ us = board.units /\ acc = UnitScan(body)[Len(body)] OBVIOUS
<1>2. body \in Seq(Lines) /\ us = HandoffUnits(ticket.front, body) BY <1>1 DEF BoardIInv
<1>3. us = Flush(acc.units, acc.cur) BY <1>1, <1>2 DEF HandoffUnits
<1>4. Len(body) \in 0..Len(body) BY <1>2, LenProperties
<1>5. ScanShape(acc) /\ ScanSays(body, Len(body), acc) BY <1>1, <1>2, <1>4, ScanIsOfTheBody
<1>6. /\ Len(us) = Cardinality(Plain(body, "gap"))
      /\ \A g \in Plain(body, "gap") :
           us[Rank(body, g)].done <=>
             BoxesTo(body, Len(body), g, "done") # {} /\ BoxesTo(body, Len(body), g, "todo") = {}
  BY <1>2, <1>3, <1>5, UnitsOfABody
<1>7. ASSUME NEW g \in Plain(body, "gap")
      PROVE  us[Cardinality({h \in Plain(body, "gap") : h <= g})].done <=>
               TicketStatus(body, g) \cap Plain(body, "done") # {} /\ TicketStatus(body, g) \cap Plain(body, "todo") = {}
  <2>1. TicketStatus(body, g) \cap Plain(body, "done") = BoxesTo(body, Len(body), g, "done") BY <1>2, BoxesOfAGap
  <2>2. TicketStatus(body, g) \cap Plain(body, "todo") = BoxesTo(body, Len(body), g, "todo") BY <1>2, BoxesOfAGap
  <2>3. Cardinality({h \in Plain(body, "gap") : h <= g}) = Rank(body, g) BY DEF Rank, GapsTo
  <2> QED BY <1>6, <2>1, <2>2, <2>3
<1> QED BY <1>1, <1>6, <1>7

\* The units of the roll-up are the gaps of the ticket, and each is done exactly if its own Status
\* sections say so (handoff_units, whose loop sees one line after another).
THEOREM BoardRollsUpTheGaps == BoardSpec => []UnitsAreTheGaps
<1>1. BoardInit => BoardIInv BY BoardInitial
<1>2. BoardIInv /\ [BoardNext]_boardVars => BoardIInv' BY BoardInvariance
<1>3. BoardIInv => UnitsAreTheGaps BY UnitsAreOfTheGaps
<1> QED BY <1>1, <1>2, <1>3, PTL DEF BoardSpec
=============================================================================
