----------------------------- MODULE ListeningFacts -----------------------------
(***************************************************************************)
(* Facts that the proofs about Listening rest on and that are about no     *)
(* step of it. First those about sequences and sets: what a fold of a      *)
(* sequence keeps and reaches, that a set of documents can be listed in    *)
(* ascending order, that there is a target id in use nowhere, and how a    *)
(* count of messages changes with a queue of them. Induction is done with  *)
(* sets of numbers and the least-element theorem WFMin, the folds of the   *)
(* library by what their recursive function is equal to. Then what the     *)
(* pair of the remote store and of the limbo lookups owes to itself and to *)
(* the messages under way (Sound), that each operator the worker queue's   *)
(* operations are built from keeps Sound, and what it leaves of the query  *)
(* itself (QueryKept).                                                     *)
(***************************************************************************)
EXTENDS Listening, FiniteSetTheorems, WellFoundedInduction, TLAPS

LessThan == {ss \in Nat \X Nat : ss[1] < ss[2]}

(* A set with 0 and with the successor of each natural number it has has   *)
(* them all.                                                               *)
LEMMA SetInduction ==
    ASSUME NEW S, 0 \in S, \A n \in Nat : n \in S => n + 1 \in S
    PROVE  Nat \subseteq S
<1> SUFFICES ASSUME Nat \ S # {} PROVE FALSE
  OBVIOUS
<1>1. IsWellFoundedOn(LessThan, Nat)
  <2>1. LessThan = OpToRel(<, Nat)
    BY DEF LessThan, OpToRel
  <2> QED  BY <2>1, NatLessThanWellFounded
<1>2. Nat \ S \subseteq Nat
  OBVIOUS
<1>3. PICK x \in Nat \ S : \A y \in Nat \ S : ~ (<<y, x>> \in LessThan)
  BY ONLY <1>1, <1>2, WFMin, Nat \ S # {}
<1>4. x # 0 /\ x - 1 \in Nat
  OBVIOUS
<1>5. <<x - 1, x>> \in Nat \X Nat /\ x - 1 < x
  BY <1>4
<1>6. <<x - 1, x>> \in LessThan
  BY <1>5 DEF LessThan
<1> QED  BY <1>3, <1>4, <1>6

--------------------------------------------------------------------------------
(* A set of numbers below a bound has a largest one.                       *)
LEMMA LargestOf ==
    ASSUME NEW n \in Nat, NEW s \in SUBSET (1 .. n), s # {}
    PROVE  Max(s) \in s /\ \A x \in s : x <= Max(s)
<1> DEFINE S == {m \in Nat : \A t \in SUBSET (1 .. m) : t # {} => \E x \in t : \A y \in t : x >= y}
<1>1. 0 \in S
  <2>1. 1 .. 0 = {}
    OBVIOUS
  <2> QED  BY <2>1
<1>2. ASSUME NEW m \in Nat, m \in S
      PROVE  m + 1 \in S
  <2> SUFFICES ASSUME NEW t \in SUBSET (1 .. m + 1), t # {}
               PROVE  \E x \in t : \A y \in t : x >= y
    OBVIOUS
  <2>1. CASE m + 1 \in t
    BY <2>1
  <2>2. CASE m + 1 \notin t
    <3>1. t \in SUBSET (1 .. m)
      BY <2>2
    <3> QED  BY <1>2, <3>1
  <2> QED  BY <2>1, <2>2
<1>3. n \in S
  <2> HIDE DEF S
  <2> QED  BY <1>1, <1>2, SetInduction
<1>4. \E x \in s : \A y \in s : x >= y
  BY <1>3
<1>5. s \subseteq Int
  OBVIOUS
<1> QED  BY <1>4, <1>5 DEF Max

LEMMA WithoutLargest ==
    ASSUME NEW m \in Nat, NEW s \in SUBSET (1 .. m + 1)
    PROVE  /\ m + 1 \in s => Max(s) = m + 1 /\ s \ {Max(s)} \in SUBSET (1 .. m)
           /\ m + 1 \notin s => s \in SUBSET (1 .. m)
<1>1. ASSUME m + 1 \in s
      PROVE  Max(s) = m + 1
  <2>1. m + 1 \in Nat /\ s # {}
    BY <1>1
  <2>2. Max(s) \in s /\ \A x \in s : x <= Max(s)
    BY ONLY <2>1, LargestOf, s \in SUBSET (1 .. m + 1)
  <2> DEFINE x == Max(s)
  <2>3. x \in 1 .. m + 1
    BY <2>2
  <2> HIDE DEF x
  <2>4. m + 1 <= x
    BY <1>1, <2>2 DEF x
  <2>5. x = m + 1
    BY <2>3, <2>4
  <2> QED  BY <2>5 DEF x
<1>2. m + 1 \notin s => s \in SUBSET (1 .. m)
  OBVIOUS
<1>3. s \ {m + 1} \in SUBSET (1 .. m)
  OBVIOUS
<1> QED  BY <1>1, <1>2, <1>3

(* What holds of the empty set of positions, and of a set whenever it      *)
(* holds of the set without its largest, holds of all.                     *)
LEMMA PositionsInduction ==
    ASSUME NEW n \in Nat, NEW Good, {} \in Good,
           \A s \in SUBSET (1 .. n) :
             s # {} /\ Max(s) \in s /\ s \ {Max(s)} \in Good => s \in Good
    PROVE  \A s \in SUBSET (1 .. n) : s \in Good
<1> DEFINE S == {m \in Nat : \A s \in SUBSET (1 .. n) : s \in SUBSET (1 .. m) => s \in Good}
<1>1. 0 \in S
  <2>1. \A s \in SUBSET (1 .. 0) : s = {}
    OBVIOUS
  <2> QED  BY <2>1
<1>2. ASSUME NEW m \in Nat, m \in S
      PROVE  m + 1 \in S
  <2> SUFFICES ASSUME NEW s \in SUBSET (1 .. n), s \in SUBSET (1 .. m + 1)
               PROVE  s \in Good
    OBVIOUS
  <2>1. CASE m + 1 \in s
    <3>1. s \ {Max(s)} \in SUBSET (1 .. m) /\ s \ {Max(s)} \in SUBSET (1 .. n)
      BY <2>1, WithoutLargest
    <3>2. s \ {Max(s)} \in Good
      BY <1>2, <3>1
    <3>3. Max(s) \in s
      BY <2>1, WithoutLargest
    <3> QED  BY <2>1, <3>2, <3>3
  <2>2. CASE m + 1 \notin s
    BY <1>2, <2>2, WithoutLargest
  <2> QED  BY <2>1, <2>2
<1>3. n \in S
  <2> HIDE DEF S
  <2> QED  BY <1>1, <1>2, SetInduction
<1> QED  BY <1>3

(* iter is the function a fold of the first m of ks is computed with.      *)
IsFold(iter, F, base, ks, m) ==
    \A s \in SUBSET (1 .. m) :
      iter[s] = IF s = {} THEN base ELSE F[<<iter[s \ {Max(s)}], ks[Max(s)]>>]

IsFoldOf(iter, F, base, ks) ==
    iter = [s \in SUBSET DOMAIN ks |->
              IF s = {} THEN base ELSE F[<<iter[s \ {Max(s)}], ks[Max(s)]>>]]

CanFold(U, F, base, ks, m) ==
    \E iter \in [SUBSET (1 .. m) -> U] : IsFold(iter, F, base, ks, m)

(* The recursive function of a fold exists, and its values stay in a set   *)
(* that the function folded does not lead out of.                          *)
LEMMA FoldExists ==
    ASSUME NEW U, NEW K, NEW F \in [U \X K -> U], NEW base \in U, NEW ks \in Seq(K)
    PROVE  \E iter \in [SUBSET DOMAIN ks -> U] : IsFoldOf(iter, F, base, ks)
<1> DEFINE S == {m \in Nat : m <= Len(ks) => CanFold(U, F, base, ks, m)}
<1>1. 0 \in S
  <2>1. 1 .. 0 = {} /\ SUBSET {} = {{}}
    OBVIOUS
  <2>2. [s \in SUBSET (1 .. 0) |-> base] \in [SUBSET (1 .. 0) -> U]
    OBVIOUS
  <2>3. IsFold([s \in SUBSET (1 .. 0) |-> base], F, base, ks, 0)
    BY <2>1 DEF IsFold
  <2> QED  BY <2>2, <2>3 DEF CanFold
<1>2. ASSUME NEW m \in Nat, m \in S
      PROVE  m + 1 \in S
  <2> SUFFICES ASSUME m + 1 <= Len(ks)
               PROVE  CanFold(U, F, base, ks, m + 1)
    OBVIOUS
  <2>0. CanFold(U, F, base, ks, m)
    BY <1>2
  <2>1. PICK old \in [SUBSET (1 .. m) -> U] : IsFold(old, F, base, ks, m)
    BY <2>0 DEF CanFold
  <2> DEFINE new == [s \in SUBSET (1 .. m + 1) |->
                       IF m + 1 \in s THEN F[<<old[s \ {m + 1}], ks[m + 1]>>] ELSE old[s]]
  <2>2. ks[m + 1] \in K
    OBVIOUS
  <2>3. ASSUME NEW s \in SUBSET (1 .. m + 1)
        PROVE  new[s] \in U
    <3>1. CASE m + 1 \in s
      <4>1. s \ {m + 1} \in SUBSET (1 .. m)
        BY <3>1
      <4>2. <<old[s \ {m + 1}], ks[m + 1]>> \in U \X K
        BY <2>2, <4>1
      <4> QED  BY <3>1, <4>2
    <3>2. CASE m + 1 \notin s
      BY <3>2
    <3> QED  BY <3>1, <3>2
  <2>4. ASSUME NEW s \in SUBSET (1 .. m + 1)
        PROVE  new[s] = IF s = {} THEN base ELSE F[<<new[s \ {Max(s)}], ks[Max(s)]>>]
    <3>1. CASE m + 1 \in s
      <4>1. /\ Max(s) = m + 1 /\ s \ {Max(s)} \in SUBSET (1 .. m)
            /\ s \ {Max(s)} \in SUBSET (1 .. m + 1)
        BY <3>1, WithoutLargest
      <4>2. new[s \ {Max(s)}] = old[s \ {Max(s)}]
        BY <4>1
      <4> QED  BY <3>1, <4>1, <4>2
    <3>2. CASE m + 1 \notin s
      <4>1. s \in SUBSET (1 .. m)
        BY <3>2, WithoutLargest
      <4>2. CASE s = {}
        BY <2>1, <3>2, <4>1, <4>2 DEF IsFold
      <4>3. CASE s # {}
        <5>1. Max(s) \in s
          BY <4>1, <4>3, LargestOf
        <5>2. s \ {Max(s)} \in SUBSET (1 .. m) /\ s \ {Max(s)} \in SUBSET (1 .. m + 1)
          BY <4>1
        <5>3. m + 1 \notin s \ {Max(s)}
          BY <3>2
        <5>4. new[s \ {Max(s)}] = old[s \ {Max(s)}]
          BY <5>2, <5>3
        <5>5. old[s] = F[<<old[s \ {Max(s)}], ks[Max(s)]>>]
          BY <2>1, <4>1, <4>3 DEF IsFold
        <5> QED  BY <3>2, <4>3, <5>4, <5>5
      <4> QED  BY <4>2, <4>3
    <3> QED  BY <3>1, <3>2
  <2>5. new \in [SUBSET (1 .. m + 1) -> U]
    BY <2>3
  <2>6. IsFold(new, F, base, ks, m + 1)
    <3> HIDE DEF new
    <3> QED  BY <2>4 DEF IsFold
  <2> HIDE DEF new
  <2> QED  BY <2>5, <2>6 DEF CanFold
<1>3. Len(ks) \in S
  <2> HIDE DEF S
  <2> QED  BY <1>1, <1>2, SetInduction
<1>4. DOMAIN ks = 1 .. Len(ks)
  OBVIOUS
<1>5. PICK iter \in [SUBSET (1 .. Len(ks)) -> U] : IsFold(iter, F, base, ks, Len(ks))
  <2>1. Len(ks) <= Len(ks)
    OBVIOUS
  <2> QED  BY <1>3, <2>1 DEF CanFold
<1>6. IsFoldOf(iter, F, base, ks)
  BY <1>4, <1>5 DEF IsFold, IsFoldOf
<1> QED  BY <1>4, <1>5, <1>6

--------------------------------------------------------------------------------
LEMMA SurjectionByElements ==
    ASSUME NEW A, NEW B, NEW f \in [A -> B], \A b \in B : \E a \in A : f[a] = b
    PROVE  f \in Surjection(A, B)
BY DEF Surjection

LEMMA InjectionByElements ==
    ASSUME NEW A, NEW B, NEW f \in [A -> B], \A a, b \in A : f[a] = f[b] => a = b
    PROVE  f \in Injection(A, B)
BY DEF Injection, IsInjective

(* The values of a function on a finite set are finitely many.             *)
LEMMA FiniteImage ==
    ASSUME NEW A, IsFiniteSet(A), NEW f
    PROVE  IsFiniteSet({f[a] : a \in A})
<1> DEFINE B == {f[a] : a \in A}
           g == [a \in A |-> f[a]]
<1>1. g \in Surjection(A, B)
  BY SurjectionByElements
<1> QED  BY <1>1, FS_Surjection

(* A finite set of numbers in which there is 0 leaves out one of the first *)
(* numbers after 0, as many as the set has.                                *)
LEMMA FreeNumber ==
    ASSUME NEW A \in SUBSET Nat, IsFiniteSet(A), 0 \in A
    PROVE  \E i \in 1 .. Cardinality(A) : i \notin A
<1> DEFINE n == Cardinality(A)
<1> SUFFICES ASSUME 1 .. n \subseteq A PROVE FALSE
  OBVIOUS
<1>1. n \in Nat
  BY FS_CardinalityType
<1>2. IsFiniteSet(A \ {0}) /\ Cardinality(A \ {0}) = n - 1
  BY FS_RemoveElement
<1>3. 1 .. n \in SUBSET (A \ {0})
  BY <1>1
<1>4. Cardinality(1 .. n) <= n - 1
  BY ONLY <1>2, <1>3, FS_Subset
<1>5. Cardinality(1 .. n) = n
  <2>1. Cardinality(1 .. n) = IF 1 > n THEN 0 ELSE n - 1 + 1
    BY <1>1, FS_Interval
  <2> QED  BY <1>1, <2>1
<1> HIDE DEF n
<1> QED  BY <1>1, <1>4, <1>5

--------------------------------------------------------------------------------
(* Ascending lists the numbers of a finite set, each and no others.        *)
LEMMA AscendingFacts ==
    ASSUME NEW ks \in SUBSET Nat, IsFiniteSet(ks)
    PROVE  /\ Ascending(ks) \in Seq(ks)
           /\ \A k \in ks : \E i \in DOMAIN Ascending(ks) : Ascending(ks)[i] = k
           /\ \A i, j \in DOMAIN Ascending(ks) : Ascending(ks)[i] = Ascending(ks)[j] => i = j
           /\ \A i \in DOMAIN Ascending(ks) : Ascending(ks)[i] = 0 => i = 1
<1> DEFINE upTo(k) == {j \in ks : j <= k}
           n == Cardinality(ks)
           rank == [k \in ks |-> Cardinality(upTo(k))]
<1>1. n \in Nat
  BY FS_CardinalityType
<1>2. ASSUME NEW k \in ks
      PROVE  IsFiniteSet(upTo(k)) /\ rank[k] \in 1 .. n
  <2>1. IsFiniteSet(upTo(k)) /\ Cardinality(upTo(k)) <= n
    <3>1. upTo(k) \in SUBSET ks
      OBVIOUS
    <3> HIDE DEF upTo
    <3> QED  BY <3>1, FS_Subset
  <2>2. Cardinality(upTo(k)) \in Nat
    BY <2>1, FS_CardinalityType
  <2>3. Cardinality(upTo(k)) # 0
    <3>1. k \in upTo(k)
      OBVIOUS
    <3> HIDE DEF upTo
    <3> QED  BY <2>1, <3>1, FS_EmptySet
  <2> HIDE DEF upTo
  <2> QED  BY <1>1, <2>1, <2>2, <2>3
<1>3. ASSUME NEW k \in ks, NEW l \in ks, k < l
      PROVE  rank[k] # rank[l]
  <2>0. k \in Nat /\ l \in Nat /\ \A j \in ks : j \in Nat
    OBVIOUS
  <2>1. upTo(k) \in SUBSET upTo(l) /\ l \in upTo(l) /\ l \notin upTo(k)
    <3>1. \A j \in ks : j <= k => j <= l
      BY <1>3, <2>0
    <3>2. l <= l /\ ~ (l <= k)
      BY <1>3, <2>0
    <3> QED  BY <3>1, <3>2
  <2>2. IsFiniteSet(upTo(l))
    BY <1>2
  <2> HIDE DEF upTo
  <2>3. Cardinality(upTo(l)) = Cardinality(upTo(k)) => upTo(l) = upTo(k)
    BY ONLY <2>1, <2>2, FS_Subset
  <2> QED  BY <2>1, <2>3
<1>4. \A k, l \in ks : rank[k] = rank[l] => k = l
  <2> HIDE DEF rank
  <2>1. \A k, l \in ks : k < l \/ l < k \/ k = l
    OBVIOUS
  <2> QED  BY <1>3, <2>1
<1>5. rank \in [ks -> 1 .. n]
  BY <1>2
<1>6. rank \in Injection(ks, 1 .. n)
  <2> HIDE DEF rank, n
  <2> QED  BY <1>4, <1>5, InjectionByElements
<1>7. IsFiniteSet(1 .. n) /\ Cardinality(1 .. n) = n
  <2>1. IsFiniteSet(1 .. n) /\ Cardinality(1 .. n) = IF 1 > n THEN 0 ELSE n - 1 + 1
    BY <1>1, FS_Interval
  <2> HIDE DEF n
  <2> QED  BY <1>1, <2>1
<1>8. rank \in Surjection(ks, 1 .. n)
  <2>1. Cardinality(ks) = Cardinality(1 .. n)
    BY <1>7
  <2> HIDE DEF rank, n
  <2> QED  BY <1>6, <1>7, <2>1, FS_Injection
<1>9. \A i \in 1 .. n : \E k \in ks : rank[k] = i
  <2> HIDE DEF rank, n
  <2> QED  BY <1>8 DEF Surjection
<1>10. ASSUME NEW i \in 1 .. n
       PROVE  Ascending(ks)[i] \in ks /\ rank[Ascending(ks)[i]] = i
  <2>1. Ascending(ks)[i] = CHOOSE k \in ks : Cardinality(upTo(k)) = i
    BY DEF Ascending
  <2>2. \E k \in ks : Cardinality(upTo(k)) = i
    BY <1>9
  <2> HIDE DEF upTo
  <2> QED  BY <2>1, <2>2
<1>11. Ascending(ks) \in Seq(ks) /\ DOMAIN Ascending(ks) = 1 .. n
  <2>1. DOMAIN Ascending(ks) = 1 .. n
    BY DEF Ascending
  <2>2. Ascending(ks) = [i \in 1 .. n |-> Ascending(ks)[i]]
    BY DEF Ascending
  <2> HIDE DEF n, rank
  <2>3. Ascending(ks) \in [1 .. n -> ks]
    BY <1>10, <2>2
  <2> QED  BY <1>1, <2>1, <2>3
<1>12. ASSUME NEW k \in ks
       PROVE  Ascending(ks)[rank[k]] = k
  <2>1. rank[k] \in 1 .. n
    BY <1>5
  <2> HIDE DEF rank, n
  <2> QED  BY <1>4, <1>10, <2>1
<1>13. 0 \in ks => rank[0] = 1
  <2>1. 0 \in ks => upTo(0) = {0}
    <3>1. \A j \in ks : j <= 0 <=> j = 0
      OBVIOUS
    <3> QED  BY <3>1
  <2> HIDE DEF upTo
  <2> QED  BY <2>1, FS_Singleton
<1> HIDE DEF rank, n
<1>14. \A i \in DOMAIN Ascending(ks) : Ascending(ks)[i] = 0 => i = 1
  BY <1>10, <1>11, <1>13
<1> QED  BY <1>5, <1>10, <1>11, <1>12, <1>14

--------------------------------------------------------------------------------
(* The positions of a queue at which there is a member of A.               *)
Among(q, A) == {i \in DOMAIN q : q[i] \in A}

LEMMA AmongFinite ==
    ASSUME NEW M, NEW q \in Seq(M), NEW A
    PROVE  IsFiniteSet(Among(q, A)) /\ Cardinality(Among(q, A)) \in Nat
<1>1. IsFiniteSet(1 .. Len(q)) /\ Among(q, A) \in SUBSET (1 .. Len(q))
  BY FS_Interval DEF Among
<1>2. IsFiniteSet(Among(q, A))
  BY <1>1, FS_Subset
<1> QED  BY <1>2, FS_CardinalityType

(* A queue with one more has one more of them, if that one is.             *)
LEMMA AmongAppend ==
    ASSUME NEW M, NEW q \in Seq(M), NEW x \in M, NEW A
    PROVE  Cardinality(Among(Append(q, x), A)) =
             Cardinality(Among(q, A)) + (IF x \in A THEN 1 ELSE 0)
<1> DEFINE n == Len(q) + 1
<1>1. n \notin Among(q, A)
  BY DEF Among
<1>2. Among(Append(q, x), A) = IF x \in A THEN Among(q, A) \cup {n} ELSE Among(q, A)
  <2>1. DOMAIN Append(q, x) = 1 .. n /\ DOMAIN q = 1 .. n - 1 /\ n \in Nat \ {0}
    OBVIOUS
  <2>2. \A i \in 1 .. n - 1 : Append(q, x)[i] = q[i]
    OBVIOUS
  <2>3. Append(q, x)[n] = x
    OBVIOUS
  <2> HIDE DEF n
  <2>4. 1 .. n = (1 .. n - 1) \cup {n}
    BY <2>1
  <2> QED  BY <2>1, <2>2, <2>3, <2>4 DEF Among
<1> HIDE DEF n
<1>3. IsFiniteSet(Among(q, A)) /\ Cardinality(Among(q, A)) \in Nat
  BY AmongFinite
<1>4. Cardinality(Among(q, A) \cup {n}) = Cardinality(Among(q, A)) + 1
  BY <1>1, <1>3, FS_AddElement
<1> QED  BY <1>2, <1>3, <1>4

(* A queue without its first has one fewer, if that one was.               *)
LEMMA AmongTail ==
    ASSUME NEW M, NEW q \in Seq(M), q # <<>>, NEW A
    PROVE  Cardinality(Among(Tail(q), A)) =
             Cardinality(Among(q, A)) - (IF Head(q) \in A THEN 1 ELSE 0)
<1> DEFINE rest == Among(q, A) \ {1}
           f == [i \in Among(Tail(q), A) |-> i + 1]
<1>1. /\ DOMAIN q = 1 .. Len(q) /\ DOMAIN Tail(q) = 1 .. Len(q) - 1 /\ Len(q) \in Nat \ {0}
      /\ \A i \in 1 .. Len(q) - 1 : Tail(q)[i] = q[i + 1]
      /\ Head(q) = q[1]
  OBVIOUS
<1>2. f \in [Among(Tail(q), A) -> rest]
  BY <1>1 DEF Among
<1>3. ASSUME NEW j \in rest
      PROVE  \E i \in Among(Tail(q), A) : f[i] = j
  <2>1. j - 1 \in Among(Tail(q), A)
    BY <1>1 DEF Among
  <2>2. f[j - 1] = j
    BY <1>1, <2>1 DEF Among
  <2> QED  BY <2>1, <2>2
<1>4. \A i, j \in Among(Tail(q), A) : f[i] = f[j] => i = j
  BY <1>1 DEF Among
<1>5. IsFiniteSet(Among(Tail(q), A)) /\ Cardinality(Among(Tail(q), A)) \in Nat
  <2>1. Tail(q) \in Seq(M)
    OBVIOUS
  <2> QED  BY <2>1, AmongFinite
<1>6. f \in Surjection(Among(Tail(q), A), rest) /\ f \in Injection(Among(Tail(q), A), rest)
  <2> HIDE DEF f, rest
  <2> QED  BY <1>2, <1>3, <1>4, SurjectionByElements, InjectionByElements
<1>7. Cardinality(rest) = Cardinality(Among(Tail(q), A))
  <2> HIDE DEF f, rest
  <2> QED  BY <1>5, <1>6, FS_Surjection
<1>8. Cardinality(rest) = IF 1 \in Among(q, A) THEN Cardinality(Among(q, A)) - 1
                          ELSE Cardinality(Among(q, A))
  BY AmongFinite, FS_RemoveElement
<1>9. 1 \in Among(q, A) <=> Head(q) \in A
  BY <1>1 DEF Among
<1>10. Cardinality(Among(q, A)) \in Nat
  BY AmongFinite
<1> HIDE DEF rest
<1> QED  BY <1>5, <1>7, <1>8, <1>9, <1>10

(* What is put behind a queue counts for nothing if none of it does.       *)
LEMMA AmongBeside ==
    ASSUME NEW M, NEW q \in Seq(M), NEW r \in Seq(M), NEW A, \A i \in DOMAIN r : r[i] \notin A
    PROVE  Among(q \o r, A) = Among(q, A)
<1>1. /\ DOMAIN q = 1 .. Len(q) /\ DOMAIN r = 1 .. Len(r)
      /\ DOMAIN (q \o r) = 1 .. Len(q) + Len(r) /\ Len(q) \in Nat /\ Len(r) \in Nat
      /\ \A i \in 1 .. Len(q) : (q \o r)[i] = q[i]
  OBVIOUS
<1>2. \A i \in Len(q) + 1 .. Len(q) + Len(r) : i - Len(q) \in DOMAIN r /\ (q \o r)[i] = r[i - Len(q)]
  OBVIOUS
<1>3. \A i \in 1 .. Len(q) + Len(r) : i \in 1 .. Len(q) \/ i \in Len(q) + 1 .. Len(q) + Len(r)
  BY <1>1
<1>4. \A i \in 1 .. Len(q) : i \in 1 .. Len(q) + Len(r)
  BY <1>1
<1> QED  BY <1>1, <1>2, <1>3, <1>4 DEF Among

--------------------------------------------------------------------------------
(* A table has a value for each of finitely many ids.                      *)
Tables(V) == UNION {[ids -> V] : ids \in {ids \in SUBSET Nat : IsFiniteSet(ids)}}

LEMMA TableFacts ==
    ASSUME NEW V, NEW f
    PROVE  f \in Tables(V) <=> /\ f \in [DOMAIN f -> V]
                               /\ DOMAIN f \subseteq Nat /\ IsFiniteSet(DOMAIN f)
BY DEF Tables

LEMMA EmptyTable ==
    ASSUME NEW V
    PROVE  NoTargets \in Tables(V) /\ DOMAIN NoTargets = {}
<1>1. IsFiniteSet({})
  BY FS_EmptySet
<1> QED  BY <1>1, TableFacts DEF NoTargets

LEMMA WithValues ==
    ASSUME NEW f, NEW t, NEW v
    PROVE  /\ DOMAIN With(f, t, v) = DOMAIN f \cup {t}
           /\ With(f, t, v)[t] = v
           /\ \A u \in DOMAIN f \ {t} : With(f, t, v)[u] = f[u]
BY DEF With

LEMMA WithTable ==
    ASSUME NEW V, NEW f \in Tables(V), NEW t \in Nat, NEW v \in V
    PROVE  With(f, t, v) \in Tables(V)
<1>1. f \in [DOMAIN f -> V] /\ DOMAIN f \subseteq Nat /\ IsFiniteSet(DOMAIN f)
  BY TableFacts
<1>2. IsFiniteSet(DOMAIN f \cup {t})
  BY <1>1, FS_AddElement
<1>3. With(f, t, v) \in [DOMAIN f \cup {t} -> V]
  BY <1>1 DEF With
<1> QED  BY <1>1, <1>2, <1>3, WithValues, TableFacts

LEMMA LessValues ==
    ASSUME NEW f, NEW t
    PROVE  /\ DOMAIN Less(f, t) = DOMAIN f \ {t}
           /\ \A u \in DOMAIN f \ {t} : Less(f, t)[u] = f[u]
BY DEF Less, Restrict

LEMMA LessTable ==
    ASSUME NEW V, NEW f \in Tables(V), NEW t
    PROVE  Less(f, t) \in Tables(V)
<1>1. f \in [DOMAIN f -> V] /\ DOMAIN f \subseteq Nat /\ IsFiniteSet(DOMAIN f)
  BY TableFacts
<1>2. IsFiniteSet(DOMAIN f \ {t})
  BY <1>1, FS_RemoveElement
<1>3. Less(f, t) \in [DOMAIN f \ {t} -> V]
  BY <1>1 DEF Less, Restrict
<1> QED  BY <1>1, <1>2, <1>3, LessValues, TableFacts

(* A table with other values for the same ids.                             *)
LEMMA SameIds ==
    ASSUME NEW V, NEW W, NEW f \in Tables(V), NEW g \in [DOMAIN f -> W]
    PROVE  g \in Tables(W)
<1>1. DOMAIN g = DOMAIN f
  OBVIOUS
<1> QED  BY <1>1, TableFacts

--------------------------------------------------------------------------------
(* What the parts of the state are, and what they owe to each other *)

Collections == {ds \in SUBSET Documents : IsCollection(ds)}
Tokens == {tok \in SUBSET Collections : IsToken(tok)}

(* What the client asks and what the backend says.                         *)
Requests == [kind : {"watch"}, target : Nat, scope : SUBSET Keys, token : Tokens]
            \cup [kind : {"unwatch"}, target : Nat]

DocsMessages == [kind : {"docs"}, target : Nat, added : Collections, deleted : BOOLEAN,
                 removed : SUBSET Keys]
Filters == [kind : {"filter"}, target : Nat, count : Nat]
Acks == [kind : {"added", "removed", "current", "error"}, target : Nat]
Snapshots == [kind : {"snapshot"}, target : {Query}, docs : Collections]
Messages == DocsMessages \cup Filters \cup Acks \cup Snapshots

Watched == [scope : SUBSET Keys, known : Collections]
Lookups == [key : Keys, received : BOOLEAN]
Onlines == {"Unknown", "Online", "Offline"}

Remotes ==
    [targets : Tables(Tokens), states : Tables(TargetStates), updated : Collections,
     gone : SUBSET Keys, resets : SUBSET {Query}, sent : Seq(Requests), idle : BOOLEAN,
     online : Onlines, timer : BOOLEAN, failed : BOOLEAN]
Limbos == [enqueued : Seq(Keys), active : Tables(Lookups), byKey : Tables(Nat)]
Pairs == [remote : Remotes, limbos : Limbos]

(* The online state tracker, and an idle stream that has no targets.       *)
Timer(r) ==
    /\ r.timer => r.online = "Unknown" /\ ~r.failed
    /\ r.failed => r.online = "Offline"
Tracker(r, st) ==
    /\ Timer(r)
    /\ r.idle => st = "open" /\ DOMAIN r.targets = {}

(* The answers to come for a target, in requests and in messages; there    *)
(* are as many as the target waits for, none for one without a state.      *)
RequestsFor(t) == {q \in Requests : q.target = t}
AcksOf(t) == {m \in Messages : m.target = t /\ m.kind \in {"added", "removed"}}
ToCome(r, ms, t) ==
    Cardinality(Among(r.sent, RequestsFor(t))) + Cardinality(Among(ms, AcksOf(t)))
Counted(r, ms) == \A t \in Nat : Ensure(r, t).outstanding = ToCome(r, ms, t)

RemoteSound(r, ms, st, dn) ==
    /\ r \in Remotes
    /\ Tracker(r, st)
    /\ st # "open" => r.sent = <<>>
    /\ ~dn => Counted(r, ms)

(* The targets of the remote store are those of the lookups and of the     *)
(* view.                                                                   *)
Agree(r, l, lv) ==
    /\ Query \notin DOMAIN l.active
    /\ DOMAIN r.targets = DOMAIN l.active \cup (IF lv THEN {Query} ELSE {})
    /\ DOMAIN l.byKey \subseteq Keys
    /\ \A k \in DOMAIN l.byKey : l.byKey[k] \in DOMAIN l.active /\ l.active[l.byKey[k]].key = k
    /\ Cardinality(DOMAIN l.byKey) <= MaxConcurrentLimboResolutions

Sound(p, ms, lv, st, dn) ==
    /\ p \in Pairs
    /\ RemoteSound(p.remote, ms, st, dn)
    /\ Agree(p.remote, p.limbos, lv)

(* The documents that wait to be looked up, or are.                        *)
Pursued(p) == Range(p.limbos.enqueued) \cup DOMAIN p.limbos.byKey

(* The collection is asked for, and not given up again by what is asked    *)
(* after it; or no request is about it.                                    *)
AskFor(q) == q.target = Query /\ q.kind = "watch"
Asking(sent) ==
    \E i \in DOMAIN sent :
      /\ AskFor(sent[i])
      /\ \A j \in DOMAIN sent : j > i /\ sent[j].target = Query => AskFor(sent[j])
NoRequests(sent) == \A i \in DOMAIN sent : sent[i].target # Query

(* q is r, but for what it says and asks of limbo targets.                 *)
QueryKept(q, r) ==
    /\ Ensure(q, Query).current = Ensure(r, Query).current
    /\ q.resets = r.resets
    /\ q.timer => r.timer
    /\ Asking(r.sent) => Asking(q.sent)
    /\ NoRequests(r.sent) => NoRequests(q.sent)

(* The last request for its target is q.                                   *)
LastAsked(sent, q) ==
    \E i \in DOMAIN sent :
      /\ sent[i] = q
      /\ \A j \in DOMAIN sent : j > i => sent[j].target # q.target

Extends(more, sent) == \A i \in DOMAIN sent : i \in DOMAIN more /\ more[i] = sent[i]

(* s is r as far as target t is concerned.                                 *)
StateKept(s, r, t) ==
    /\ Ensure(s, t) = Ensure(r, t)
    /\ t \in DOMAIN r.states => t \in DOMAIN s.states
    /\ \A i \in DOMAIN s.sent \ DOMAIN r.sent : s.sent[i].target # t

TargetKept(q, p, t) ==
    /\ t \in DOMAIN p.remote.targets /\ q.remote.targets[t] = p.remote.targets[t]
    /\ t # Query => q.limbos.active[t] = p.limbos.active[t]
    /\ StateKept(q.remote, p.remote, t)

(* A lookup has begun: nothing is known of its document.                   *)
Begun(q, t) ==
    /\ t # Query /\ q.remote.targets[t] = NoToken /\ ~q.limbos.active[t].received
    /\ stream = "open" =>
          /\ t \in DOMAIN q.remote.states
          /\ LastAsked(q.remote.sent, Watch(t, {q.limbos.active[t].key}, NoToken))

(* q is p, but for lookups that have begun or have ended.                  *)
Spared(q, p) ==
    /\ q.remote.gone = p.remote.gone
    /\ Extends(q.remote.sent, p.remote.sent)
    /\ StateKept(q.remote, p.remote, Query)
    /\ \A t \in DOMAIN q.remote.targets : TargetKept(q, p, t) \/ Begun(q, t)

--------------------------------------------------------------------------------
(* What the operators return *)

LEMMA KeysFinite ==
    /\ Keys \subseteq Nat /\ IsFiniteSet(Keys)
    /\ MaxConcurrentLimboResolutions \in Nat \ {0} /\ MaxFaults \in Nat
BY ListeningAssumption

LEMMA NoTokenType == NoToken \in Tokens
BY DEF NoToken, Tokens, IsToken

LEMMA EnsureType ==
    ASSUME NEW r \in Remotes, NEW t
    PROVE  Ensure(r, t) \in TargetStates
<1>1. r.states \in [DOMAIN r.states -> TargetStates]
  BY TableFacts DEF Remotes
<1>2. NewTarget \in TargetStates
  BY DEF NewTarget, TargetStates
<1> QED  BY <1>1, <1>2 DEF Ensure

(* All but the states, the requests and the idleness is the same.          *)
RestSame(s, r) ==
    /\ s.targets = r.targets /\ s.updated = r.updated /\ s.gone = r.gone
    /\ s.resets = r.resets /\ s.online = r.online /\ s.timer = r.timer /\ s.failed = r.failed

LEMMA InStateFacts ==
    ASSUME NEW r \in Remotes, NEW t \in Nat, NEW s \in TargetStates
    PROVE  /\ InState(r, t, s) \in Remotes
           /\ InState(r, t, s).sent = r.sent /\ InState(r, t, s).idle = r.idle
           /\ RestSame(InState(r, t, s), r)
           /\ \A u \in Nat : Ensure(InState(r, t, s), u) = IF u = t THEN s ELSE Ensure(r, u)
<1> DEFINE f == r.states
           g == With(f, t, s)
<1>1. f \in Tables(TargetStates)
  BY DEF Remotes
<1>2. InState(r, t, s) = [r EXCEPT !.states = g]
  BY DEF InState
<1>3. \A u : Ensure(r, u) = IF u \in DOMAIN f THEN f[u] ELSE NewTarget
  BY DEF Ensure
<1> HIDE DEF f
<1>4. /\ g \in Tables(TargetStates) /\ DOMAIN g = DOMAIN f \cup {t}
      /\ g[t] = s /\ \A u \in DOMAIN f \ {t} : g[u] = f[u]
  <2>1. g \in Tables(TargetStates)
    BY <1>1, WithTable
  <2>2. DOMAIN g = DOMAIN f \cup {t} /\ g[t] = s /\ \A u \in DOMAIN f \ {t} : g[u] = f[u]
    BY DEF With
  <2> QED  BY <2>1, <2>2
<1> HIDE DEF g
<1>5. /\ InState(r, t, s) \in Remotes /\ InState(r, t, s).states = g
      /\ InState(r, t, s).sent = r.sent /\ InState(r, t, s).idle = r.idle
      /\ RestSame(InState(r, t, s), r)
  BY <1>2, <1>4 DEF Remotes, RestSame
<1>6. \A u : Ensure(InState(r, t, s), u) = IF u \in DOMAIN g THEN g[u] ELSE NewTarget
  BY <1>5 DEF Ensure
<1> QED  BY <1>3, <1>4, <1>5, <1>6

LEMMA SendFacts ==
    ASSUME NEW r \in Remotes, NEW t \in Nat, NEW q \in Requests, q.target = t
    PROVE  /\ Send(r, t, q) \in Remotes
           /\ Send(r, t, q).sent = Append(r.sent, q) /\ ~ Send(r, t, q).idle
           /\ RestSame(Send(r, t, q), r)
           /\ \A u \in Nat : Ensure(Send(r, t, q), u).outstanding =
                               Ensure(r, u).outstanding + (IF u = t THEN 1 ELSE 0)
<1> DEFINE s == [Ensure(r, t) EXCEPT !.outstanding = @ + 1]
           r1 == InState(r, t, s)
<1>1. s \in TargetStates /\ s.outstanding = Ensure(r, t).outstanding + 1
  BY EnsureType DEF TargetStates
<1>2. Send(r, t, q) = [r1 EXCEPT !.sent = Append(@, q), !.idle = FALSE]
  BY DEF Send
<1> HIDE DEF s
<1>3. /\ r1 \in Remotes /\ r1.sent = r.sent /\ RestSame(r1, r)
      /\ \A u \in Nat : Ensure(r1, u) = IF u = t THEN s ELSE Ensure(r, u)
  BY <1>1, InStateFacts
<1> HIDE DEF r1
<1>7. r1.sent \in Seq(Requests) /\ Append(r1.sent, q) \in Seq(Requests)
  BY <1>3 DEF Remotes
<1>4. /\ Send(r, t, q) \in Remotes /\ Send(r, t, q).states = r1.states
      /\ Send(r, t, q).sent = Append(r.sent, q) /\ ~ Send(r, t, q).idle
      /\ RestSame(Send(r, t, q), r)
  BY <1>2, <1>3, <1>7 DEF Remotes, RestSame
<1>5. \A u : Ensure(Send(r, t, q), u) = Ensure(r1, u)
  BY <1>4 DEF Ensure
<1>6. \A u : Ensure(r, u).outstanding \in Int
  BY EnsureType DEF TargetStates
<1> QED  BY <1>1, <1>3, <1>4, <1>5, <1>6

(* A request leaves what is gathered for each target as it is.             *)
LEMMA SendKeepsCurrent ==
    ASSUME NEW r \in Remotes, NEW t \in Nat, NEW q \in Requests, NEW u \in Nat
    PROVE  Ensure(Send(r, t, q), u).current = Ensure(r, u).current
<1> DEFINE s == [Ensure(r, t) EXCEPT !.outstanding = @ + 1]
           r1 == InState(r, t, s)
<1>1. s \in TargetStates /\ s.current = Ensure(r, t).current
  BY EnsureType DEF TargetStates
<1>2. Send(r, t, q) = [r1 EXCEPT !.sent = Append(@, q), !.idle = FALSE]
  BY DEF Send
<1> HIDE DEF s
<1>3. r1 \in Remotes /\ Ensure(r1, u) = IF u = t THEN s ELSE Ensure(r, u)
  BY <1>1, InStateFacts
<1> HIDE DEF r1
<1>4. Send(r, t, q).states = r1.states
  BY <1>2, <1>3 DEF Remotes
<1>5. Ensure(Send(r, t, q), u) = Ensure(r1, u)
  BY <1>4 DEF Ensure
<1> QED  BY <1>1, <1>3, <1>5

(* A request more.                                                         *)
LEMMA AskingAppend ==
    ASSUME NEW sent \in Seq(Requests), NEW q \in Requests
    PROVE  /\ AskFor(q) => Asking(Append(sent, q))
           /\ q.target # Query /\ Asking(sent) => Asking(Append(sent, q))
           /\ q.target # Query /\ NoRequests(sent) => NoRequests(Append(sent, q))
<1> DEFINE n == Len(sent)
           more == Append(sent, q)
<1>1. /\ n \in Nat /\ DOMAIN sent = 1 .. n /\ DOMAIN more = 1 .. n + 1
      /\ more[n + 1] = q /\ \A i \in 1 .. n : more[i] = sent[i]
  OBVIOUS
<1>2. \A i \in DOMAIN more : i \in DOMAIN sent \/ i = n + 1
  BY <1>1
<1> HIDE DEF n, more
<1>3. ASSUME AskFor(q)
      PROVE  Asking(more)
  BY <1>1, <1>3 DEF Asking
<1>4. ASSUME q.target # Query, Asking(sent)
      PROVE  Asking(more)
  <2>1. PICK i \in DOMAIN sent :
          /\ AskFor(sent[i])
          /\ \A j \in DOMAIN sent : j > i /\ sent[j].target = Query => AskFor(sent[j])
    BY <1>4 DEF Asking
  <2>2. i \in DOMAIN more /\ AskFor(more[i])
    BY <1>1, <2>1
  <2>3. \A j \in DOMAIN more : j > i /\ more[j].target = Query => AskFor(more[j])
    BY <1>1, <1>2, <1>4, <2>1
  <2> QED  BY <2>2, <2>3 DEF Asking
<1>5. ASSUME q.target # Query, NoRequests(sent)
      PROVE  NoRequests(more)
  BY <1>1, <1>2, <1>5 DEF NoRequests
<1> QED  BY <1>3, <1>4, <1>5 DEF more

(* The first request is taken.                                             *)
LEMMA AskingTail ==
    ASSUME NEW sent \in Seq(Requests), sent # <<>>
    PROVE  /\ Asking(sent) /\ ~AskFor(Head(sent)) => Asking(Tail(sent))
           /\ Asking(sent) => Asking(Tail(sent)) \/ NoRequests(Tail(sent))
           /\ NoRequests(sent) => NoRequests(Tail(sent)) /\ Head(sent).target # Query
<1> DEFINE rest == Tail(sent)
<1>1. /\ Head(sent) = sent[1] /\ 1 \in DOMAIN sent
      /\ \A i \in DOMAIN sent : i \in Nat /\ (i = 1 \/ (i - 1 \in DOMAIN rest /\ rest[i - 1] = sent[i]))
      /\ \A i \in DOMAIN rest : i \in Nat /\ i > 0 /\ i + 1 \in DOMAIN sent /\ rest[i] = sent[i + 1]
  OBVIOUS
<1> HIDE DEF rest
<1>2. ASSUME NEW i \in DOMAIN sent, AskFor(sent[i]), i # 1,
             \A j \in DOMAIN sent : j > i /\ sent[j].target = Query => AskFor(sent[j])
      PROVE  Asking(rest)
  <2>1. i - 1 \in DOMAIN rest /\ AskFor(rest[i - 1]) /\ i \in Nat
    BY <1>1, <1>2
  <2>2. ASSUME NEW j \in DOMAIN rest, j > i - 1, rest[j].target = Query
        PROVE  AskFor(rest[j])
    <3>1. j \in Nat /\ j + 1 \in DOMAIN sent /\ rest[j] = sent[j + 1]
      BY <1>1
    <3>2. j + 1 > i
      BY <2>1, <2>2, <3>1
    <3> QED  BY <1>2, <2>2, <3>1, <3>2
  <2> QED  BY <2>1, <2>2 DEF Asking
<1>3. ASSUME \A j \in DOMAIN sent : j > 1 /\ sent[j].target = Query => AskFor(sent[j])
      PROVE  Asking(rest) \/ NoRequests(rest)
  <2>1. \A j \in DOMAIN rest : rest[j].target = Query => AskFor(rest[j])
    BY <1>1, <1>3
  <2> QED  BY <2>1 DEF Asking, NoRequests
<1>4. NoRequests(sent) => NoRequests(rest) /\ Head(sent).target # Query
  BY <1>1 DEF NoRequests
<1>5. ASSUME Asking(sent)
      PROVE  /\ Asking(rest) \/ NoRequests(rest)
             /\ ~AskFor(Head(sent)) => Asking(rest)
  <2>1. PICK i \in DOMAIN sent :
          /\ AskFor(sent[i])
          /\ \A j \in DOMAIN sent : j > i /\ sent[j].target = Query => AskFor(sent[j])
    BY <1>5 DEF Asking
  <2>2. CASE i # 1
    BY <1>2, <2>1, <2>2
  <2>3. CASE i = 1
    BY <1>1, <1>3, <2>1, <2>3
  <2> QED  BY <2>2, <2>3
<1> QED  BY <1>4, <1>5 DEF rest

(* A request for a limbo target.                                           *)
LEMMA SendKeepsQuery ==
    ASSUME NEW r \in Remotes, NEW t \in Nat, t # Query,
           NEW q \in Requests, q.target = t
    PROVE  QueryKept(Send(r, t, q), r)
<1>1. /\ Send(r, t, q).sent = Append(r.sent, q)
      /\ RestSame(Send(r, t, q), r)
  BY SendFacts
<1>2. Query \in Nat /\ r.sent \in Seq(Requests)
  BY DEF Query, Remotes
<1>3. Ensure(Send(r, t, q), Query).current = Ensure(r, Query).current
  BY <1>2, SendKeepsCurrent
<1> QED  BY <1>1, <1>2, <1>3, AskingAppend DEF QueryKept, RestSame

LEMMA CountedSame ==
    ASSUME NEW r, NEW s, s.states = r.states, s.sent = r.sent, NEW ms, Counted(r, ms)
    PROVE  Counted(s, ms)
BY DEF Counted, Ensure, ToCome

(* A request that is sent is counted.                                      *)
LEMMA SendSound ==
    ASSUME NEW r \in Remotes, Timer(r), NEW ms \in Seq(Messages), NEW dn, ~dn => Counted(r, ms),
           NEW t \in Nat, NEW q \in Requests, q.target = t
    PROVE  RemoteSound(Send(r, t, q), ms, "open", dn)
<1>1. /\ Send(r, t, q) \in Remotes
      /\ Send(r, t, q).sent = Append(r.sent, q) /\ ~ Send(r, t, q).idle
      /\ RestSame(Send(r, t, q), r)
      /\ \A u \in Nat : Ensure(Send(r, t, q), u).outstanding =
                          Ensure(r, u).outstanding + (IF u = t THEN 1 ELSE 0)
  BY SendFacts
<1>2. Tracker(Send(r, t, q), "open")
  BY <1>1 DEF Timer, Tracker, RestSame
<1>3. ASSUME ~dn
      PROVE  Counted(Send(r, t, q), ms)
  <2> SUFFICES ASSUME NEW u \in Nat
               PROVE  Ensure(Send(r, t, q), u).outstanding = ToCome(Send(r, t, q), ms, u)
    BY DEF Counted
  <2>1. Ensure(r, u).outstanding = ToCome(r, ms, u)
    BY <1>3 DEF Counted
  <2>2. r.sent \in Seq(Requests)
    BY DEF Remotes
  <2>3. Cardinality(Among(Append(r.sent, q), RequestsFor(u))) =
          Cardinality(Among(r.sent, RequestsFor(u))) + (IF q \in RequestsFor(u) THEN 1 ELSE 0)
    BY <2>2, AmongAppend
  <2>4. q \in RequestsFor(u) <=> u = t
    BY DEF RequestsFor
  <2>5. /\ Cardinality(Among(r.sent, RequestsFor(u))) \in Nat
        /\ Cardinality(Among(ms, AcksOf(u))) \in Nat
    BY <2>2, AmongFinite
  <2> QED  BY <1>1, <2>1, <2>3, <2>4, <2>5 DEF ToCome
<1> QED  BY <1>1, <1>2, <1>3 DEF RemoteSound

LEMMA RequestTypes ==
    ASSUME NEW t \in Nat, NEW scope \in SUBSET Keys, NEW tok \in Tokens
    PROVE  /\ Watch(t, scope, tok) \in Requests /\ Watch(t, scope, tok).target = t
           /\ Unwatch(t) \in Requests /\ Unwatch(t).target = t
BY DEF Watch, Unwatch, Requests

LEMMA ListenFacts ==
    ASSUME NEW r \in Remotes, NEW t \in Nat, NEW scope \in SUBSET Keys, NEW tok \in Tokens
    PROVE  /\ DOMAIN Listen(r, t, scope, tok).targets = DOMAIN r.targets \cup {t}
           /\ Listen(r, t, scope, tok).updated = r.updated
<1> DEFINE g == With(r.targets, t, tok)
           added == [r EXCEPT !.targets = g]
           q == Watch(t, scope, tok)
<1>1. g \in Tables(Tokens)
  <2>1. r.targets \in Tables(Tokens)
    BY DEF Remotes
  <2> QED  BY <2>1, WithTable
<1>2. DOMAIN g = DOMAIN r.targets \cup {t}
  BY DEF With
<1>3. Listen(r, t, scope, tok) = IF stream = "open" THEN Send(added, t, q) ELSE added
  BY DEF Listen
<1> HIDE DEF g
<1>4. added \in Remotes /\ added.targets = g /\ added.updated = r.updated
  BY <1>1 DEF Remotes
<1>5. q \in Requests /\ q.target = t
  BY RequestTypes
<1> HIDE DEF added, q
<1>6. RestSame(Send(added, t, q), added)
  BY <1>4, <1>5, SendFacts
<1> QED  BY <1>2, <1>3, <1>4, <1>6 DEF RestSame

LEMMA ListenKeepsQuery ==
    ASSUME NEW r \in Remotes, NEW t \in Nat, t # Query,
           NEW scope \in SUBSET Keys, NEW tok \in Tokens
    PROVE  QueryKept(Listen(r, t, scope, tok), r)
<1> DEFINE g == With(r.targets, t, tok)
           added == [r EXCEPT !.targets = g]
           q == Watch(t, scope, tok)
<1>1. g \in Tables(Tokens)
  <2>1. r.targets \in Tables(Tokens)
    BY DEF Remotes
  <2> QED  BY <2>1, WithTable
<1>2. Listen(r, t, scope, tok) = IF stream = "open" THEN Send(added, t, q) ELSE added
  BY DEF Listen
<1> HIDE DEF g
<1>3. /\ added \in Remotes /\ added.states = r.states /\ added.sent = r.sent
      /\ added.resets = r.resets /\ added.timer = r.timer
  BY <1>1 DEF Remotes
<1>4. q \in Requests /\ q.target = t
  BY RequestTypes
<1> HIDE DEF added, q
<1>5. QueryKept(Send(added, t, q), added)
  BY <1>3, <1>4, SendKeepsQuery
<1>6. Ensure(added, Query) = Ensure(r, Query)
  BY <1>3 DEF Ensure
<1> QED  BY <1>2, <1>3, <1>5, <1>6 DEF QueryKept

LEMMA ListenSound ==
    ASSUME NEW r, NEW ms \in Seq(Messages), NEW dn, RemoteSound(r, ms, stream, dn),
           NEW t \in Nat, NEW scope \in SUBSET Keys, NEW tok \in Tokens
    PROVE  RemoteSound(Listen(r, t, scope, tok), ms, stream, dn)
<1> DEFINE g == With(r.targets, t, tok)
           added == [r EXCEPT !.targets = g]
           q == Watch(t, scope, tok)
<1>1. r \in Remotes /\ Timer(r) /\ (~dn => Counted(r, ms))
  BY DEF RemoteSound, Tracker
<1>2. g \in Tables(Tokens)
  <2>1. r.targets \in Tables(Tokens)
    BY <1>1 DEF Remotes
  <2> QED  BY <2>1, WithTable
<1>3. Listen(r, t, scope, tok) = IF stream = "open" THEN Send(added, t, q) ELSE added
  BY DEF Listen
<1> HIDE DEF g
<1>4. /\ added \in Remotes /\ added.targets = g /\ added.states = r.states
      /\ added.sent = r.sent /\ added.idle = r.idle
      /\ added.timer = r.timer /\ added.failed = r.failed /\ added.online = r.online
  BY <1>1, <1>2 DEF Remotes
<1>5. q \in Requests /\ q.target = t
  BY RequestTypes
<1> HIDE DEF added, q
<1>6. Timer(added) /\ (~dn => Counted(added, ms))
  BY <1>1, <1>4, CountedSame DEF Timer
<1>7. CASE stream = "open"
  BY <1>3, <1>4, <1>5, <1>6, <1>7, SendSound
<1>8. CASE stream # "open"
  BY <1>3, <1>4, <1>6, <1>8 DEF RemoteSound, Tracker
<1> QED  BY <1>7, <1>8

LEMMA StopListeningFacts ==
    ASSUME NEW r \in Remotes, NEW t \in Nat
    PROVE  /\ DOMAIN StopListening(r, t).targets = DOMAIN r.targets \ {t}
           /\ StopListening(r, t).updated = r.updated
<1> DEFINE g == Less(r.targets, t)
           rest == [r EXCEPT !.targets = g]
           q == Unwatch(t)
           unused == DOMAIN rest.targets = {}
           s == Send(rest, t, q)
<1>1. g \in Tables(Tokens)
  <2>1. r.targets \in Tables(Tokens)
    BY DEF Remotes
  <2> QED  BY <2>1, LessTable
<1>2. DOMAIN g = DOMAIN r.targets \ {t}
  BY DEF Less, Restrict
<1>3. StopListening(r, t) = IF stream = "open" THEN [s EXCEPT !.idle = unused]
                            ELSE IF unused THEN UpdateState(rest, "Unknown") ELSE rest
  BY DEF StopListening
<1> HIDE DEF g
<1>4. rest \in Remotes /\ rest.targets = g /\ rest.updated = r.updated
  BY <1>1 DEF Remotes
<1>5. q \in Requests /\ q.target = t
  BY RequestTypes, NoTokenType
<1> HIDE DEF rest, q
<1>6. RestSame(s, rest) /\ s \in Remotes
  BY <1>4, <1>5, SendFacts
<1> HIDE DEF s
<1>7. /\ [s EXCEPT !.idle = unused].targets = s.targets
      /\ [s EXCEPT !.idle = unused].updated = s.updated
  BY <1>6 DEF Remotes
<1>8. /\ UpdateState(rest, "Unknown").targets = rest.targets
      /\ UpdateState(rest, "Unknown").updated = rest.updated
  BY <1>4 DEF UpdateState, Remotes
<1> QED  BY <1>2, <1>3, <1>4, <1>6, <1>7, <1>8 DEF RestSame

LEMMA StopListeningKeepsQuery ==
    ASSUME NEW r \in Remotes, NEW t \in Nat, t # Query
    PROVE  QueryKept(StopListening(r, t), r)
<1> DEFINE g == Less(r.targets, t)
           rest == [r EXCEPT !.targets = g]
           q == Unwatch(t)
           unused == DOMAIN rest.targets = {}
           s == Send(rest, t, q)
           s1 == [s EXCEPT !.idle = unused]
           s2 == UpdateState(rest, "Unknown")
<1>1. g \in Tables(Tokens)
  <2>1. r.targets \in Tables(Tokens)
    BY DEF Remotes
  <2> QED  BY <2>1, LessTable
<1>2. StopListening(r, t) = IF stream = "open" THEN s1 ELSE IF unused THEN s2 ELSE rest
  BY DEF StopListening
<1> HIDE DEF g
<1>3. /\ rest \in Remotes /\ rest.states = r.states /\ rest.sent = r.sent
      /\ rest.resets = r.resets /\ rest.timer = r.timer
  BY <1>1 DEF Remotes
<1>4. q \in Requests /\ q.target = t
  BY RequestTypes, NoTokenType
<1> HIDE DEF rest, q, unused
<1>5. QueryKept(s, rest) /\ s \in Remotes
  BY <1>3, <1>4, SendKeepsQuery, SendFacts
<1> HIDE DEF s
<1>6. /\ s1.states = s.states /\ s1.sent = s.sent /\ s1.resets = s.resets /\ s1.timer = s.timer
      /\ s2.states = rest.states /\ s2.sent = rest.sent /\ s2.resets = rest.resets /\ ~s2.timer
  BY <1>3, <1>5 DEF UpdateState, Remotes
<1> HIDE DEF s1, s2
<1>7. /\ Ensure(s1, Query) = Ensure(s, Query) /\ Ensure(s2, Query) = Ensure(rest, Query)
      /\ Ensure(rest, Query) = Ensure(r, Query)
  BY <1>3, <1>6 DEF Ensure
<1> QED  BY <1>2, <1>3, <1>5, <1>6, <1>7 DEF QueryKept

LEMMA StopListeningSound ==
    ASSUME NEW r, NEW ms \in Seq(Messages), NEW dn, RemoteSound(r, ms, stream, dn), NEW t \in Nat
    PROVE  RemoteSound(StopListening(r, t), ms, stream, dn)
<1> DEFINE g == Less(r.targets, t)
           rest == [r EXCEPT !.targets = g]
           q == Unwatch(t)
           unused == DOMAIN rest.targets = {}
<1>1. r \in Remotes /\ Timer(r) /\ (~dn => Counted(r, ms))
  BY DEF RemoteSound, Tracker
<1>2. g \in Tables(Tokens)
  <2>1. r.targets \in Tables(Tokens)
    BY <1>1 DEF Remotes
  <2> QED  BY <2>1, LessTable
<1>4. StopListening(r, t) = IF stream = "open" THEN [Send(rest, t, q) EXCEPT !.idle = unused]
                            ELSE IF unused THEN UpdateState(rest, "Unknown") ELSE rest
  BY DEF StopListening
<1> HIDE DEF g
<1>5. /\ rest \in Remotes /\ rest.targets = g /\ rest.states = r.states
      /\ rest.sent = r.sent /\ rest.idle = r.idle /\ rest.updated = r.updated
      /\ rest.timer = r.timer /\ rest.failed = r.failed /\ rest.online = r.online
  BY <1>1, <1>2 DEF Remotes
<1>6. q \in Requests /\ q.target = t
  BY RequestTypes, NoTokenType
<1> HIDE DEF rest, q
<1>7. Timer(rest) /\ (~dn => Counted(rest, ms))
  BY <1>1, <1>5, CountedSame DEF Timer
<1>8. CASE stream = "open"
  <2> DEFINE s == Send(rest, t, q)
             s1 == [s EXCEPT !.idle = unused]
  <2>1. RemoteSound(s, ms, "open", dn) /\ RestSame(s, rest) /\ s \in Remotes
    BY <1>5, <1>6, <1>7, SendSound, SendFacts
  <2> HIDE DEF s
  <2>2. /\ s1 \in Remotes /\ s1.idle = unused /\ s1.states = s.states /\ s1.sent = s.sent
        /\ RestSame(s1, s)
    BY <2>1 DEF Remotes, RestSame
  <2> HIDE DEF s1
  <2>3. ~dn => Counted(s1, ms)
    BY <2>1, <2>2, CountedSame DEF RemoteSound
  <2>4. RemoteSound(s1, ms, stream, dn)
    BY <1>5, <1>8, <2>1, <2>2, <2>3 DEF RemoteSound, Tracker, Timer, RestSame
  <2>5. StopListening(r, t) = s1
    BY <1>4, <1>8 DEF s1, s
  <2> QED  BY <2>4, <2>5
<1>9. CASE stream # "open"
  <2> DEFINE s == UpdateState(rest, "Unknown")
  <2>1. /\ s \in Remotes /\ s.targets = rest.targets /\ s.states = rest.states
        /\ s.sent = rest.sent /\ s.updated = rest.updated /\ s.idle = rest.idle
        /\ ~s.timer /\ ~s.failed
    BY <1>5 DEF UpdateState, Remotes, Onlines
  <2> HIDE DEF s
  <2>2. ~dn => Counted(s, ms)
    BY <1>7, <2>1, CountedSame
  <2>3. RemoteSound(s, ms, stream, dn)
    BY <1>5, <1>9, <2>1, <2>2 DEF RemoteSound, Tracker, Timer
  <2>4. RemoteSound(rest, ms, stream, dn)
    BY <1>5, <1>7, <1>9 DEF RemoteSound, Tracker
  <2>5. StopListening(r, t) = IF unused THEN s ELSE rest
    BY <1>4, <1>9 DEF s
  <2> QED  BY <2>3, <2>4, <2>5
<1> QED  BY <1>8, <1>9

LEMMA SendDetails ==
    ASSUME NEW r \in Remotes, NEW t \in Nat, NEW q \in Requests
    PROVE  /\ DOMAIN Send(r, t, q).states = DOMAIN r.states \cup {t}
           /\ \A u \in Nat \ {t} : Ensure(Send(r, t, q), u) = Ensure(r, u)
           /\ Ensure(Send(r, t, q), t).current = Ensure(r, t).current
           /\ Ensure(Send(r, t, q), t).added = Ensure(r, t).added
           /\ Ensure(Send(r, t, q), t).removed = Ensure(r, t).removed
<1> DEFINE s == [Ensure(r, t) EXCEPT !.outstanding = @ + 1]
           g == With(r.states, t, s)
           r1 == InState(r, t, s)
<1>1. /\ s \in TargetStates /\ s.current = Ensure(r, t).current
      /\ s.added = Ensure(r, t).added /\ s.removed = Ensure(r, t).removed
  BY EnsureType DEF TargetStates
<1>2. Send(r, t, q) = [r1 EXCEPT !.sent = Append(@, q), !.idle = FALSE]
  BY DEF Send
<1> HIDE DEF s
<1>3. /\ r1 \in Remotes
      /\ \A u \in Nat : Ensure(r1, u) = IF u = t THEN s ELSE Ensure(r, u)
  BY <1>1, InStateFacts
<1>4. DOMAIN r1.states = DOMAIN r.states \cup {t}
  <2>1. r1.states = g
    BY DEF InState, Remotes
  <2> QED  BY <2>1 DEF With
<1> HIDE DEF r1
<1>5. Send(r, t, q).states = r1.states
  BY <1>2, <1>3 DEF Remotes
<1>6. \A u : Ensure(Send(r, t, q), u) = Ensure(r1, u)
  BY <1>5 DEF Ensure
<1> QED  BY <1>1, <1>3, <1>4, <1>5, <1>6

(* All that is gathered is the same, and so is what is gathered for t.     *)
GatheringKept(s, r, t) ==
    /\ s.updated = r.updated /\ s.gone = r.gone /\ s.resets = r.resets
    /\ \A u \in Nat \ {t} : Ensure(s, u) = Ensure(r, u)
    /\ Ensure(s, t).current = Ensure(r, t).current
    /\ Ensure(s, t).added = Ensure(r, t).added /\ Ensure(s, t).removed = Ensure(r, t).removed

(* s is r that listens to t from tok on.                                   *)
Listened(s, r, t, scope, tok) ==
    /\ s.targets[t] = tok
    /\ \A u \in DOMAIN r.targets \ {t} : s.targets[u] = r.targets[u]
    /\ GatheringKept(s, r, t)
    /\ IF stream = "open"
       THEN /\ s.sent = Append(r.sent, Watch(t, scope, tok))
            /\ DOMAIN s.states = DOMAIN r.states \cup {t}
       ELSE s.sent = r.sent /\ s.states = r.states

LEMMA ListenDetails ==
    ASSUME NEW r \in Remotes, NEW t \in Nat, NEW scope \in SUBSET Keys, NEW tok \in Tokens
    PROVE  Listened(Listen(r, t, scope, tok), r, t, scope, tok)
<1> DEFINE s == Listen(r, t, scope, tok)
           g == With(r.targets, t, tok)
           added == [r EXCEPT !.targets = g]
           q == Watch(t, scope, tok)
<1>1. g \in Tables(Tokens)
  <2>1. r.targets \in Tables(Tokens)
    BY DEF Remotes
  <2> QED  BY <2>1, WithTable
<1>2. g[t] = tok /\ \A u \in DOMAIN r.targets \ {t} : g[u] = r.targets[u]
  BY DEF With
<1>3. s = IF stream = "open" THEN Send(added, t, q) ELSE added
  BY DEF Listen
<1> HIDE DEF g, s
<1>4. /\ added \in Remotes /\ added.targets = g /\ added.updated = r.updated
      /\ added.gone = r.gone /\ added.resets = r.resets /\ added.sent = r.sent
      /\ added.states = r.states
  BY <1>1 DEF Remotes
<1>5. q \in Requests /\ q.target = t
  BY RequestTypes
<1>6. \A u : Ensure(added, u) = Ensure(r, u)
  BY <1>4 DEF Ensure
<1> HIDE DEF added
<1>7. ASSUME stream # "open"
      PROVE  Listened(s, r, t, scope, tok)
  BY <1>2, <1>3, <1>4, <1>6, <1>7 DEF GatheringKept, Listened
<1>8. ASSUME stream = "open"
      PROVE  Listened(s, r, t, scope, tok)
  <2> DEFINE z == Send(added, t, q)
  <2>1. s = z
    BY <1>3, <1>8
  <2>2. RestSame(z, added) /\ z.sent = Append(added.sent, q)
    BY <1>4, <1>5, SendFacts
  <2>3. /\ DOMAIN z.states = DOMAIN added.states \cup {t}
        /\ \A u \in Nat \ {t} : Ensure(z, u) = Ensure(added, u)
        /\ Ensure(z, t).current = Ensure(added, t).current
        /\ Ensure(z, t).added = Ensure(added, t).added
        /\ Ensure(z, t).removed = Ensure(added, t).removed
    BY <1>4, <1>5, SendDetails
  <2> HIDE DEF z, q
  <2>4. GatheringKept(z, r, t)
    BY <1>4, <1>6, <2>2, <2>3 DEF GatheringKept, RestSame
  <2> QED  BY <1>2, <1>4, <1>8, <2>1, <2>2, <2>3, <2>4 DEF RestSame, q, Listened
<1>9. Listened(s, r, t, scope, tok)
  BY <1>7, <1>8
<1> QED  BY <1>9 DEF s

LEMMA StopListeningDetails ==
    ASSUME NEW r \in Remotes, NEW t \in Nat, NEW s, s = StopListening(r, t)
    PROVE  /\ \A u \in DOMAIN r.targets \ {t} : s.targets[u] = r.targets[u]
           /\ GatheringKept(s, r, t)
           /\ IF stream = "open"
              THEN /\ s.sent = Append(r.sent, Unwatch(t))
                   /\ DOMAIN s.states = DOMAIN r.states \cup {t}
              ELSE s.sent = r.sent /\ s.states = r.states
<1> DEFINE g == Less(r.targets, t)
           rest == [r EXCEPT !.targets = g]
           q == Unwatch(t)
           unused == DOMAIN rest.targets = {}
           z == Send(rest, t, q)
           z1 == [z EXCEPT !.idle = unused]
           z2 == UpdateState(rest, "Unknown")
<1>1. g \in Tables(Tokens)
  <2>1. r.targets \in Tables(Tokens)
    BY DEF Remotes
  <2> QED  BY <2>1, LessTable
<1>2. \A u \in DOMAIN r.targets \ {t} : g[u] = r.targets[u]
  BY DEF Less, Restrict
<1>3. s = IF stream = "open" THEN z1 ELSE IF unused THEN z2 ELSE rest
  BY DEF StopListening
<1> HIDE DEF g
<1>4. /\ rest \in Remotes /\ rest.targets = g /\ rest.updated = r.updated
      /\ rest.gone = r.gone /\ rest.resets = r.resets /\ rest.sent = r.sent
      /\ rest.states = r.states
  BY <1>1 DEF Remotes
<1>5. q \in Requests /\ q.target = t
  BY RequestTypes, NoTokenType
<1>6. \A u : Ensure(rest, u) = Ensure(r, u)
  BY <1>4 DEF Ensure
<1> HIDE DEF rest, unused
<1>7. CASE stream # "open"
  <2>1. /\ z2.targets = rest.targets /\ z2.updated = rest.updated /\ z2.gone = rest.gone
        /\ z2.resets = rest.resets /\ z2.sent = rest.sent /\ z2.states = rest.states
    BY <1>4 DEF UpdateState, Remotes
  <2> HIDE DEF z2
  <2>2. \A u : Ensure(z2, u) = Ensure(rest, u)
    BY <2>1 DEF Ensure
  <2> QED  BY <1>2, <1>3, <1>4, <1>6, <1>7, <2>1, <2>2 DEF GatheringKept
<1>8. CASE stream = "open"
  <2>1. s = z1
    BY <1>3, <1>8
  <2>2. RestSame(z, rest) /\ z.sent = Append(rest.sent, q) /\ z \in Remotes
    BY <1>4, <1>5, SendFacts
  <2>3. /\ DOMAIN z.states = DOMAIN rest.states \cup {t}
        /\ \A u \in Nat \ {t} : Ensure(z, u) = Ensure(rest, u)
        /\ Ensure(z, t).current = Ensure(rest, t).current
        /\ Ensure(z, t).added = Ensure(rest, t).added
        /\ Ensure(z, t).removed = Ensure(rest, t).removed
    BY <1>4, <1>5, SendDetails
  <2> HIDE DEF z, q
  <2>4. /\ z1.targets = z.targets /\ z1.updated = z.updated /\ z1.gone = z.gone
        /\ z1.resets = z.resets /\ z1.sent = z.sent /\ z1.states = z.states
    BY <2>2 DEF Remotes
  <2> HIDE DEF z1
  <2>5. \A u : Ensure(z1, u) = Ensure(z, u)
    BY <2>4 DEF Ensure
  <2>6. GatheringKept(z1, r, t)
    BY <1>4, <1>6, <2>2, <2>3, <2>4, <2>5 DEF GatheringKept, RestSame
  <2> QED  BY <1>2, <1>4, <1>8, <2>1, <2>2, <2>3, <2>4, <2>6 DEF RestSame, q
<1> QED  BY <1>7, <1>8

LEMMA LastAskedOn ==
    ASSUME NEW sent, NEW more, NEW q, Extends(more, sent), LastAsked(sent, q),
           \A i \in DOMAIN more \ DOMAIN sent : more[i].target # q.target
    PROVE  LastAsked(more, q)
BY DEF LastAsked, Extends

LEMMA ExtendsAppend ==
    ASSUME NEW S, NEW sent \in Seq(S), NEW q \in S
    PROVE  /\ Extends(Append(sent, q), sent)
           /\ \A i \in DOMAIN Append(sent, q) \ DOMAIN sent : Append(sent, q)[i] = q
           /\ LastAsked(Append(sent, q), q)
<1> DEFINE n == Len(sent)
           more == Append(sent, q)
<1>1. /\ n \in Nat /\ DOMAIN sent = 1 .. n /\ DOMAIN more = 1 .. n + 1
      /\ more[n + 1] = q /\ \A i \in 1 .. n : more[i] = sent[i]
  OBVIOUS
<1> HIDE DEF n, more
<1>2. \A i \in DOMAIN more : i \in DOMAIN sent \/ i = n + 1
  BY <1>1
<1>3. Extends(more, sent) /\ \A i \in DOMAIN more \ DOMAIN sent : more[i] = q
  BY <1>1, <1>2 DEF Extends
<1>4. n + 1 \in DOMAIN more /\ \A j \in DOMAIN more : ~(j > n + 1)
  BY <1>1
<1>5. LastAsked(more, q)
  BY <1>1, <1>4 DEF LastAsked
<1> QED  BY <1>3, <1>5 DEF more

LEMMA SparedOn ==
    /\ \A p : Spared(p, p)
    /\ \A p, q, s : Spared(q, p) /\ Spared(s, q) => Spared(s, p)
<1>1. ASSUME NEW p
      PROVE  Spared(p, p)
  BY DEF Spared, Extends, StateKept, TargetKept
<1>2. ASSUME NEW p, NEW q, NEW s, Spared(q, p), Spared(s, q)
      PROVE  Spared(s, p)
  <2>1. Extends(s.remote.sent, p.remote.sent) /\ s.remote.gone = p.remote.gone
    BY <1>2 DEF Spared, Extends
  <2>2. ASSUME NEW t, StateKept(q.remote, p.remote, t), StateKept(s.remote, q.remote, t)
        PROVE  StateKept(s.remote, p.remote, t)
    BY <1>2, <2>2 DEF Spared, StateKept, Extends
  <2>3. ASSUME NEW t \in DOMAIN s.remote.targets
        PROVE  TargetKept(s, p, t) \/ Begun(s, t)
    <3>1. CASE TargetKept(s, q, t) /\ TargetKept(q, p, t)
      BY <2>2, <3>1 DEF TargetKept
    <3>2. CASE TargetKept(s, q, t) /\ Begun(q, t)
      <4>1. ASSUME stream = "open"
            PROVE  LastAsked(s.remote.sent, Watch(t, {s.limbos.active[t].key}, NoToken))
        <5> DEFINE w == Watch(t, {s.limbos.active[t].key}, NoToken)
        <5>1. w.target = t
          BY DEF Watch
        <5>2. LastAsked(q.remote.sent, w)
          BY <3>2, <4>1 DEF TargetKept, Begun
        <5> HIDE DEF w
        <5>3. \A i \in DOMAIN s.remote.sent \ DOMAIN q.remote.sent : s.remote.sent[i].target # w.target
          BY <3>2, <5>1 DEF TargetKept, StateKept
        <5>4. LastAsked(s.remote.sent, w)
          BY <1>2, <5>2, <5>3, LastAskedOn DEF Spared
        <5> QED  BY <5>4 DEF w
      <4> QED  BY <3>2, <4>1 DEF TargetKept, Begun, StateKept
    <3>3. CASE Begun(s, t)
      BY <3>3
    <3>4. TargetKept(s, q, t) => TargetKept(q, p, t) \/ Begun(q, t)
      BY <1>2 DEF Spared, TargetKept
    <3> QED  BY <1>2, <2>3, <3>1, <3>2, <3>3, <3>4 DEF Spared
  <2> QED  BY <1>2, <2>1, <2>2, <2>3 DEF Spared
<1> QED  BY <1>1, <1>2

--------------------------------------------------------------------------------
(* Limbo lookups *)

LEMMA MessageTargets ==
    ASSUME NEW m \in Messages \cup Requests
    PROVE  m.target \in Nat
<1>1. Query \in Nat
  BY DEF Query
<1> QED  BY <1>1 DEF Messages, DocsMessages, Filters, Acks, Snapshots, Requests

(* There is an id in use nowhere.                                          *)
LEMMA FreeId ==
    ASSUME NEW p \in Pairs, served \in Tables(Watched), responses \in Seq(Messages)
    PROVE  \E i \in 1 .. Cardinality(IdsInUse(p)) : i \notin IdsInUse(p)
<1> DEFINE ms == Range(responses) \cup Range(p.remote.sent)
           target == [m \in ms |-> m.target]
<1>1. /\ p.remote.targets \in Tables(Tokens) /\ p.remote.states \in Tables(TargetStates)
      /\ p.limbos.active \in Tables(Lookups) /\ p.remote.sent \in Seq(Requests)
  BY DEF Pairs, Remotes, Limbos
<1>2. /\ IsFiniteSet(DOMAIN p.remote.targets) /\ DOMAIN p.remote.targets \subseteq Nat
      /\ IsFiniteSet(DOMAIN p.remote.states) /\ DOMAIN p.remote.states \subseteq Nat
      /\ IsFiniteSet(DOMAIN p.limbos.active) /\ DOMAIN p.limbos.active \subseteq Nat
      /\ IsFiniteSet(DOMAIN served) /\ DOMAIN served \subseteq Nat
  BY <1>1, TableFacts
<1>3. IsFiniteSet(ms)
  <2>1. IsFiniteSet(DOMAIN responses) /\ IsFiniteSet(DOMAIN p.remote.sent)
    <3>1. DOMAIN responses = 1 .. Len(responses) /\ DOMAIN p.remote.sent = 1 .. Len(p.remote.sent)
          /\ Len(responses) \in Int /\ Len(p.remote.sent) \in Int
      BY <1>1
    <3> QED  BY <3>1, FS_Interval
  <2>2. IsFiniteSet(Range(responses)) /\ IsFiniteSet(Range(p.remote.sent))
    BY <2>1, FiniteImage DEF Range
  <2> QED  BY <2>2, FS_Union
<1>4. \A m \in ms : m.target \in Nat
  <2>1. ms \subseteq Messages \cup Requests
    BY <1>1 DEF Range
  <2> QED  BY <2>1, MessageTargets
<1>5. IsFiniteSet({target[m] : m \in ms}) /\ {m.target : m \in ms} = {target[m] : m \in ms}
  <2>1. {m.target : m \in ms} = {target[m] : m \in ms}
    OBVIOUS
  <2> HIDE DEF target, ms
  <2> QED  BY <1>3, <2>1, FiniteImage
<1> DEFINE Ids == {m.target : m \in ms}
<1>6. IsFiniteSet(Ids) /\ Ids \subseteq Nat
  <2> HIDE DEF ms, target
  <2> QED  BY <1>4, <1>5
<1>7. IdsInUse(p) = {Query} \cup DOMAIN p.remote.targets \cup DOMAIN p.remote.states
                    \cup DOMAIN p.limbos.active \cup DOMAIN served \cup Ids
  BY DEF IdsInUse
<1> HIDE DEF Ids
<1>8. IsFiniteSet({Query}) /\ Query = 0
  BY FS_Singleton DEF Query
<1>9. IsFiniteSet({Query} \cup DOMAIN p.remote.targets \cup DOMAIN p.remote.states)
  <2>1. IsFiniteSet({Query} \cup DOMAIN p.remote.targets)
    BY <1>2, <1>8, FS_Union
  <2> QED  BY <1>2, <2>1, FS_Union
<1>10. IsFiniteSet(IdsInUse(p))
  <2>1. IsFiniteSet({Query} \cup DOMAIN p.remote.targets \cup DOMAIN p.remote.states
                    \cup DOMAIN p.limbos.active)
    BY <1>2, <1>9, FS_Union
  <2>2. IsFiniteSet({Query} \cup DOMAIN p.remote.targets \cup DOMAIN p.remote.states
                    \cup DOMAIN p.limbos.active \cup DOMAIN served)
    BY <1>2, <2>1, FS_Union
  <2> QED  BY <1>6, <1>7, <2>2, FS_Union
<1>11. IdsInUse(p) \in SUBSET Nat /\ 0 \in IdsInUse(p)
  <2> HIDE DEF ms, target
  <2>1. {Query} \in SUBSET Nat /\ 0 \in {Query}
    BY <1>8
  <2> QED  BY <1>2, <1>6, <1>7, <2>1
<1> QED  BY <1>10, <1>11, FreeNumber

(* A lookup more, where there is room for one.                             *)
LEMMA ResolveSound ==
    ASSUME NEW p, NEW ms \in Seq(Messages), NEW lv \in BOOLEAN, NEW dn,
           Sound(p, ms, lv, stream, dn),
           served \in Tables(Watched), responses \in Seq(Messages),
           NEW k \in Keys, Cardinality(DOMAIN p.limbos.byKey) < MaxConcurrentLimboResolutions
    PROVE  /\ Sound(Resolve(p, k), ms, lv, stream, dn)
           /\ Resolve(p, k).remote.updated = p.remote.updated
           /\ QueryKept(Resolve(p, k).remote, p.remote) /\ Spared(Resolve(p, k), p)
           /\ Resolve(p, k).limbos.enqueued = p.limbos.enqueued
           /\ DOMAIN Resolve(p, k).limbos.byKey = DOMAIN p.limbos.byKey \cup {k}
<1> DEFINE t == CHOOSE i \in 1 .. Cardinality(IdsInUse(p)) : i \notin IdsInUse(p)
           r == Listen(p.remote, t, {k}, NoToken)
           active == With(p.limbos.active, t, [key |-> k, received |-> FALSE])
           byKey == IF k \in DOMAIN p.limbos.byKey THEN p.limbos.byKey
                    ELSE With(p.limbos.byKey, k, t)
           l == [p.limbos EXCEPT !.active = active, !.byKey = byKey]
<1>0. p \in Pairs /\ p.limbos \in Limbos /\ RemoteSound(p.remote, ms, stream, dn)
  BY DEF Sound, Pairs
<1>1. Resolve(p, k) = [remote |-> r, limbos |-> l]
  BY DEF Resolve
<1>2. t \in Nat /\ t # Query /\ t \notin DOMAIN p.limbos.active
  <2>1. t \in 1 .. Cardinality(IdsInUse(p)) /\ t \notin IdsInUse(p)
    BY <1>0, FreeId
  <2> HIDE DEF t
  <2> QED  BY <2>1 DEF IdsInUse
<1> HIDE DEF t
<1>10. Listened(Listen(p.remote, t, {k}, NoToken), p.remote, t, {k}, NoToken)
  <2> DEFINE scope == {k}
             q == p.remote
  <2>1. scope \in SUBSET Keys /\ NoToken \in Tokens /\ q \in Remotes
    BY <1>0, NoTokenType DEF RemoteSound
  <2> HIDE DEF scope, q
  <2>2. Listened(Listen(q, t, scope, NoToken), q, t, scope, NoToken)
    BY <1>2, <2>1, ListenDetails
  <2> QED  BY <2>2 DEF q, scope
<1>3. /\ RemoteSound(r, ms, stream, dn) /\ r.updated = p.remote.updated
      /\ DOMAIN r.targets = DOMAIN p.remote.targets \cup {t}
      /\ QueryKept(r, p.remote)
  <2>1. {k} \in SUBSET Keys /\ NoToken \in Tokens
    BY NoTokenType
  <2>2. p.remote \in Remotes
    BY <1>0 DEF RemoteSound
  <2> DEFINE scope == {k}
             q == p.remote
  <2> HIDE DEF scope, q
  <2>3. RemoteSound(Listen(q, t, scope, NoToken), ms, stream, dn)
    BY <1>0, <1>2, <2>1, ListenSound DEF scope, q
  <2>4. /\ DOMAIN Listen(q, t, scope, NoToken).targets = DOMAIN q.targets \cup {t}
        /\ Listen(q, t, scope, NoToken).updated = q.updated
    BY <1>2, <2>1, <2>2, ListenFacts DEF scope, q
  <2>5. QueryKept(Listen(q, t, scope, NoToken), q)
    BY <1>2, <2>1, <2>2, ListenKeepsQuery DEF scope, q
  <2> QED  BY <2>3, <2>4, <2>5 DEF scope, q
<1>11. /\ r.targets[t] = NoToken
       /\ \A u \in DOMAIN p.remote.targets \ {t} : r.targets[u] = p.remote.targets[u]
       /\ GatheringKept(r, p.remote, t)
       /\ IF stream = "open"
          THEN /\ r.sent = Append(p.remote.sent, Watch(t, {k}, NoToken))
               /\ DOMAIN r.states = DOMAIN p.remote.states \cup {t}
          ELSE r.sent = p.remote.sent /\ r.states = p.remote.states
  BY <1>10 DEF Listened
<1> HIDE DEF r
<1>4. /\ active \in Tables(Lookups) /\ DOMAIN active = DOMAIN p.limbos.active \cup {t}
      /\ active[t].key = k /\ ~active[t].received
      /\ \A u \in DOMAIN p.limbos.active : active[u] = p.limbos.active[u]
  <2>1. [key |-> k, received |-> FALSE] \in Lookups /\ p.limbos.active \in Tables(Lookups)
    BY <1>0 DEF Lookups, Limbos
  <2>2. active \in Tables(Lookups)
    BY <1>2, <2>1, WithTable
  <2> QED  BY <1>2, <2>2 DEF With
<1>5. /\ byKey \in Tables(Nat) /\ DOMAIN byKey = DOMAIN p.limbos.byKey \cup {k}
      /\ \A j \in DOMAIN p.limbos.byKey : byKey[j] = p.limbos.byKey[j]
      /\ k \notin DOMAIN p.limbos.byKey => byKey[k] = t
  <2>1. p.limbos.byKey \in Tables(Nat) /\ k \in Nat
    BY <1>0, KeysFinite DEF Limbos
  <2>2. With(p.limbos.byKey, k, t) \in Tables(Nat)
    BY <1>2, <2>1, WithTable
  <2> QED  BY <2>1, <2>2 DEF With
<1> HIDE DEF active, byKey
<1>6. /\ l \in Limbos /\ l.active = active /\ l.byKey = byKey
      /\ l.enqueued = p.limbos.enqueued
  BY <1>0, <1>4, <1>5 DEF Limbos
<1> HIDE DEF l
<1>7. Cardinality(DOMAIN byKey) <= MaxConcurrentLimboResolutions
  <2>1. p.limbos.byKey \in Tables(Nat)
    BY <1>0 DEF Limbos
  <2>2. IsFiniteSet(DOMAIN p.limbos.byKey)
    BY <2>1, TableFacts
  <2>3. Cardinality(DOMAIN p.limbos.byKey) \in Nat
    BY <2>2, FS_CardinalityType
  <2>4. Cardinality(DOMAIN byKey) = IF k \in DOMAIN p.limbos.byKey
                                    THEN Cardinality(DOMAIN p.limbos.byKey)
                                    ELSE Cardinality(DOMAIN p.limbos.byKey) + 1
    BY <1>5, <2>2, FS_AddElement
  <2> QED  BY <2>3, <2>4, KeysFinite
<1>8. Agree(r, l, lv)
  <2>1. Agree(p.remote, p.limbos, lv)
    BY DEF Sound
  <2>2. ASSUME NEW j \in DOMAIN l.byKey
        PROVE  l.byKey[j] \in DOMAIN l.active /\ l.active[l.byKey[j]].key = j
    <3>1. CASE j \in DOMAIN p.limbos.byKey
      BY <1>4, <1>5, <1>6, <2>1, <3>1 DEF Agree
    <3>2. CASE j \notin DOMAIN p.limbos.byKey
      BY <1>4, <1>5, <1>6, <2>2, <3>2
    <3> QED  BY <3>1, <3>2
  <2> QED  BY <1>2, <1>3, <1>4, <1>5, <1>6, <1>7, <2>1, <2>2 DEF Agree
<1>9. [remote |-> r, limbos |-> l] \in Pairs
  BY <1>3, <1>6 DEF RemoteSound, Pairs
<1>12. Spared([remote |-> r, limbos |-> l], p)
  <2> DEFINE z == [remote |-> r, limbos |-> l]
  <2>1. z.remote = r /\ z.limbos = l
    OBVIOUS
  <2> HIDE DEF z
  <2>2. \A u \in DOMAIN p.remote.targets : u \in Nat
    <3>1. p.remote.targets \in Tables(Tokens)
      BY <1>0 DEF RemoteSound, Remotes
    <3> QED  BY <3>1, TableFacts
  <2>3. DOMAIN p.remote.targets \subseteq DOMAIN p.limbos.active \cup {Query} /\ Query \in Nat
    BY DEF Sound, Agree, Query
  <2> DEFINE w == Watch(t, {k}, NoToken)
  <2>4. w.target = t /\ w \in Requests /\ p.remote.sent \in Seq(Requests)
    <3>1. {k} \in SUBSET Keys
      OBVIOUS
    <3> QED  BY <1>0, <1>2, <3>1, NoTokenType, RequestTypes DEF RemoteSound, Remotes
  <2>5. IF stream = "open" THEN r.sent = Append(p.remote.sent, w)
                           ELSE r.sent = p.remote.sent
    BY <1>11
  <2> HIDE DEF w
  <2>6. /\ Extends(r.sent, p.remote.sent)
        /\ \A i \in DOMAIN r.sent \ DOMAIN p.remote.sent : r.sent[i].target = t
        /\ stream = "open" => LastAsked(r.sent, w)
    <3>1. CASE stream = "open"
      <4>1. /\ Extends(Append(p.remote.sent, w), p.remote.sent)
            /\ \A i \in DOMAIN Append(p.remote.sent, w) \ DOMAIN p.remote.sent :
                  Append(p.remote.sent, w)[i] = w
            /\ LastAsked(Append(p.remote.sent, w), w)
        BY <2>4, ExtendsAppend
      <4>2. r.sent = Append(p.remote.sent, w)
        BY <2>5, <3>1
      <4> QED  BY <2>4, <4>1, <4>2
    <3>2. CASE stream # "open"
      BY <2>5, <3>2 DEF Extends
    <3> QED  BY <3>1, <3>2
  <2>7. \A u \in Nat \ {t} : StateKept(r, p.remote, u)
    BY <1>11, <2>6 DEF StateKept, GatheringKept
  <2>8. ASSUME NEW u \in DOMAIN r.targets, u # t
        PROVE  TargetKept(z, p, u)
    <3>1. u \in DOMAIN p.remote.targets /\ r.targets[u] = p.remote.targets[u]
      BY <1>3, <1>11, <2>8
    <3>2. StateKept(r, p.remote, u)
      BY <2>2, <2>7, <2>8, <3>1
    <3>3. u # Query => l.active[u] = p.limbos.active[u]
      BY <1>4, <1>6, <2>3, <3>1
    <3> QED  BY <2>1, <3>1, <3>2, <3>3 DEF TargetKept
  <2>9. Begun(z, t)
    <3>1. l.active[t].key = k /\ ~l.active[t].received
      BY <1>4, <1>6
    <3>2. t # Query /\ r.targets[t] = NoToken /\ (stream = "open" => t \in DOMAIN r.states)
      BY <1>2, <1>11
    <3>3. w = Watch(t, {l.active[t].key}, NoToken)
      BY <3>1 DEF w
    <3>4. stream = "open" => LastAsked(r.sent, Watch(t, {l.active[t].key}, NoToken))
      BY <2>6, <3>3
    <3> HIDE DEF l, w
    <3> QED  BY <2>1, <3>1, <3>2, <3>4 DEF Begun
  <2>10. StateKept(r, p.remote, Query) /\ r.gone = p.remote.gone
    BY <1>2, <1>11, <2>3, <2>7 DEF GatheringKept
  <2>11. Spared(z, p)
    BY <2>1, <2>6, <2>8, <2>9, <2>10 DEF Spared
  <2> QED  BY <2>11 DEF z
<1> QED  BY <1>1, <1>3, <1>5, <1>6, <1>8, <1>9, <1>12 DEF Sound

(* q comes from p by lookups that end and lookups that begin: what is lost *)
(* is no longer looked up, what is new is.                                 *)
Onward(p, q, lost, new, ms, lv, dn) ==
    /\ Sound(q, ms, lv, stream, dn)
    /\ q.remote.updated = p.remote.updated
    /\ QueryKept(q.remote, p.remote) /\ Spared(q, p)
    /\ (Pursued(p) \ lost) \cup new \subseteq Pursued(q)

LEMMA QueryKeptOn ==
    ASSUME NEW r
    PROVE  /\ QueryKept(r, r)
           /\ \A q, s : QueryKept(q, r) /\ QueryKept(s, q) => QueryKept(s, r)
BY DEF QueryKept

LEMMA EnqueueFacts ==
    ASSUME NEW p \in Pairs, NEW ks \in Seq(Keys)
    PROVE  /\ Enqueue(p, ks) \in Pairs /\ Enqueue(p, ks).remote = p.remote
           /\ Enqueue(p, ks).limbos.active = p.limbos.active
           /\ Enqueue(p, ks).limbos.byKey = p.limbos.byKey
           /\ Enqueue(p, ks).limbos.enqueued = ks
<1> DEFINE l == [p.limbos EXCEPT !.enqueued = ks]
<1>1. /\ l \in Limbos /\ l.active = p.limbos.active /\ l.byKey = p.limbos.byKey
      /\ l.enqueued = ks
  BY DEF Limbos, Pairs
<1>2. Enqueue(p, ks) = [p EXCEPT !.limbos = l]
  BY DEF Enqueue
<1> HIDE DEF l
<1> QED  BY <1>1, <1>2 DEF Pairs

LEMMA EnqueueSpared ==
    ASSUME NEW p, NEW q, q.remote = p.remote, q.limbos.active = p.limbos.active
    PROVE  /\ Spared(q, p)
           /\ \A s : Spared(s, q) => Spared(s, p)
<1>1. Spared(q, p)
  BY DEF Spared, Extends, StateKept, TargetKept
<1> QED  BY <1>1, SparedOn

LEMMA EnqueueSound ==
    ASSUME NEW p, NEW ks \in Seq(Keys), NEW ms, NEW lv, NEW dn, Sound(p, ms, lv, stream, dn)
    PROVE  Sound(Enqueue(p, ks), ms, lv, stream, dn)
<1>1. p \in Pairs
  BY DEF Sound
<1> QED  BY <1>1, EnqueueFacts DEF Sound, Agree

LEMMA RangeAppend ==
    ASSUME NEW M, NEW q \in Seq(M), NEW x \in M
    PROVE  Range(Append(q, x)) = Range(q) \cup {x}
<1>1. /\ DOMAIN Append(q, x) = 1 .. Len(q) + 1 /\ DOMAIN q = 1 .. Len(q) /\ Len(q) \in Nat
      /\ Append(q, x)[Len(q) + 1] = x
      /\ \A i \in 1 .. Len(q) : Append(q, x)[i] = q[i]
  OBVIOUS
<1> DEFINE n == Len(q)
<1> HIDE DEF n
<1>2. 1 .. n + 1 = (1 .. n) \cup {n + 1} /\ n \in Nat
  BY <1>1 DEF n
<1> QED  BY <1>1, <1>2 DEF Range, n

(* One document of the queue: it is looked up, or put back.                *)
PumpOne(q, k) ==
    IF Cardinality(DOMAIN q.limbos.byKey) < MaxConcurrentLimboResolutions
    THEN Resolve(q, k) ELSE Enqueue(q, Append(q.limbos.enqueued, k))

LEMMA PumpOneOnward ==
    ASSUME NEW p, NEW ms \in Seq(Messages), NEW lv \in BOOLEAN, NEW dn,
           Sound(p, ms, lv, stream, dn),
           served \in Tables(Watched), responses \in Seq(Messages), NEW k \in Keys
    PROVE  Onward(p, PumpOne(p, k), {}, {k}, ms, lv, dn)
<1>1. p \in Pairs /\ p.limbos.enqueued \in Seq(Keys)
  BY DEF Sound, Pairs, Limbos
<1>2. CASE Cardinality(DOMAIN p.limbos.byKey) < MaxConcurrentLimboResolutions
  <2>1. PumpOne(p, k) = Resolve(p, k)
    BY <1>2 DEF PumpOne
  <2>2. /\ Sound(Resolve(p, k), ms, lv, stream, dn)
        /\ Resolve(p, k).remote.updated = p.remote.updated
        /\ QueryKept(Resolve(p, k).remote, p.remote) /\ Spared(Resolve(p, k), p)
        /\ Resolve(p, k).limbos.enqueued = p.limbos.enqueued
        /\ DOMAIN Resolve(p, k).limbos.byKey = DOMAIN p.limbos.byKey \cup {k}
    BY <1>2, ResolveSound
  <2> QED  BY <2>1, <2>2 DEF Onward, Pursued
<1>3. CASE ~ (Cardinality(DOMAIN p.limbos.byKey) < MaxConcurrentLimboResolutions)
  <2> DEFINE ks == Append(p.limbos.enqueued, k)
  <2>1. PumpOne(p, k) = Enqueue(p, ks)
    BY <1>3 DEF PumpOne
  <2>2. ks \in Seq(Keys) /\ Range(ks) = Range(p.limbos.enqueued) \cup {k}
    BY <1>1, RangeAppend
  <2> HIDE DEF ks
  <2>3. Sound(Enqueue(p, ks), ms, lv, stream, dn)
    BY <2>2, EnqueueSound
  <2>4. Spared(Enqueue(p, ks), p)
    BY <1>1, <2>2, EnqueueFacts, EnqueueSpared
  <2> QED  BY <1>1, <2>1, <2>2, <2>3, <2>4, EnqueueFacts, QueryKeptOn DEF Onward, Pursued
<1> QED  BY <1>2, <1>3

(* The queue is emptied and filled again, and nothing in it is lost.       *)
LEMMA PumpOnward ==
    ASSUME NEW p, NEW ms \in Seq(Messages), NEW lv \in BOOLEAN, NEW dn,
           Sound(p, ms, lv, stream, dn),
           served \in Tables(Watched), responses \in Seq(Messages)
    PROVE  Onward(p, PumpEnqueuedLimboResolutions(p), {}, {}, ms, lv, dn)
<1> DEFINE ks == p.limbos.enqueued
           base == Enqueue(p, <<>>)
           size == Len(ks)
           U == {q \in Pairs : Onward(base, q, {}, {}, ms, lv, dn)}
           F == [x \in U \X Keys |-> PumpOne(x[1], x[2])]
           Is(h) == h = [s \in SUBSET DOMAIN ks |->
                           IF s = {} THEN base ELSE PumpOne(h[s \ {Max(s)}], ks[Max(s)])]
           fold == CHOOSE h : Is(h)
<1>1. PumpEnqueuedLimboResolutions(p) = fold[DOMAIN ks]
  BY DEF PumpEnqueuedLimboResolutions, FoldLeft, MapThenFoldSet, PumpOne
<1>2. p \in Pairs /\ ks \in Seq(Keys) /\ <<>> \in Seq(Keys)
  BY DEF Sound, Pairs, Limbos
<1>3. /\ base \in Pairs /\ Sound(base, ms, lv, stream, dn)
      /\ base.remote = p.remote /\ base.limbos.byKey = p.limbos.byKey
      /\ base.limbos.enqueued = <<>>
      /\ \A s : Spared(s, base) => Spared(s, p)
  BY <1>2, EnqueueFacts, EnqueueSound, EnqueueSpared
<1>4. base \in U
  BY <1>3, QueryKeptOn, SparedOn DEF Onward
<1>5. ASSUME NEW q \in U, NEW k \in Keys
      PROVE  PumpOne(q, k) \in U /\ Pursued(q) \cup {k} \subseteq Pursued(PumpOne(q, k))
  <2>1. Onward(base, q, {}, {}, ms, lv, dn)
    OBVIOUS
  <2>2. Onward(q, PumpOne(q, k), {}, {k}, ms, lv, dn)
    BY <2>1, PumpOneOnward DEF Onward
  <2>3. Onward(base, PumpOne(q, k), {}, {}, ms, lv, dn)
    BY <2>1, <2>2, QueryKeptOn, SparedOn DEF Onward
  <2>4. PumpOne(q, k) \in Pairs
    BY <2>2 DEF Onward, Sound
  <2> QED  BY <2>2, <2>3, <2>4 DEF Onward
<1> HIDE DEF U, base
<1>6. F \in [U \X Keys -> U]
  BY <1>5
<1>7. \E h : Is(h)
  <2> HIDE DEF F, ks
  <2>1. PICK h \in [SUBSET DOMAIN ks -> U] : IsFoldOf(h, F, base, ks)
    BY <1>2, <1>4, <1>6, FoldExists
  <2>2. ASSUME NEW s \in SUBSET DOMAIN ks, s # {}
        PROVE  F[<<h[s \ {Max(s)}], ks[Max(s)]>>] = PumpOne(h[s \ {Max(s)}], ks[Max(s)])
    <3>1. DOMAIN ks = 1 .. Len(ks) /\ Len(ks) \in Nat
      BY <1>2
    <3>2. Max(s) \in s
      BY <2>2, <3>1, LargestOf
    <3>3. ks[Max(s)] \in Keys /\ h[s \ {Max(s)}] \in U
      BY <1>2, <3>1, <3>2
    <3> QED  BY <3>3 DEF F
  <2>3. Is(h)
    BY <2>1, <2>2 DEF IsFoldOf
  <2> QED  BY <2>3
<1>8. Is(fold)
  BY <1>7
<1> DEFINE Good == {s \in SUBSET (1 .. size) : /\ fold[s] \in U
                                            /\ \A i \in s : ks[i] \in Pursued(fold[s])}
<1>9. DOMAIN ks = 1 .. size /\ size \in Nat
  BY <1>2
<1>10. {} \in Good
  <2> HIDE DEF fold, ks, size
  <2>1. fold[{}] = base
    BY <1>8, <1>9
  <2> QED  BY <1>4, <2>1
<1>11. ASSUME NEW s \in SUBSET (1 .. size), s # {}, Max(s) \in s, s \ {Max(s)} \in Good
       PROVE  s \in Good
  <2> HIDE DEF fold, size
  <2>1. Max(s) \in s
    BY <1>11
  <2> HIDE DEF ks
  <2>2. ks[Max(s)] \in Keys
    <3>1. \A i \in DOMAIN ks : ks[i] \in Keys
      BY <1>2
    <3> QED  BY <1>9, <2>1, <3>1
  <2>3. fold[s] = PumpOne(fold[s \ {Max(s)}], ks[Max(s)])
    BY <1>8, <1>9, <1>11
  <2>4. fold[s \ {Max(s)}] \in U
    BY <1>11
  <2>5. /\ fold[s] \in U
        /\ Pursued(fold[s \ {Max(s)}]) \cup {ks[Max(s)]} \subseteq Pursued(fold[s])
    BY <1>5, <2>2, <2>3, <2>4
  <2>6. \A i \in s \ {Max(s)} : ks[i] \in Pursued(fold[s \ {Max(s)}])
    BY <1>11
  <2> QED  BY <2>5, <2>6
<1>12. 1 .. size \in Good
  <2> HIDE DEF Good, size
  <2> QED  BY <1>9, <1>10, <1>11, PositionsInduction
<1>13. fold[DOMAIN ks] \in U /\ Range(ks) \subseteq Pursued(fold[DOMAIN ks])
  <2> HIDE DEF fold, ks, size
  <2> QED  BY <1>9, <1>12 DEF Range
<1>14. Onward(base, fold[DOMAIN ks], {}, {}, ms, lv, dn)
  BY <1>13 DEF U
<1> HIDE DEF fold
<1> QED  BY <1>1, <1>3, <1>13, <1>14 DEF Onward, Pursued

LEMMA TrackOnward ==
    ASSUME NEW p, NEW ms \in Seq(Messages), NEW lv \in BOOLEAN, NEW dn,
           Sound(p, ms, lv, stream, dn),
           served \in Tables(Watched), responses \in Seq(Messages), NEW k \in Keys
    PROVE  Onward(p, TrackLimboChange(p, k), {}, {k}, ms, lv, dn)
<1>1. CASE k \in DOMAIN p.limbos.byKey
  BY <1>1, QueryKeptOn, SparedOn DEF TrackLimboChange, Onward, Pursued
<1>2. CASE k \notin DOMAIN p.limbos.byKey
  <2> DEFINE ks == Append(p.limbos.enqueued, k)
             q == Enqueue(p, ks)
  <2>1. p \in Pairs /\ ks \in Seq(Keys) /\ Range(ks) = Range(p.limbos.enqueued) \cup {k}
    <3>1. p \in Pairs /\ p.limbos.enqueued \in Seq(Keys)
      BY DEF Sound, Pairs, Limbos
    <3> QED  BY <3>1, RangeAppend
  <2> HIDE DEF ks
  <2>2. /\ Sound(q, ms, lv, stream, dn) /\ q.remote = p.remote
        /\ q.limbos.byKey = p.limbos.byKey /\ q.limbos.enqueued = ks
        /\ \A s : Spared(s, q) => Spared(s, p)
    BY <2>1, EnqueueFacts, EnqueueSound, EnqueueSpared
  <2>3. TrackLimboChange(p, k) = PumpEnqueuedLimboResolutions(q)
    BY <1>2 DEF TrackLimboChange, ks
  <2> HIDE DEF q
  <2>4. Onward(q, PumpEnqueuedLimboResolutions(q), {}, {}, ms, lv, dn)
    BY <2>2, PumpOnward
  <2> QED  BY <2>1, <2>2, <2>3, <2>4 DEF Onward, Pursued
<1> QED  BY <1>1, <1>2

LEMMA WithoutLookupFacts ==
    ASSUME NEW l \in Limbos, NEW t, NEW k
    PROVE  /\ WithoutLookup(l, t, k) \in Limbos
           /\ WithoutLookup(l, t, k).enqueued = l.enqueued
           /\ WithoutLookup(l, t, k).active = Less(l.active, t)
           /\ WithoutLookup(l, t, k).byKey = Less(l.byKey, k)
<1>1. l.active \in Tables(Lookups) /\ l.byKey \in Tables(Nat)
  BY DEF Limbos
<1>2. Less(l.active, t) \in Tables(Lookups) /\ Less(l.byKey, k) \in Tables(Nat)
  BY <1>1, LessTable
<1> QED  BY <1>2 DEF WithoutLookup, Limbos

(* A lookup that ends in both tables leaves them in agreement.             *)
LEMMA WithoutLookupAgrees ==
    ASSUME NEW r, NEW s, NEW l \in Limbos, NEW lv, Agree(r, l, lv),
           NEW t \in DOMAIN l.active, DOMAIN s.targets = DOMAIN r.targets \ {t}
    PROVE  Agree(s, WithoutLookup(l, t, l.active[t].key), lv)
<1> DEFINE k == l.active[t].key
           rest == WithoutLookup(l, t, k)
<1>1. rest.active = Less(l.active, t) /\ rest.byKey = Less(l.byKey, k)
  BY WithoutLookupFacts
<1>2. /\ DOMAIN rest.active = DOMAIN l.active \ {t}
      /\ \A u \in DOMAIN l.active \ {t} : rest.active[u] = l.active[u]
      /\ DOMAIN rest.byKey = DOMAIN l.byKey \ {k}
      /\ \A j \in DOMAIN l.byKey \ {k} : rest.byKey[j] = l.byKey[j]
  BY <1>1 DEF Less, Restrict
<1>3. Cardinality(DOMAIN rest.byKey) <= MaxConcurrentLimboResolutions
  <2>1. l.byKey \in Tables(Nat)
    BY DEF Limbos
  <2>2. IsFiniteSet(DOMAIN l.byKey) /\ DOMAIN rest.byKey \in SUBSET DOMAIN l.byKey
    BY <1>2, <2>1, TableFacts
  <2>3. /\ Cardinality(DOMAIN rest.byKey) <= Cardinality(DOMAIN l.byKey)
        /\ IsFiniteSet(DOMAIN rest.byKey)
    BY <2>2, FS_Subset
  <2>4. Cardinality(DOMAIN rest.byKey) \in Nat /\ Cardinality(DOMAIN l.byKey) \in Nat
    BY <2>2, <2>3, FS_CardinalityType
  <2>5. Cardinality(DOMAIN l.byKey) <= MaxConcurrentLimboResolutions
    BY DEF Agree
  <2> QED  BY <2>3, <2>4, <2>5, KeysFinite
<1>4. ASSUME NEW j \in DOMAIN rest.byKey
      PROVE  rest.byKey[j] \in DOMAIN rest.active /\ rest.active[rest.byKey[j]].key = j
  <2>1. /\ j \in DOMAIN l.byKey /\ j # k /\ rest.byKey[j] = l.byKey[j]
        /\ l.byKey[j] \in DOMAIN l.active /\ l.active[l.byKey[j]].key = j
    BY <1>2, <1>4 DEF Agree
  <2>2. l.byKey[j] # t
    BY <2>1
  <2> HIDE DEF rest
  <2> QED  BY <1>2, <2>1, <2>2
<1> HIDE DEF rest, k
<1>5. Agree(s, rest, lv)
  BY <1>2, <1>3, <1>4 DEF Agree
<1> QED  BY <1>5 DEF rest, k

LEMMA RemoveOnward ==
    ASSUME NEW p, NEW ms \in Seq(Messages), NEW lv \in BOOLEAN, NEW dn,
           Sound(p, ms, lv, stream, dn),
           served \in Tables(Watched), responses \in Seq(Messages), NEW k
    PROVE  Onward(p, RemoveLimboTarget(p, k), {k}, {}, ms, lv, dn)
<1>1. CASE k \notin DOMAIN p.limbos.byKey
  BY <1>1, QueryKeptOn, SparedOn DEF RemoveLimboTarget, Onward
<1>2. CASE k \in DOMAIN p.limbos.byKey
  <2> DEFINE t == p.limbos.byKey[k]
             r == StopListening(p.remote, t)
             l == WithoutLookup(p.limbos, t, k)
             q == [remote |-> r, limbos |-> l]
  <2>1. RemoveLimboTarget(p, k) = PumpEnqueuedLimboResolutions(q)
    BY <1>2 DEF RemoveLimboTarget
  <2>2. /\ p.remote \in Remotes /\ p.limbos \in Limbos
        /\ RemoteSound(p.remote, ms, stream, dn) /\ Agree(p.remote, p.limbos, lv)
    BY DEF Sound, Pairs
  <2>3. t \in DOMAIN p.limbos.active /\ p.limbos.active[t].key = k /\ t \in Nat
    <3>1. p.limbos.byKey \in Tables(Nat)
      BY <2>2 DEF Limbos
    <3>2. t \in Nat
      BY <1>2, <3>1, TableFacts
    <3> QED  BY <1>2, <2>2, <3>2 DEF Agree
  <2> HIDE DEF t
  <2>4. RemoteSound(r, ms, stream, dn)
    BY <2>2, <2>3, StopListeningSound
  <2>5. /\ DOMAIN r.targets = DOMAIN p.remote.targets \ {t} /\ r.updated = p.remote.updated
        /\ QueryKept(r, p.remote)
    <3>1. t # Query
      BY <2>2, <2>3 DEF Agree
    <3> QED  BY <2>2, <2>3, <3>1, StopListeningFacts, StopListeningKeepsQuery
  <2>13. /\ \A u \in DOMAIN p.remote.targets \ {t} : r.targets[u] = p.remote.targets[u]
         /\ GatheringKept(r, p.remote, t)
         /\ IF stream = "open"
            THEN /\ r.sent = Append(p.remote.sent, Unwatch(t))
                 /\ DOMAIN r.states = DOMAIN p.remote.states \cup {t}
            ELSE r.sent = p.remote.sent /\ r.states = p.remote.states
    BY <2>2, <2>3, StopListeningDetails
  <2> HIDE DEF r
  <2>6. Agree(r, l, lv)
    BY <2>2, <2>3, <2>5, WithoutLookupAgrees
  <2>7. /\ l \in Limbos /\ l.enqueued = p.limbos.enqueued /\ l.byKey = Less(p.limbos.byKey, k)
        /\ l.active = Less(p.limbos.active, t)
    BY <2>2, WithoutLookupFacts
  <2>8. /\ DOMAIN l.byKey = DOMAIN p.limbos.byKey \ {k}
        /\ \A u \in DOMAIN p.limbos.active \ {t} : l.active[u] = p.limbos.active[u]
    BY <2>7 DEF Less, Restrict
  <2> HIDE DEF l
  <2>9. Sound(q, ms, lv, stream, dn)
    BY <2>4, <2>6, <2>7 DEF Sound, RemoteSound, Pairs
  <2>10. q.remote = r /\ q.limbos = l
    OBVIOUS
  <2> HIDE DEF q
  <2>14. Spared(q, p)
    <3>1. p.remote.sent \in Seq(Requests) /\ t # Query /\ Query \in Nat
      BY <2>2, <2>3 DEF Remotes, Agree, Query
    <3>2. Unwatch(t) \in Requests /\ Unwatch(t).target = t
      BY <2>3, NoTokenType, RequestTypes
    <3> DEFINE w == Unwatch(t)
    <3>3. /\ Extends(r.sent, p.remote.sent)
          /\ \A i \in DOMAIN r.sent \ DOMAIN p.remote.sent : r.sent[i].target = t
      <4>1. r.sent = Append(p.remote.sent, w) \/ r.sent = p.remote.sent
        BY <2>13
      <4> HIDE DEF w
      <4>2. /\ Extends(Append(p.remote.sent, w), p.remote.sent)
            /\ \A i \in DOMAIN Append(p.remote.sent, w) \ DOMAIN p.remote.sent :
                  Append(p.remote.sent, w)[i] = w
        BY <3>1, <3>2, ExtendsAppend DEF w
      <4>3. w.target = t
        BY <3>2 DEF w
      <4>4. CASE r.sent = Append(p.remote.sent, w)
        BY <4>2, <4>3, <4>4
      <4>5. CASE r.sent = p.remote.sent
        BY <4>5 DEF Extends
      <4> QED  BY <4>1, <4>4, <4>5
    <3>4. \A u \in Nat \ {t} : StateKept(r, p.remote, u)
      BY <2>13, <3>3 DEF StateKept, GatheringKept
    <3>5. p.remote.targets \in Tables(Tokens)
      BY <2>2 DEF Remotes
    <3>6. \A u \in DOMAIN p.remote.targets : u \in Nat
      BY <3>5, TableFacts
    <3>7. ASSUME NEW u \in DOMAIN r.targets
          PROVE  TargetKept(q, p, u)
      <4>1. u \in DOMAIN p.remote.targets /\ u # t /\ u \in Nat
        BY <2>5, <3>6, <3>7
      <4>2. u # Query => u \in DOMAIN p.limbos.active
        BY <2>2, <4>1 DEF Agree
      <4> QED  BY <2>8, <2>10, <2>13, <3>4, <4>1, <4>2 DEF TargetKept
    <3> QED  BY <2>10, <2>13, <3>1, <3>3, <3>4, <3>7 DEF Spared, GatheringKept
  <2>11. Onward(q, PumpEnqueuedLimboResolutions(q), {}, {}, ms, lv, dn)
    BY <2>9, PumpOnward
  <2>12. /\ QueryKept(PumpEnqueuedLimboResolutions(q).remote, p.remote)
         /\ Spared(PumpEnqueuedLimboResolutions(q), p)
    BY <2>5, <2>10, <2>11, <2>14, QueryKeptOn, SparedOn DEF Onward
  <2> QED  BY <2>1, <2>5, <2>7, <2>8, <2>10, <2>11, <2>12 DEF Onward, Pursued
<1> QED  BY <1>1, <1>2

(* Lookups end, one after the other.                                       *)
LEMMA RemoveAllOnward ==
    ASSUME NEW p, NEW ms \in Seq(Messages), NEW lv \in BOOLEAN, NEW dn,
           Sound(p, ms, lv, stream, dn),
           served \in Tables(Watched), responses \in Seq(Messages), NEW ks \in SUBSET Keys
    PROVE  Onward(p, RemoveLimboTargets(p, ks), ks, {}, ms, lv, dn)
<1> DEFINE ids == Ascending(ks)
           size == Len(ids)
           U == {q \in Pairs : Onward(p, q, ks, {}, ms, lv, dn)}
           F == [x \in U \X ks |-> RemoveLimboTarget(x[1], x[2])]
           Is(h) == h = [s \in SUBSET DOMAIN ids |->
                           IF s = {} THEN p ELSE RemoveLimboTarget(h[s \ {Max(s)}], ids[Max(s)])]
           fold == CHOOSE h : Is(h)
<1>1. RemoveLimboTargets(p, ks) = fold[DOMAIN ids]
  BY DEF RemoveLimboTargets, FoldLeft, MapThenFoldSet
<1>2. /\ ids \in Seq(ks)
      /\ \A k \in ks : \E i \in DOMAIN ids : ids[i] = k
  <2>1. ks \in SUBSET Nat /\ IsFiniteSet(ks)
    BY KeysFinite, FS_Subset
  <2> QED  BY <2>1, AscendingFacts
<1>3. p \in Pairs
  BY DEF Sound
<1>4. p \in U
  BY <1>3, QueryKeptOn, SparedOn DEF Onward
<1>5. ASSUME NEW q \in U, NEW k \in ks
      PROVE  RemoveLimboTarget(q, k) \in U
  <2>1. Onward(p, q, ks, {}, ms, lv, dn)
    OBVIOUS
  <2>2. Onward(q, RemoveLimboTarget(q, k), {k}, {}, ms, lv, dn)
    BY <2>1, RemoveOnward DEF Onward
  <2>3. Onward(p, RemoveLimboTarget(q, k), ks, {}, ms, lv, dn)
    BY <2>1, <2>2, QueryKeptOn, SparedOn DEF Onward
  <2>4. RemoveLimboTarget(q, k) \in Pairs
    BY <2>2 DEF Onward, Sound
  <2> QED  BY <2>2, <2>3, <2>4 DEF Onward
<1> HIDE DEF U
<1>6. F \in [U \X ks -> U]
  BY <1>5
<1>7. \E h : Is(h)
  <2> HIDE DEF F, ids
  <2>1. PICK h \in [SUBSET DOMAIN ids -> U] : IsFoldOf(h, F, p, ids)
    BY <1>2, <1>4, <1>6, FoldExists
  <2>2. ASSUME NEW s \in SUBSET DOMAIN ids, s # {}
        PROVE  F[<<h[s \ {Max(s)}], ids[Max(s)]>>] = RemoveLimboTarget(h[s \ {Max(s)}], ids[Max(s)])
    <3>1. DOMAIN ids = 1 .. Len(ids) /\ Len(ids) \in Nat
      BY <1>2
    <3>2. Max(s) \in s
      BY <2>2, <3>1, LargestOf
    <3>3. ids[Max(s)] \in ks /\ h[s \ {Max(s)}] \in U
      BY <1>2, <3>1, <3>2
    <3> QED  BY <3>3 DEF F
  <2>3. Is(h)
    BY <2>1, <2>2 DEF IsFoldOf
  <2> QED  BY <2>3
<1>8. Is(fold)
  BY <1>7
<1> DEFINE Good == {s \in SUBSET (1 .. size) : fold[s] \in U}
<1>9. DOMAIN ids = 1 .. size /\ size \in Nat
  BY <1>2
<1>10. {} \in Good
  <2> HIDE DEF fold, ids, size
  <2>1. fold[{}] = p
    BY <1>8, <1>9
  <2> QED  BY <1>4, <2>1
<1>11. ASSUME NEW s \in SUBSET (1 .. size), s # {}, Max(s) \in s, s \ {Max(s)} \in Good
       PROVE  s \in Good
  <2> HIDE DEF fold, size, ids
  <2>1. ids[Max(s)] \in ks
    <3>1. \A i \in DOMAIN ids : ids[i] \in ks
      BY <1>2
    <3> QED  BY <1>9, <1>11, <3>1
  <2>2. fold[s] = RemoveLimboTarget(fold[s \ {Max(s)}], ids[Max(s)])
    BY <1>8, <1>9, <1>11
  <2>3. fold[s \ {Max(s)}] \in U
    BY <1>11
  <2> QED  BY <1>5, <2>1, <2>2, <2>3
<1>12. 1 .. size \in Good
  <2> HIDE DEF Good, size
  <2> QED  BY <1>9, <1>10, <1>11, PositionsInduction
<1>13. fold[DOMAIN ids] \in U
  <2> HIDE DEF fold, ids, size
  <2> QED  BY <1>9, <1>12
<1> QED  BY <1>1, <1>13 DEF U

(* Lookups begin, one after the other.                                     *)
LEMMA TrackAllOnward ==
    ASSUME NEW p, NEW ms \in Seq(Messages), NEW lv \in BOOLEAN, NEW dn,
           Sound(p, ms, lv, stream, dn),
           served \in Tables(Watched), responses \in Seq(Messages), NEW ks \in SUBSET Keys
    PROVE  Onward(p, TrackLimboChanges(p, ks), {}, ks, ms, lv, dn)
<1> DEFINE ids == Ascending(ks)
           size == Len(ids)
           U == {q \in Pairs : Onward(p, q, {}, {}, ms, lv, dn)}
           F == [x \in U \X ks |-> TrackLimboChange(x[1], x[2])]
           Is(h) == h = [s \in SUBSET DOMAIN ids |->
                           IF s = {} THEN p ELSE TrackLimboChange(h[s \ {Max(s)}], ids[Max(s)])]
           fold == CHOOSE h : Is(h)
<1>1. TrackLimboChanges(p, ks) = fold[DOMAIN ids]
  BY DEF TrackLimboChanges, FoldLeft, MapThenFoldSet
<1>2. /\ ids \in Seq(ks)
      /\ \A k \in ks : \E i \in DOMAIN ids : ids[i] = k
  <2>1. ks \in SUBSET Nat /\ IsFiniteSet(ks)
    BY KeysFinite, FS_Subset
  <2> QED  BY <2>1, AscendingFacts
<1>3. p \in Pairs
  BY DEF Sound
<1>4. p \in U
  BY <1>3, QueryKeptOn, SparedOn DEF Onward
<1>5. ASSUME NEW q \in U, NEW k \in ks
      PROVE  TrackLimboChange(q, k) \in U /\ Pursued(q) \cup {k} \subseteq Pursued(TrackLimboChange(q, k))
  <2>1. Onward(p, q, {}, {}, ms, lv, dn)
    OBVIOUS
  <2>2. Onward(q, TrackLimboChange(q, k), {}, {k}, ms, lv, dn)
    BY <2>1, TrackOnward DEF Onward
  <2>3. Onward(p, TrackLimboChange(q, k), {}, {}, ms, lv, dn)
    BY <2>1, <2>2, QueryKeptOn, SparedOn DEF Onward
  <2>4. TrackLimboChange(q, k) \in Pairs
    BY <2>2 DEF Onward, Sound
  <2> QED  BY <2>2, <2>3, <2>4 DEF Onward
<1> HIDE DEF U
<1>6. F \in [U \X ks -> U]
  BY <1>5
<1>7. \E h : Is(h)
  <2> HIDE DEF F, ids
  <2>1. PICK h \in [SUBSET DOMAIN ids -> U] : IsFoldOf(h, F, p, ids)
    BY <1>2, <1>4, <1>6, FoldExists
  <2>2. ASSUME NEW s \in SUBSET DOMAIN ids, s # {}
        PROVE  F[<<h[s \ {Max(s)}], ids[Max(s)]>>] = TrackLimboChange(h[s \ {Max(s)}], ids[Max(s)])
    <3>1. DOMAIN ids = 1 .. Len(ids) /\ Len(ids) \in Nat
      BY <1>2
    <3>2. Max(s) \in s
      BY <2>2, <3>1, LargestOf
    <3>3. ids[Max(s)] \in ks /\ h[s \ {Max(s)}] \in U
      BY <1>2, <3>1, <3>2
    <3> QED  BY <3>3 DEF F
  <2>3. Is(h)
    BY <2>1, <2>2 DEF IsFoldOf
  <2> QED  BY <2>3
<1>8. Is(fold)
  BY <1>7
<1> DEFINE Good == {s \in SUBSET (1 .. size) : /\ fold[s] \in U
                                            /\ \A i \in s : ids[i] \in Pursued(fold[s])}
<1>9. DOMAIN ids = 1 .. size /\ size \in Nat
  BY <1>2
<1>10. {} \in Good
  <2> HIDE DEF fold, ids, size
  <2>1. fold[{}] = p
    BY <1>8, <1>9
  <2> QED  BY <1>4, <2>1
<1>11. ASSUME NEW s \in SUBSET (1 .. size), s # {}, Max(s) \in s, s \ {Max(s)} \in Good
       PROVE  s \in Good
  <2> HIDE DEF fold, size, ids
  <2>1. ids[Max(s)] \in ks
    <3>1. \A i \in DOMAIN ids : ids[i] \in ks
      BY <1>2
    <3> QED  BY <1>9, <1>11, <3>1
  <2>2. fold[s] = TrackLimboChange(fold[s \ {Max(s)}], ids[Max(s)])
    BY <1>8, <1>9, <1>11
  <2>3. fold[s \ {Max(s)}] \in U
    BY <1>11
  <2>4. /\ fold[s] \in U
        /\ Pursued(fold[s \ {Max(s)}]) \cup {ids[Max(s)]} \subseteq Pursued(fold[s])
    BY <1>5, <2>1, <2>2, <2>3
  <2>5. \A i \in s \ {Max(s)} : ids[i] \in Pursued(fold[s \ {Max(s)}])
    BY <1>11
  <2> QED  BY <2>4, <2>5
<1>12. 1 .. size \in Good
  <2> HIDE DEF Good, size
  <2> QED  BY <1>9, <1>10, <1>11, PositionsInduction
<1>13. /\ fold[DOMAIN ids] \in U
       /\ \A i \in DOMAIN ids : ids[i] \in Pursued(fold[DOMAIN ids])
  <2> HIDE DEF fold, ids, size
  <2> QED  BY <1>9, <1>12
<1>14. \A k \in ks : \E i \in DOMAIN ids : ids[i] = k
  BY <1>2
<1>15. Onward(p, fold[DOMAIN ids], {}, {}, ms, lv, dn)
  BY <1>13 DEF U
<1> HIDE DEF fold, ids
<1> QED  BY <1>1, <1>13, <1>14, <1>15 DEF Onward

LEMMA UpdateOnward ==
    ASSUME NEW p, NEW ms \in Seq(Messages), NEW lv \in BOOLEAN, NEW dn,
           Sound(p, ms, lv, stream, dn),
           served \in Tables(Watched), responses \in Seq(Messages),
           NEW old \in SUBSET Keys, NEW new \in SUBSET Keys
    PROVE  Onward(p, UpdateTrackedLimboDocuments(p, old, new), old \ new, new \ old, ms, lv, dn)
<1> DEFINE without == old \ new
           extra == new \ old
           q == RemoveLimboTargets(p, without)
           s == TrackLimboChanges(q, extra)
<1>1. without \in SUBSET Keys /\ extra \in SUBSET Keys
  OBVIOUS
<1>2. UpdateTrackedLimboDocuments(p, old, new) = s
  BY DEF UpdateTrackedLimboDocuments
<1> HIDE DEF without, extra
<1>3. Onward(p, q, without, {}, ms, lv, dn)
  BY <1>1, RemoveAllOnward
<1> HIDE DEF q
<1>4. Onward(q, s, {}, extra, ms, lv, dn)
  BY <1>1, <1>3, TrackAllOnward DEF Onward
<1> HIDE DEF s
<1>5. Onward(p, s, without, extra, ms, lv, dn)
  BY <1>3, <1>4, QueryKeptOn, SparedOn DEF Onward
<1> QED  BY <1>2, <1>5 DEF without, extra

--------------------------------------------------------------------------------
(* What is gathered *)

LEMMA UpdateStateFacts ==
    ASSUME NEW r \in Remotes, NEW online \in Onlines
    PROVE  LET s == UpdateState(r, online) IN
           /\ s \in Remotes /\ s.states = r.states /\ s.sent = r.sent /\ s.idle = r.idle
           /\ s.targets = r.targets /\ s.updated = r.updated /\ s.gone = r.gone
           /\ s.resets = r.resets /\ s.online = online /\ ~s.timer /\ ~s.failed
BY DEF UpdateState, Remotes

LEMMA UpdateStateSound ==
    ASSUME NEW r, NEW ms, NEW st, NEW dn, RemoteSound(r, ms, st, dn), NEW online \in Onlines
    PROVE  RemoteSound(UpdateState(r, online), ms, st, dn)
<1> DEFINE s == UpdateState(r, online)
<1>1. r \in Remotes
  BY DEF RemoteSound
<1>2. /\ s \in Remotes /\ s.states = r.states /\ s.sent = r.sent /\ s.idle = r.idle
      /\ s.targets = r.targets /\ ~s.timer /\ ~s.failed
  BY <1>1, UpdateStateFacts
<1> HIDE DEF s
<1>3. ~dn => Counted(s, ms)
  BY <1>2, CountedSame DEF RemoteSound
<1>4. RemoteSound(s, ms, st, dn)
  BY <1>2, <1>3 DEF RemoteSound, Tracker, Timer
<1> QED  BY <1>4 DEF s

(* q is r with other documents gathered.                                   *)
Gathered(q, r) ==
    /\ q \in Remotes /\ q.sent = r.sent /\ q.idle = r.idle /\ q.targets = r.targets
    /\ q.online = r.online /\ q.timer = r.timer /\ q.failed = r.failed
    /\ \A u \in Nat : Ensure(q, u).outstanding = Ensure(r, u).outstanding
    /\ r.resets \subseteq q.resets
    /\ Ensure(q, Query).current = Ensure(r, Query).current \/ q.resets # {}

LEMMA GatheredSound ==
    ASSUME NEW r, NEW q, Gathered(q, r), NEW ms, NEW st, NEW dn, RemoteSound(r, ms, st, dn)
    PROVE  RemoteSound(q, ms, st, dn)
<1>1. ~dn => Counted(q, ms)
  BY DEF Gathered, RemoteSound, Counted, ToCome
<1> QED  BY <1>1 DEF Gathered, RemoteSound, Tracker, Timer

LEMMA CollectionWithout ==
    ASSUME NEW ds \in Collections, NEW ks
    PROVE  Without(ds, ks) \in Collections /\ Without(ds, ks) \subseteq ds
BY DEF Collections, Without, IsCollection

LEMMA CollectionWith ==
    ASSUME NEW ds \in Collections, NEW es \in Collections, NEW ks, KeysOf(es) \subseteq ks
    PROVE  Without(ds, ks) \cup es \in Collections
<1>1. \A d \in Without(ds, ks), e \in es : d[1] # e[1]
  BY DEF Without, KeysOf
<1>2. Without(ds, ks) \in Collections
  BY CollectionWithout
<1> QED  BY <1>1, <1>2 DEF Collections, IsCollection

LEMMA KeysOfKeys ==
    ASSUME NEW ds \in Collections
    PROVE  KeysOf(ds) \subseteq Keys
BY DEF KeysOf, Collections, IsCollection, Documents

LEMMA AddDocumentsGathers ==
    ASSUME NEW r \in Remotes, NEW t \in Nat, NEW ds \in Collections
    PROVE  Gathered(AddDocuments(r, t, ds), r)
<1> DEFINE ks == KeysOf(ds)
           s == [Ensure(r, t) EXCEPT !.added = @ \cup (ks \ RemoteKeys(t)), !.removed = @ \ ks]
           r1 == InState(r, t, s)
           updated == Without(r1.updated, ks) \cup ds
           q == [r1 EXCEPT !.updated = updated, !.gone = @ \ ks]
<1>1. AddDocuments(r, t, ds) = q
  BY DEF AddDocuments
<1>2. ks \subseteq Keys
  BY KeysOfKeys
<1>0. Query \in Nat
  BY DEF Query
<1>3. /\ s \in TargetStates /\ s.outstanding = Ensure(r, t).outstanding
      /\ s.current = Ensure(r, t).current
  <2> HIDE DEF ks
  <2>1. Ensure(r, t) \in TargetStates
    BY EnsureType
  <2> QED  BY <1>2, <2>1 DEF TargetStates
<1> HIDE DEF s
<1>4. /\ r1 \in Remotes /\ r1.sent = r.sent /\ r1.idle = r.idle /\ RestSame(r1, r)
      /\ \A u \in Nat : Ensure(r1, u) = IF u = t THEN s ELSE Ensure(r, u)
  BY <1>3, InStateFacts
<1> HIDE DEF r1
<1>5. updated \in Collections
  <2>1. r1.updated \in Collections
    BY <1>4 DEF Remotes
  <2> QED  BY <2>1, CollectionWith
<1> HIDE DEF updated, ks
<1>6. /\ q \in Remotes /\ q.states = r1.states /\ q.sent = r1.sent /\ q.idle = r1.idle
      /\ q.targets = r1.targets /\ q.online = r1.online /\ q.timer = r1.timer
      /\ q.failed = r1.failed /\ q.resets = r1.resets
  BY <1>4, <1>5 DEF Remotes
<1> HIDE DEF q
<1>7. \A u : Ensure(q, u) = Ensure(r1, u)
  BY <1>6 DEF Ensure
<1> QED  BY <1>0, <1>1, <1>3, <1>4, <1>6, <1>7 DEF Gathered, RestSame

LEMMA RemoveDocumentsGathers ==
    ASSUME NEW r \in Remotes, NEW t \in Nat, NEW ks \in SUBSET Keys, NEW deleted \in BOOLEAN
    PROVE  /\ Gathered(RemoveDocuments(r, t, ks, deleted), r)
           /\ RemoveDocuments(r, t, ks, deleted).updated \subseteq r.updated
<1> DEFINE s == [Ensure(r, t) EXCEPT !.added = @ \ ks, !.removed = @ \cup (ks \cap RemoteKeys(t))]
           r1 == InState(r, t, s)
           updated == IF deleted THEN Without(r1.updated, ks) ELSE r1.updated
           q == [r1 EXCEPT !.updated = updated, !.gone = IF deleted THEN @ \cup ks ELSE @]
<1>1. RemoveDocuments(r, t, ks, deleted) = q
  BY DEF RemoveDocuments
<1>0. Query \in Nat
  BY DEF Query
<1>2. /\ s \in TargetStates /\ s.outstanding = Ensure(r, t).outstanding
      /\ s.current = Ensure(r, t).current
  <2>1. Ensure(r, t) \in TargetStates
    BY EnsureType
  <2> QED  BY <2>1 DEF TargetStates
<1> HIDE DEF s
<1>3. /\ r1 \in Remotes /\ r1.sent = r.sent /\ r1.idle = r.idle /\ RestSame(r1, r)
      /\ \A u \in Nat : Ensure(r1, u) = IF u = t THEN s ELSE Ensure(r, u)
  BY <1>2, InStateFacts
<1> HIDE DEF r1
<1>4. updated \in Collections /\ updated \subseteq r1.updated
  <2>1. r1.updated \in Collections
    BY <1>3 DEF Remotes
  <2> QED  BY <2>1, CollectionWithout
<1> HIDE DEF updated
<1>5. /\ q \in Remotes /\ q.states = r1.states /\ q.sent = r1.sent /\ q.idle = r1.idle
      /\ q.targets = r1.targets /\ q.online = r1.online /\ q.timer = r1.timer
      /\ q.failed = r1.failed /\ q.updated = updated /\ q.resets = r1.resets
  BY <1>3, <1>4 DEF Remotes
<1> HIDE DEF q
<1>6. \A u : Ensure(q, u) = Ensure(r1, u)
  BY <1>5 DEF Ensure
<1> QED  BY <1>0, <1>1, <1>2, <1>3, <1>4, <1>5, <1>6 DEF Gathered, RestSame

LEMMA GatheredSelf ==
    ASSUME NEW r \in Remotes
    PROVE  Gathered(r, r)
BY DEF Gathered

LEMMA GatheredTwice ==
    ASSUME NEW r, NEW q, NEW s, Gathered(q, r), Gathered(s, q)
    PROVE  Gathered(s, r)
BY DEF Gathered

LEMMA HandleDocumentChangeGathers ==
    ASSUME NEW r \in Remotes, NEW m \in DocsMessages
    PROVE  Gathered(HandleDocumentChange(r, m), r)
<1> DEFINE t == m.target
           q == AddDocuments(r, t, m.added)
           s == RemoveDocuments(q, t, m.removed, m.deleted)
<1>1. /\ t \in Nat /\ m.added \in Collections /\ m.removed \in SUBSET Keys
      /\ m.deleted \in BOOLEAN
  BY DEF DocsMessages
<1>2. Gathered(q, r)
  BY <1>1, AddDocumentsGathers
<1>3. HandleDocumentChange(r, m) = IF ~IsActiveTarget(r, t) THEN r ELSE s
  BY DEF HandleDocumentChange
<1> HIDE DEF q, t
<1>4. Gathered(s, q)
  <2>1. q \in Remotes
    BY <1>2 DEF Gathered
  <2> QED  BY <1>1, <2>1, RemoveDocumentsGathers
<1> HIDE DEF s
<1> QED  BY <1>2, <1>3, <1>4, GatheredSelf, GatheredTwice

(* A filter adds no document.                                              *)
LEMMA HandleExistenceFilterGathers ==
    ASSUME NEW r \in Remotes, NEW m \in Filters, limbos \in Limbos, synced \in SUBSET Keys,
           NEW lv, Agree(r, limbos, lv)
    PROVE  /\ Gathered(HandleExistenceFilter(r, m), r)
           /\ HandleExistenceFilter(r, m).updated \subseteq r.updated
<1> DEFINE t == m.target
           k == Key(t)
           q == RemoveDocuments(r, t, {k}, TRUE)
           s == [NewTarget EXCEPT !.removed = synced]
           r1 == InState(r, Query, s)
           u1 == [r1 EXCEPT !.resets = @ \cup {Query}]
           h == HandleExistenceFilter(r, m)
<1>1. t \in Nat /\ Query \in Nat
  BY DEF Filters, Query
<1>2. \/ h = r
      \/ IsActiveTarget(r, t) /\ t # Query /\ h = q
      \/ IsActiveTarget(r, t) /\ t = Query /\ h = u1
  BY DEF HandleExistenceFilter
<1>3. ASSUME IsActiveTarget(r, t), t # Query
      PROVE  Gathered(q, r) /\ q.updated \subseteq r.updated
  <2>1. limbos.active \in Tables(Lookups) /\ t \in DOMAIN limbos.active
    BY <1>3 DEF IsActiveTarget, Agree, Limbos
  <2>2. limbos.active[t] \in Lookups
    BY <2>1, TableFacts
  <2>3. {k} \in SUBSET Keys
    BY <2>2 DEF Key, Lookups
  <2> DEFINE ks == {k}
  <2>4. q = RemoveDocuments(r, t, ks, TRUE) /\ ks \in SUBSET Keys
    BY <2>3
  <2> HIDE DEF ks, q, t
  <2> QED  BY <1>1, <2>4, RemoveDocumentsGathers
<1>4. ASSUME IsActiveTarget(r, t), t = Query
      PROVE  Gathered(u1, r) /\ u1.updated \subseteq r.updated
  <2>1. s \in TargetStates /\ s.outstanding = 0
    <3>1. NewTarget \in TargetStates /\ NewTarget.outstanding = 0
      BY DEF NewTarget, TargetStates
    <3> QED  BY <3>1 DEF TargetStates
  <2>2. Ensure(r, Query).outstanding = 0
    BY <1>4 DEF IsActiveTarget
  <2> HIDE DEF s
  <2>3. /\ r1 \in Remotes /\ r1.sent = r.sent /\ r1.idle = r.idle /\ RestSame(r1, r)
        /\ \A u \in Nat : Ensure(r1, u) = IF u = Query THEN s ELSE Ensure(r, u)
    BY <1>1, <2>1, InStateFacts
  <2> HIDE DEF r1
  <2>4. /\ u1 \in Remotes /\ u1.sent = r1.sent /\ u1.idle = r1.idle
        /\ u1.states = r1.states /\ u1.targets = r1.targets /\ u1.updated = r1.updated
        /\ u1.online = r1.online /\ u1.timer = r1.timer /\ u1.failed = r1.failed
        /\ u1.resets = r1.resets \cup {Query}
    BY <2>3 DEF Remotes, RestSame
  <2> HIDE DEF u1
  <2>5. \A u : Ensure(u1, u) = Ensure(r1, u)
    BY <2>4 DEF Ensure
  <2> QED  BY <2>1, <2>2, <2>3, <2>4, <2>5 DEF Gathered, RestSame
<1> HIDE DEF h, q, u1
<1>5. Gathered(h, r) /\ h.updated \subseteq r.updated
  BY <1>2, <1>3, <1>4, GatheredSelf
<1> QED  BY <1>5 DEF h

(* The answer to a request is one less to come.                            *)
LEMMA HandleTargetChangeSound ==
    ASSUME NEW r, NEW ms \in Seq(Messages), ms # <<>>, NEW st, NEW dn, RemoteSound(r, ms, st, dn),
           Head(ms) \in Acks, Head(ms).kind # "error"
    PROVE  /\ RemoteSound(HandleTargetChange(r, Head(ms)), Tail(ms), st, dn)
           /\ HandleTargetChange(r, Head(ms)).targets = r.targets
           /\ HandleTargetChange(r, Head(ms)).updated = r.updated
<1> DEFINE m == Head(ms)
           t == m.target
           s == Ensure(r, t)
           fewer == [s EXCEPT !.outstanding = @ - 1]
           none == [fewer EXCEPT !.added = {}, !.removed = {}]
           now == [s EXCEPT !.current = TRUE]
           h == HandleTargetChange(r, m)
           counted == m.kind \in {"added", "removed"}
<1>0. r \in Remotes /\ t \in Nat /\ m.kind \in {"added", "removed", "current"} /\ m \in Messages
  BY DEF RemoteSound, Acks, Messages
<1>1. s \in TargetStates
  BY <1>0, EnsureType
<1>2. /\ m.kind = "added" => h = InState(r, t, IF fewer.outstanding = 0 THEN none ELSE fewer)
      /\ m.kind = "removed" => h = IF fewer.outstanding = 0 THEN [r EXCEPT !.states = Less(@, t)]
                                   ELSE InState(r, t, fewer)
      /\ m.kind = "current" => h = IF IsActiveTarget(r, t) THEN InState(r, t, now) ELSE r
  BY <1>0 DEF HandleTargetChange
<1>3. /\ fewer \in TargetStates /\ fewer.outstanding = s.outstanding - 1
      /\ none \in TargetStates /\ none.outstanding = s.outstanding - 1
      /\ now \in TargetStates /\ now.outstanding = s.outstanding
  <2> HIDE DEF s
  <2>1. fewer \in TargetStates /\ fewer.outstanding = s.outstanding - 1
    BY <1>1 DEF TargetStates
  <2>2. now \in TargetStates /\ now.outstanding = s.outstanding
    BY <1>1 DEF TargetStates
  <2> HIDE DEF fewer
  <2> QED  BY <2>1, <2>2 DEF TargetStates
<1> DEFINE Less1(q) ==
             /\ q \in Remotes /\ q.sent = r.sent /\ q.idle = r.idle /\ RestSame(q, r)
             /\ \A u \in Nat : Ensure(q, u).outstanding =
                                 Ensure(r, u).outstanding - (IF u = t /\ counted THEN 1 ELSE 0)
<1>4. \A u : Ensure(r, u).outstanding \in Int
  BY <1>0, EnsureType DEF TargetStates
<1>5. ASSUME NEW x \in TargetStates, x.outstanding = s.outstanding - (IF counted THEN 1 ELSE 0)
      PROVE  Less1(InState(r, t, x))
  <2>1. /\ InState(r, t, x) \in Remotes
        /\ InState(r, t, x).sent = r.sent /\ InState(r, t, x).idle = r.idle
        /\ RestSame(InState(r, t, x), r)
        /\ \A u \in Nat : Ensure(InState(r, t, x), u) = IF u = t THEN x ELSE Ensure(r, u)
    BY <1>0, InStateFacts
  <2> HIDE DEF counted
  <2> QED  BY <1>4, <1>5, <2>1
<1>6. ASSUME fewer.outstanding = 0, m.kind = "removed"
      PROVE  Less1([r EXCEPT !.states = Less(@, t)])
  <2> DEFINE f == r.states
             g == Less(f, t)
             q == [r EXCEPT !.states = g]
  <2>1. f \in Tables(TargetStates) /\ g \in Tables(TargetStates)
    <3>1. f \in Tables(TargetStates)
      BY <1>0 DEF Remotes
    <3> QED  BY <3>1, LessTable
  <2>2. DOMAIN g = DOMAIN f \ {t} /\ \A u \in DOMAIN f \ {t} : g[u] = f[u]
    BY DEF Less, Restrict
  <2> HIDE DEF g
  <2>3. /\ q \in Remotes /\ q.states = g /\ q.sent = r.sent /\ q.idle = r.idle /\ RestSame(q, r)
    BY <1>0, <2>1 DEF Remotes, RestSame
  <2> HIDE DEF q
  <2>4. \A u : Ensure(q, u) = IF u = t THEN NewTarget ELSE Ensure(r, u)
    BY <2>2, <2>3 DEF Ensure
  <2>5. NewTarget.outstanding = 0
    BY DEF NewTarget
  <2>6. s.outstanding = 1 /\ counted
    BY <1>1, <1>3, <1>6 DEF TargetStates
  <2> HIDE DEF counted, f
  <2>7. Less1(q)
    BY <1>4, <2>3, <2>4, <2>5, <2>6
  <2> QED  BY <2>7 DEF q, g, f
<1>7. Less1(h)
  <2>1. CASE m.kind = "added"
    <3>1. counted
      BY <2>1
    <3> HIDE DEF counted, h, fewer, none, s, t, Less1
    <3> QED  BY <1>2, <1>3, <1>5, <2>1, <3>1
  <2>2. CASE m.kind = "removed"
    <3>1. counted
      BY <2>2
    <3> HIDE DEF counted, h, fewer, none, s, t, Less1
    <3> QED  BY <1>2, <1>3, <1>5, <1>6, <2>2, <3>1
  <2>3. CASE m.kind = "current"
    <3>1. ~counted
      BY <2>3
    <3>2. Less1(r)
      BY <1>0, <1>4, <3>1 DEF RestSame
    <3>3. now.outstanding = s.outstanding - (IF counted THEN 1 ELSE 0)
      BY <1>1, <1>3, <3>1 DEF TargetStates
    <3> HIDE DEF counted, h, now, s, t, Less1
    <3> QED  BY <1>2, <1>3, <1>5, <2>3, <3>2, <3>3
  <2> QED  BY <1>0, <2>1, <2>2, <2>3
<1>8. ASSUME ~dn
      PROVE  Counted(h, Tail(ms))
  <2> SUFFICES ASSUME NEW u \in Nat
               PROVE  Ensure(h, u).outstanding = ToCome(h, Tail(ms), u)
    BY DEF Counted
  <2>1. Ensure(r, u).outstanding = ToCome(r, ms, u)
    BY <1>8 DEF RemoteSound, Counted
  <2>2. r.sent \in Seq(Requests)
    BY <1>0 DEF Remotes
  <2>3. Cardinality(Among(Tail(ms), AcksOf(u))) =
          Cardinality(Among(ms, AcksOf(u))) - (IF m \in AcksOf(u) THEN 1 ELSE 0)
    BY AmongTail
  <2>4. m \in AcksOf(u) <=> u = t /\ counted
    BY <1>0 DEF AcksOf
  <2>5. /\ Cardinality(Among(r.sent, RequestsFor(u))) \in Nat
        /\ Cardinality(Among(ms, AcksOf(u))) \in Nat
    BY <2>2, AmongFinite
  <2>6. /\ h.sent = r.sent
        /\ Ensure(h, u).outstanding = Ensure(r, u).outstanding - (IF u = t /\ counted THEN 1 ELSE 0)
    BY <1>7
  <2> HIDE DEF h, counted, t, m
  <2> QED  BY <2>1, <2>3, <2>4, <2>5, <2>6 DEF ToCome
<1>9. RemoteSound(h, Tail(ms), st, dn)
  <2>1. Less1(h) /\ h \in Remotes /\ RestSame(h, r) /\ h.sent = r.sent /\ h.idle = r.idle
    BY <1>7
  <2> HIDE DEF h, Less1
  <2> QED  BY <1>8, <2>1 DEF RemoteSound, Tracker, Timer, RestSame
<1> QED  BY <1>7, <1>9 DEF RestSame

(* What a message about targets does to what is gathered for the query.    *)
IsAck(m) == m.target = Query /\ m.kind \in {"added", "removed"}

LEMMA HandleTargetChangeQuery ==
    ASSUME NEW r \in Remotes, NEW m \in Acks, m.kind # "error"
    PROVE  LET h == HandleTargetChange(r, m) IN
           /\ h.sent = r.sent /\ h.resets = r.resets /\ h.timer = r.timer
           /\ ~IsAck(m) /\ Ensure(r, Query).current => Ensure(h, Query).current
           /\ m.kind = "current" /\ m.target = Query /\ IsActiveTarget(r, Query)
                => Ensure(h, Query).current
<1> DEFINE t == m.target
           s == Ensure(r, t)
           fewer == [s EXCEPT !.outstanding = @ - 1]
           none == [fewer EXCEPT !.added = {}, !.removed = {}]
           now == [s EXCEPT !.current = TRUE]
           less == Less(r.states, t)
           gone == [r EXCEPT !.states = less]
           h == HandleTargetChange(r, m)
<1>1. t \in Nat /\ m.kind \in {"added", "removed", "current"} /\ Query \in Nat
  BY DEF Acks, Query
<1>2. s \in TargetStates
  BY <1>1, EnsureType
<1>3. \/ m.kind \in {"added", "removed"}
         /\ (h = InState(r, t, none) \/ h = InState(r, t, fewer) \/ h = gone)
      \/ m.kind = "current" /\ h = IF IsActiveTarget(r, t) THEN InState(r, t, now) ELSE r
  BY <1>1 DEF HandleTargetChange
<1>4. fewer \in TargetStates /\ now \in TargetStates /\ now.current
  <2> HIDE DEF s
  <2>1. fewer \in TargetStates
    BY <1>2 DEF TargetStates
  <2>2. now \in TargetStates
    BY <1>2 DEF TargetStates
  <2>3. now.current
    BY <1>2 DEF TargetStates
  <2> QED  BY <2>1, <2>2, <2>3
<1>5. none \in TargetStates
  <2> HIDE DEF fewer
  <2> QED  BY <1>4 DEF TargetStates
<1> DEFINE Kept(q) == q.sent = r.sent /\ q.resets = r.resets /\ q.timer = r.timer
<1>6. ASSUME NEW x \in TargetStates
      PROVE  /\ Kept(InState(r, t, x))
             /\ Ensure(InState(r, t, x), Query) = IF t = Query THEN x ELSE Ensure(r, Query)
  BY <1>1, InStateFacts DEF RestSame
<1>7. /\ Kept(gone)
      /\ t # Query => Ensure(gone, Query) = Ensure(r, Query)
  <2>1. gone.states = less /\ Kept(gone)
    BY DEF Remotes
  <2>2. t # Query => /\ Query \in DOMAIN less <=> Query \in DOMAIN r.states
                     /\ Query \in DOMAIN less => less[Query] = r.states[Query]
    <3> DEFINE f == r.states
    <3> HIDE DEF f
    <3>1. t # Query => /\ Query \in DOMAIN Less(f, t) <=> Query \in DOMAIN f
                       /\ Query \in DOMAIN Less(f, t) => Less(f, t)[Query] = f[Query]
      BY DEF Less, Restrict
    <3> QED  BY <3>1 DEF f
  <2> HIDE DEF gone, less
  <2> QED  BY <2>1, <2>2 DEF Ensure
<1> HIDE DEF fewer, none, now, gone, h, s
<1>8. CASE m.kind \in {"added", "removed"}
  BY <1>3, <1>4, <1>5, <1>6, <1>7, <1>8 DEF IsAck, h
<1>9. CASE m.kind = "current"
  BY <1>3, <1>4, <1>6, <1>9 DEF IsAck, h
<1> QED  BY <1>1, <1>8, <1>9 DEF h

(* Any other message can be read and changes nothing that is counted.      *)
LEMMA ReadSound ==
    ASSUME NEW r, NEW ms \in Seq(Messages), ms # <<>>, NEW st, NEW dn, RemoteSound(r, ms, st, dn),
           Head(ms).kind \notin {"added", "removed"}
    PROVE  RemoteSound(r, Tail(ms), st, dn)
<1>1. \A t : Cardinality(Among(Tail(ms), AcksOf(t))) = Cardinality(Among(ms, AcksOf(t)))
  <2> SUFFICES ASSUME NEW t
               PROVE  Cardinality(Among(Tail(ms), AcksOf(t))) = Cardinality(Among(ms, AcksOf(t)))
    OBVIOUS
  <2>1. Head(ms) \notin AcksOf(t)
    BY DEF AcksOf
  <2>2. Cardinality(Among(Tail(ms), AcksOf(t))) =
          Cardinality(Among(ms, AcksOf(t))) - (IF Head(ms) \in AcksOf(t) THEN 1 ELSE 0)
    BY AmongTail
  <2>3. Cardinality(Among(ms, AcksOf(t))) \in Nat
    BY AmongFinite
  <2> QED  BY <2>1, <2>2, <2>3
<1> QED  BY <1>1 DEF RemoteSound, Counted, ToCome

(* One target is watched.                                                  *)
WatchOne(r, t) == Send(r, t, Watch(t, Scope(t), r.targets[t]))

LEMMA ScopeType ==
    ASSUME limbos \in Limbos, NEW t \in DOMAIN limbos.active \cup {Query}
    PROVE  /\ Scope(t) \in SUBSET Keys /\ t \in Nat
           /\ t # Query => Key(t) \in Keys
<1>1. CASE t = Query
  BY <1>1 DEF Scope, Query
<1>2. CASE t # Query
  <2>1. limbos.active \in Tables(Lookups)
    BY DEF Limbos
  <2>2. limbos.active[t] \in Lookups /\ t \in Nat
    BY <1>2, <2>1, TableFacts
  <2> QED  BY <1>2, <2>2 DEF Scope, Key, Lookups
<1> QED  BY <1>1, <1>2

LEMMA WatchAllSound ==
    ASSUME NEW r, NEW ms \in Seq(Messages), NEW st, NEW dn, RemoteSound(r, ms, st, dn),
           limbos \in Limbos, NEW lv \in BOOLEAN, Agree(r, limbos, lv)
    PROVE  /\ RemoteSound(WatchAll(r), ms, "open", dn)
           /\ WatchAll(r).targets = r.targets /\ WatchAll(r).updated = r.updated
           /\ r.sent = <<>> /\ Query \in DOMAIN r.targets => Asking(WatchAll(r).sent)
<1> DEFINE K == DOMAIN r.targets
           ids == Ascending(K)
           size == Len(ids)
           OnlyWatch(sent) == \A i \in DOMAIN sent : sent[i].kind = "watch"
           U == {q \in Remotes : /\ RemoteSound(q, ms, "open", dn)
                                 /\ q.targets = r.targets /\ q.updated = r.updated
                                 /\ r.sent = <<>> => OnlyWatch(q.sent)}
           Asked(q, t) == \E i \in DOMAIN q.sent : q.sent[i].target = t
           F == [x \in U \X K |-> WatchOne(x[1], x[2])]
           Is(h) == h = [s \in SUBSET DOMAIN ids |->
                           IF s = {} THEN r ELSE WatchOne(h[s \ {Max(s)}], ids[Max(s)])]
           fold == CHOOSE h : Is(h)
<1>1. WatchAll(r) = fold[DOMAIN ids]
  BY DEF WatchAll, FoldLeft, MapThenFoldSet, WatchOne
<1>2. r \in Remotes /\ r.targets \in Tables(Tokens) /\ IsFiniteSet(K) /\ K \subseteq Nat
  <2>1. r \in Remotes /\ r.targets \in Tables(Tokens)
    BY DEF RemoteSound, Remotes
  <2> QED  BY <2>1, TableFacts
<1>3. ids \in Seq(K)
  <2> HIDE DEF K
  <2> QED  BY <1>2, AscendingFacts
<1>4. r \in U
  <2>1. RemoteSound(r, ms, "open", dn)
    BY DEF RemoteSound, Tracker
  <2> QED  BY <1>2, <2>1
<1>5. ASSUME NEW q \in U, NEW t \in K
      PROVE  /\ WatchOne(q, t) \in U /\ Asked(WatchOne(q, t), t)
             /\ \A u : Asked(q, u) => Asked(WatchOne(q, t), u)
  <2>1. /\ q \in Remotes /\ RemoteSound(q, ms, "open", dn)
        /\ q.targets = r.targets /\ q.updated = r.updated
    OBVIOUS
  <2> DEFINE request == Watch(t, Scope(t), q.targets[t])
  <2>2. t \in Nat /\ Scope(t) \in SUBSET Keys
    <3>1. t \in DOMAIN limbos.active \cup {Query}
      BY DEF Agree
    <3> QED  BY <3>1, ScopeType
  <2>3. q.targets[t] \in Tokens
    BY <1>2, <2>1, TableFacts
  <2>4. request \in Requests /\ request.target = t /\ request.kind = "watch"
    BY <2>2, <2>3, RequestTypes DEF Watch
  <2>5. WatchOne(q, t) = Send(q, t, request)
    BY DEF WatchOne
  <2> HIDE DEF request
  <2>6. /\ RestSame(Send(q, t, request), q) /\ Send(q, t, request) \in Remotes
        /\ Send(q, t, request).sent = Append(q.sent, request)
    BY <2>1, <2>2, <2>4, SendFacts
  <2>7. Timer(q) /\ (~dn => Counted(q, ms))
    BY <2>1 DEF RemoteSound, Tracker
  <2>8. RemoteSound(Send(q, t, request), ms, "open", dn)
    BY <2>1, <2>2, <2>4, <2>7, SendSound
  <2> DEFINE n == Len(q.sent)
             more == Append(q.sent, request)
  <2>9. /\ DOMAIN more = 1 .. n + 1 /\ more[n + 1] = request /\ n \in Nat
        /\ DOMAIN q.sent = 1 .. n /\ \A i \in 1 .. n : more[i] = q.sent[i]
    <3>1. q.sent \in Seq(Requests)
      BY <2>1 DEF Remotes
    <3> QED  BY <2>4, <3>1
  <2> HIDE DEF n, more
  <2>10. /\ \A i \in DOMAIN more : i \in DOMAIN q.sent \/ i = n + 1
         /\ \A i \in DOMAIN q.sent : i \in DOMAIN more
         /\ n + 1 \in DOMAIN more
    BY <2>9
  <2>11. OnlyWatch(q.sent) => OnlyWatch(more)
    BY <2>4, <2>9, <2>10
  <2>12. WatchOne(q, t).sent = more
    BY <2>5, <2>6 DEF more
  <2> DEFINE w == WatchOne(q, t)
  <2>13. /\ w \in Remotes /\ RemoteSound(w, ms, "open", dn) /\ w.targets = r.targets
         /\ w.updated = r.updated /\ w.sent = more
    BY <2>1, <2>5, <2>6, <2>8, <2>12 DEF RestSame
  <2>14. r.sent = <<>> => OnlyWatch(q.sent)
    OBVIOUS
  <2> HIDE DEF w, OnlyWatch
  <2>15. w \in U
    BY <2>11, <2>13, <2>14
  <2>16. Asked(w, t) /\ \A u : Asked(q, u) => Asked(w, u)
    BY <2>4, <2>9, <2>10, <2>13
  <2> QED  BY <2>15, <2>16 DEF w
<1> HIDE DEF U, K, Asked
<1>6. F \in [U \X K -> U]
  BY <1>5
<1>7. \E h : Is(h)
  <2> HIDE DEF F, ids
  <2>1. PICK h \in [SUBSET DOMAIN ids -> U] : IsFoldOf(h, F, r, ids)
    BY <1>3, <1>4, <1>6, FoldExists
  <2>2. ASSUME NEW s \in SUBSET DOMAIN ids, s # {}
        PROVE  F[<<h[s \ {Max(s)}], ids[Max(s)]>>] = WatchOne(h[s \ {Max(s)}], ids[Max(s)])
    <3>1. DOMAIN ids = 1 .. Len(ids) /\ Len(ids) \in Nat
      BY <1>3
    <3>2. Max(s) \in s
      BY <2>2, <3>1, LargestOf
    <3>3. ids[Max(s)] \in K /\ h[s \ {Max(s)}] \in U
      BY <1>3, <3>1, <3>2
    <3> QED  BY <3>3 DEF F
  <2>3. Is(h)
    BY <2>1, <2>2 DEF IsFoldOf
  <2> QED  BY <2>3
<1>8. Is(fold)
  BY <1>7
<1> DEFINE Good == {s \in SUBSET (1 .. size) : /\ fold[s] \in U
                                            /\ \A i \in s : Asked(fold[s], ids[i])}
<1>9. DOMAIN ids = 1 .. size /\ size \in Nat
  BY <1>3
<1>10. {} \in Good
  <2> HIDE DEF fold, ids, size
  <2>1. fold[{}] = r
    BY <1>8, <1>9
  <2> QED  BY <1>4, <2>1
<1>11. ASSUME NEW s \in SUBSET (1 .. size), s # {}, Max(s) \in s, s \ {Max(s)} \in Good
       PROVE  s \in Good
  <2> HIDE DEF fold, size, ids
  <2>1. ids[Max(s)] \in K
    <3>1. \A i \in DOMAIN ids : ids[i] \in K
      BY <1>3
    <3> QED  BY <1>9, <1>11, <3>1
  <2>2. fold[s] = WatchOne(fold[s \ {Max(s)}], ids[Max(s)])
    BY <1>8, <1>9, <1>11
  <2>3. fold[s \ {Max(s)}] \in U
    BY <1>11
  <2>4. /\ fold[s] \in U /\ Asked(fold[s], ids[Max(s)])
        /\ \A i \in s \ {Max(s)} : Asked(fold[s], ids[i])
    BY <1>5, <1>11, <2>1, <2>2, <2>3
  <2> QED  BY <2>4
<1>12. 1 .. size \in Good
  <2> HIDE DEF Good, size
  <2> QED  BY <1>9, <1>10, <1>11, PositionsInduction
<1>13. fold[DOMAIN ids] \in U /\ \A i \in DOMAIN ids : Asked(fold[DOMAIN ids], ids[i])
  <2> HIDE DEF fold, ids, size
  <2> QED  BY <1>9, <1>12
<1> HIDE DEF fold
<1> DEFINE q == fold[DOMAIN ids]
<1>14. ASSUME r.sent = <<>>, Query \in K
       PROVE  Asking(q.sent)
  <2>1. PICK i \in DOMAIN ids : ids[i] = Query
    <3> HIDE DEF K
    <3> QED  BY <1>2, <1>14, AscendingFacts
  <2>2. Asked(q, Query) /\ OnlyWatch(q.sent)
    BY <1>13, <1>14, <2>1 DEF U
  <2> HIDE DEF q
  <2> QED  BY <2>2 DEF Asked, Asking, AskFor
<1> QED  BY <1>1, <1>13, <1>14 DEF U, K

--------------------------------------------------------------------------------
(* What the backend says *)

LEMMA CollectionFinite ==
    ASSUME NEW ds \in Collections
    PROVE  IsFiniteSet(ds)
<1> DEFINE f == [d \in ds |-> d[1]]
<1>1. f \in [ds -> Keys] /\ \A d, e \in ds : f[d] = f[e] => d = e
  BY DEF Collections, IsCollection, Documents
<1>2. f \in Injection(ds, Keys)
  <2> HIDE DEF f
  <2> QED  BY <1>1, InjectionByElements
<1> HIDE DEF f
<1> QED  BY <1>2, KeysFinite, FS_Injection

LEMMA PartOfCollection ==
    ASSUME NEW ds \in Collections, NEW es \in SUBSET ds
    PROVE  es \in Collections
BY DEF Collections, IsCollection

LEMMA ScopedType ==
    ASSUME NEW ds \in Collections, NEW scope
    PROVE  Scoped(ds, scope) \in Collections
<1>1. Scoped(ds, scope) \in SUBSET ds
  BY DEF Scoped
<1> QED  BY <1>1, PartOfCollection

LEMMA WithinType ==
    ASSUME docs \in Collections, NEW scope
    PROVE  Within(scope) \in Collections
BY ScopedType DEF Within

LEMMA ReportType ==
    ASSUME docs \in Collections, NEW t \in Nat, NEW s \in Watched, NEW how
    PROVE  Report(t, s, how) \in Seq(DocsMessages \cup Filters)
<1> DEFINE now == Within(s.scope)
           added == now \ s.known
           removed == KeysOf(s.known) \ KeysOf(now)
           named == [kind |-> "docs", target |-> t, added |-> added, deleted |-> how = "deleted",
                     removed |-> IF how = "counted" THEN {} ELSE removed]
           counted == [kind |-> "filter", target |-> t, count |-> Cardinality(now)]
           a == IF added = {} /\ (removed = {} \/ how = "counted") THEN <<>> ELSE <<named>>
           b == IF removed # {} /\ how = "counted" THEN <<counted>> ELSE <<>>
<1>1. Report(t, s, how) = a \o b
  BY DEF Report
<1>2. now \in Collections /\ s.known \in Collections
  BY WithinType DEF Watched
<1>3. IsFiniteSet(now)
  BY <1>2, CollectionFinite
<1> HIDE DEF now
<1>4. Cardinality(now) \in Nat
  BY <1>3, FS_CardinalityType
<1>5. added \in Collections
  BY <1>2, PartOfCollection
<1>6. removed \in SUBSET Keys
  BY <1>2, KeysOfKeys
<1> HIDE DEF added, removed
<1>7. named \in DocsMessages
  BY <1>5, <1>6 DEF DocsMessages
<1>8. counted \in Filters
  BY <1>4 DEF Filters
<1> HIDE DEF named, counted
<1> DEFINE M == DocsMessages \cup Filters
<1>9. <<named>> \in Seq(M) /\ <<counted>> \in Seq(M) /\ <<>> \in Seq(M)
  BY <1>7, <1>8
<1> HIDE DEF M
<1>10. a \in Seq(M) /\ b \in Seq(M)
  BY <1>9
<1> HIDE DEF a, b
<1>11. Report(t, s, how) \in Seq(M)
  BY <1>1, <1>10
<1> QED  BY <1>11 DEF M

(* One target is reported.                                                 *)
ReportOne(ms, t, ts, how) == ms \o Report(t, ts[t], how)

LEMMA ReportsType ==
    ASSUME docs \in Collections, NEW ts \in Tables(Watched), NEW how
    PROVE  /\ Reports(ts, how) \in Seq(DocsMessages \cup Filters)
           /\ DOMAIN ts = {} => Reports(ts, how) = <<>>
<1> DEFINE K == DOMAIN ts
           ids == Ascending(K)
           size == Len(ids)
           U == Seq(DocsMessages \cup Filters)
           F == [x \in U \X K |-> ReportOne(x[1], x[2], ts, how)]
           Is(h) == h = [s \in SUBSET DOMAIN ids |->
                           IF s = {} THEN <<>>
                           ELSE ReportOne(h[s \ {Max(s)}], ids[Max(s)], ts, how)]
           fold == CHOOSE h : Is(h)
<1>1. Reports(ts, how) = fold[DOMAIN ids]
  BY DEF Reports, FoldLeft, MapThenFoldSet, ReportOne
<1>2. IsFiniteSet(K) /\ K \subseteq Nat /\ \A t \in K : ts[t] \in Watched
  BY TableFacts
<1>3. ids \in Seq(K)
  <2> HIDE DEF K
  <2> QED  BY <1>2, AscendingFacts
<1>4. <<>> \in U
  OBVIOUS
<1>5. ASSUME NEW q \in U, NEW t \in K
      PROVE  ReportOne(q, t, ts, how) \in U
  <2>1. Report(t, ts[t], how) \in U
    BY <1>2, ReportType
  <2> DEFINE M == DocsMessages \cup Filters
             more == Report(t, ts[t], how)
  <2>2. q \in Seq(M) /\ more \in Seq(M)
    BY <2>1
  <2> HIDE DEF M, more
  <2>3. q \o more \in Seq(M)
    BY <2>2
  <2> QED  BY <2>3 DEF ReportOne, M, more
<1> HIDE DEF U, K
<1>6. F \in [U \X K -> U]
  BY <1>5
<1>7. \E h : Is(h)
  <2> HIDE DEF F, ids
  <2>1. PICK h \in [SUBSET DOMAIN ids -> U] : IsFoldOf(h, F, <<>>, ids)
    BY <1>3, <1>4, <1>6, FoldExists
  <2>2. ASSUME NEW s \in SUBSET DOMAIN ids, s # {}
        PROVE  F[<<h[s \ {Max(s)}], ids[Max(s)]>>] =
                 ReportOne(h[s \ {Max(s)}], ids[Max(s)], ts, how)
    <3>1. DOMAIN ids = 1 .. Len(ids) /\ Len(ids) \in Nat
      BY <1>3
    <3>2. Max(s) \in s
      BY <2>2, <3>1, LargestOf
    <3>3. ids[Max(s)] \in K /\ h[s \ {Max(s)}] \in U
      BY <1>3, <3>1, <3>2
    <3> QED  BY <3>3 DEF F
  <2>3. Is(h)
    BY <2>1, <2>2 DEF IsFoldOf
  <2> QED  BY <2>3
<1>8. Is(fold)
  BY <1>7
<1> DEFINE Good == {s \in SUBSET (1 .. size) : fold[s] \in U}
<1>9. DOMAIN ids = 1 .. size /\ size \in Nat
  BY <1>3
<1>10. fold[{}] = <<>>
  <2> HIDE DEF fold, ids, size
  <2> QED  BY <1>8, <1>9
<1>11. {} \in Good
  <2> HIDE DEF fold, ids, size
  <2> QED  BY <1>4, <1>10
<1>12. ASSUME NEW s \in SUBSET (1 .. size), s # {}, Max(s) \in s, s \ {Max(s)} \in Good
       PROVE  s \in Good
  <2> HIDE DEF fold, size, ids
  <2>1. ids[Max(s)] \in K
    <3>1. \A i \in DOMAIN ids : ids[i] \in K
      BY <1>3
    <3> QED  BY <1>9, <1>12, <3>1
  <2>2. fold[s] = ReportOne(fold[s \ {Max(s)}], ids[Max(s)], ts, how)
    BY <1>8, <1>9, <1>12
  <2>3. fold[s \ {Max(s)}] \in U
    BY <1>12
  <2> QED  BY <1>5, <2>1, <2>2, <2>3
<1>13. 1 .. size \in Good
  <2> HIDE DEF Good, size
  <2> QED  BY <1>9, <1>11, <1>12, PositionsInduction
<1>14. fold[DOMAIN ids] \in U
  <2> HIDE DEF fold, ids, size
  <2> QED  BY <1>9, <1>13
<1>15. ASSUME K = {}
       PROVE  DOMAIN ids = {}
  <2> HIDE DEF ids
  <2>1. \A i \in DOMAIN ids : ids[i] \in K
    BY <1>3
  <2> QED  BY <1>15, <2>1
<1> HIDE DEF fold, ids
<1> QED  BY <1>1, <1>10, <1>14, <1>15 DEF U, K

LEMMA UpToDateType ==
    ASSUME docs \in Collections, NEW ts \in Tables(Watched)
    PROVE  UpToDate(ts) \in Tables(Watched)
<1>1. UpToDate(ts) \in [DOMAIN ts -> Watched]
  <2> SUFFICES ASSUME NEW t \in DOMAIN ts
               PROVE  [ts[t] EXCEPT !.known = Within(ts[t].scope)] \in Watched
    BY DEF UpToDate
  <2>1. ts[t] \in Watched
    BY TableFacts
  <2>2. Within(ts[t].scope) \in Collections
    BY WithinType
  <2> QED  BY <2>1, <2>2 DEF Watched
<1> QED  BY <1>1, SameIds

--------------------------------------------------------------------------------
(* What becomes of an event *)

LEMMA ReceivedFacts ==
    ASSUME limbos \in Limbos, NEW r
    PROVE  /\ Received(r) \in Tables(Lookups) /\ DOMAIN Received(r) = DOMAIN limbos.active
           /\ \A t \in DOMAIN limbos.active : Received(r)[t].key = limbos.active[t].key
<1>1. limbos.active \in Tables(Lookups)
  BY DEF Limbos
<1> DEFINE received(t) == IF r.states[t].added # {} THEN TRUE
                          ELSE IF r.states[t].removed # {} THEN FALSE
                          ELSE limbos.active[t].received
<1>2. ASSUME NEW t \in DOMAIN limbos.active
      PROVE  Received(r)[t] \in Lookups /\ Received(r)[t].key = limbos.active[t].key
  <2>1. limbos.active[t] \in Lookups
    BY <1>1, TableFacts
  <2>2. received(t) \in BOOLEAN
    BY <2>1 DEF Lookups
  <2>3. \/ Received(r)[t] = limbos.active[t]
        \/ Received(r)[t] = [limbos.active[t] EXCEPT !.received = received(t)]
    BY DEF Received
  <2> HIDE DEF received
  <2> QED  BY <2>1, <2>2, <2>3 DEF Lookups
<1>3. DOMAIN Received(r) = DOMAIN limbos.active /\ Received(r) \in [DOMAIN limbos.active -> Lookups]
  <2>1. DOMAIN Received(r) = DOMAIN limbos.active
        /\ Received(r) = [t \in DOMAIN Received(r) |-> Received(r)[t]]
    BY DEF Received
  <2> QED  BY <1>2, <2>1
<1> QED  BY <1>1, <1>2, <1>3, SameIds

LEMMA SnapshotToken ==
    ASSUME NEW ds \in Collections
    PROVE  {ds} \in Tokens /\ UNION {ds} = ds
BY DEF Tokens, IsToken, Collections

LEMMA TokenIsCollection ==
    ASSUME NEW tok \in Tokens
    PROVE  UNION tok \in Collections
<1>1. CASE tok = {}
  BY <1>1 DEF Collections, IsCollection
<1>2. CASE tok # {}
  <2>1. PICK ds \in tok : TRUE
    BY <1>2
  <2>2. tok = {ds} /\ ds \in Collections
    BY <2>1 DEF Tokens, IsToken
  <2> QED  BY <2>2
<1> QED  BY <1>1, <1>2

LEMMA AfterEventSound ==
    ASSUME NEW r, NEW ms \in Seq(Messages), NEW dn, RemoteSound(r, ms, "open", dn),
           NEW snapshot \in Collections
    PROVE  /\ RemoteSound(AfterEvent(r, snapshot), ms, "open", dn)
           /\ DOMAIN AfterEvent(r, snapshot).targets = DOMAIN r.targets
           /\ AfterEvent(r, snapshot).updated = {}
           /\ AfterEvent(r, snapshot).timer = r.timer
           /\ IF r.resets \cap DOMAIN r.targets # {} THEN Asking(AfterEvent(r, snapshot).sent)
              ELSE /\ AfterEvent(r, snapshot).sent = r.sent
                   /\ Ensure(AfterEvent(r, snapshot), Query).current = Ensure(r, Query).current
<1> DEFINE counted == {t \in DOMAIN r.states : IsActiveTarget(r, t)}
           reset == r.resets \cap DOMAIN r.targets
           f == r.targets
           g == r.states
           targets == [t \in DOMAIN f |-> IF t \in reset THEN NoToken
                                          ELSE IF t \in counted THEN {snapshot} ELSE f[t]]
           states == [t \in DOMAIN g |-> IF t \in counted
                                         THEN [g[t] EXCEPT !.added = {}, !.removed = {}]
                                         ELSE g[t]]
           done == [r EXCEPT !.targets = targets, !.states = states,
                             !.updated = {}, !.gone = {}, !.resets = {}]
           unwatch == Unwatch(Query)
           watch == Watch(Query, Keys, NoToken)
           s1 == Send(done, Query, unwatch)
           s2 == Send(s1, Query, watch)
<1>1. r \in Remotes /\ f \in Tables(Tokens) /\ g \in Tables(TargetStates)
  BY DEF RemoteSound, Remotes
<1>2. AfterEvent(r, snapshot) = IF reset = {} THEN done ELSE s2
  BY DEF AfterEvent
<1>3. targets \in Tables(Tokens) /\ DOMAIN targets = DOMAIN f
  <2>1. \A t \in DOMAIN f : f[t] \in Tokens
    BY <1>1, TableFacts
  <2>2. {snapshot} \in Tokens /\ NoToken \in Tokens
    BY SnapshotToken, NoTokenType
  <2> HIDE DEF reset, counted, f
  <2>3. targets \in [DOMAIN f -> Tokens]
    BY <2>1, <2>2
  <2> QED  BY <1>1, <2>3, SameIds
<1>4. /\ states \in Tables(TargetStates) /\ DOMAIN states = DOMAIN g
      /\ \A t \in DOMAIN g : /\ states[t].outstanding = g[t].outstanding
                             /\ states[t].current = g[t].current
  <2>1. \A t \in DOMAIN g : g[t] \in TargetStates
    BY <1>1, TableFacts
  <2> HIDE DEF counted, g
  <2>2. ASSUME NEW t \in DOMAIN g
        PROVE  /\ states[t] \in TargetStates /\ states[t].outstanding = g[t].outstanding
               /\ states[t].current = g[t].current
    <3>1. g[t] \in TargetStates
      BY <2>1
    <3> QED  BY <3>1 DEF TargetStates
  <2>3. DOMAIN states = DOMAIN g /\ states = [t \in DOMAIN states |-> states[t]]
    OBVIOUS
  <2> HIDE DEF states
  <2>4. states \in [DOMAIN g -> TargetStates]
    BY <2>2, <2>3
  <2> QED  BY <1>1, <2>2, <2>3, <2>4, SameIds
<1> HIDE DEF targets, states
<1>5. /\ done \in Remotes /\ done.targets = targets /\ done.states = states /\ done.updated = {}
      /\ done.sent = r.sent /\ done.idle = r.idle /\ done.online = r.online
      /\ done.timer = r.timer /\ done.failed = r.failed
  <2>1. {} \in Collections
    BY DEF Collections, IsCollection
  <2> QED  BY <1>1, <1>3, <1>4, <2>1 DEF Remotes
<1> HIDE DEF done
<1>6. \A t : /\ Ensure(done, t).outstanding = Ensure(r, t).outstanding
            /\ Ensure(done, t).current = Ensure(r, t).current
  BY <1>4, <1>5 DEF Ensure
<1>7. RemoteSound(done, ms, "open", dn)
  <2>1. ~dn => Counted(done, ms)
    BY <1>5, <1>6 DEF RemoteSound, Counted, ToCome
  <2> QED  BY <1>3, <1>5, <2>1 DEF RemoteSound, Tracker, Timer
<1>8. /\ unwatch \in Requests /\ unwatch.target = Query
      /\ watch \in Requests /\ watch.target = Query /\ Query \in Nat /\ AskFor(watch)
  <2>1. Query \in Nat /\ Keys \in SUBSET Keys /\ NoToken \in Tokens
    BY NoTokenType DEF Query
  <2>2. AskFor(watch)
    BY DEF AskFor, Watch
  <2> QED  BY <2>1, <2>2, RequestTypes
<1> HIDE DEF unwatch, watch
<1>9. RemoteSound(s1, ms, "open", dn) /\ RestSame(s1, done)
  BY <1>5, <1>7, <1>8, SendFacts, SendSound DEF RemoteSound, Tracker
<1> HIDE DEF s1
<1>10. /\ RemoteSound(s2, ms, "open", dn) /\ RestSame(s2, s1)
       /\ s2.sent = Append(s1.sent, watch)
  <2>1. s1 \in Remotes /\ Timer(s1) /\ (~dn => Counted(s1, ms))
    BY <1>9 DEF RemoteSound, Tracker
  <2> QED  BY <1>8, <2>1, SendFacts, SendSound
<1> HIDE DEF s2
<1>11. Asking(s2.sent)
  <2>1. s1.sent \in Seq(Requests)
    BY <1>9 DEF RemoteSound, Remotes
  <2> QED  BY <1>8, <1>10, <2>1, AskingAppend
<1> HIDE DEF reset
<1>12. reset = r.resets \cap DOMAIN r.targets
  BY DEF reset
<1> QED  BY <1>2, <1>3, <1>5, <1>6, <1>7, <1>9, <1>10, <1>11, <1>12 DEF RestSame

LEMMA CacheAfterType ==
    ASSUME cache \in Collections, NEW updated \in Collections, NEW gone
    PROVE  /\ CacheAfter(updated, gone) \in Collections
           /\ updated = {} => KeysOf(CacheAfter(updated, gone)) \subseteq KeysOf(cache)
<1> DEFINE ks == KeysOf(updated) \cup gone
<1>1. CacheAfter(updated, gone) = Without(cache, ks) \cup updated
  BY DEF CacheAfter
<1>2. KeysOf(updated) \subseteq ks
  OBVIOUS
<1> HIDE DEF ks
<1>3. CacheAfter(updated, gone) \in Collections
  BY <1>1, <1>2, CollectionWith
<1>4. Without(cache, ks) \subseteq cache
  BY CollectionWithout
<1> QED  BY <1>1, <1>3, <1>4 DEF KeysOf

(* Without a stream nothing is to come.                                    *)
LEMMA NothingToCome ==
    ASSUME NEW r \in Remotes, r.states = NoTargets, r.sent = <<>>, ~r.idle, Timer(r),
           NEW st, NEW dn
    PROVE  RemoteSound(r, <<>>, st, dn)
<1>1. \A t : Ensure(r, t).outstanding = 0
  BY EmptyTable DEF Ensure, NewTarget
<1>2. \A A : Among(<<>>, A) = {}
  BY DEF Among
<1>3. \A A : Cardinality(Among(<<>>, A)) = 0
  BY <1>2, FS_EmptySet
<1>4. \A t : ToCome(r, <<>>, t) = 0
  BY <1>3 DEF ToCome
<1> QED  BY <1>1, <1>4 DEF RemoteSound, Counted, Tracker

LEMMA WithoutStreamFacts ==
    ASSUME NEW r \in Remotes
    PROVE  LET s == WithoutStream(r) IN
           /\ s \in Remotes /\ s.states = NoTargets /\ s.sent = <<>> /\ ~s.idle
           /\ s.targets = r.targets /\ s.updated = {} /\ s.online = r.online
           /\ s.timer = r.timer /\ s.failed = r.failed
<1>1. NoTargets \in Tables(TargetStates)
  BY EmptyTable
<1>2. {} \in Collections
  BY DEF Collections, IsCollection
<1>3. {} \in SUBSET Keys /\ {} \in SUBSET {Query} /\ <<>> \in Seq(Requests)
  OBVIOUS
<1> DEFINE none == NoTargets
<1>4. /\ none \in Tables(TargetStates)
      /\ WithoutStream(r) = [r EXCEPT !.states = none, !.updated = {}, !.gone = {}, !.resets = {},
                                      !.sent = <<>>, !.idle = FALSE]
  BY <1>1 DEF WithoutStream
<1>5. none = NoTargets
  OBVIOUS
<1> HIDE DEF none
<1> QED  BY <1>2, <1>3, <1>4, <1>5 DEF Remotes

(* All but the online state is the same.                                   *)
StoreSame(s, r) ==
    /\ s \in Remotes /\ s.states = r.states /\ s.sent = r.sent /\ s.idle = r.idle
    /\ s.targets = r.targets /\ s.updated = r.updated

LEMMA HandleWatchStreamStartFacts ==
    ASSUME NEW r \in Remotes, Timer(r)
    PROVE  /\ StoreSame(HandleWatchStreamStart(r), r)
           /\ Timer(HandleWatchStreamStart(r))
<1> DEFINE s == [r EXCEPT !.online = "Unknown", !.timer = TRUE]
<1>1. StoreSame(s, r) /\ s.online = "Unknown" /\ s.failed = r.failed
  BY DEF Remotes, Onlines, StoreSame
<1>2. HandleWatchStreamStart(r) = IF r.failed THEN r ELSE s
  BY DEF HandleWatchStreamStart
<1> HIDE DEF s
<1>3. StoreSame(r, r)
  BY DEF StoreSame
<1>4. ~r.failed => Timer(s)
  BY <1>1 DEF Timer
<1> QED  BY <1>1, <1>2, <1>3, <1>4

LEMMA HandleWatchStreamFailureFacts ==
    ASSUME NEW r \in Remotes, Timer(r)
    PROVE  /\ StoreSame(HandleWatchStreamFailure(r), r)
           /\ Timer(HandleWatchStreamFailure(r))
<1> DEFINE s == [r EXCEPT !.online = "Unknown"]
           u == [r EXCEPT !.online = "Offline", !.timer = FALSE, !.failed = TRUE]
<1>1. /\ StoreSame(s, r) /\ s.timer = r.timer /\ s.failed = r.failed
      /\ StoreSame(u, r) /\ u.online = "Offline" /\ ~u.timer
  BY DEF Remotes, Onlines, StoreSame
<1>2. HandleWatchStreamFailure(r) = IF r.online = "Online" THEN s ELSE u
  BY DEF HandleWatchStreamFailure
<1> HIDE DEF s, u
<1> QED  BY <1>1, <1>2 DEF Timer

LEMMA AnsweredType ==
    ASSUME calls \in [Calls -> {"new", "waiting", "server", "cache", "error", "gone"}],
           NEW insync, NEW online
    PROVE  Answered(insync, online) \in
             [Calls -> {"new", "waiting", "server", "cache", "error", "gone"}]
BY DEF Answered

--------------------------------------------------------------------------------
(* The order of messages *)

(* An error is sent when everything is denied and no document comes after  *)
(* it; documents are followed by a snapshot, those gathered too.           *)
Snapped(ms) == \E i \in DOMAIN ms : ms[i].kind = "snapshot"
NoDocs(ms) == \A i \in DOMAIN ms : ms[i].kind # "docs"
Ordered(ms, updated, dn) ==
    /\ \A i \in DOMAIN ms : ms[i].kind = "error" =>
         dn /\ \A j \in DOMAIN ms : j > i => ms[j].kind \notin {"docs", "snapshot"}
    /\ \A i \in DOMAIN ms : ms[i].kind = "docs" =>
         \E j \in DOMAIN ms : j > i /\ ms[j].kind = "snapshot"
    /\ updated # {} => Snapped(ms)

LEMMA TailFacts ==
    ASSUME NEW M, NEW ms \in Seq(M), ms # <<>>
    PROVE  /\ Head(ms) \in M /\ Tail(ms) \in Seq(M) /\ Head(ms) = ms[1]
           /\ \A i \in DOMAIN ms :
                /\ i \in Nat
                /\ i = 1 \/ (i > 1 /\ i - 1 \in DOMAIN Tail(ms) /\ ms[i] = Tail(ms)[i - 1])
           /\ \A i \in DOMAIN Tail(ms) :
                i \in Nat /\ i > 0 /\ i + 1 \in DOMAIN ms /\ ms[i + 1] = Tail(ms)[i]
           /\ 1 \in DOMAIN ms
OBVIOUS

LEMMA AppendedFacts ==
    ASSUME NEW M, NEW ms \in Seq(M), NEW more \in Seq(M)
    PROVE  /\ ms \o more \in Seq(M)
           /\ \A i \in DOMAIN ms : i \in DOMAIN (ms \o more) /\ (ms \o more)[i] = ms[i]
           /\ \A i \in DOMAIN more : /\ i + Len(ms) \in DOMAIN (ms \o more)
                                     /\ (ms \o more)[i + Len(ms)] = more[i]
           /\ \A i \in DOMAIN (ms \o more) :
                \/ i \in DOMAIN ms
                \/ i - Len(ms) \in DOMAIN more
           /\ \A i \in DOMAIN ms : i \in Nat /\ i <= Len(ms)
           /\ \A i \in DOMAIN more : i \in Nat /\ i > 0
           /\ Len(ms) \in Nat
OBVIOUS

(* The first message is read: what it gathers is followed by a snapshot.   *)
LEMMA OrderedTail ==
    ASSUME NEW ms \in Seq(Messages), ms # <<>>, NEW updated, NEW dn, Ordered(ms, updated, dn),
           NEW now, now = {} \/ (Head(ms).kind # "snapshot" /\ now \subseteq updated)
                             \/ Head(ms).kind = "docs"
    PROVE  /\ Ordered(Tail(ms), now, dn)
           /\ NoDocs(ms) => NoDocs(Tail(ms))
           /\ Head(ms).kind = "error" => dn /\ NoDocs(Tail(ms)) /\ updated = {}
<1> DEFINE rest == Tail(ms)
<1>1. /\ Head(ms) = ms[1] /\ 1 \in DOMAIN ms
      /\ \A i \in DOMAIN ms :
           i \in Nat /\ (i = 1 \/ (i > 1 /\ i - 1 \in DOMAIN rest /\ ms[i] = rest[i - 1]))
      /\ \A i \in DOMAIN rest : i \in Nat /\ i > 0 /\ i + 1 \in DOMAIN ms /\ ms[i + 1] = rest[i]
  BY TailFacts
<1> HIDE DEF rest
<1>2. ASSUME NEW i \in DOMAIN rest, rest[i].kind = "error"
      PROVE  dn /\ \A j \in DOMAIN rest : j > i => rest[j].kind \notin {"docs", "snapshot"}
  <2>1. i + 1 \in DOMAIN ms /\ ms[i + 1].kind = "error"
    BY <1>1, <1>2
  <2>2. dn /\ \A j \in DOMAIN ms : j > i + 1 => ms[j].kind \notin {"docs", "snapshot"}
    BY <2>1 DEF Ordered
  <2>3. ASSUME NEW j \in DOMAIN rest, j > i
        PROVE  rest[j].kind \notin {"docs", "snapshot"}
    <3>1. j + 1 \in DOMAIN ms /\ ms[j + 1] = rest[j] /\ j + 1 > i + 1
      BY <1>1, <2>3
    <3> QED  BY <2>2, <3>1
  <2> QED  BY <2>2, <2>3
<1>3. ASSUME NEW i \in DOMAIN ms, ms[i].kind = "docs"
      PROVE  \E j \in DOMAIN rest : j > i - 1 /\ rest[j].kind = "snapshot"
  <2>1. PICK j \in DOMAIN ms : j > i /\ ms[j].kind = "snapshot"
    BY <1>3 DEF Ordered
  <2>2. j - 1 \in DOMAIN rest /\ ms[j] = rest[j - 1] /\ j - 1 > i - 1
    BY <1>1, <2>1
  <2> QED  BY <2>1, <2>2
<1>4. ASSUME NEW i \in DOMAIN rest, rest[i].kind = "docs"
      PROVE  \E j \in DOMAIN rest : j > i /\ rest[j].kind = "snapshot"
  <2> DEFINE k == i + 1
  <2>1. k \in DOMAIN ms /\ ms[k].kind = "docs" /\ k - 1 = i
    BY <1>1, <1>4
  <2> HIDE DEF k
  <2> QED  BY <1>3, <2>1
<1>5. now # {} => Snapped(rest)
  <2>1. CASE Head(ms).kind = "docs"
    BY <1>1, <1>3, <2>1 DEF Snapped
  <2>2. CASE Head(ms).kind # "snapshot" /\ updated # {}
    <3>1. PICK j \in DOMAIN ms : ms[j].kind = "snapshot"
      BY <2>2 DEF Ordered, Snapped
    <3>2. j - 1 \in DOMAIN rest /\ ms[j] = rest[j - 1]
      BY <1>1, <2>2, <3>1
    <3> QED  BY <3>1, <3>2 DEF Snapped
  <2> QED  BY <2>1, <2>2
<1>6. Ordered(rest, now, dn)
  BY <1>2, <1>4, <1>5 DEF Ordered
<1>7. NoDocs(ms) => NoDocs(rest)
  BY <1>1 DEF NoDocs
<1>8. ASSUME Head(ms).kind = "error"
      PROVE  dn /\ NoDocs(rest) /\ updated = {}
  <2>1. dn /\ \A j \in DOMAIN ms : j > 1 => ms[j].kind \notin {"docs", "snapshot"}
    BY <1>1, <1>8 DEF Ordered
  <2>2. ASSUME NEW i \in DOMAIN rest
        PROVE  rest[i].kind # "docs"
    <3>1. i + 1 \in DOMAIN ms /\ ms[i + 1] = rest[i] /\ i + 1 > 1
      BY <1>1
    <3> QED  BY <2>1, <3>1
  <2>3. ~Snapped(ms)
    BY <1>1, <1>8, <2>1 DEF Snapped
  <2> QED  BY <2>1, <2>2, <2>3 DEF NoDocs, Ordered
<1> QED  BY <1>6, <1>7, <1>8 DEF rest

(* Acknowledgements and, once all is denied, errors are put behind.        *)
LEMMA OrderedAcks ==
    ASSUME NEW ms \in Seq(Messages), NEW more \in Seq(Messages), NEW updated, NEW dn, NEW now,
           Ordered(ms, updated, dn), dn => now,
           \A i \in DOMAIN more : /\ more[i].kind \notin {"docs", "snapshot"}
                                  /\ more[i].kind = "error" => now
    PROVE  /\ Ordered(ms \o more, updated, now)
           /\ NoDocs(ms) => NoDocs(ms \o more)
<1> DEFINE all == ms \o more
           n == Len(ms)
<1>1. /\ \A i \in DOMAIN ms : i \in DOMAIN all /\ all[i] = ms[i]
      /\ \A i \in DOMAIN more : i + n \in DOMAIN all /\ all[i + n] = more[i]
      /\ \A i \in DOMAIN all : i \in DOMAIN ms \/ i - n \in DOMAIN more
      /\ \A i \in DOMAIN ms : i \in Nat /\ i <= n
      /\ \A i \in DOMAIN more : i \in Nat /\ i > 0
      /\ n \in Nat
  BY AppendedFacts
<1>2. \A i \in DOMAIN all : i \in Nat
  OBVIOUS
<1> HIDE DEF all, n
<1>3. ASSUME NEW i \in DOMAIN all, i \notin DOMAIN ms
      PROVE  all[i].kind \notin {"docs", "snapshot"} /\ (all[i].kind = "error" => now)
  <2>1. i - n \in DOMAIN more /\ all[i - n + n] = more[i - n] /\ i - n + n = i
    BY <1>1, <1>2, <1>3
  <2> QED  BY <2>1
<1>4. ASSUME NEW i \in DOMAIN all, all[i].kind = "error"
      PROVE  now /\ \A j \in DOMAIN all : j > i => all[j].kind \notin {"docs", "snapshot"}
  <2>1. CASE i \in DOMAIN ms
    <3>1. dn /\ \A j \in DOMAIN ms : j > i => ms[j].kind \notin {"docs", "snapshot"}
      BY <1>1, <1>4, <2>1 DEF Ordered
    <3>2. \A j \in DOMAIN all : j \in DOMAIN ms => all[j] = ms[j]
      BY <1>1
    <3> QED  BY <1>3, <3>1, <3>2
  <2>2. CASE i \notin DOMAIN ms
    <3>1. ASSUME NEW j \in DOMAIN all, j > i
          PROVE  j \notin DOMAIN ms
      <4>1. i - n \in Nat /\ i - n > 0
        BY <1>1, <2>2
      <4> QED  BY <1>1, <1>2, <3>1, <4>1
    <3> QED  BY <1>3, <1>4, <2>2, <3>1
  <2> QED  BY <2>1, <2>2
<1>5. ASSUME NEW i \in DOMAIN all, all[i].kind = "docs"
      PROVE  \E j \in DOMAIN all : j > i /\ all[j].kind = "snapshot"
  <2>1. i \in DOMAIN ms /\ ms[i].kind = "docs"
    BY <1>1, <1>3, <1>5
  <2>2. PICK j \in DOMAIN ms : j > i /\ ms[j].kind = "snapshot"
    BY <2>1 DEF Ordered
  <2> QED  BY <1>1, <2>2
<1>6. updated # {} => Snapped(all)
  BY <1>1 DEF Ordered, Snapped
<1>7. NoDocs(ms) => NoDocs(all)
  BY <1>1, <1>3 DEF NoDocs
<1>8. Ordered(all, updated, now)
  BY <1>4, <1>5, <1>6 DEF Ordered
<1> QED  BY <1>7, <1>8 DEF all

(* A report that ends with a snapshot is put behind.                       *)
LEMMA OrderedReport ==
    ASSUME NEW ms \in Seq(Messages), NEW more \in Seq(Messages), NEW x \in Messages,
           x.kind = "snapshot", NEW updated, Ordered(ms, updated, FALSE),
           \A i \in DOMAIN more : more[i].kind # "error"
    PROVE  Ordered(ms \o (more \o <<x>>), updated, FALSE)
<1> DEFINE most == ms \o more
           all == Append(most, x)
           n == Len(ms)
<1>1. /\ most \in Seq(Messages)
      /\ \A i \in DOMAIN ms : i \in DOMAIN most /\ most[i] = ms[i]
      /\ \A i \in DOMAIN more : i + n \in DOMAIN most /\ most[i + n] = more[i]
      /\ \A i \in DOMAIN most : i \in DOMAIN ms \/ i - n \in DOMAIN more
      /\ \A i \in DOMAIN ms : i \in Nat /\ i <= n
      /\ \A i \in DOMAIN more : i \in Nat /\ i > 0
      /\ n \in Nat
  BY AppendedFacts
<1>2. ms \o (more \o <<x>>) = all
  OBVIOUS
<1>3. \A i \in DOMAIN most : i \in Nat
  OBVIOUS
<1> HIDE DEF most
<1>4. /\ DOMAIN most = 1 .. Len(most) /\ Len(most) \in Nat
      /\ DOMAIN all = 1 .. Len(most) + 1
      /\ all[Len(most) + 1] = x
      /\ \A i \in 1 .. Len(most) : all[i] = most[i]
  BY <1>1
<1> HIDE DEF all
<1>5. ASSUME NEW i \in DOMAIN most
      PROVE  most[i].kind # "error"
  <2>1. CASE i \in DOMAIN ms
    BY <1>1, <2>1 DEF Ordered
  <2>2. CASE i \notin DOMAIN ms
    <3>1. i - n \in DOMAIN more /\ most[i - n + n] = more[i - n] /\ i - n + n = i
      BY <1>1, <1>3, <2>2
    <3> QED  BY <3>1
  <2> QED  BY <2>1, <2>2
<1>6. \A i \in DOMAIN all : i \in DOMAIN most \/ i = Len(most) + 1
  BY <1>4
<1>7. \A i \in DOMAIN all : all[i].kind # "error"
  BY <1>4, <1>5, <1>6
<1>8. ASSUME NEW i \in DOMAIN all, all[i].kind = "docs"
      PROVE  \E j \in DOMAIN all : j > i /\ all[j].kind = "snapshot"
  BY <1>4, <1>6, <1>8
<1>9. Snapped(all)
  BY <1>4 DEF Snapped
<1> QED  BY <1>2, <1>7, <1>8, <1>9 DEF Ordered

================================================================================
