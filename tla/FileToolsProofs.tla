-------------------------- MODULE FileToolsProofs --------------------------
(***************************************************************************)
(* Theorems about FileTools, for all texts, calls and arguments: what      *)
(* awk's search, tail and head compute, and what becomes of a file whose   *)
(* changes do not overlap.                                                 *)
(***************************************************************************)
EXTENDS FileTools, SequenceTheorems, FiniteSetTheorems, TLAPS

\* A set of numbers that is not empty has a least one.
LEMMA Least ==
  ASSUME NEW S \in SUBSET Nat, S # {}
  PROVE  \E x \in S : \A y \in S : x <= y
  <1> DEFINE R == OpToRel(<, Nat)
  <1>1. PICK x \in S : \A y \in S : <<y, x>> \notin R
    <2>1. IsWellFoundedOn(R, Nat)  BY NatLessThanWellFounded, Zenon
    <2> QED  BY <2>1, WFMin, Zenon
  <1>2. \A y \in S : ~ (y < x)  BY <1>1 DEF OpToRel
  <1> QED  BY <1>2

-----------------------------------------------------------------------------
(* awk's search and the replacement *)

Occurs(t, o, j) == SubSeq(t, j, j + Len(o) - 1) = o

\* What Index finds is the first place, and it finds one if there is any.
LEMMA IndexFindsTheFirst ==
  ASSUME NEW t \in Seq(Chars), NEW o \in Seq(Chars), NEW i \in Nat \ {0},
         NEW p, p = Index(t, o, i)
  PROVE  /\ p # 0 => /\ o # <<>>
                     /\ p \in i..(Len(t) + 1 - Len(o))
                     /\ Occurs(t, o, p)
                     /\ \A k \in i..(Len(t) + 1 - Len(o)) :
                            Occurs(t, o, k) => p <= k
         /\ p = 0 /\ o # <<>> =>
                \A k \in i..(Len(t) + 1 - Len(o)) : ~ Occurs(t, o, k)
  <1> DEFINE places == {j \in i..(Len(t) + 1 - Len(o)) : Occurs(t, o, j)}
  <1>1. Len(t) \in Nat /\ Len(o) \in Nat  OBVIOUS
  <1>2. places \in SUBSET Nat /\ 0 \notin places  BY <1>1
  <1>3. p = IF o = <<>> \/ places = {} THEN 0
            ELSE CHOOSE j \in places : \A k \in places : j <= k
    BY DEF Index, Occurs
  <1> HIDE DEF places
  <1>4. CASE o = <<>>  BY <1>3, <1>4
  <1>5. CASE places = {}  BY <1>3, <1>5 DEF places
  <1>6. CASE o # <<>> /\ places # {}
    <2>1. \E j \in places : \A k \in places : j <= k  BY <1>2, <1>6, Least
    <2>2. p \in places /\ \A k \in places : p <= k  BY <1>3, <1>6, <2>1
    <2> QED  BY <1>2, <1>6, <2>2 DEF places
  <1> QED  BY <1>4, <1>5, <1>6

LEMMA RecordsType ==
  ASSUME NEW t \in Seq(Chars)
  PROVE  Records(t) \in Seq(Chars)
  BY DEF Records

\* What awk prints is a text.
LEMMA ReplacedType ==
  ASSUME NEW t \in Seq(Chars), NEW o \in Seq(Chars), NEW n \in Seq(Chars),
         MatchesOnce(t, o)
  PROVE  Replaced(t, o, n) \in Seq(Chars)
  <1> DEFINE p == Index(t, o, 1)
  <1>1. p # 0  BY DEF MatchesOnce
  <1>2. p \in 1..(Len(t) + 1 - Len(o))  BY <1>1, IndexFindsTheFirst
  <1>3. SubSeq(t, 1, p - 1) \in Seq(Chars)
    <2>1. p - 1 \in Int /\ \A i \in 1..(p - 1) : t[i] \in Chars  BY <1>2
    <2> QED  BY <2>1, SubSeqProperties
  <1>4. SubSeq(t, p + Len(o), Len(t)) \in Seq(Chars)
    <2>1. /\ p + Len(o) \in Int /\ Len(t) \in Int
          /\ \A i \in (p + Len(o))..Len(t) : t[i] \in Chars
      BY <1>2
    <2> QED  BY <2>1, SubSeqProperties
  <1> QED  BY <1>3, <1>4, FileToolsAssumption DEF Replaced, FileToolsAssumption

\* A text in which awk counts one match is edited as the reference says.
LEMMA OneMatchIsReplaced ==
  ASSUME NEW t \in Seq(Chars), NEW o \in Seq(Chars), NEW n \in Seq(Chars),
         MatchesOnce(Records(t), o)
  PROVE  IsEditOf(Replaced(Records(t), o, n), t, o, n)
  <1> DEFINE b == Records(t)
             p == Index(b, o, 1)
  <1>1. b \in Seq(Chars)  BY RecordsType
  <1>2. p # 0 /\ Index(b, o, p + Len(o)) = 0  BY DEF MatchesOnce
  <1> HIDE DEF b
  <1>3. /\ o # <<>> /\ p \in 1..(Len(b) + 1 - Len(o)) /\ Occurs(b, o, p)
        /\ \A k \in 1..(Len(b) + 1 - Len(o)) : Occurs(b, o, k) => p <= k
    BY <1>1, <1>2, IndexFindsTheFirst
  <1>4. Len(o) \in Nat \ {0} /\ Len(b) \in Nat  BY <1>1, <1>3
  <1>5. \A k \in (p + Len(o))..(Len(b) + 1 - Len(o)) : ~ Occurs(b, o, k)
    <2>1. p + Len(o) \in Nat \ {0}  BY <1>3, <1>4
    <2> QED  BY <1>1, <1>2, <1>3, <2>1, IndexFindsTheFirst
  <1>6. p \in 1..Len(b) /\ p + Len(o) <= Len(b) + 1  BY <1>3, <1>4
  <1>7. \A j \in 1..Len(b) :
            j + Len(o) <= Len(b) + 1 /\ Occurs(b, o, j)
                => j \in p..(p + Len(o) - 1)
    BY <1>3, <1>4, <1>5
  <1> HIDE DEF p
  <1>8. Replaced(b, o, n) = SubSeq(b, 1, p - 1) \o n
                               \o SubSeq(b, p + Len(o), Len(b)) \o <<NL>>
    BY DEF Replaced, p
  <1> QED  BY <1>3, <1>6, <1>7, <1>8 DEF IsEditOf, Occurs, b

-----------------------------------------------------------------------------
(* tail and head *)

\* The newlines of t up to place i: as many as there are lines that end there
\* or before.
Upto(t, i) == {j \in Newlines(t) : j <= i}

LEMMA NewlinesFinite ==
  ASSUME NEW t \in Seq(Chars)
  PROVE  /\ Newlines(t) \subseteq 1..Len(t)
         /\ IsFiniteSet(Newlines(t))
         /\ Cardinality(Newlines(t)) \in Nat
  <1>1. Newlines(t) \in SUBSET (1..Len(t))  BY DEF Newlines
  <1>2. IsFiniteSet(1..Len(t))  BY FS_Interval
  <1> QED  BY <1>1, <1>2, FS_Subset, FS_CardinalityType

LEMMA UptoFinite ==
  ASSUME NEW t \in Seq(Chars), NEW i \in Int
  PROVE  /\ IsFiniteSet(Upto(t, i))
         /\ Cardinality(Upto(t, i)) \in Nat
         /\ Cardinality(Upto(t, i)) <= Cardinality(Newlines(t))
  <1>1. Upto(t, i) \in SUBSET Newlines(t)  BY DEF Upto
  <1> QED  BY <1>1, NewlinesFinite, FS_Subset, FS_CardinalityType

\* There are no fewer newlines up to a later place, and more if it is one.
LEMMA UptoGrows ==
  ASSUME NEW t \in Seq(Chars), NEW i \in Int, NEW k \in Int, i <= k
  PROVE  /\ Cardinality(Upto(t, i)) <= Cardinality(Upto(t, k))
         /\ i < k /\ k \in Newlines(t) =>
                Cardinality(Upto(t, i)) < Cardinality(Upto(t, k))
  <1>1. Newlines(t) \subseteq Int  BY NewlinesFinite
  <1>2. Upto(t, i) \in SUBSET Upto(t, k)  BY <1>1 DEF Upto
  <1>3. /\ Cardinality(Upto(t, i)) <= Cardinality(Upto(t, k))
        /\ Cardinality(Upto(t, k)) = Cardinality(Upto(t, i))
               => Upto(t, k) = Upto(t, i)
    BY <1>2, UptoFinite, FS_Subset
  <1>4. i < k /\ k \in Newlines(t) => Upto(t, k) # Upto(t, i)  BY DEF Upto
  <1> QED  BY <1>3, <1>4, UptoFinite

\* One place further there is at most one newline more.
LEMMA UptoNext ==
  ASSUME NEW t \in Seq(Chars), NEW k \in Int
  PROVE  Cardinality(Upto(t, k)) = IF k \in Newlines(t)
                                   THEN Cardinality(Upto(t, k - 1)) + 1
                                   ELSE Cardinality(Upto(t, k - 1))
  <1>1. Newlines(t) \subseteq Int  BY NewlinesFinite
  <1>2. CASE k \in Newlines(t)
    <2>1. Upto(t, k) = Upto(t, k - 1) \cup {k}  BY <1>1, <1>2 DEF Upto
    <2>2. k \notin Upto(t, k - 1)  BY DEF Upto
    <2>3. IsFiniteSet(Upto(t, k - 1))  BY UptoFinite
    <2> QED  BY <1>2, <2>1, <2>2, <2>3, FS_AddElement
  <1>3. CASE k \notin Newlines(t)
    <2>1. Upto(t, k) = Upto(t, k - 1)  BY <1>1, <1>3 DEF Upto
    <2> QED  BY <1>3, <2>1
  <1> QED  BY <1>2, <1>3

\* If a text has n lines that end, there is a place where the n-th ends.
LEMMA LineEndExists ==
  ASSUME NEW t \in Seq(Chars), NEW n \in Nat, n <= Cardinality(Newlines(t))
  PROVE  \E i \in Newlines(t) \cup {0} : Cardinality(Upto(t, i)) = n
  <1>1. Newlines(t) \subseteq 1..Len(t) /\ Len(t) \in Nat  BY NewlinesFinite
  <1>2. Cardinality(Upto(t, 0)) = 0
    <2>1. Upto(t, 0) = {}  BY <1>1 DEF Upto
    <2> QED  BY <2>1, FS_EmptySet
  <1>3. CASE n = 0  BY <1>2, <1>3
  <1>4. CASE n > 0
    <2> DEFINE S == {i \in Nat : Cardinality(Upto(t, i)) >= n}
    <2>1. Len(t) \in S
      <3>1. Upto(t, Len(t)) = Newlines(t)  BY <1>1 DEF Upto
      <3> QED  BY <1>1, <3>1, NewlinesFinite
    <2>2. PICK x \in S : \A y \in S : x <= y
      <3>1. S \in SUBSET Nat /\ S # {}  BY <2>1
      <3> QED  BY <3>1, Least
    <2>3. x # 0 /\ x \in Nat /\ Cardinality(Upto(t, x)) >= n  BY <1>2, <1>4, <2>2
    <2>4. Cardinality(Upto(t, x - 1)) < n
      <3>1. x - 1 \in Nat /\ x - 1 \notin S  BY <2>2, <2>3
      <3>2. Cardinality(Upto(t, x - 1)) \in Nat  BY <3>1, UptoFinite
      <3> QED  BY <3>1, <3>2
    <2>5. x \in Newlines(t) /\ Cardinality(Upto(t, x)) = n
      <3>1. x - 1 \in Int /\ x \in Int  BY <2>3
      <3>2. /\ Cardinality(Upto(t, x)) \in Nat
            /\ Cardinality(Upto(t, x - 1)) \in Nat
        BY <3>1, UptoFinite
      <3>3. Cardinality(Upto(t, x)) = IF x \in Newlines(t)
                                      THEN Cardinality(Upto(t, x - 1)) + 1
                                      ELSE Cardinality(Upto(t, x - 1))
        BY <3>1, UptoNext
      <3> QED  BY <2>3, <2>4, <3>2, <3>3
    <2> QED  BY <2>5
  <1> QED  BY <1>3, <1>4

\* LineEnd parts the places of the first n lines from the others.
LEMMA LineEndParts ==
  ASSUME NEW t \in Seq(Chars), NEW n \in Nat
  PROVE  /\ LineEnd(t, n) \in 0..Len(t)
         /\ \A j \in 1..Len(t) : LineOf(t, j) <= n <=> j <= LineEnd(t, n)
         /\ LineEnd(t, n) = Len(t) \/ Cardinality(Upto(t, LineEnd(t, n))) = n
  <1> DEFINE e == LineEnd(t, n)
  <1>1. Newlines(t) \subseteq 1..Len(t) /\ Len(t) \in Nat  BY NewlinesFinite
  <1>2. \A j \in 1..Len(t) : /\ LineOf(t, j) = 1 + Cardinality(Upto(t, j - 1))
                             /\ j - 1 \in Int
    <2>1. SUFFICES ASSUME NEW j \in 1..Len(t)
                   PROVE  LineOf(t, j) = 1 + Cardinality(Upto(t, j - 1))
      OBVIOUS
    <2>2. {i \in Newlines(t) : i < j} = Upto(t, j - 1)  BY <1>1 DEF Upto
    <2> QED  BY <2>2 DEF LineOf
  <1>3. CASE Cardinality(Newlines(t)) < n
    <2>1. e = Len(t)  BY <1>3 DEF LineEnd
    <2>2. ASSUME NEW j \in 1..Len(t)  PROVE LineOf(t, j) <= n
      <3>1. /\ Cardinality(Upto(t, j - 1)) <= Cardinality(Newlines(t))
            /\ Cardinality(Upto(t, j - 1)) \in Nat
        BY <1>2, UptoFinite
      <3> QED  BY <1>2, <1>3, <3>1, NewlinesFinite
    <2> QED  BY <1>1, <2>1, <2>2
  <1>4. CASE ~ (Cardinality(Newlines(t)) < n)
    <2>1. e \in Newlines(t) \cup {0} /\ Cardinality(Upto(t, e)) = n
      <3>1. n <= Cardinality(Newlines(t))  BY <1>4, NewlinesFinite
      <3>2. \E i \in Newlines(t) \cup {0} : Cardinality(Upto(t, i)) = n
        BY <3>1, LineEndExists
      <3>3. e = CHOOSE i \in Newlines(t) \cup {0} : Cardinality(Upto(t, i)) = n
        BY <1>4 DEF LineEnd, Upto
      <3> QED  BY <3>2, <3>3
    <2> HIDE DEF e
    <2>2. e \in 0..Len(t)  BY <1>1, <2>1
    <2>3. ASSUME NEW j \in 1..Len(t)  PROVE LineOf(t, j) <= n <=> j <= e
      <3>1. /\ Cardinality(Upto(t, j - 1)) \in Nat
            /\ LineOf(t, j) = 1 + Cardinality(Upto(t, j - 1))
        BY <1>2, UptoFinite
      <3>2. CASE j <= e
        <4>1. e \in Newlines(t) /\ j - 1 < e  BY <2>1, <2>2, <3>2
        <4>2. Cardinality(Upto(t, j - 1)) < Cardinality(Upto(t, e))
          BY <1>2, <2>2, <4>1, UptoGrows
        <4> QED  BY <2>1, <3>1, <3>2, <4>2
      <3>3. CASE ~ (j <= e)
        <4>1. e <= j - 1 /\ e \in Int  BY <2>2, <3>3
        <4>2. Cardinality(Upto(t, e)) <= Cardinality(Upto(t, j - 1))
          BY <1>2, <4>1, UptoGrows
        <4> QED  BY <2>1, <3>1, <3>3, <4>2
      <3> QED  BY <3>2, <3>3
    <2> QED  BY <2>1, <2>2, <2>3 DEF e
  <1> QED  BY <1>3, <1>4

\* A line of what tail leaves is the line it was, less those cut off.
LEMMA TailLines ==
  ASSUME NEW t \in Seq(Chars), NEW e \in 0..Len(t),
         NEW u, u = SubSeq(t, e + 1, Len(t)), NEW k \in 1..Len(u)
  PROVE  LineOf(u, k) = LineOf(t, e + k) - Cardinality(Upto(t, e))
  <1>1. /\ u \in Seq(Chars) /\ Len(t) \in Nat /\ Len(u) = Len(t) - e
        /\ \A i \in 1..Len(u) : u[i] = t[e + i]
    BY SubSeqProperties
  <1> DEFINE A == {j \in Newlines(u) : j < k}
             B == Upto(t, e + k - 1) \ Upto(t, e)
             f == [j \in A |-> e + j]
  <1>2. /\ Newlines(u) \subseteq 1..Len(u) /\ IsFiniteSet(Newlines(u))
        /\ Newlines(t) \subseteq 1..Len(t)
    BY <1>1, NewlinesFinite
  <1>3. IsFiniteSet(A) /\ Cardinality(A) \in Nat
    <2>1. A \in SUBSET Newlines(u)  OBVIOUS
    <2> QED  BY <1>2, <2>1, FS_Subset, FS_CardinalityType
  <1>4. B = {j \in Newlines(t) : e < j /\ j < e + k}
    BY <1>1, <1>2 DEF Upto
  <1>5. f \in Bijection(A, B)
    <2>1. \A j \in A : e + j \in B
      <3> SUFFICES ASSUME NEW j \in A PROVE e + j \in B  OBVIOUS
      <3>1. j \in 1..Len(u) /\ u[j] = NL /\ j < k  BY DEF Newlines
      <3>2. e + j \in 1..Len(t) /\ t[e + j] = NL  BY <1>1, <3>1
      <3>3. e + j \in Newlines(t)  BY <3>2 DEF Newlines
      <3>4. e < e + j /\ e + j < e + k  BY <1>1, <3>1
      <3> HIDE DEF B
      <3> QED  BY <1>4, <3>3, <3>4
    <2>2. \A i, j \in A : e + i = e + j => i = j  BY <1>1, <1>2
    <2>3. \A i \in B : \E j \in A : i = e + j
      <3> SUFFICES ASSUME NEW i \in B PROVE i - e \in A /\ i = e + (i - e)
        OBVIOUS
      <3>1. i \in 1..Len(t) /\ e < i /\ i < e + k /\ t[i] = NL
        BY <1>4 DEF Newlines
      <3> HIDE DEF B
      <3>2. i - e \in 1..Len(u) /\ e + (i - e) = i /\ i - e < k
        BY <1>1, <3>1
      <3>3. u[i - e] = NL  BY <1>1, <3>1, <3>2
      <3>4. i - e \in Newlines(u)  BY <3>2, <3>3 DEF Newlines
      <3> QED  BY <3>2, <3>4
    <2>4. f \in Injection(A, B)
      BY <2>1, <2>2 DEF Injection, IsInjective
    <2>5. f \in Surjection(A, B)  BY <2>1, <2>3 DEF Surjection
    <2> QED  BY <2>4, <2>5 DEF Bijection
  <1>6. Cardinality(B) = Cardinality(A)
    <2>1. ExistsBijection(A, B)  BY <1>5 DEF ExistsBijection
    <2> HIDE DEF A, B
    <2> QED  BY <1>3, <2>1, FS_Bijection
  <1>7. Cardinality(B) = Cardinality(Upto(t, e + k - 1)) - Cardinality(Upto(t, e))
    <2>1. e + k - 1 \in Int /\ e \in Int  BY <1>1
    <2>2. Upto(t, e + k - 1) \cap Upto(t, e) = Upto(t, e)
      BY <1>1, <1>2 DEF Upto
    <2> QED  BY <2>1, <2>2, UptoFinite, FS_Difference
  <1>8. {j \in Newlines(t) : j < e + k} = Upto(t, e + k - 1)
    BY <1>1, <1>2 DEF Upto
  <1>9. e + k - 1 \in Int /\ e \in Int  BY <1>1
  <1>10. /\ Cardinality(Upto(t, e + k - 1)) \in Nat
         /\ Cardinality(Upto(t, e)) \in Nat
    BY <1>9, UptoFinite
  <1> HIDE DEF A, B
  <1>11. LineOf(u, k) = 1 + Cardinality(A)  BY DEF LineOf, A
  <1>12. LineOf(t, e + k) = 1 + Cardinality(Upto(t, e + k - 1))
    BY <1>8 DEF LineOf
  <1> QED  BY <1>3, <1>6, <1>7, <1>10, <1>11, <1>12

\* The pipeline prints the lines of the range, in order, and nothing else.
LEMMA OutputIsTheRange ==
  ASSUME NEW t \in Seq(Chars),
         NEW offset \in Nat \cup {None}, NEW limit \in Nat \cup {None},
         NEW s, s = Output(t, offset, limit)
  PROVE  s \in Seq(Chars) /\ IsRangeOf(s, t, offset, limit)
  <1> DEFINE first == IF Given(offset) THEN offset ELSE 0
             places == {i \in 1..Len(t) :
                           /\ LineOf(t, i) > first
                           /\ Given(limit) => LineOf(t, i) <= first + limit}
  <1> DEFINE e == LineEnd(t, first)
             u == SubSeq(t, e + 1, Len(t))
             h == IF Given(limit) THEN LineEnd(u, limit) ELSE Len(u)
  <1>0. IsRangeOf(s, t, offset, limit) <=>
            /\ Len(s) = Cardinality(places)
            /\ \A i \in places : s[Cardinality({j \in places : j <= i})] = t[i]
    BY Zenon DEF IsRangeOf
  <1>1. first \in Nat /\ (Given(limit) => limit \in Nat)  BY DEF Given
  <1>2. /\ e \in 0..Len(t) /\ Len(t) \in Nat
        /\ \A j \in 1..Len(t) : LineOf(t, j) <= first <=> j <= e
        /\ e = Len(t) \/ Cardinality(Upto(t, e)) = first
    <2>1. first \in Nat  BY <1>1
    <2>2. Len(t) \in Nat  OBVIOUS
    <2> HIDE DEF e
    <2> SUFFICES /\ LineEnd(t, first) \in 0..Len(t)
                 /\ \A j \in 1..Len(t) :
                        LineOf(t, j) <= first <=> j <= LineEnd(t, first)
                 /\ \/ LineEnd(t, first) = Len(t)
                    \/ Cardinality(Upto(t, LineEnd(t, first))) = first
      BY <2>2 DEF e
    <2> QED  BY <2>1, LineEndParts
  <1> HIDE DEF e
  <1>3. /\ u \in Seq(Chars) /\ Len(u) = Len(t) - e
        /\ \A i \in 1..Len(u) : u[i] = t[e + i]
    BY <1>2, SubSeqProperties
  <1>4. \A k \in 1..Len(u) : /\ LineOf(u, k) = LineOf(t, e + k) - first
                             /\ LineOf(t, e + k) \in Nat
    <2> SUFFICES ASSUME NEW k \in 1..Len(u)
                 PROVE  /\ LineOf(u, k) = LineOf(t, e + k) - first
                        /\ LineOf(t, e + k) \in Nat
      OBVIOUS
    <2>1. e # Len(t) /\ Cardinality(Upto(t, e)) = first  BY <1>2, <1>3
    <2>2. LineOf(u, k) = LineOf(t, e + k) - Cardinality(Upto(t, e))
      BY <1>2, TailLines
    <2>3. LineOf(t, e + k) \in Nat
      <3>1. {j \in Newlines(t) : j < e + k} \in SUBSET Newlines(t)  OBVIOUS
      <3> QED  BY <3>1, NewlinesFinite, FS_Subset, FS_CardinalityType DEF LineOf
    <2> QED  BY <2>1, <2>2, <2>3
  <1>5. /\ h \in 0..Len(u)
        /\ Given(limit) =>
               \A k \in 1..Len(u) : LineOf(u, k) <= limit <=> k <= h
        /\ ~ Given(limit) => h = Len(u)
    <2> HIDE DEF u
    <2>1. CASE Given(limit)
      <3>1. limit \in Nat  BY <1>1, <2>1
      <3>2. /\ LineEnd(u, limit) \in 0..Len(u)
            /\ \A k \in 1..Len(u) :
                   LineOf(u, k) <= limit <=> k <= LineEnd(u, limit)
        BY <1>3, <3>1, LineEndParts
      <3> QED  BY <2>1, <3>2
    <2>2. CASE ~ Given(limit)  BY <1>3, <2>2
    <2> QED  BY <2>1, <2>2
  <1>6. s = SubSeq(u, 1, h)
    <2>1. TailFrom(t, first + 1) = u
      <3>1. (first + 1) - 1 = first  BY <1>1
      <3> QED  BY <3>1 DEF TailFrom, e
    <2>2. s = IF Given(limit) THEN HeadTo(u, limit) ELSE u
      BY <2>1 DEF Output
    <2>3. SubSeq(u, 1, Len(u)) = u  BY <1>3, SubSeqFull
    <2> QED  BY <2>2, <2>3 DEF HeadTo
  <1> HIDE DEF u, h
  <1>7. /\ s \in Seq(Chars) /\ Len(s) = h
        /\ \A i \in 1..h : s[i] = t[e + i]
    <2>1. h \in Nat /\ \A i \in 1..h : u[i] \in Chars  BY <1>3, <1>5
    <2>2. /\ SubSeq(u, 1, h) \in Seq(Chars)
          /\ Len(SubSeq(u, 1, h)) = IF 1 <= h THEN h - 1 + 1 ELSE 0
          /\ \A i \in 1..(h - 1 + 1) : SubSeq(u, 1, h)[i] = u[1 + i - 1]
      BY <2>1, SubSeqProperties
    <2>3. Len(s) = h  BY <1>6, <2>1, <2>2
    <2>4. \A i \in 1..h : s[i] = u[i]  BY <1>6, <2>1, <2>2
    <2> QED  BY <1>3, <1>5, <1>6, <2>2, <2>3, <2>4
  <1>8. places = (e + 1)..(e + h)
    <2>1. ASSUME NEW i \in 1..Len(t)
          PROVE  i \in places <=> e + 1 <= i /\ i <= e + h
      <3>1. CASE i <= e
        <4>1. ~ (LineOf(t, i) > first) \/ LineOf(t, i) \notin Nat  BY <1>1, <1>2, <3>1
        <4>2. LineOf(t, i) \in Nat
          <5>1. {j \in Newlines(t) : j < i} \in SUBSET Newlines(t)  OBVIOUS
          <5> QED  BY <5>1, NewlinesFinite, FS_Subset, FS_CardinalityType DEF LineOf
        <4> QED  BY <1>2, <3>1, <4>1, <4>2
      <3>2. CASE ~ (i <= e)
        <4>1. i - e \in 1..Len(u) /\ e + (i - e) = i  BY <1>2, <1>3, <3>2
        <4>2. LineOf(t, i) \in Nat /\ LineOf(u, i - e) = LineOf(t, i) - first
          BY <1>4, <4>1
        <4>3. LineOf(t, i) > first  BY <1>1, <1>2, <3>2, <4>2
        <4>4. i \in places <=> i - e <= h
          <5>1. CASE Given(limit)  BY <1>1, <1>5, <4>1, <4>2, <4>3, <5>1
          <5>2. CASE ~ Given(limit)  BY <1>5, <4>1, <4>3, <5>2
          <5> QED  BY <5>1, <5>2
        <4> QED  BY <1>2, <1>3, <1>5, <3>2, <4>4
      <3> QED  BY <3>1, <3>2
    <2>2. places \subseteq 1..Len(t)  OBVIOUS
    <2>3. (e + 1)..(e + h) \subseteq 1..Len(t)  BY <1>2, <1>3, <1>5
    <2> QED  BY <1>2, <1>3, <1>5, <2>1, <2>2, <2>3
  <1> HIDE DEF Given
  <1>9. h \in Nat /\ e \in Nat  BY <1>2, <1>3, <1>5
  <1>10. Cardinality(places) = h
    <2>1. Cardinality((e + 1)..(e + h)) =
              IF e + 1 > e + h THEN 0 ELSE (e + h) - (e + 1) + 1
      BY <1>9, FS_Interval
    <2>2. Cardinality(places) = Cardinality((e + 1)..(e + h))  BY <1>8
    <2>3. CASE h = 0  BY <1>9, <2>1, <2>2, <2>3
    <2>4. CASE h > 0  BY <1>9, <2>1, <2>2, <2>4
    <2> QED  BY <1>9, <2>3, <2>4
  <1>11. ASSUME NEW i \in places
         PROVE  s[Cardinality({j \in places : j <= i})] = t[i]
    <2>1. i \in (e + 1)..(e + h)  BY <1>8
    <2>2. {j \in places : j <= i} = (e + 1)..i  BY <1>8, <1>9, <2>1
    <2>3. Cardinality((e + 1)..i) = i - e
      <3>1. Cardinality((e + 1)..i) = IF e + 1 > i THEN 0 ELSE i - (e + 1) + 1
        BY <1>9, <2>1, FS_Interval
      <3> QED  BY <1>9, <2>1, <3>1
    <2>4. i - e \in 1..h /\ e + (i - e) = i  BY <1>9, <2>1
    <2> QED  BY <1>7, <2>2, <2>3, <2>4
  <1> QED  BY <1>0, <1>7, <1>10, <1>11

-----------------------------------------------------------------------------
(* What becomes of the file *)

(* A call is where its tool can be, and a call that has not begun has made *)
(* no inode.  The file and the .tmp file are never the same inode.  awk    *)
(* prints only what it counted one match in, a read shows what it got.     *)
Stages ==
    /\ \A c \in Calls : at[c] = "fill" => Tool(c) = "write"
    /\ \A c \in Calls : at[c] \in {"scan", "print", "move"} => Tool(c) = "edit"
    /\ \A c \in Calls : at[c] = "idle" => c \notin {name["file"], name["tmp"]}
    /\ name["file"] # None => name["file"] # name["tmp"]
    /\ \A c \in Calls : at[c] = "print" => MatchesOnce(got[c], OpOf[c].old)
    /\ \A c \in Calling("read") :
           result[c] = "ok" =>
               shown[c] = Output(got[c], OpOf[c].offset, OpOf[c].limit)

(* As long as no two calls that change the file have overlapped, one is in *)
(* progress at most, it writes where its name still is, and the text it    *)
(* edits is the text of the file.                                          *)
OneChanger ==
    ~ clash =>
        /\ \A b, c \in Calls : InProgress(b) /\ InProgress(c) => b = c
        /\ \A c \in Calls :
               at[c] = "fill" => fd[c] = name["file"] /\ data[fd[c]] = <<>>
        /\ \A c \in Calls :
               at[c] \in {"scan", "print"} =>
                   fd[c] = name["tmp"] /\ data[fd[c]] = <<>>
        /\ \A c \in Calls :
               at[c] = "print" => File # None /\ got[c] = Records(File)
        /\ \A c \in Calls :
               at[c] = "move" =>
                   /\ File # None
                   /\ name["tmp"] # None
                   /\ MatchesOnce(Records(File), OpOf[c].old)
                   /\ data[name["tmp"]] =
                          Replaced(Records(File), OpOf[c].old, OpOf[c].new)

FileInv == FileTypeOK /\ Stages /\ OneChanger

\* A write at the beginning of a text makes a text; of nothing, the text
\* written.
LEMMA OverwriteType ==
  ASSUME NEW t \in Seq(Chars), NEW text \in Seq(Chars)
  PROVE  /\ text \o SubSeq(t, Len(text) + 1, Len(t)) \in Seq(Chars)
         /\ t = <<>> => text \o SubSeq(t, Len(text) + 1, Len(t)) = text
  <1>1. /\ Len(text) + 1 \in Int /\ Len(t) \in Int
        /\ \A i \in (Len(text) + 1)..Len(t) : t[i] \in Chars
    OBVIOUS
  <1>2. SubSeq(t, Len(text) + 1, Len(t)) \in Seq(Chars)
    BY <1>1, SubSeqProperties
  <1>3. t = <<>> => SubSeq(t, Len(text) + 1, Len(t)) = <<>>
    BY <1>1, SubSeqEmpty
  <1> QED  BY <1>2, <1>3, ConcatEmptySeq

LEMMA OutputType ==
  ASSUME NEW t \in Seq(Chars),
         NEW offset \in Nat \cup {None}, NEW limit \in Nat \cup {None}
  PROVE  Output(t, offset, limit) \in Seq(Chars)
  BY OutputIsTheRange

\* Only a call that changes the file is ever in progress.
LEMMA ReadersAreQuick ==
  ASSUME FileTypeOK, Stages, NEW c \in Calls
  PROVE  /\ InProgress(c) => c \in Changers
         /\ InProgress(c) <=> at[c] \in {"fill", "scan", "print", "move"}
  BY DEF FileTypeOK, Stages, InProgress, Changers, Calling

\* A call that begins without a clash finds nobody in progress.
LEMMA AloneWithoutClash ==
  ASSUME FileInv, NEW c \in Calls, Begins(c), ~ clash'
  PROVE  \A b \in Calls : ~ InProgress(b)
  BY ReadersAreQuick DEF FileInv, Begins

\* Whatever else it says, the file holds a text or is not there.
LEMMA FileIsText ==
  ASSUME FileTypeOK
  PROVE  /\ File # None <=> name["file"] # None
         /\ File # None => File \in Seq(Chars) /\ File = data[name["file"]]
  BY FileToolsAssumption DEF FileTypeOK, File, FileToolsAssumption

LEMMA InitFileInv == Init => FileInv
  <1> SUFFICES ASSUME Init PROVE FileInv  OBVIOUS
  <1> USE FileToolsAssumption DEF FileToolsAssumption, Init
  <1>1. Base \in Inodes /\ Base # None  BY DEF Inodes
  <1>2. FileTypeOK
    <2>1. <<>> \in Seq(Chars)  OBVIOUS
    <2> QED  BY <1>1, <2>1 DEF FileTypeOK, Inodes
  <1>3. Stages  BY <1>1 DEF Stages, Calling, Inodes
  <1>4. OneChanger  BY DEF OneChanger, InProgress
  <1> QED  BY <1>2, <1>3, <1>4 DEF FileInv

\* What the arguments of a call are.
LEMMA Arguments ==
  ASSUME NEW c \in Calls
  PROVE  /\ Tool(c) = "write" => OpOf[c].text \in Seq(Chars)
         /\ Tool(c) = "edit" => /\ OpOf[c].old \in Seq(Chars)
                                /\ OpOf[c].new \in Seq(Chars)
         /\ Tool(c) = "read" => /\ OpOf[c].offset \in Nat \cup {None}
                                /\ OpOf[c].limit \in Nat \cup {None}
  BY FileToolsAssumption DEF FileToolsAssumption, Calling

\* How a call ends, and that the others stay where they are.
LEMMA EndsShape ==
  ASSUME FileTypeOK, NEW c \in Calls, NEW r \in {"none", "ok", "error", "killed"},
         Ends(c, r)
  PROVE  /\ at' \in [Calls -> {"idle", "fill", "scan", "print", "move", "done"}]
         /\ fd' \in [Calls -> Inodes \cup {None}]
         /\ result' \in [Calls -> {"none", "ok", "error", "killed"}]
         /\ \A b \in Calls :
                fd'[b] # None <=> at'[b] \in {"fill", "scan", "print"}
         /\ at'[c] = "done" /\ result'[c] = r
         /\ \A b \in Calls \ {c} : /\ at'[b] = at[b] /\ fd'[b] = fd[b]
                                  /\ result'[b] = result[b]
  BY DEF FileTypeOK, Ends, Goto

LEMMA StepTypes ==
  ASSUME FileInv, NEW c \in Calls, Step(c)
  PROVE  FileTypeOK'
  <1> USE DEF FileInv
  <1>1. None \notin Inodes /\ c \in Inodes /\ <<>> \in Seq(Chars)
    BY FileToolsAssumption DEF FileToolsAssumption, Inodes
  <1>2. CASE WriteOpens(c)
    BY <1>1, <1>2 DEF WriteOpens, OpenTruncated, Begins, Goto, FileTypeOK
  <1>3. CASE WriteFills(c)
    <2>1. fd[c] \in Inodes /\ at[c] = "fill" /\ Tool(c) = "write"
      BY <1>3 DEF WriteFills, FileTypeOK, Stages
    <2>2. data' \in [Inodes -> Seq(Chars)]
      BY <1>3, <2>1, Arguments, OverwriteType
         DEF WriteFills, WriteOut, FileTypeOK
    <2> QED  BY <1>3, <2>2 DEF WriteFills, Ends, Goto, FileTypeOK
  <1>4. CASE EditOpens(c)
    BY <1>1, <1>4 DEF EditOpens, OpenTruncated, Begins, Goto, FileTypeOK
  <1>5. CASE EditScans(c)
    <2>1. File # None => Records(File) \in Seq(Chars)
      BY FileIsText, RecordsType
    <2> QED  BY <1>5, <2>1 DEF EditScans, Ends, Goto, FileTypeOK
  <1>6. CASE EditPrints(c)
    <2>1. /\ fd[c] \in Inodes /\ at[c] = "print" /\ Tool(c) = "edit"
          /\ MatchesOnce(got[c], OpOf[c].old) /\ got[c] \in Seq(Chars)
      BY <1>6 DEF EditPrints, FileTypeOK, Stages
    <2>2. Replaced(got[c], OpOf[c].old, OpOf[c].new) \in Seq(Chars)
      BY <2>1, Arguments, ReplacedType
    <2>3. data' \in [Inodes -> Seq(Chars)]
      BY <1>6, <2>1, <2>2, OverwriteType DEF EditPrints, WriteOut, FileTypeOK
    <2> QED  BY <1>6, <2>3 DEF EditPrints, Goto, FileTypeOK
  <1>7. CASE EditMoves(c)
    <2>1. name' \in [{"file", "tmp"} -> Inodes \cup {None}]
      BY <1>7 DEF EditMoves, FileTypeOK
    <2> QED  BY <1>7, <2>1, EndsShape DEF EditMoves, FileTypeOK
  <1>8. CASE Delete(c)
    BY <1>8, EndsShape DEF Delete, Begins, FileTypeOK
  <1>9. CASE Read(c)
    <2>1. File # None => Output(File, OpOf[c].offset, OpOf[c].limit) \in Seq(Chars)
      BY <1>9, FileIsText, Arguments, OutputType DEF Read
    <2>2. /\ got' \in [Calls -> Seq(Chars)]
          /\ shown' \in [Calls -> Seq(Chars)]
      BY <1>9, <2>1, FileIsText DEF Read, FileTypeOK
    <2>3. Ends(c, "error") \/ Ends(c, "ok")  BY <1>9 DEF Read
    <2>4. UNCHANGED <<name, data, clash>>  BY <1>9 DEF Read
    <2> QED  BY <2>2, <2>3, <2>4, EndsShape DEF FileTypeOK
  <1>10. CASE Kill(c)  BY <1>10 DEF Kill, Ends, Goto, FileTypeOK
  <1> QED  BY <1>2, <1>3, <1>4, <1>5, <1>6, <1>7, <1>8, <1>9, <1>10 DEF Step

LEMMA StepStages ==
  ASSUME FileInv, NEW c \in Calls, Step(c)
  PROVE  Stages'
  <1> USE DEF FileInv, FileTypeOK, Stages
  <1>1. None \notin Inodes /\ c \in Inodes
    BY FileToolsAssumption DEF FileToolsAssumption, Inodes
  <1>2. CASE WriteOpens(c)
    BY <1>1, <1>2 DEF WriteOpens, OpenTruncated, Begins, Goto, Calling
  <1>3. CASE WriteFills(c)
    BY <1>3 DEF WriteFills, Ends, Goto, Calling
  <1>4. CASE EditOpens(c)
    BY <1>1, <1>4 DEF EditOpens, OpenTruncated, Begins, Goto, Calling
  <1>5. CASE EditScans(c)
    <2>1. CASE Ends(c, "error") /\ UNCHANGED got
      BY <1>5, <2>1, EndsShape DEF EditScans, Calling
    <2>2. CASE /\ MatchesOnce(Records(File), OpOf[c].old)
               /\ got' = [got EXCEPT ![c] = Records(File)]
               /\ Goto(c, "print") /\ UNCHANGED <<fd, result>>
      BY <1>5, <2>2 DEF EditScans, Goto, Calling
    <2> QED  BY <1>5, <2>1, <2>2 DEF EditScans
  <1>6. CASE EditPrints(c)  BY <1>6 DEF EditPrints, Goto, Calling
  <1>7. CASE EditMoves(c)
    <2>1. CASE Ends(c, "error") /\ UNCHANGED name
      BY <1>7, <2>1, EndsShape DEF EditMoves, Calling
    <2>2. CASE /\ name' = [n \in DOMAIN name |->
                              IF n = "file" THEN name["tmp"] ELSE None]
               /\ Ends(c, "ok")
      <3>1. name'["file"] = name["tmp"] /\ name'["tmp"] = None  BY <2>2
      <3>2. UNCHANGED <<got, shown>> /\ Tool(c) = "edit"
        BY <1>7 DEF EditMoves
      <3>3. \A b \in Calls : at'[b] = "idle" => b \notin {name'["file"], name'["tmp"]}
        BY <1>1, <2>2, <3>1, EndsShape, FileToolsAssumption
           DEF FileToolsAssumption, Inodes
      <3> QED  BY <2>2, <3>1, <3>2, <3>3, EndsShape DEF Calling
    <2> QED  BY <1>7, <2>1, <2>2 DEF EditMoves
  <1>8. CASE Delete(c)
    <2>1. /\ Ends(c, "ok") /\ UNCHANGED <<got, shown>> /\ Tool(c) = "delete"
          /\ name'["file"] = None /\ name'["tmp"] = name["tmp"]
      BY <1>8 DEF Delete
    <2>2. \A b \in Calls : at'[b] = "idle" => b \notin {name'["file"], name'["tmp"]}
      BY <1>1, <2>1, EndsShape, FileToolsAssumption
         DEF FileToolsAssumption, Inodes
    <2> QED  BY <2>1, <2>2, EndsShape DEF Calling
  <1>9. CASE Read(c)
    <2>1. /\ UNCHANGED name /\ Tool(c) = "read"
          /\ \/ Ends(c, "error")
             \/ Ends(c, "ok") /\ shown'[c] = Output(got'[c], OpOf[c].offset,
                                                    OpOf[c].limit)
          /\ \A b \in Calls \ {c} : got'[b] = got[b] /\ shown'[b] = shown[b]
      BY <1>9 DEF Read
    <2>2. ASSUME NEW b \in Calls
          PROVE  /\ at'[b] = "fill" => Tool(b) = "write"
                 /\ at'[b] \in {"scan", "print", "move"} => Tool(b) = "edit"
                 /\ at'[b] = "idle" => b \notin {name["file"], name["tmp"]}
                 /\ at'[b] = "print" => MatchesOnce(got'[b], OpOf[b].old)
      <3>1. b = c => at'[b] = "done"  BY <2>1, EndsShape
      <3>2. b # c => at'[b] = at[b] /\ got'[b] = got[b]  BY <2>1, EndsShape
      <3> QED  BY <3>1, <3>2
    <2>3. ASSUME NEW b \in Calling("read"), result'[b] = "ok"
          PROVE  shown'[b] = Output(got'[b], OpOf[b].offset, OpOf[b].limit)
      <3>1. b \in Calls  BY DEF Calling
      <3>2. CASE b = c  BY <2>1, <2>3, <3>2, EndsShape
      <3>3. CASE b # c
        <4>1. /\ result[b] = "ok" /\ got'[b] = got[b] /\ shown'[b] = shown[b]
          BY <2>1, <2>3, <3>1, <3>3, EndsShape
        <4> QED  BY <4>1
      <3> QED  BY <3>2, <3>3
    <2> QED  BY <2>1, <2>2, <2>3
  <1>10. CASE Kill(c)
    BY <1>10 DEF Kill, InProgress, Ends, Goto, Calling
  <1> QED  BY <1>2, <1>3, <1>4, <1>5, <1>6, <1>7, <1>8, <1>9, <1>10 DEF Step

\* When the only call in progress ends, nobody is.
LEMMA EndsLeavesNobody ==
  ASSUME FileInv, NEW c \in Calls, NEW r \in {"none", "ok", "error", "killed"},
         Ends(c, r), \A b \in Calls \ {c} : ~ InProgress(b)
  PROVE  OneChanger'
  <1>1. \A b \in Calls : at'[b] \in {"idle", "done"}
    <2>1. FileTypeOK  BY DEF FileInv
    <2>2. \A b \in Calls \ {c} : at'[b] = at[b] /\ at[b] \in {"idle", "done"}
      BY <2>1, EndsShape DEF InProgress
    <2>3. at'[c] = "done"  BY <2>1, EndsShape
    <2> QED  BY <2>2, <2>3
  <1> QED  BY <1>1 DEF OneChanger, InProgress

\* The call that a step of a changer is about is the only one in progress.
LEMMA TheOnlyOne ==
  ASSUME FileInv, NEW c \in Calls, InProgress(c), ~ clash
  PROVE  \A b \in Calls \ {c} : ~ InProgress(b)
  BY DEF FileInv, OneChanger

\* What the shell opens is under its name, and empty.
LEMMA OpenedIsEmpty ==
  ASSUME FileTypeOK, NEW c \in Calls, NEW n \in {"file", "tmp"},
         OpenTruncated(c, n)
  PROVE  fd'[c] = name'[n] /\ data'[fd'[c]] = <<>>
  <1> DEFINE i == IF name[n] = None THEN c ELSE name[n]
  <1>1. i \in Inodes  BY DEF FileTypeOK, Inodes
  <1>2. /\ name' = [name EXCEPT ![n] = i]
        /\ data' = [data EXCEPT ![i] = <<>>]
        /\ fd' = [fd EXCEPT ![c] = i]
    BY DEF OpenTruncated
  <1> HIDE DEF i
  <1> QED  BY <1>1, <1>2 DEF FileTypeOK

\* What OneChanger says of one call.
LEMMA OneChangerOf ==
  ASSUME FileInv, ~ clash, NEW c \in Calls
  PROVE  /\ at[c] = "fill" => fd[c] = name["file"] /\ data[fd[c]] = <<>>
         /\ at[c] \in {"scan", "print"} =>
                fd[c] = name["tmp"] /\ data[fd[c]] = <<>>
         /\ at[c] = "print" => File # None /\ got[c] = Records(File)
         /\ at[c] = "move" =>
                /\ File # None
                /\ name["tmp"] # None
                /\ MatchesOnce(Records(File), OpOf[c].old)
                /\ data[name["tmp"]] =
                       Replaced(Records(File), OpOf[c].old, OpOf[c].new)
  BY DEF FileInv, OneChanger

LEMMA StepOneChanger ==
  ASSUME FileInv, NEW c \in Calls, Step(c)
  PROVE  OneChanger'
  <1> SUFFICES ASSUME ~ clash'  PROVE OneChanger'  BY DEF OneChanger
  <1>0. FileTypeOK /\ Stages  BY DEF FileInv
  <1>1. None \notin Inodes /\ c \in Inodes
    BY FileToolsAssumption DEF FileToolsAssumption, Inodes
  <1>2. CASE WriteOpens(c)
    <2>1. \A b \in Calls : at[b] \in {"idle", "done"}
      BY <1>2, AloneWithoutClash DEF WriteOpens, InProgress
    <2>2. at'[c] = "fill" /\ \A b \in Calls \ {c} : at'[b] = at[b]
      BY <1>0, <1>2 DEF WriteOpens, Goto, FileTypeOK
    <2>3. fd'[c] = name'["file"] /\ data'[fd'[c]] = <<>>
      BY <1>0, <1>2, OpenedIsEmpty DEF WriteOpens
    <2> QED  BY <2>1, <2>2, <2>3 DEF OneChanger, InProgress
  <1>3. CASE WriteFills(c)
    <2>1. InProgress(c) /\ ~ clash  BY <1>3 DEF WriteFills, InProgress
    <2>2. Ends(c, "ok")  BY <1>3 DEF WriteFills
    <2> QED  BY <2>1, <2>2, TheOnlyOne, EndsLeavesNobody
  <1>4. CASE EditOpens(c)
    <2>1. \A b \in Calls : at[b] \in {"idle", "done"}
      BY <1>4, AloneWithoutClash DEF EditOpens, InProgress
    <2>2. at'[c] = "scan" /\ \A b \in Calls \ {c} : at'[b] = at[b]
      BY <1>0, <1>4 DEF EditOpens, Goto, FileTypeOK
    <2>3. fd'[c] = name'["tmp"] /\ data'[fd'[c]] = <<>>
      BY <1>0, <1>4, OpenedIsEmpty DEF EditOpens
    <2> QED  BY <2>1, <2>2, <2>3 DEF OneChanger, InProgress
  <1>5. CASE EditScans(c)
    <2>1. InProgress(c) /\ ~ clash  BY <1>5 DEF EditScans, InProgress
    <2>2. CASE Ends(c, "error")
      BY <2>1, <2>2, TheOnlyOne, EndsLeavesNobody
    <2>3. CASE /\ File # None
               /\ got' = [got EXCEPT ![c] = Records(File)]
               /\ Goto(c, "print") /\ UNCHANGED <<fd, result>>
      <3>1. \A b \in Calls \ {c} : at[b] \in {"idle", "done"}
        BY <2>1, TheOnlyOne DEF InProgress
      <3>2. at'[c] = "print" /\ \A b \in Calls \ {c} : at'[b] = at[b]
        BY <1>0, <2>3 DEF Goto, FileTypeOK
      <3>3. UNCHANGED <<name, data, fd, File>>  BY <1>5, <2>3 DEF EditScans, File
      <3>4. fd[c] = name["tmp"] /\ data[fd[c]] = <<>>
        BY <1>5, <2>1, OneChangerOf DEF EditScans
      <3>5. got'[c] = Records(File)  BY <1>0, <2>3 DEF FileTypeOK
      <3> QED  BY <2>3, <3>1, <3>2, <3>3, <3>4, <3>5 DEF OneChanger, InProgress
    <2> QED  BY <1>5, <2>2, <2>3 DEF EditScans
  <1>6. CASE EditPrints(c)
    <2>1. InProgress(c) /\ ~ clash  BY <1>6 DEF EditPrints, InProgress
    <2>2. \A b \in Calls \ {c} : at[b] \in {"idle", "done"}
      BY <2>1, TheOnlyOne DEF InProgress
    <2>3. at'[c] = "move" /\ \A b \in Calls \ {c} : at'[b] = at[b]
      BY <1>0, <1>6 DEF EditPrints, Goto, FileTypeOK
    <2>4. /\ fd[c] = name["tmp"] /\ data[fd[c]] = <<>>
          /\ File # None /\ got[c] = Records(File)
      BY <1>6, <2>1, OneChangerOf DEF EditPrints
    <2>5. /\ fd[c] \in Inodes /\ got[c] \in Seq(Chars) /\ Tool(c) = "edit"
          /\ MatchesOnce(got[c], OpOf[c].old)
      BY <1>0, <1>6 DEF EditPrints, FileTypeOK, Stages
    <2>6. name["file"] # fd[c] /\ name["file"] \in Inodes
      BY <1>0, <2>4, FileIsText DEF Stages, FileTypeOK
    <2> DEFINE text == Replaced(got[c], OpOf[c].old, OpOf[c].new)
    <2>7. data'[fd[c]] = text
      <3>1. text \in Seq(Chars)  BY <2>5, Arguments, ReplacedType
      <3>2. data'[fd[c]] = text \o SubSeq(data[fd[c]], Len(text) + 1,
                                          Len(data[fd[c]]))
        BY <1>0, <1>6, <2>5 DEF EditPrints, WriteOut, FileTypeOK
      <3>3. data[fd[c]] \in Seq(Chars)  BY <1>0, <2>5 DEF FileTypeOK
      <3> QED  BY <2>4, <3>1, <3>2, <3>3, OverwriteType
    <2>8. File' = File
      BY <1>0, <1>6, <2>5, <2>6 DEF EditPrints, WriteOut, File, FileTypeOK
    <2>9. name' = name /\ fd[c] # None  BY <1>1, <1>6, <2>5 DEF EditPrints
    <2> HIDE DEF text
    <2>10. text = Replaced(Records(File), OpOf[c].old, OpOf[c].new)
      BY <2>4 DEF text
    <2> QED
      BY <2>2, <2>3, <2>4, <2>5, <2>7, <2>8, <2>9, <2>10
         DEF OneChanger, InProgress
  <1>7. CASE EditMoves(c)
    <2>1. InProgress(c) /\ ~ clash  BY <1>7 DEF EditMoves, InProgress
    <2>2. Ends(c, "ok") \/ Ends(c, "error")  BY <1>7 DEF EditMoves
    <2> QED  BY <2>1, <2>2, TheOnlyOne, EndsLeavesNobody
  <1>8. CASE Delete(c)
    <2>1. Begins(c) /\ Ends(c, "ok")  BY <1>8 DEF Delete
    <2> QED  BY <2>1, AloneWithoutClash, EndsLeavesNobody
  <1>9. CASE Read(c)
    <2>1. UNCHANGED <<name, data, clash, File>>  BY <1>9 DEF Read, File
    <2>2. Ends(c, "ok") \/ Ends(c, "error")  BY <1>9 DEF Read
    <2>3. at'[c] = "done"  BY <1>0, <2>2, EndsShape
    <2>4. \A b \in Calls \ {c} : at'[b] = at[b] /\ fd'[b] = fd[b]
      BY <1>0, <2>2, EndsShape
    <2>5. \A b \in Calls \ {c} : got'[b] = got[b]
      BY <1>0, <1>9 DEF Read, FileTypeOK
    <2>6. OneChanger  BY DEF FileInv
    <2> QED
      BY <2>1, <2>3, <2>4, <2>5, <2>6 DEF OneChanger, InProgress
  <1>10. CASE Kill(c)
    <2>1. InProgress(c) /\ ~ clash /\ Ends(c, "killed")  BY <1>10 DEF Kill
    <2> QED  BY <2>1, TheOnlyOne, EndsLeavesNobody
  <1> QED  BY <1>2, <1>3, <1>4, <1>5, <1>6, <1>7, <1>8, <1>9, <1>10 DEF Step

\* Inductiveness.
LEMMA NextFileInv == FileInv /\ [Next]_vars => FileInv'
  <1> SUFFICES ASSUME FileInv, [Next]_vars  PROVE FileInv'  OBVIOUS
  <1>1. ASSUME NEW c \in Calls, Step(c)  PROVE FileInv'
    BY <1>1, StepTypes, StepStages, StepOneChanger DEF FileInv
  <1>2. CASE UNCHANGED vars
    BY <1>2 DEF vars, FileInv, FileTypeOK, Stages, OneChanger, InProgress, File
  <1> QED  BY <1>1, <1>2 DEF Next

\* The invariant of the file and the calls on it.
THEOREM FileInvariant == Spec => []FileInv
  <1> QED  BY InitFileInv, NextFileInv, PTL DEF Spec

\* Type correctness: whatever overlaps, what is written, read and shown are
\* texts, and a call has a file open exactly while it may write to it.
THEOREM FileTypes == Spec => []FileTypeOK
  <1>1. FileInv => FileTypeOK  BY DEF FileInv
  <1> QED  BY <1>1, FileInvariant, PTL

(***************************************************************************)
(* A read shows the lines asked for and no others, of any text, with any   *)
(* offset and limit (commands.py:153-162).                                 *)
(***************************************************************************)
THEOREM ReadIsTheRange == Spec => []ReadsTheRange
  <1>1. FileInv => ReadsTheRange
    <2> SUFFICES ASSUME FileInv, NEW c \in Calling("read"), result[c] = "ok"
                 PROVE  IsRangeOf(shown[c], got[c],
                                  OpOf[c].offset, OpOf[c].limit)
      BY DEF ReadsTheRange
    <2>1. c \in Calls /\ Tool(c) = "read"  BY DEF Calling
    <2>2. shown[c] = Output(got[c], OpOf[c].offset, OpOf[c].limit)
      BY DEF FileInv, Stages
    <2>3. got[c] \in Seq(Chars)  BY <2>1 DEF FileInv, FileTypeOK
    <2>4. /\ OpOf[c].offset \in Nat \cup {None}
          /\ OpOf[c].limit \in Nat \cup {None}
      BY <2>1, Arguments
    <2> QED  BY <2>2, <2>3, <2>4, OutputIsTheRange
  <1> QED  BY <1>1, FileInvariant, PTL

-----------------------------------------------------------------------------
(* What a step does to the file *)

\* What an edit does before its last step, a read, and a kill leave the file
\* alone.
LEMMA StepsBeside ==
  ASSUME FileInv, NEW c \in Calls, ~ clash',
         \/ EditOpens(c) \/ EditScans(c) \/ EditPrints(c)
         \/ Read(c) \/ Kill(c)
  PROVE  File' = File
  <1>0. FileTypeOK /\ Stages  BY DEF FileInv
  <1>1. CASE EditOpens(c)
    <2> DEFINE i == IF name["tmp"] = None THEN c ELSE name["tmp"]
    <2>1. name["file"] # None => name["file"] # i
      BY <1>0, <1>1 DEF EditOpens, Begins, Stages
    <2>2. i \in Inodes  BY <1>0 DEF FileTypeOK, Inodes
    <2>3. name' = [name EXCEPT !["tmp"] = i] /\ data' = [data EXCEPT ![i] = <<>>]
      BY <1>1 DEF EditOpens, OpenTruncated
    <2> HIDE DEF i
    <2>4. name'["file"] = name["file"]  BY <1>0, <2>3 DEF FileTypeOK
    <2>5. name["file"] # None => data'[name["file"]] = data[name["file"]]
      BY <1>0, <2>1, <2>2, <2>3 DEF FileTypeOK
    <2> QED  BY <2>4, <2>5 DEF File
  <1>2. CASE EditPrints(c)
    <2>1. at[c] = "print" /\ ~ clash /\ fd[c] \in Inodes
      BY <1>0, <1>2 DEF EditPrints, FileTypeOK
    <2>2. name["file"] # None => name["file"] # fd[c]
      BY <1>0, <2>1, OneChangerOf DEF Stages
    <2> QED
      BY <1>0, <1>2, <2>1, <2>2 DEF EditPrints, WriteOut, File, FileTypeOK
  <1>3. CASE EditScans(c)  BY <1>3 DEF EditScans, File
  <1>4. CASE Read(c)  BY <1>4 DEF Read, File
  <1>5. CASE Kill(c)  BY <1>5 DEF Kill, File
  <1> QED  BY <1>1, <1>2, <1>3, <1>4, <1>5

\* A write that is alone truncates the file, then leaves its text in it.
LEMMA WriteStarts ==
  ASSUME FileInv, NEW c \in Calls, WriteOpens(c)
  PROVE  File' = <<>>
  <1>1. FileTypeOK /\ OpenTruncated(c, "file")  BY DEF FileInv, WriteOpens
  <1>2. fd'[c] = name'["file"] /\ data'[fd'[c]] = <<>>
    BY <1>1, OpenedIsEmpty
  <1>3. name'["file"] # None
    BY <1>1, FileToolsAssumption
       DEF OpenTruncated, FileTypeOK, FileToolsAssumption, Inodes
  <1> QED  BY <1>2, <1>3 DEF File

LEMMA WriteEnds ==
  ASSUME FileInv, NEW c \in Calls, WriteFills(c), ~ clash'
  PROVE  Tool(c) = "write" /\ File' = OpOf[c].text
  <1>1. FileTypeOK /\ Stages  BY DEF FileInv
  <1>2. at[c] = "fill" /\ ~ clash /\ fd[c] \in Inodes /\ fd[c] # None
    BY <1>1 DEF WriteFills, FileTypeOK
  <1>3. Tool(c) = "write" /\ OpOf[c].text \in Seq(Chars)
    BY <1>1, <1>2, Arguments DEF Stages
  <1>4. fd[c] = name["file"] /\ data[fd[c]] = <<>>  BY <1>2, OneChangerOf
  <1>5. data'[fd[c]] = OpOf[c].text \o SubSeq(data[fd[c]], Len(OpOf[c].text) + 1,
                                              Len(data[fd[c]]))
    BY <1>1, <1>2 DEF WriteFills, WriteOut, FileTypeOK
  <1>6. data'[fd[c]] = OpOf[c].text
    <2>1. data[fd[c]] \in Seq(Chars)  BY <1>1, <1>2 DEF FileTypeOK
    <2> QED  BY <1>3, <1>4, <1>5, <2>1, OverwriteType
  <1>7. name' = name  BY DEF WriteFills
  <1> QED  BY <1>2, <1>3, <1>4, <1>6, <1>7 DEF File

\* An edit that is alone and moves its .tmp file has made the edit.
LEMMA EditEnds ==
  ASSUME FileInv, NEW c \in Calls, EditMoves(c), ~ clash'
  PROVE  /\ Tool(c) = "edit" /\ result'[c] = "ok" /\ File # None
         /\ IsEditOf(File', File, OpOf[c].old, OpOf[c].new)
  <1>1. FileTypeOK /\ Stages  BY DEF FileInv
  <1>2. at[c] = "move" /\ ~ clash  BY DEF EditMoves
  <1>3. /\ File # None /\ name["tmp"] # None
        /\ MatchesOnce(Records(File), OpOf[c].old)
        /\ data[name["tmp"]] = Replaced(Records(File), OpOf[c].old, OpOf[c].new)
    BY <1>2, OneChangerOf
  <1>4. name'["file"] = name["tmp"] /\ data' = data /\ Ends(c, "ok")
    BY <1>1, <1>3 DEF EditMoves, FileTypeOK
  <1>5. Tool(c) = "edit" /\ result'[c] = "ok"
    BY <1>1, <1>2, <1>4, EndsShape DEF Stages
  <1>6. /\ File \in Seq(Chars)
        /\ OpOf[c].old \in Seq(Chars) /\ OpOf[c].new \in Seq(Chars)
    BY <1>1, <1>3, <1>5, FileIsText, Arguments
  <1>7. File' = Replaced(Records(File), OpOf[c].old, OpOf[c].new)
    BY <1>3, <1>4 DEF File
  <1> QED  BY <1>3, <1>5, <1>6, <1>7, OneMatchIsReplaced

\* A step that changes the file is the step of a call that makes its change.
LEMMA StepChangesWhole ==
  ASSUME FileInv, NEW c \in Calls, Step(c), ~ clash', File' # File
  PROVE  at'[c] # at[c] /\ ChangedWhole(c)
  <1>1. FileTypeOK  BY DEF FileInv
  <1>2. CASE WriteOpens(c)
    <2>1. File' = <<>> /\ Tool(c) = "write"  BY <1>2, WriteStarts DEF WriteOpens
    <2>2. at'[c] # at[c]
      BY <1>1, <1>2 DEF WriteOpens, Begins, Goto, FileTypeOK
    <2> QED  BY <2>1, <2>2 DEF ChangedWhole
  <1>3. CASE WriteFills(c)
    <2>1. at[c] = "fill" /\ at'[c] = "done"
      BY <1>1, <1>3, EndsShape DEF WriteFills
    <2> QED  BY <1>3, <2>1, WriteEnds DEF ChangedWhole
  <1>4. CASE EditMoves(c)
    <2>1. at[c] = "move" /\ at'[c] = "done"
      BY <1>1, <1>4, EndsShape DEF EditMoves
    <2> QED  BY <1>4, <2>1, EditEnds DEF ChangedWhole
  <1>5. CASE Delete(c)
    <2>1. at[c] = "idle" /\ at'[c] = "done"
      BY <1>1, <1>5, EndsShape DEF Delete, Begins
    <2>2. Tool(c) = "delete" /\ File' = None
      BY <1>1, <1>5 DEF Delete, File, FileTypeOK
    <2> QED  BY <2>1, <2>2 DEF ChangedWhole
  <1> QED  BY <1>2, <1>3, <1>4, <1>5, StepsBeside DEF Step

\* A step in which a call that changes the file succeeds has made its change.
LEMMA StepMeansDone ==
  ASSUME FileInv, NEW c \in Calls, Step(c), ~ clash',
         NEW b \in Changers, result[b] = "none", result'[b] = "ok"
  PROVE  /\ Tool(b) = "edit" =>
                File # None /\ IsEditOf(File', File, OpOf[b].old, OpOf[b].new)
         /\ Tool(b) = "write" => File' = OpOf[b].text
         /\ Tool(b) = "delete" => File' = None
         /\ Tool(b) \in {"edit", "write", "delete"}
  <1>1. FileTypeOK  BY DEF FileInv
  <1>2. b \in Calls /\ Tool(b) # "read"  BY DEF Changers, Calling
  <1>3. CASE WriteOpens(c)  BY <1>3 DEF WriteOpens
  <1>4. CASE WriteFills(c)
    <2>1. b = c  BY <1>1, <1>2, <1>4, EndsShape DEF WriteFills
    <2> QED  BY <1>4, <2>1, WriteEnds
  <1>5. CASE EditOpens(c)  BY <1>5 DEF EditOpens
  <1>6. CASE EditScans(c)
    <2>1. Ends(c, "error") \/ UNCHANGED result  BY <1>6 DEF EditScans
    <2> QED  BY <1>1, <1>2, <2>1, EndsShape
  <1>7. CASE EditPrints(c)  BY <1>7 DEF EditPrints
  <1>8. CASE EditMoves(c)
    <2>1. Ends(c, "ok") \/ Ends(c, "error")  BY <1>8 DEF EditMoves
    <2>2. b = c  BY <1>1, <1>2, <2>1, EndsShape
    <2> QED  BY <1>8, <2>2, EditEnds
  <1>9. CASE Delete(c)
    <2>1. b = c  BY <1>1, <1>2, <1>9, EndsShape DEF Delete
    <2>2. Tool(c) = "delete" /\ File' = None
      BY <1>1, <1>9 DEF Delete, File, FileTypeOK
    <2> QED  BY <2>1, <2>2
  <1>10. CASE Read(c)
    <2>1. Tool(c) = "read" /\ (Ends(c, "ok") \/ Ends(c, "error"))
      BY <1>10 DEF Read
    <2>2. b # c  BY <1>2, <2>1
    <2> QED  BY <1>1, <1>2, <2>1, <2>2, EndsShape
  <1>11. CASE Kill(c)
    <2>1. Ends(c, "killed")  BY <1>11 DEF Kill
    <2> QED  BY <1>1, <1>2, <2>1, EndsShape
  <1> QED
    BY <1>3, <1>4, <1>5, <1>6, <1>7, <1>8, <1>9, <1>10, <1>11 DEF Step

(***************************************************************************)
(* Unless two calls that change the file overlap, an edit of any text is   *)
(* made as a whole or not at all, whatever is killed, and nothing changes  *)
(* the file but the end of an edit, a write or a deletion                  *)
(* (commands.py:54-90).                                                    *)
(***************************************************************************)
THEOREM EditsAreWhole == Spec => EditsAreAtomic
  <1>1. FileInv /\ [Next]_vars =>
            [~ clash' /\ File' # File
                => \E c \in Calls : at'[c] # at[c] /\ ChangedWhole(c)]_vars
    BY StepChangesWhole DEF Next
  <1> QED  BY <1>1, FileInvariant, PTL DEF Spec, EditsAreAtomic

(***************************************************************************)
(* Unless two calls that change the file overlap, a call that reports      *)
(* success has done what it reports (commands.py:77-79).                   *)
(***************************************************************************)
THEOREM SuccessIsTrue == Spec => OkMeansDone
  <1>1. FileInv /\ [Next]_vars =>
            [\A c \in Changers :
                ~ clash' /\ result[c] = "none" /\ result'[c] = "ok"
                    => CASE Tool(c) = "edit" ->
                                /\ File # None
                                /\ IsEditOf(File', File, OpOf[c].old, OpOf[c].new)
                         [] Tool(c) = "write" -> File' = OpOf[c].text
                         [] Tool(c) = "delete" -> File' = None]_vars
    <2> SUFFICES ASSUME FileInv, NEW b \in Calls, Step(b), ~ clash',
                        NEW c \in Changers,
                        result[c] = "none", result'[c] = "ok"
                 PROVE  CASE Tool(c) = "edit" ->
                                /\ File # None
                                /\ IsEditOf(File', File, OpOf[c].old, OpOf[c].new)
                          [] Tool(c) = "write" -> File' = OpOf[c].text
                          [] Tool(c) = "delete" -> File' = None
      BY DEF Next
    <2> QED  BY StepMeansDone
  <1> QED  BY <1>1, FileInvariant, PTL DEF Spec, OkMeansDone

=============================================================================
