------------------------- MODULE OccurrencesProofs -------------------------
(***************************************************************************)
(* Counting: how Occ and Total follow the operations on sequences, and a   *)
(* cardinality one element of its set; and induction, over a set in place  *)
(* of a predicate.                                                         *)
(***************************************************************************)
EXTENDS Occurrences, SequencesExt, FiniteSetTheorems, FunctionTheorems,
        SequenceTheorems, WellFoundedInduction, TLAPS

(* A set of numbers has a least one. *)
LEMMA LeastNumber ==
  ASSUME NEW T \in SUBSET Nat, T # {}
  PROVE  \E m \in T : \A k \in T : m <= k
<1> DEFINE R == OpToRel(<, Nat)
<1>1. IsWellFoundedOn(R, Nat)
  BY NatLessThanWellFounded, Zenon
<1>2. PICK m \in T : \A k \in T : <<k, m>> \notin R
  <2> HIDE DEF R
  <2> QED BY <1>1, WFMin
<1>3. \A k \in Nat : k < m => <<k, m>> \in R
  BY DEF OpToRel
<1>4. \A k \in T : ~(k < m) /\ k \in Nat /\ m \in Nat
  <2> HIDE DEF R
  <2> QED BY <1>2, <1>3
<1> QED BY <1>4

(* Induction, for the numbers up to a bound: what holds first and goes on  *)
(* holding.                                                                *)
LEMMA Induction ==
  ASSUME NEW n \in Nat, NEW T, 0 \in T, \A k \in 1 .. n : k - 1 \in T => k \in T
  PROVE  0 .. n \subseteq T
<1> DEFINE U == (0 .. n) \ T
<1>1. SUFFICES ASSUME U # {}  PROVE FALSE
  OBVIOUS
<1>2. PICK m \in U : \A k \in U : m <= k
  <2>1. U \in SUBSET Nat
    OBVIOUS
  <2> HIDE DEF U
  <2> QED BY <1>1, <2>1, LeastNumber
<1>3. m \in 1 .. n /\ m - 1 \in 0 .. n /\ m - 1 \notin U
  BY <1>2
<1> QED BY <1>2, <1>3

(* A set that loses or gets an element. *)
LEMMA CountOneMore ==
  ASSUME NEW D, IsFiniteSet(D), NEW A \in SUBSET D, NEW x \in D, x \notin A
  PROVE  /\ Cardinality(A) \in Nat
         /\ Cardinality(A \cup {x}) = Cardinality(A) + 1
BY FS_Subset, FS_CardinalityType, FS_AddElement

LEMMA CountOneLess ==
  ASSUME NEW D, IsFiniteSet(D), NEW A \in SUBSET D, NEW x \in A
  PROVE  /\ Cardinality(A) \in Nat
         /\ Cardinality(A \ {x}) = Cardinality(A) - 1
BY FS_Subset, FS_CardinalityType, FS_RemoveElement

(* A set counts none when it is empty. *)
LEMMA CountNone ==
  ASSUME NEW D, IsFiniteSet(D), NEW A \in SUBSET D
  PROVE  Cardinality(A) \in Nat /\ (Cardinality(A) = 0 <=> A = {})
BY FS_Subset, FS_CardinalityType, FS_EmptySet

LEMMA PositionsFinite ==
  ASSUME NEW S, NEW q \in Seq(S), NEW M
  PROVE  /\ IsFiniteSet(Positions(q, M))
         /\ Occ(q, M) \in Nat
         /\ Occ(q, M) = 0 <=> \A i \in 1 .. Len(q) : q[i] \notin M
<1>1. Len(q) \in Nat
  BY LenProperties
<1>2. IsFiniteSet(1 .. Len(q))
  BY <1>1, FS_Interval
<1>3. Positions(q, M) \in SUBSET (1 .. Len(q))
  BY DEF Positions
<1>4. IsFiniteSet(Positions(q, M))
  BY <1>2, <1>3, FS_Subset
<1>5. Occ(q, M) \in Nat /\ (Occ(q, M) = 0 <=> Positions(q, M) = {})
  BY <1>2, <1>3, CountNone DEF Occ
<1> QED BY <1>4, <1>5 DEF Positions

LEMMA OccEmpty ==
  ASSUME NEW M
  PROVE  Occ(<<>>, M) = 0
<1>1. Positions(<<>>, M) = {}
  BY DEF Positions
<1> QED BY <1>1, FS_EmptySet DEF Occ

LEMMA OccOne ==
  ASSUME NEW e, NEW M
  PROVE  Occ(<<e>>, M) = IF e \in M THEN 1 ELSE 0
<1>1. Len(<<e>>) = 1 /\ <<e>>[1] = e
  OBVIOUS
<1>2. CASE e \in M
  <2>1. Positions(<<e>>, M) = {1}
    BY <1>1, <1>2 DEF Positions
  <2> QED BY <1>2, <2>1, FS_Singleton DEF Occ
<1>3. CASE e \notin M
  <2>1. Positions(<<e>>, M) = {}
    BY <1>1, <1>3 DEF Positions
  <2> QED BY <1>3, <2>1, FS_EmptySet DEF Occ
<1> QED BY <1>2, <1>3

(* The second of two sequences keeps its order behind the first. *)
LEMMA OccConcat ==
  ASSUME NEW S, NEW q \in Seq(S), NEW r \in Seq(S), NEW M
  PROVE  Occ(q \o r, M) = Occ(q, M) + Occ(r, M)
<1> DEFINE shift == [i \in Positions(r, M) |-> Len(q) + i]
           moved == {j \in Len(q) + 1 .. Len(q) + Len(r) : r[j - Len(q)] \in M}
<1>1. Len(q) \in Nat /\ Len(r) \in Nat
  BY LenProperties
<1>2. /\ Len(q \o r) = Len(q) + Len(r)
      /\ \A i \in 1 .. Len(q) + Len(r) :
           (q \o r)[i] = IF i <= Len(q) THEN q[i] ELSE r[i - Len(q)]
  BY ConcatProperties
<1>3. Positions(q \o r, M) = Positions(q, M) \cup moved
  BY <1>1, <1>2 DEF Positions
<1>4. Positions(q, M) \cap moved = {}
  BY <1>1 DEF Positions
<1>5. IsFiniteSet(Positions(r, M)) /\ IsFiniteSet(Positions(q, M))
  BY PositionsFinite
<1>6. shift \in Bijection(Positions(r, M), moved)
  <2>1. shift \in [Positions(r, M) -> moved]
    BY <1>1 DEF Positions
  <2>2. \A i, j \in Positions(r, M) : shift[i] = shift[j] => i = j
    BY <1>1 DEF Positions
  <2>3. \A j \in moved : \E i \in Positions(r, M) : shift[i] = j
    <3>1. SUFFICES ASSUME NEW j \in moved
                   PROVE  j - Len(q) \in Positions(r, M) /\ shift[j - Len(q)] = j
      OBVIOUS
    <3> QED BY <1>1 DEF Positions
  <2> HIDE DEF shift, moved
  <2> QED BY <2>1, <2>2, <2>3, Fun_IsBij
<1> HIDE DEF shift, moved
<1>7. ExistsBijection(Positions(r, M), moved)
  BY <1>6, Fun_ExistsBij
<1>8. IsFiniteSet(moved) /\ Cardinality(moved) = Cardinality(Positions(r, M))
  BY <1>5, <1>7, FS_Bijection
<1>9. Cardinality(Positions(q, M) \cup moved)
        = Cardinality(Positions(q, M)) + Cardinality(moved) - Cardinality({})
  BY <1>4, <1>5, <1>8, FS_Union
<1>10. Cardinality({}) = 0 /\ Occ(q, M) \in Nat /\ Occ(r, M) \in Nat
  BY FS_EmptySet, PositionsFinite
<1> QED BY <1>3, <1>8, <1>9, <1>10 DEF Occ

LEMMA OccAppend ==
  ASSUME NEW S, NEW q \in Seq(S), NEW e \in S, NEW M
  PROVE  Occ(Append(q, e), M) = IF e \in M THEN Occ(q, M) + 1 ELSE Occ(q, M)
<1>1. Append(q, e) = q \o <<e>>
  BY AppendIsConcat
<1>2. <<e>> \in Seq(S)
  OBVIOUS
<1>3. Occ(q \o <<e>>, M) = Occ(q, M) + Occ(<<e>>, M)
  BY <1>2, OccConcat
<1>4. Occ(q, M) \in Nat
  BY PositionsFinite
<1>5. Occ(<<e>>, M) = IF e \in M THEN 1 ELSE 0
  BY OccOne
<1> QED BY <1>1, <1>3, <1>5, <1>4

LEMMA OccTail ==
  ASSUME NEW S, NEW q \in Seq(S), q # <<>>, NEW M
  PROVE  /\ Tail(q) \in Seq(S) /\ Occ(Tail(q), M) \in Nat
         /\ Occ(q, M) = IF Head(q) \in M THEN Occ(Tail(q), M) + 1 ELSE Occ(Tail(q), M)
<1> DEFINE h == Head(q)
           r == Tail(q)
<1>1. h \in S /\ r \in Seq(S) /\ Len(q) \in Nat \ {0}
  BY HeadTailProperties, EmptySeq
<1>2. q = <<h>> \o r
  <2>1. <<h>> \o r \in Seq(S)
    BY <1>1, ConcatProperties
  <2>2. Len(<<h>> \o r) = Len(q)
    BY <1>1
  <2>3. \A i \in 1 .. Len(q) : q[i] = (<<h>> \o r)[i]
    BY <1>1
  <2> QED BY <2>1, <2>2, <2>3, SeqEqual
<1> HIDE DEF h, r
<1>3. <<h>> \in Seq(S)
  BY <1>1
<1>4. Occ(r, M) \in Nat
  BY <1>1, PositionsFinite
<1>5. Occ(<<h>> \o r, M) = Occ(<<h>>, M) + Occ(r, M)
  BY <1>1, <1>3, OccConcat
<1>6. Occ(<<h>>, M) = IF h \in M THEN 1 ELSE 0
  BY OccOne
<1>7. Occ(<<h>> \o r, M) = IF h \in M THEN Occ(r, M) + 1 ELSE Occ(r, M)
  BY <1>4, <1>5, <1>6
<1>8. Occ(q, M) = IF h \in M THEN Occ(r, M) + 1 ELSE Occ(r, M)
  BY <1>2, <1>7
<1> QED BY <1>1, <1>4, <1>8 DEF h, r
-----------------------------------------------------------------------------
(* What is in a sequence. *)
LEMMA MembersOf ==
  ASSUME NEW S, NEW q \in Seq(S)
  PROVE  /\ ToSet(q) = {q[i] : i \in 1 .. Len(q)}
         /\ ToSet(q) \subseteq S
         /\ \A b : Occ(q, {b}) = 0 <=> b \notin ToSet(q)
<1>1. DOMAIN q = 1 .. Len(q) /\ \A i \in 1 .. Len(q) : q[i] \in S
  BY LenProperties, ElementOfSeq
<1>2. SUFFICES ASSUME NEW b
               PROVE  Occ(q, {b}) = 0 <=> b \notin ToSet(q)
  BY <1>1 DEF ToSet
<1> QED BY <1>1, PositionsFinite DEF ToSet

LEMMA MembersAppended ==
  ASSUME NEW S, NEW q \in Seq(S), NEW e \in S
  PROVE  /\ Append(q, e) \in Seq(S)
         /\ ToSet(Append(q, e)) = ToSet(q) \cup {e}
<1>1. /\ Append(q, e) \in Seq(S)
      /\ Len(Append(q, e)) = Len(q) + 1 /\ Len(q) \in Nat
      /\ \A i \in 1 .. Len(q) : Append(q, e)[i] = q[i]
      /\ Append(q, e)[Len(q) + 1] = e
  BY AppendProperties, LenProperties
<1> DEFINE r == Append(q, e)
<1>2. ToSet(r) = {r[i] : i \in 1 .. Len(r)} /\ ToSet(q) = {q[i] : i \in 1 .. Len(q)}
  BY <1>1, MembersOf
<1> HIDE DEF r
<1>3. 1 .. Len(q) + 1 = (1 .. Len(q)) \cup {Len(q) + 1}
  BY <1>1
<1>4. ToSet(r) = ToSet(q) \cup {e}
  BY <1>1, <1>2, <1>3 DEF r
<1> QED BY <1>1, <1>4 DEF r

LEMMA MembersPrepended ==
  ASSUME NEW S, NEW q \in Seq(S), NEW e \in S
  PROVE  /\ <<e>> \o q \in Seq(S)
         /\ ToSet(<<e>> \o q) = ToSet(q) \cup {e}
         /\ IsInjective(q) /\ e \notin ToSet(q) => IsInjective(<<e>> \o q)
<1> DEFINE r == <<e>> \o q
<1>1. r \in Seq(S) /\ Len(r) = Len(q) + 1 /\ Len(q) \in Nat
  OBVIOUS
<1>2. r[1] = e /\ \A i \in 1 .. Len(q) : r[i + 1] = q[i]
  OBVIOUS
<1> HIDE DEF r
<1>3. ToSet(r) = {r[i] : i \in 1 .. Len(r)} /\ ToSet(q) = {q[i] : i \in 1 .. Len(q)}
  BY <1>1, MembersOf
<1>4. \A j \in 1 .. Len(r) : j = 1 \/ \E i \in 1 .. Len(q) : j = i + 1
  <2>1. SUFFICES ASSUME NEW j \in 1 .. Len(r), j # 1
                 PROVE  j - 1 \in 1 .. Len(q) /\ j = (j - 1) + 1
    OBVIOUS
  <2> QED BY <1>1, <2>1
<1>5. 1 \in 1 .. Len(r) /\ \A i \in 1 .. Len(q) : i + 1 \in 1 .. Len(r)
  BY <1>1
<1>6. ToSet(r) = ToSet(q) \cup {e}
  BY <1>2, <1>3, <1>4, <1>5
<1>7. ASSUME IsInjective(q), e \notin ToSet(q)  PROVE IsInjective(r)
  <2>1. DOMAIN r = 1 .. Len(r) /\ DOMAIN q = 1 .. Len(q)
    BY <1>1, LenProperties
  <2>2. SUFFICES ASSUME NEW i \in 1 .. Len(r), NEW j \in 1 .. Len(r), r[i] = r[j]
                 PROVE  i = j
    BY <2>1 DEF IsInjective
  <2>3. \A k \in 1 .. Len(q) : r[k + 1] \in ToSet(q)
    BY <1>2, <1>3
  <2>4. \A k, l \in 1 .. Len(q) : q[k] = q[l] => k = l
    BY <1>7, <2>1 DEF IsInjective
  <2>5. CASE i = 1
    BY <1>2, <1>4, <1>7, <2>2, <2>3, <2>5
  <2>6. CASE j = 1
    BY <1>2, <1>4, <1>7, <2>2, <2>3, <2>6
  <2>7. CASE i # 1 /\ j # 1
    <3>1. PICK k \in 1 .. Len(q) : i = k + 1
      BY <1>4, <2>7
    <3>2. PICK l \in 1 .. Len(q) : j = l + 1
      BY <1>4, <2>7
    <3> QED BY <1>2, <2>2, <2>4, <3>1, <3>2
  <2> QED BY <2>5, <2>6, <2>7
<1> QED BY <1>1, <1>6, <1>7 DEF r

LEMMA MembersOfTail ==
  ASSUME NEW S, NEW q \in Seq(S), q # <<>>
  PROVE  /\ Head(q) \in S /\ Tail(q) \in Seq(S)
         /\ ToSet(q) = ToSet(Tail(q)) \cup {Head(q)}
         /\ IsInjective(q) => IsInjective(Tail(q)) /\ Head(q) \notin ToSet(Tail(q))
<1> DEFINE r == Tail(q)
<1>1. /\ Head(q) \in S /\ r \in Seq(S) /\ Head(q) = q[1]
      /\ Len(q) \in Nat /\ Len(q) = Len(r) + 1 /\ Len(r) \in Nat
      /\ \A i \in 1 .. Len(r) : r[i] = q[i + 1]
  BY HeadTailProperties, EmptySeq, LenProperties
<1> HIDE DEF r
<1>2. ToSet(r) = {r[i] : i \in 1 .. Len(r)} /\ ToSet(q) = {q[i] : i \in 1 .. Len(q)}
  BY <1>1, MembersOf
<1>3. \A j \in 1 .. Len(q) : j = 1 \/ \E i \in 1 .. Len(r) : j = i + 1
  <2>1. SUFFICES ASSUME NEW j \in 1 .. Len(q), j # 1
                 PROVE  j - 1 \in 1 .. Len(r) /\ j = (j - 1) + 1
    OBVIOUS
  <2> QED BY <1>1, <2>1
<1>4. 1 \in 1 .. Len(q) /\ \A i \in 1 .. Len(r) : i + 1 \in 1 .. Len(q)
  BY <1>1
<1>5. ToSet(q) = ToSet(r) \cup {q[1]}
  <2>1. ASSUME NEW x \in ToSet(q)  PROVE x \in ToSet(r) \cup {q[1]}
    <3>1. PICK j \in 1 .. Len(q) : x = q[j]
      BY <1>2
    <3> QED BY <1>1, <1>2, <1>3, <3>1
  <2>2. ASSUME NEW x \in ToSet(r)  PROVE x \in ToSet(q)
    <3>1. PICK i \in 1 .. Len(r) : x = r[i]
      BY <1>2
    <3> QED BY <1>1, <1>2, <1>4, <3>1
  <2>3. q[1] \in ToSet(q)
    BY <1>2, <1>4
  <2> QED BY <2>1, <2>2, <2>3
<1>6. ASSUME IsInjective(q)  PROVE IsInjective(r) /\ q[1] \notin ToSet(r)
  <2>1. DOMAIN r = 1 .. Len(r) /\ DOMAIN q = 1 .. Len(q)
    BY <1>1, LenProperties
  <2>2. \A i \in 1 .. Len(r) : i + 1 # 1
    BY <1>1
  <2>3. q[1] \notin ToSet(r)
    BY <1>1, <1>2, <1>4, <1>6, <2>1, <2>2 DEF IsInjective
  <2>4. ASSUME NEW i \in 1 .. Len(r), NEW j \in 1 .. Len(r), r[i] = r[j]
        PROVE  i = j
    <3>1. i + 1 = j + 1
      BY <1>1, <1>4, <1>6, <2>1, <2>4 DEF IsInjective
    <3> QED BY <3>1
  <2> QED BY <2>1, <2>3, <2>4 DEF IsInjective
<1> QED BY <1>1, <1>5, <1>6 DEF r
-----------------------------------------------------------------------------
PlacesBut(Q, x, M) == UNION {{y} \X Positions(Q[y], M) : y \in (DOMAIN Q) \ {x}}

(* Of all places, those in Q[x] and those in the others. *)
LEMMA PlacesSplit ==
  ASSUME NEW D, IsFiniteSet(D), NEW S, NEW Q \in Queues(D, S), NEW x \in D, NEW M
  PROVE  /\ IsFiniteSet(PlacesBut(Q, x, M))
         /\ IsFiniteSet(Places(Q, M))
         /\ Total(Q, M) = Cardinality(PlacesBut(Q, x, M)) + Occ(Q[x], M)
<1> USE DEF Queues
<1> DEFINE part(y) == {y} \X Positions(Q[y], M)
           rest == UNION {part(y) : y \in D \ {x}}
<1>1. \A y \in D : IsFiniteSet(part(y)) /\ Cardinality(part(y)) = Occ(Q[y], M)
  <2>1. SUFFICES ASSUME NEW y \in D
                 PROVE  IsFiniteSet(part(y)) /\ Cardinality(part(y)) = Occ(Q[y], M)
    OBVIOUS
  <2>2. IsFiniteSet(Positions(Q[y], M)) /\ Occ(Q[y], M) \in Nat
    BY PositionsFinite
  <2>3. IsFiniteSet({y}) /\ Cardinality({y}) = 1
    BY FS_Singleton
  <2>4. IsFiniteSet(part(y))
        /\ Cardinality(part(y)) = Cardinality({y}) * Cardinality(Positions(Q[y], M))
    BY <2>2, <2>3, FS_Product
  <2> QED BY <2>2, <2>3, <2>4 DEF Occ
<1>2. IsFiniteSet(rest)
  <2> DEFINE f == [y \in D \ {x} |-> part(y)]
  <2>1. IsFiniteSet(D \ {x})
    BY FS_Difference
  <2>2. f \in Surjection(D \ {x}, {part(y) : y \in D \ {x}})
    <3>1. f \in [D \ {x} -> {part(y) : y \in D \ {x}}]
      OBVIOUS
    <3>2. \A p \in {part(y) : y \in D \ {x}} : \E y \in D \ {x} : f[y] = p
      OBVIOUS
    <3> HIDE DEF f
    <3> QED BY <3>1, <3>2, Fun_IsSurj
  <2> HIDE DEF f
  <2>3. IsFiniteSet({part(y) : y \in D \ {x}})
    BY <2>1, <2>2, FS_Surjection
  <2>4. \A p \in {part(y) : y \in D \ {x}} : IsFiniteSet(p)
    BY <1>1
  <2> HIDE DEF part
  <2> QED BY <2>3, <2>4, FS_UNION
<1>3. Places(Q, M) = rest \cup part(x)
  BY DEF Places
<1>4. rest \cap part(x) = {}
  OBVIOUS
<1> HIDE DEF rest, part
<1>5. /\ IsFiniteSet(Places(Q, M))
      /\ Cardinality(Places(Q, M)) = Cardinality(rest) + Cardinality(part(x)) - Cardinality({})
  BY <1>1, <1>2, <1>3, <1>4, FS_Union
<1>6. Cardinality({}) = 0 /\ Cardinality(rest) \in Nat /\ Occ(Q[x], M) \in Nat
  BY <1>2, FS_EmptySet, FS_CardinalityType, PositionsFinite
<1>7. Total(Q, M) = Cardinality(rest) + Occ(Q[x], M)
  BY <1>1, <1>5, <1>6 DEF Total
<1>8. rest = PlacesBut(Q, x, M)
  BY DEF rest, part, PlacesBut
<1> QED BY <1>2, <1>5, <1>7, <1>8

LEMMA TotalAtLeast ==
  ASSUME NEW D, IsFiniteSet(D), NEW S, NEW Q \in Queues(D, S), NEW x \in D, NEW M
  PROVE  /\ Total(Q, M) \in Nat
         /\ Occ(Q[x], M) \in Nat
         /\ Occ(Q[x], M) <= Total(Q, M)
<1> DEFINE rest == PlacesBut(Q, x, M)
<1>1. IsFiniteSet(rest) /\ Total(Q, M) = Cardinality(rest) + Occ(Q[x], M)
  BY PlacesSplit
<1>2. Cardinality(rest) \in Nat
  BY <1>1, FS_CardinalityType
<1>3. Occ(Q[x], M) \in Nat
  BY PositionsFinite DEF Queues
<1> HIDE DEF rest
<1> QED BY <1>1, <1>2, <1>3

(* Replacing one of the sequences. *)
LEMMA TotalUpdate ==
  ASSUME NEW D, IsFiniteSet(D), NEW S, NEW Q, NEW R, NEW x, ChangesAt(D, S, Q, R, x), NEW M
  PROVE  /\ Total(Q, M) \in Nat
         /\ Total(R, M) = Total(Q, M) - Occ(Q[x], M) + Occ(R[x], M)
<1>1. Q \in Queues(D, S) /\ R \in Queues(D, S) /\ x \in D
  BY DEF ChangesAt
<1>2. PlacesBut(R, x, M) = PlacesBut(Q, x, M)
  BY DEF ChangesAt, PlacesBut, Queues
<1>3. IsFiniteSet(PlacesBut(Q, x, M)) /\ Total(Q, M) = Cardinality(PlacesBut(Q, x, M)) + Occ(Q[x], M)
  BY <1>1, PlacesSplit
<1>4. Total(R, M) = Cardinality(PlacesBut(R, x, M)) + Occ(R[x], M)
  BY <1>1, PlacesSplit
<1>5. Q[x] \in Seq(S) /\ R[x] \in Seq(S)
  BY <1>1 DEF Queues
<1>6. Cardinality(PlacesBut(Q, x, M)) \in Nat /\ Occ(Q[x], M) \in Nat /\ Occ(R[x], M) \in Nat
  BY <1>3, <1>5, FS_CardinalityType, PositionsFinite
<1> QED BY <1>2, <1>3, <1>4, <1>6

(* Putting an element last in it. *)
LEMMA TotalAppended ==
  ASSUME NEW D, IsFiniteSet(D), NEW S, NEW Q, NEW R, NEW x, NEW e, AppendsAt(D, S, Q, R, x, e),
         NEW M
  PROVE  /\ Total(Q, M) \in Nat
         /\ Total(R, M) = IF e \in M THEN Total(Q, M) + 1 ELSE Total(Q, M)
<1>1. Q[x] \in Seq(S) /\ e \in S
  BY DEF AppendsAt, ChangesAt, Queues
<1>2. Occ(R[x], M) = IF e \in M THEN Occ(Q[x], M) + 1 ELSE Occ(Q[x], M)
  BY <1>1, OccAppend DEF AppendsAt
<1>3. ChangesAt(D, S, Q, R, x)
  BY DEF AppendsAt
<1>4. /\ Total(Q, M) \in Nat
      /\ Total(R, M) = Total(Q, M) - Occ(Q[x], M) + Occ(R[x], M)
  BY <1>3, TotalUpdate
<1>5. Occ(Q[x], M) \in Nat
  BY <1>1, PositionsFinite
<1> QED BY <1>2, <1>4, <1>5

(* Taking the first off. *)
LEMMA TotalTailed ==
  ASSUME NEW D, IsFiniteSet(D), NEW S, NEW Q, NEW R, NEW x, TailsAt(D, S, Q, R, x), NEW M
  PROVE  /\ Total(Q, M) \in Nat
         /\ Total(R, M) = IF Head(Q[x]) \in M THEN Total(Q, M) - 1 ELSE Total(Q, M)
<1>1. Q[x] \in Seq(S) /\ Q[x] # <<>> /\ R[x] = Tail(Q[x])
  BY DEF TailsAt, ChangesAt, Queues
<1>2. /\ Occ(R[x], M) \in Nat
      /\ Occ(Q[x], M) = IF Head(Q[x]) \in M THEN Occ(R[x], M) + 1 ELSE Occ(R[x], M)
  BY <1>1, OccTail
<1>3. ChangesAt(D, S, Q, R, x)
  BY DEF TailsAt
<1>4. /\ Total(Q, M) \in Nat
      /\ Total(R, M) = Total(Q, M) - Occ(Q[x], M) + Occ(R[x], M)
  BY <1>3, TotalUpdate
<1> QED BY <1>2, <1>4

(* Nothing to be counted. *)
LEMMA TotalNone ==
  ASSUME NEW D, IsFiniteSet(D), NEW S, NEW Q \in Queues(D, S), NEW M,
         \A x \in D : Occ(Q[x], M) = 0
  PROVE  Total(Q, M) = 0
<1>1. \A x \in D : Positions(Q[x], M) = {}
  <2>1. SUFFICES ASSUME NEW x \in D
                 PROVE  Positions(Q[x], M) = {}
    OBVIOUS
  <2> QED BY PositionsFinite DEF Positions, Queues
<1>2. Places(Q, M) = {}
  BY <1>1 DEF Places, Queues
<1> QED BY <1>2, FS_EmptySet DEF Total

(* A sequence that has nothing twice is as long as the set of its elements. *)
LEMMA InjectiveCount ==
  ASSUME NEW S, IsFiniteSet(S), NEW q \in Seq(S), IsInjective(q)
  PROVE  /\ Len(q) = Cardinality(ToSet(q))
         /\ Len(q) <= Cardinality(S)
<1>1. Len(q) \in Nat /\ DOMAIN q = 1 .. Len(q) /\ q \in [1 .. Len(q) -> S]
  BY LenProperties
<1>2. /\ IsFiniteSet(1 .. Len(q))
      /\ Cardinality(1 .. Len(q)) = Len(q)
  BY <1>1, FS_Interval
<1>3. q \in Injection(1 .. Len(q), S)
  BY <1>1 DEF IsInjective, Injection
<1>4. Len(q) <= Cardinality(S)
  BY <1>2, <1>3, FS_Injection
<1>5. ToSet(q) = {q[i] : i \in 1 .. Len(q)}
  BY MembersOf
<1>6. q \in Bijection(1 .. Len(q), ToSet(q))
  BY <1>1, <1>5 DEF IsInjective, Bijection, Injection, Surjection
<1>7. ExistsBijection(1 .. Len(q), ToSet(q))
  BY <1>6 DEF ExistsBijection
<1> QED BY <1>2, <1>4, <1>7, FS_Bijection
=============================================================================
