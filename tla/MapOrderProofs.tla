---------------------------- MODULE MapOrderProofs ----------------------------
(***************************************************************************)
(* Proofs of the invariants of the map term (Map) for every key and value  *)
(* set: type correctness, that Ord::cmp on maps without numeric ties is   *)
(* the order of spec 8.3, that Hash agrees with it, and that from_list on *)
(* lists of tuples is the function of spec 8.6.                           *)
(*                                                                         *)
(* No induction is needed: least elements come from the well-foundedness  *)
(* of < on Nat (WFMin), and a sorted enumeration of a finite set is built *)
(* from the rank of each element, its number of smaller elements.         *)
(***************************************************************************)
EXTENDS Map, MapProofs, FiniteSetTheorems, WellFoundedInduction, TLAPS

\* A non-empty set of naturals has a least element.
LEMMA LeastExists ==
  ASSUME NEW T \in SUBSET Nat, T # {}
  PROVE  \E x \in T : \A y \in T : x <= y
<1>1. PICK x \in T : \A y \in T : ~(<<y, x>> \in OpToRel(<, Nat))
  BY NatLessThanWellFounded, WFMin
<1>2. \A y \in T : y < x => <<y, x>> \in OpToRel(<, Nat)
  BY Zenon DEF OpToRel
<1>3. \A y \in T : ~(y < x)
  BY <1>1, <1>2, Zenon
<1>4. QED
  BY <1>3

\* A non-empty set of naturals below a bound has a greatest element.
LEMMA GreatestExists ==
  ASSUME NEW n \in Nat, NEW T \in SUBSET (0 .. n), T # {}
  PROVE  /\ Max(T) \in T
         /\ \A y \in T : y <= Max(T)
<1>1. \E x \in T : \A y \in T : y <= x
  <2>1. {n - i : i \in T} \in SUBSET Nat
    OBVIOUS
  <2>2. PICK t \in T : TRUE
    OBVIOUS
  <2>3. n - t \in {n - i : i \in T}
    OBVIOUS
  <2>4. PICK u \in {n - i : i \in T} : \A v \in {n - i : i \in T} : u <= v
    BY <2>1, <2>3, LeastExists
  <2>5. n - u \in T /\ \A y \in T : y <= n - u
    BY <2>4
  <2>6. QED
    BY <2>5
<1>2. QED
  BY <1>1 DEF Max

-----------------------------------------------------------------------------
(***************************************************************************)
(* Type correctness.                                                       *)
(***************************************************************************)
LEMMA MapOfIntro ==
  ASSUME NEW D, IsFiniteSet(D), D \subseteq Keys, NEW m \in [D -> Vals]
  PROVE  m \in MapOf(Keys)
BY DEF MapOf

LEMMA MapOfElim ==
  ASSUME NEW m \in MapOf(Keys)
  PROVE  /\ IsFiniteSet(DOMAIN m)
         /\ DOMAIN m \subseteq Keys
         /\ m \in [DOMAIN m -> Vals]
BY DEF MapOf

\* HashMap::insert and remove keep a map finite and within its key and value sets.
LEMMA InsertDeleteType ==
  ASSUME NEW m \in MapOf(Keys), NEW k \in Keys, NEW v \in Vals
  PROVE  Insert(m, k, v) \in MapOf(Keys) /\ Delete(m, k) \in MapOf(Keys)
<1>1. /\ IsFiniteSet(DOMAIN m)
      /\ DOMAIN m \subseteq Keys
      /\ m \in [DOMAIN m -> Vals]
  BY MapOfElim
<1>2. IsFiniteSet(DOMAIN m \cup {k}) /\ IsFiniteSet(DOMAIN m \ {k})
  BY <1>1, FS_AddElement, FS_RemoveElement
<1>3. Insert(m, k, v) \in [DOMAIN m \cup {k} -> Vals]
  BY <1>1 DEF Insert
<1>4. Delete(m, k) \in [DOMAIN m \ {k} -> Vals]
  BY <1>1 DEF Delete
<1>5. QED
  BY <1>1, <1>2, <1>3, <1>4, MapOfIntro

\* A pair element of a list carries a key of Keys and a value of Vals.
LEMMA PairElem ==
  ASSUME NEW e \in Elem, e.tag = "pair"
  PROVE  e.key \in Keys /\ e.val \in Vals
BY DEF Elem, Pair, OtherTuple, NonTuple

\* The map of the pairs of a list (from_list, from_slice) is a map term.
LEMMA PairsMapType ==
  ASSUME NEW n \in Nat, NEW es \in [1 .. n -> Elem]
  PROVE  PairsMap(es) \in MapOf(Keys)
<1> DEFINE P == {i \in 1 .. Len(es) : es[i].tag = "pair"}
           D == {es[i].key : i \in P}
           last(k) == Max({i \in P : es[i].key = k})
<1>1. Len(es) = n /\ P \subseteq 1 .. n
  OBVIOUS
<1>2. D \subseteq Keys
  BY <1>1, PairElem
<1>3. IsFiniteSet(D)
  <2>1. IsFiniteSet(P)
    BY <1>1, FS_Interval, FS_Subset
  <2>2. [i \in P |-> es[i].key] \in Surjection(P, D)
    BY DEF Surjection
  <2>3. QED
    BY <2>1, <2>2, FS_Surjection
<1>4. \A k \in D : last(k) \in P /\ es[last(k)].key = k
  <2> SUFFICES ASSUME NEW k \in D PROVE last(k) \in P /\ es[last(k)].key = k
    OBVIOUS
  <2>1. {i \in P : es[i].key = k} \in SUBSET (0 .. n) /\ {i \in P : es[i].key = k} # {}
    BY <1>1
  <2>2. QED
    BY <2>1, GreatestExists
<1>5. PairsMap(es) = [k \in D |-> es[last(k)].val]
  BY DEF PairsMap
<1>6. PairsMap(es) \in [D -> Vals]
  BY <1>1, <1>4, <1>5, PairElem
<1>7. QED
  BY <1>2, <1>3, <1>6, MapOfIntro


\* What a map operation returns: None, or Some of a map term.
MapResult == {None} \cup {Some(y) : y \in MapOf(Keys)}

LEMMA RemoveTakeType ==
  ASSUME NEW m \in MapOf(Keys), NEW k \in Keys
  PROVE  /\ MapRemove(m, k) \in MapResult
         /\ LET res == Take(m, k)
            IN  (IF res.some THEN Some(res.val.map) ELSE None) \in MapResult
<1>1. Delete(m, k) \in MapOf(Keys)
  <2>1. /\ IsFiniteSet(DOMAIN m)
        /\ m \in [DOMAIN m -> Vals]
    BY MapOfElim
  <2>2. IsFiniteSet(DOMAIN m \ {k}) /\ DOMAIN m \ {k} \subseteq Keys
    BY <2>1, FS_RemoveElement, MapOfElim
  <2>3. QED
    BY <2>1, <2>2, MapOfIntro DEF Delete
<1>2. QED
  BY <1>1 DEF MapResult, MapRemove, Take, Some, None

LEMMA PutUpdateType ==
  ASSUME NEW m \in MapOf(Keys), NEW k \in Keys, NEW v \in Vals
  PROVE  Put(m, k, v) \in MapResult /\ Update(m, k, v) \in MapResult
<1>1. Insert(m, k, v) \in MapOf(Keys)
  BY InsertDeleteType
<1>2. QED
  BY <1>1 DEF MapResult, Put, Update, Some, None

LEMMA ListInputParts ==
  ASSUME NEW l \in ListInput
  PROVE  \E n \in 0 .. MaxListLen :
           /\ l = [elems |-> l.elems, proper |-> l.proper]
           /\ l.elems \in [1 .. n -> Elem]
           /\ l.proper \in BOOLEAN
BY MapAssumption DEF ListInput

LEMMA FromListType ==
  ASSUME NEW l \in ListInput
  PROVE  FromList(l) \in MapResult
<1>1. PICK n \in 0 .. MaxListLen : l.elems \in [1 .. n -> Elem]
  BY ListInputParts
<1>2. PairsMap(l.elems) \in MapOf(Keys)
  BY <1>1, MapAssumption, PairsMapType
<1>3. FromList(l) \in {None, Some(PairsMap(l.elems))}
  BY DEF FromList
<1>4. QED
  BY <1>2, <1>3 DEF MapResult

LEMMA ApplyType ==
  ASSUME NEW res \in MapResult, NEW r \in Reg, TypeOK, Apply(r, res)
  PROVE  /\ map' \in [Reg -> MapOf(Keys)]
         /\ ret' \in [Reg -> {"none", "Some", "None"}]
BY DEF MapResult, Apply, TypeOK, Some, None

LEMMA InitType == InitMaps => TypeOK
<1> SUFFICES ASSUME InitMaps PROVE TypeOK
  OBVIOUS
<1>1. EmptyMap \in MapOf(Keys)
  <2>1. EmptyMap \in [{} -> Vals]
    BY DEF EmptyMap
  <2>2. QED
    BY <2>1, FS_EmptySet, MapOfIntro
<1>2. Nil \in ListInput
  <2>1. <<>> \in [1 .. 0 -> Elem] /\ 0 \in 0 .. MaxListLen
    BY MapAssumption
  <2>2. <<>> \in UNION {[1 .. n -> Elem] : n \in 0 .. MaxListLen}
    BY <2>1
  <2>3. \E es \in UNION {[1 .. n -> Elem] : n \in 0 .. MaxListLen}, pr \in BOOLEAN :
          Nil = [elems |-> es, proper |-> pr]
    BY <2>2 DEF Nil
  <2>4. QED
    BY <2>3 DEF ListInput
<1>3. QED
  BY <1>1, <1>2 DEF InitMaps, TypeOK

(***************************************************************************)
(* Every map a register holds through put, update, remove, take,           *)
(* from_list and from_slice is a finite map from Keys to Vals.             *)
(***************************************************************************)
THEOREM MapTypeCorrect == SpecMaps => []TypeOK
<1>1. TypeOK /\ [NextMaps]_vars => TypeOK'
  <2> SUFFICES ASSUME TypeOK, [NextMaps]_vars PROVE TypeOK'
    OBVIOUS
  <2>0. list' = list => list' \in ListInput
    BY DEF TypeOK
  <2>1. ASSUME NEW r \in Reg, NEW k \in Keys, NEW v \in Vals,
               PutOp(r, k, v) \/ UpdateOp(r, k, v)
        PROVE  TypeOK'
    BY <2>0, <2>1, PutUpdateType, ApplyType DEF PutOp, UpdateOp, TypeOK
  <2>2. ASSUME NEW r \in Reg, NEW k \in Keys, RemoveOp(r, k) \/ TakeOp(r, k)
        PROVE  TypeOK'
    BY <2>0, <2>2, RemoveTakeType, ApplyType DEF RemoveOp, TakeOp, TypeOK
  <2>3. ASSUME NEW r \in Reg, NEW l \in ListInput, FromListOp(r, l)
        PROVE  TypeOK'
    BY <2>0, <2>3, FromListType, ApplyType DEF FromListOp, TypeOK
  <2>4. ASSUME NEW r \in Reg, NEW l \in ListInput, FromSliceOp(r, l)
        PROVE  TypeOK'
    <3>1. PICK n \in 0 .. MaxListLen : l.elems \in [1 .. n -> Elem]
      BY ListInputParts
    <3>2. MapFromSlice(l.elems) \in MapOf(Keys)
      BY <3>1, MapAssumption, PairsMapType DEF MapFromSlice
    <3>3. QED
      BY <2>0, <2>4, <3>2 DEF FromSliceOp, TypeOK
  <2>5. CASE UNCHANGED vars
    BY <2>5 DEF vars, TypeOK
  <2>6. QED
    BY <2>1, <2>2, <2>3, <2>4, <2>5 DEF NextMaps
<1>2. QED
  BY <1>1, InitType, PTL DEF SpecMaps

-----------------------------------------------------------------------------
(***************************************************************************)
(* Sorted enumerations of a finite set of terms.                           *)
(***************************************************************************)

\* ks lists its terms in strictly ascending key order.
LtSorted(ks) == \A i, j \in 1 .. Len(ks) : i < j => KeyCmp(ks[i], ks[j]) = "LT"

\* An enumeration of a finite set is a bijection from 1 .. Cardinality(S).
LEMMA SeqsParts ==
  ASSUME NEW S, IsFiniteSet(S), NEW ks \in SetToSeqs(S)
  PROVE  /\ Cardinality(S) \in Nat
         /\ ks \in [1 .. Cardinality(S) -> S]
         /\ Len(ks) = Cardinality(S)
         /\ \A i, j \in 1 .. Cardinality(S) : ks[i] = ks[j] => i = j
         /\ \A x \in S : \E i \in 1 .. Cardinality(S) : ks[i] = x
<1>1. Cardinality(S) \in Nat
  BY FS_CardinalityType
<1>2. ks \in [1 .. Cardinality(S) -> S] /\ Len(ks) = Cardinality(S)
  BY <1>1 DEF SetToSeqs
<1>3. \A i, j \in 1 .. Cardinality(S) : ks[i] = ks[j] => i = j
  BY <1>2 DEF SetToSeqs
<1>4. ks \in Injection(1 .. Cardinality(S), S)
  BY <1>2, <1>3 DEF Injection, IsInjective
<1>5. Cardinality(1 .. Cardinality(S)) = Cardinality(S)
  BY <1>1, FS_Interval
<1>6. ks \in Surjection(1 .. Cardinality(S), S)
  BY <1>4, <1>5, FS_Injection
<1>7. QED
  BY <1>1, <1>2, <1>3, <1>6 DEF Surjection

\* A finite set of terms has at most one enumeration in ascending key order.
LEMMA SortedUnique ==
  ASSUME NEW S \in SUBSET Term, IsFiniteSet(S),
         NEW k1 \in SetToSeqs(S), NEW k2 \in SetToSeqs(S),
         LtSorted(k1), LtSorted(k2)
  PROVE  k1 = k2
<1> DEFINE n == Cardinality(S)
           Diff == {m \in 1 .. n : k1[m] # k2[m]}
<1>0. /\ n \in Nat
      /\ k1 \in [1 .. n -> S] /\ Len(k1) = n
      /\ \A i, j \in 1 .. n : k1[i] = k1[j] => i = j
      /\ \A x \in S : \E i \in 1 .. n : k1[i] = x
  BY SeqsParts, Zenon DEF n
<1>1. /\ k2 \in [1 .. n -> S] /\ Len(k2) = n
      /\ \A i, j \in 1 .. n : k2[i] = k2[j] => i = j
      /\ \A x \in S : \E i \in 1 .. n : k2[i] = x
  BY SeqsParts, Zenon DEF n
<1> SUFFICES ASSUME k1 # k2 PROVE FALSE
  OBVIOUS
<1>2. Diff # {} /\ Diff \subseteq Nat
  BY <1>0, <1>1
<1>3. PICK i \in Diff : \A j \in Diff : i <= j
  BY <1>2, LeastExists
<1>4. \A j \in 1 .. i - 1 : k1[j] = k2[j]
  BY <1>0, <1>3
<1>5. PICK j2 \in 1 .. n : k2[j2] = k1[i]
  BY <1>0, <1>1
<1>6. PICK j1 \in 1 .. n : k1[j1] = k2[i]
  BY <1>0, <1>1
<1>7. i < j2 /\ i < j1
  BY <1>0, <1>1, <1>3, <1>4, <1>5, <1>6
<1>8. KeyCmp(k2[i], k1[i]) = "LT" /\ KeyCmp(k1[i], k2[i]) = "LT"
  BY <1>0, <1>1, <1>5, <1>6, <1>7 DEF LtSorted
<1>9. k1[i] \in Term /\ k2[i] \in Term
  BY <1>0, <1>1
<1>10. QED
  BY <1>8, <1>9, KeyOrderIsStrictTotal


\* The terms of S below x in key order, and their number: x's place in S.
Below(S, x) == {y \in S : KeyCmp(y, x) = "LT"}
Rank(S, x) == Cardinality(Below(S, x))

LEMMA RankRange ==
  ASSUME NEW S \in SUBSET Term, IsFiniteSet(S), NEW x \in S
  PROVE  /\ IsFiniteSet(Below(S, x))
         /\ Rank(S, x) \in 0 .. Cardinality(S) - 1
<1>1. Below(S, x) \subseteq S \ {x}
  BY KeyOrderIsStrictTotal DEF Below
<1>2. IsFiniteSet(S \ {x}) /\ Cardinality(S \ {x}) = Cardinality(S) - 1
  BY FS_RemoveElement
<1>3. IsFiniteSet(Below(S, x)) /\ Cardinality(Below(S, x)) <= Cardinality(S) - 1
  BY <1>1, <1>2, FS_Subset
<1>4. Cardinality(Below(S, x)) \in Nat
  BY <1>3, FS_CardinalityType
<1>5. QED
  BY <1>3, <1>4 DEF Rank

\* A term below another in key order has a smaller place.
LEMMA RankMonotone ==
  ASSUME NEW S \in SUBSET Term, IsFiniteSet(S), NEW x \in S, NEW y \in S,
         KeyCmp(x, y) = "LT"
  PROVE  Rank(S, x) < Rank(S, y)
<1>1. Below(S, x) \subseteq Below(S, y)
  BY KeyOrderIsStrictTotal DEF Below
<1>2. x \in Below(S, y) /\ x \notin Below(S, x)
  BY KeyOrderIsStrictTotal DEF Below
<1>3. IsFiniteSet(Below(S, y)) /\ IsFiniteSet(Below(S, x))
  BY RankRange
<1>4. Cardinality(Below(S, x)) <= Cardinality(Below(S, y))
  /\ (Cardinality(Below(S, y)) = Cardinality(Below(S, x)) => Below(S, y) = Below(S, x))
  BY <1>1, <1>3, FS_Subset
<1>5. Cardinality(Below(S, x)) \in Nat /\ Cardinality(Below(S, y)) \in Nat
  BY <1>3, FS_CardinalityType
<1>6. QED
  BY <1>2, <1>4, <1>5 DEF Rank

\* Distinct terms are ordered one way or the other.
LEMMA KeyTotal ==
  ASSUME NEW x \in Term, NEW y \in Term, x # y
  PROVE  KeyCmp(x, y) = "LT" \/ KeyCmp(y, x) = "LT"
BY KeyOrderIsStrictTotal DEF Ordering

\* Every finite set of terms has an enumeration in ascending key order.
LEMMA SortedExists ==
  ASSUME NEW S \in SUBSET Term, IsFiniteSet(S)
  PROVE  \E ks \in SetToSeqs(S) : LtSorted(ks)
<1> DEFINE n == Cardinality(S)
           ks == [i \in 1 .. n |-> CHOOSE x \in S : Rank(S, x) = i - 1]
<1>1. n \in Nat
  BY FS_CardinalityType
<1>2. \A x, y \in S : x # y => Rank(S, x) # Rank(S, y)
  <2> SUFFICES ASSUME NEW x \in S, NEW y \in S, x # y PROVE Rank(S, x) # Rank(S, y)
    OBVIOUS
  <2>1. KeyCmp(x, y) = "LT" \/ KeyCmp(y, x) = "LT"
    BY KeyTotal
  <2>2. Rank(S, x) \in Nat /\ Rank(S, y) \in Nat
    BY RankRange
  <2>3. QED
    BY <2>1, <2>2, RankMonotone
<1>3. [x \in S |-> Rank(S, x)] \in Injection(S, 0 .. n - 1)
  BY <1>2, RankRange DEF Injection, IsInjective
<1>4. IsFiniteSet(0 .. n - 1) /\ Cardinality(0 .. n - 1) = n
  BY <1>1, FS_Interval
<1>5. [x \in S |-> Rank(S, x)] \in Surjection(S, 0 .. n - 1)
  BY <1>3, <1>4, FS_Injection
<1>6. \A i \in 1 .. n : ks[i] \in S /\ Rank(S, ks[i]) = i - 1
  <2> SUFFICES ASSUME NEW i \in 1 .. n PROVE ks[i] \in S /\ Rank(S, ks[i]) = i - 1
    OBVIOUS
  <2>0. i - 1 \in 0 .. n - 1
    BY <1>1
  <2>1. \E x \in S : Rank(S, x) = i - 1
    BY <2>0, <1>5 DEF Surjection
  <2>2. QED
    BY <2>1
<1>7. ks \in SetToSeqs(S)
  BY <1>1, <1>6 DEF SetToSeqs
<1>8. LtSorted(ks)
  <2> SUFFICES ASSUME NEW i \in 1 .. n, NEW j \in 1 .. n, i < j
               PROVE  KeyCmp(ks[i], ks[j]) = "LT"
    BY <1>1 DEF LtSorted
  <2>1. ks[i] # ks[j]
    BY <1>1, <1>6
  <2>2. ~(KeyCmp(ks[j], ks[i]) = "LT")
    BY <1>1, <1>6, RankMonotone
  <2>3. QED
    BY <1>6, <2>1, <2>2, KeyTotal
<1>9. QED
  BY <1>7, <1>8


\* Min of a non-empty set of naturals is its least element.
LEMMA MinFacts ==
  ASSUME NEW T \in SUBSET Nat, T # {}
  PROVE  Min(T) \in T /\ \A y \in T : Min(T) <= y
BY LeastExists DEF Min

\* The sorted enumeration the spec prescribes exists, so SpecSortedKeys is one.
LEMMA SpecSortedKeysFacts ==
  ASSUME NEW m, DOMAIN m \subseteq Term, IsFiniteSet(DOMAIN m)
  PROVE  SpecSortedKeys(m) \in SetToSeqs(DOMAIN m) /\ LtSorted(SpecSortedKeys(m))
<1>1. \E ks \in SetToSeqs(DOMAIN m) : LtSorted(ks)
  BY SortedExists
<1>2. QED
  BY <1>1 DEF SpecSortedKeys, LtSorted

\* Without integer-float ties, Term::cmp is the spec's key order.
LEMMA NoTieSameOrder ==
  ASSUME NEW W \in SUBSET Term, NoNumericTie(W), NEW t \in W, NEW u \in W
  PROVE  TermCmp(t, u) = KeyCmp(t, u)
BY DEF NoNumericTie, KeyCmp

(***************************************************************************)
(* sort_unstable_by(Term::cmp) in sorted_keys has one result on keys with  *)
(* no integer-float tie, whatever the HashMap's iteration order: the      *)
(* ascending enumeration the spec prescribes.                              *)
(***************************************************************************)
LEMMA SortedKeysNoTie ==
  ASSUME NEW m, DOMAIN m \subseteq Term, IsFiniteSet(DOMAIN m),
         NoNumericTie(DOMAIN m)
  PROVE  SortedKeys(m) = {SpecSortedKeys(m)}
<1> DEFINE S == DOMAIN m
           sk == SpecSortedKeys(m)
<1>1. sk \in SetToSeqs(S) /\ LtSorted(sk)
  BY SpecSortedKeysFacts
<1>2. sk \in SortedKeys(m)
  <2>0. sk \in [1 .. Cardinality(S) -> S] /\ Len(sk) = Cardinality(S)
    BY <1>1, SeqsParts, Zenon DEF S
  <2>1. \A i, j \in 1 .. Len(sk) : sk[i] \in S /\ sk[j] \in S
    BY <2>0
  <2>2. \A i, j \in 1 .. Len(sk) : i < j => TermCmp(sk[i], sk[j]) # "GT"
    BY <1>1, <2>1, NoTieSameOrder DEF LtSorted
  <2>3. QED
    BY <1>1, <2>2 DEF SortedKeys
<1>3. ASSUME NEW ks \in SortedKeys(m) PROVE ks = sk
  <2>1. ks \in SetToSeqs(S)
    BY DEF SortedKeys
  <2>2. /\ Cardinality(S) \in Nat /\ ks \in [1 .. Cardinality(S) -> S]
        /\ Len(ks) = Cardinality(S)
        /\ \A i, j \in 1 .. Cardinality(S) : ks[i] = ks[j] => i = j
    BY <2>1, SeqsParts, Zenon DEF S
  <2>3. LtSorted(ks)
    <3> SUFFICES ASSUME NEW i \in 1 .. Len(ks), NEW j \in 1 .. Len(ks), i < j
                 PROVE  KeyCmp(ks[i], ks[j]) = "LT"
      BY DEF LtSorted
    <3>1. ks[i] \in S /\ ks[j] \in S /\ ks[i] # ks[j]
      BY <2>2
    <3>2. TermCmp(ks[i], ks[j]) # "GT"
      BY DEF SortedKeys
    <3>3. TermCmp(ks[i], ks[j]) = KeyCmp(ks[i], ks[j])
      BY <3>1, NoTieSameOrder
    <3>4. QED
      BY <3>1, <3>2, <3>3, KeyOrderIsStrictTotal DEF Ordering
  <2>4. QED
    BY <1>1, <2>1, <2>3, SortedUnique
<1>4. QED
  BY <1>2, <1>3


\* The shorter of two lengths bounds both.
LEMMA MinPair ==
  ASSUME NEW p \in Nat, NEW q \in Nat
  PROVE  Min({p, q}) \in {p, q} /\ Min({p, q}) <= p /\ Min({p, q}) <= q
BY MinFacts

(***************************************************************************)
(* Vec<Term>::cmp by Term::cmp and by the spec's key order agree on terms  *)
(* with no integer-float tie.                                               *)
(***************************************************************************)
LEMMA LexNoTie ==
  ASSUME NEW W \in SUBSET Term, NoNumericTie(W),
         NEW s \in Seq(W), NEW t \in Seq(W)
  PROVE  LexCmp(s, t, TermCmp) = LexCmp(s, t, KeyCmp)
<1> DEFINE L == Min({Len(s), Len(t)})
           DT == {i \in 1 .. L : TermCmp(s[i], t[i]) # "EQ"}
           DK == {i \in 1 .. L : KeyCmp(s[i], t[i]) # "EQ"}
<1>1. L \in Nat /\ L <= Len(s) /\ L <= Len(t)
  BY MinPair
<1>2. \A i \in 1 .. L : TermCmp(s[i], t[i]) = KeyCmp(s[i], t[i])
  <2> SUFFICES ASSUME NEW i \in 1 .. L PROVE TermCmp(s[i], t[i]) = KeyCmp(s[i], t[i])
    OBVIOUS
  <2>1. s[i] \in W /\ t[i] \in W
    BY <1>1
  <2>2. QED
    BY <2>1, NoTieSameOrder
<1>3. DT = DK
  BY <1>2
<1>4. CASE DK = {}
  BY <1>3, <1>4 DEF LexCmp
<1>5. CASE DK # {}
  <2>1. DK \subseteq Nat
    BY <1>1
  <2>2. Min(DK) \in DK
    BY <1>5, <2>1, MinFacts
  <2>3. QED
    BY <1>2, <1>3, <1>5, <2>2 DEF LexCmp
<1>6. QED
  BY <1>4, <1>5

\* Vec<Term>::cmp by the spec's key order is Equal only on equal vectors.
LEMMA LexEqEqual ==
  ASSUME NEW s \in Seq(Term), NEW t \in Seq(Term), LexCmp(s, t, KeyCmp) = "EQ"
  PROVE  s = t
<1> DEFINE L == Min({Len(s), Len(t)})
           DK == {i \in 1 .. L : KeyCmp(s[i], t[i]) # "EQ"}
<1>1. L \in Nat /\ L <= Len(s) /\ L <= Len(t) /\ L \in {Len(s), Len(t)}
  BY MinPair
<1>2. DK = {}
  <2> SUFFICES ASSUME DK # {} PROVE FALSE
    OBVIOUS
  <2>0. DK \subseteq Nat
    BY <1>1
  <2>1. Min(DK) \in DK
    BY <2>0, MinFacts
  <2>2. KeyCmp(s[Min(DK)], t[Min(DK)]) = "EQ"
    BY DEF LexCmp
  <2>3. QED
    BY <2>1, <2>2
<1>3. NatCmp(Len(s), Len(t)) = "EQ"
  BY <1>2 DEF LexCmp
<1>4. Len(s) = Len(t)
  BY <1>3, NatCmpFacts
<1>5. \A i \in 1 .. Len(s) : s[i] = t[i]
  <2> SUFFICES ASSUME NEW i \in 1 .. Len(s) PROVE s[i] = t[i]
    OBVIOUS
  <2>1. i \in 1 .. L /\ s[i] \in Term /\ t[i] \in Term
    BY <1>1, <1>4
  <2>2. KeyCmp(s[i], t[i]) = "EQ"
    BY <1>2, <2>1
  <2>3. QED
    BY <2>1, <2>2, KeyOrderIsStrictTotal
<1>6. QED
  BY <1>4, <1>5


\* Facts about a map term's domain and sorted keys, from its type.
LEMMA MapKeysFacts ==
  ASSUME NEW m \in MapOf(Keys), NEW W \in SUBSET Term, DOMAIN m \subseteq W,
         NoNumericTie(W)
  PROVE  LET sk == SpecSortedKeys(m)
         IN  /\ SortedKeys(m) = {sk}
             /\ sk \in Seq(W) /\ sk \in Seq(Term)
             /\ sk \in [1 .. Len(sk) -> DOMAIN m]
             /\ \A x \in DOMAIN m : \E i \in 1 .. Len(sk) : sk[i] = x
<1> DEFINE S == DOMAIN m
           sk == SpecSortedKeys(m)
<1>1. IsFiniteSet(S) /\ S \subseteq Term
  BY MapOfElim, MapAssumption
<1>2. NoNumericTie(S)
  BY DEF NoNumericTie
<1>3. SortedKeys(m) = {sk}
  BY <1>1, <1>2, SortedKeysNoTie
<1>4. sk \in SetToSeqs(S)
  BY <1>1, SpecSortedKeysFacts
<1>5. /\ Cardinality(S) \in Nat /\ sk \in [1 .. Cardinality(S) -> S]
      /\ Len(sk) = Cardinality(S)
      /\ \A x \in S : \E i \in 1 .. Cardinality(S) : sk[i] = x
  BY <1>1, <1>4, SeqsParts, Zenon DEF S
<1>6. sk \in Seq(W) /\ sk \in Seq(Term)
  BY <1>1, <1>5
<1>7. QED
  BY <1>3, <1>5, <1>6

(***************************************************************************)
(* Ord::cmp on two maps holding no integer and float of equal value is the *)
(* order of spec 8.3, whatever the HashMaps' iteration orders: the sizes,  *)
(* then the ascending key vectors, then the values in key order, and the   *)
(* unwrap() of other.get(key) never fails.                                 *)
(***************************************************************************)
LEMMA CmpNoTie ==
  ASSUME NEW a \in MapOf(Keys), NEW b \in MapOf(Keys),
         NoNumericTie(Terms(a) \cup Terms(b))
  PROVE  MapCmp(a, b) = {SpecCmp(a, b)}
<1> DEFINE W == Terms(a) \cup Terms(b)
           ka == SpecSortedKeys(a)
           kb == SpecSortedKeys(b)
<1>1. W \subseteq Term /\ DOMAIN a \subseteq W /\ DOMAIN b \subseteq W
  <2>1. a \in [DOMAIN a -> Vals] /\ b \in [DOMAIN b -> Vals]
        /\ DOMAIN a \subseteq Keys /\ DOMAIN b \subseteq Keys
    BY MapOfElim
  <2>2. QED
    BY <2>1, MapAssumption DEF Terms
<1>2. /\ SortedKeys(a) = {ka} /\ ka \in Seq(W) /\ ka \in Seq(Term)
      /\ ka \in [1 .. Len(ka) -> DOMAIN a]
      /\ \A x \in DOMAIN a : \E i \in 1 .. Len(ka) : ka[i] = x
  BY <1>1, MapKeysFacts
<1>3. /\ SortedKeys(b) = {kb} /\ kb \in Seq(W) /\ kb \in Seq(Term)
      /\ kb \in [1 .. Len(kb) -> DOMAIN b]
      /\ \A x \in DOMAIN b : \E i \in 1 .. Len(kb) : kb[i] = x
  BY <1>1, MapKeysFacts
<1>4. MapCmp(a, b) = {CmpWith(a, b, ka, kb)}
  BY <1>2, <1>3 DEF MapCmp
<1>5. LexCmp(ka, kb, TermCmp) = LexCmp(ka, kb, KeyCmp)
  BY <1>1, <1>2, <1>3, LexNoTie
<1> SUFFICES CmpWith(a, b, ka, kb) = SpecCmp(a, b)
  BY <1>4
<1>6. CASE Cardinality(DOMAIN a) # Cardinality(DOMAIN b)
  BY <1>6 DEF CmpWith, SpecCmp
<1>7. CASE Cardinality(DOMAIN a) = Cardinality(DOMAIN b)
           /\ LexCmp(ka, kb, KeyCmp) # "EQ"
  BY <1>5, <1>7 DEF CmpWith, SpecCmp
<1>8. CASE Cardinality(DOMAIN a) = Cardinality(DOMAIN b)
           /\ LexCmp(ka, kb, KeyCmp) = "EQ"
  <2> DEFINE DC == {i \in 1 .. Len(ka) :
                      ka[i] \notin DOMAIN b \/ TermCmp(a[ka[i]], b[ka[i]]) # "EQ"}
             DS == {i \in 1 .. Len(ka) : TermCmp(a[ka[i]], b[ka[i]]) # "EQ"}
  <2>1. ka = kb
    BY <1>2, <1>3, <1>8, LexEqEqual
  <2>2. DOMAIN a = DOMAIN b
    <3>1. \A x \in DOMAIN a : x \in DOMAIN b
      <4> SUFFICES ASSUME NEW x \in DOMAIN a PROVE x \in DOMAIN b
        OBVIOUS
      <4>1. PICK i \in 1 .. Len(ka) : ka[i] = x
        BY <1>2
      <4>2. QED
        BY <1>3, <2>1, <4>1
    <3>2. \A x \in DOMAIN b : x \in DOMAIN a
      <4> SUFFICES ASSUME NEW x \in DOMAIN b PROVE x \in DOMAIN a
        OBVIOUS
      <4>1. PICK i \in 1 .. Len(kb) : kb[i] = x
        BY <1>3
      <4>2. QED
        BY <1>2, <2>1, <4>1
    <3>3. QED
      BY <3>1, <3>2
  <2>3. \A i \in 1 .. Len(ka) : ka[i] \in DOMAIN b
    BY <1>2, <2>2
  <2>4. DC = DS
    BY <2>3
  <2>5. CmpWith(a, b, ka, kb) =
          IF DS = {} THEN "EQ"
          ELSE IF ka[Min(DS)] \notin DOMAIN b THEN "panic"
          ELSE TermCmp(a[ka[Min(DS)]], b[ka[Min(DS)]])
    BY <1>5, <1>8, <2>4 DEF CmpWith
  <2>6. SpecCmp(a, b) =
          IF DS = {} THEN "EQ" ELSE TermCmp(a[ka[Min(DS)]], b[ka[Min(DS)]])
    BY <1>8 DEF SpecCmp
  <2>7. CASE DS = {}
    BY <2>5, <2>6, <2>7
  <2>8. CASE DS # {}
    <3>1. DS \subseteq Nat
      OBVIOUS
    <3>2. Min(DS) \in 1 .. Len(ka)
      BY <2>8, <3>1, MinFacts
    <3>3. ka[Min(DS)] \in DOMAIN b
      BY <2>3, <3>2
    <3>4. QED
      BY <2>5, <2>6, <2>8, <3>3
  <2>9. QED
    BY <2>7, <2>8
<1>9. QED
  BY <1>6, <1>7, <1>8


(***************************************************************************)
(* The spec's order on maps with no integer-float tie is Equal only on     *)
(* equal maps: same keys, and values that Term::cmp ties are equal.        *)
(***************************************************************************)
LEMMA SpecCmpEqEqual ==
  ASSUME NEW a \in MapOf(Keys), NEW b \in MapOf(Keys),
         NoNumericTie(Terms(a) \cup Terms(b)), SpecCmp(a, b) = "EQ"
  PROVE  a = b
<1> DEFINE W == Terms(a) \cup Terms(b)
           ka == SpecSortedKeys(a)
           kb == SpecSortedKeys(b)
           DS == {i \in 1 .. Len(ka) : TermCmp(a[ka[i]], b[ka[i]]) # "EQ"}
<1>1. /\ a \in [DOMAIN a -> Vals] /\ b \in [DOMAIN b -> Vals]
      /\ DOMAIN a \subseteq Keys /\ DOMAIN b \subseteq Keys
  BY MapOfElim
<1>2. W \subseteq Term /\ DOMAIN a \subseteq W /\ DOMAIN b \subseteq W
  BY <1>1, MapAssumption DEF Terms
<1>3. /\ ka \in Seq(Term) /\ ka \in [1 .. Len(ka) -> DOMAIN a]
      /\ \A x \in DOMAIN a : \E i \in 1 .. Len(ka) : ka[i] = x
  BY <1>2, MapKeysFacts
<1>4. /\ kb \in Seq(Term) /\ kb \in [1 .. Len(kb) -> DOMAIN b]
      /\ \A x \in DOMAIN b : \E i \in 1 .. Len(kb) : kb[i] = x
  BY <1>2, MapKeysFacts
<1>5. Cardinality(DOMAIN a) = Cardinality(DOMAIN b)
  <2>1. IsFiniteSet(DOMAIN a) /\ IsFiniteSet(DOMAIN b)
    BY MapOfElim
  <2>2. Cardinality(DOMAIN a) \in Nat /\ Cardinality(DOMAIN b) \in Nat
    BY <2>1, FS_CardinalityType
  <2>3. QED
    BY <2>2, NatCmpFacts DEF SpecCmp
<1>6. LexCmp(ka, kb, KeyCmp) = "EQ"
  BY <1>5 DEF SpecCmp
<1>7. ka = kb
  BY <1>3, <1>4, <1>6, LexEqEqual
<1>8. DOMAIN a = DOMAIN b
  <2>1. \A x \in DOMAIN a : x \in DOMAIN b
    <3> SUFFICES ASSUME NEW x \in DOMAIN a PROVE x \in DOMAIN b
      OBVIOUS
    <3>1. PICK i \in 1 .. Len(ka) : ka[i] = x
      BY <1>3
    <3>2. QED
      BY <1>4, <1>7, <3>1
  <2>2. \A x \in DOMAIN b : x \in DOMAIN a
    <3> SUFFICES ASSUME NEW x \in DOMAIN b PROVE x \in DOMAIN a
      OBVIOUS
    <3>1. PICK i \in 1 .. Len(kb) : kb[i] = x
      BY <1>4
    <3>2. QED
      BY <1>3, <1>7, <3>1
  <2>3. QED
    BY <2>1, <2>2
<1>9. DS = {}
  <2> SUFFICES ASSUME DS # {} PROVE FALSE
    OBVIOUS
  <2>0. DS \subseteq Nat
    OBVIOUS
  <2>1. Min(DS) \in DS
    BY <2>0, MinFacts
  <2>2. TermCmp(a[ka[Min(DS)]], b[ka[Min(DS)]]) = "EQ"
    BY <1>5, <1>6 DEF SpecCmp
  <2>3. QED
    BY <2>1, <2>2
<1>10. \A x \in DOMAIN a : a[x] = b[x]
  <2> SUFFICES ASSUME NEW x \in DOMAIN a PROVE a[x] = b[x]
    OBVIOUS
  <2>1. PICK i \in 1 .. Len(ka) : ka[i] = x
    BY <1>3
  <2>2. TermCmp(a[x], b[x]) = "EQ"
    BY <1>9, <2>1
  <2>3. a[x] \in W /\ b[x] \in W
    BY <1>8 DEF Terms
  <2>4. QED
    BY <2>2, <2>3 DEF NoNumericTie
<1>11. QED
  BY <1>1, <1>8, <1>10

(***************************************************************************)
(* Spec 8.3 holds of Ord::cmp on map terms (map.rs, Ord for Map) in every  *)
(* reachable state of put, update, remove, take, from_list and from_slice, *)
(* for every key and value set: on maps with no integer-float tie the      *)
(* result is the spec's order whatever the HashMaps' iteration orders.     *)
(***************************************************************************)
THEOREM MapCmpFollowsSpec == SpecMaps => []CmpFollowsSpecOrder
<1>1. TypeOK => CmpFollowsSpecOrder
  <2> SUFFICES ASSUME TypeOK PROVE CmpFollowsSpecOrder
    OBVIOUS
  <2>1. map["a"] \in MapOf(Keys) /\ map["b"] \in MapOf(Keys)
    BY DEF TypeOK, Reg
  <2>2. QED
    BY <2>1, CmpNoTie DEF CmpFollowsSpecOrder
<1>2. QED
  BY <1>1, MapTypeCorrect, PTL

(***************************************************************************)
(* Spec 8.4 holds of Hash for map terms (map.rs, Hash for Map) in every    *)
(* reachable state, for maps with no integer-float tie: maps that Ord::cmp *)
(* finds Equal are equal and feed the hasher the same stream, whatever    *)
(* their HashMaps' iteration orders.                                       *)
(***************************************************************************)
THEOREM MapHashConsistent == SpecMaps => []HashConsistentOnDistinctNumbers
<1>1. TypeOK => HashConsistentOnDistinctNumbers
  <2> SUFFICES ASSUME TypeOK, NoNumericTie(Terms(map["a"]) \cup Terms(map["b"])),
                      "EQ" \in MapCmp(map["a"], map["b"])
               PROVE  \A ha \in Hash(map["a"]), hb \in Hash(map["b"]) : ha = hb
    BY DEF HashConsistentOnDistinctNumbers, HashConsistentWithCmp
  <2> DEFINE a == map["a"]
             b == map["b"]
  <2>1. a \in MapOf(Keys) /\ b \in MapOf(Keys)
    BY DEF TypeOK, Reg
  <2>2. SpecCmp(a, b) = "EQ"
    BY <2>1, CmpNoTie
  <2>3. a = b
    BY <2>1, <2>2, SpecCmpEqEqual
  <2>4. SortedKeys(a) = {SpecSortedKeys(a)}
    <3>1. Terms(a) \cup Terms(b) \subseteq Term
      <4>1. a \in [DOMAIN a -> Vals] /\ DOMAIN a \subseteq Keys
            /\ b \in [DOMAIN b -> Vals] /\ DOMAIN b \subseteq Keys
        BY <2>1, MapOfElim
      <4>2. QED
        BY <4>1, MapAssumption DEF Terms
    <3>2. DOMAIN a \subseteq Terms(a) \cup Terms(b)
      BY DEF Terms
    <3>3. QED
      BY <2>1, <3>1, <3>2, MapKeysFacts
  <2>5. \A ha, hb \in Hash(a) : ha = hb
    BY <2>4 DEF Hash
  <2>6. QED
    BY <2>3, <2>5
<1>2. QED
  BY <1>1, MapTypeCorrect, PTL


-----------------------------------------------------------------------------
(***************************************************************************)
(* from_list.                                                              *)
(***************************************************************************)
LEMMA ListInputIntro ==
  ASSUME NEW n \in 0 .. MaxListLen, NEW es \in [1 .. n -> Elem], NEW pr \in BOOLEAN
  PROVE  [elems |-> es, proper |-> pr] \in ListInput
<1>1. es \in UNION {[1 .. k -> Elem] : k \in 0 .. MaxListLen}
  OBVIOUS
<1>2. QED
  BY <1>1 DEF ListInput

(***************************************************************************)
(* Every list term built by consing elements onto [] or onto a non-list    *)
(* term, at most MaxListLen of them, is one from_list is given in the     *)
(* model; the maps are left as they are.                                   *)
(***************************************************************************)
LEMMA ListTypeCorrect == SpecList => []TypeOK
<1>1. TypeOK /\ [NextList]_vars => TypeOK'
  <2> SUFFICES ASSUME TypeOK, [NextList]_vars PROVE TypeOK'
    OBVIOUS
  <2>1. CASE NewList
    <3>1. Nil \in ListInput /\ NotAList \in ListInput
      <4>1. 0 \in 0 .. MaxListLen /\ <<>> \in [1 .. 0 -> Elem]
        BY MapAssumption
      <4>2. QED
        BY <4>1, ListInputIntro DEF Nil, NotAList
    <3>2. QED
      BY <2>1, <3>1 DEF NewList, TypeOK
  <2>2. ASSUME NEW e \in Elem, ConsElem(e) PROVE TypeOK'
    <3>1. PICK n \in 0 .. MaxListLen :
            /\ list = [elems |-> list.elems, proper |-> list.proper]
            /\ list.elems \in [1 .. n -> Elem]
            /\ list.proper \in BOOLEAN
      BY ListInputParts DEF TypeOK
    <3>2. n < MaxListLen
      BY <2>2, <3>1 DEF ConsElem
    <3>3. list.elems \in Seq(Elem) /\ Len(list.elems) = n
      BY <3>1
    <3>4. <<e>> \o list.elems \in Seq(Elem) /\ Len(<<e>> \o list.elems) = n + 1
      BY <3>3
    <3>5. n + 1 \in 0 .. MaxListLen
      BY <3>1, <3>2, MapAssumption
    <3>6. <<e>> \o list.elems \in [1 .. n + 1 -> Elem]
      <4>1. \A s \in Seq(Elem) : s \in [1 .. Len(s) -> Elem]
        OBVIOUS
      <4>2. QED
        BY <3>4, <4>1
    <3>7. list' = [elems |-> <<e>> \o list.elems, proper |-> list.proper]
      BY <2>2, <3>1 DEF ConsElem
    <3>8. list' \in ListInput
      BY <3>1, <3>5, <3>6, <3>7, ListInputIntro
    <3>9. QED
      BY <2>2, <3>8 DEF ConsElem, TypeOK
  <2>3. CASE UNCHANGED vars
    BY <2>3 DEF vars, TypeOK
  <2>4. QED
    BY <2>1, <2>2, <2>3 DEF NextList
<1>2. QED
  BY <1>1, InitType, PTL DEF SpecList


\* Among the list elements, a tuple that is not a pair is the 3-tuple.
LEMMA ElemTags ==
  ASSUME NEW x \in Elem, x # NonTuple
  PROVE  x.tag # "pair" <=> x = OtherTuple
BY DEF Elem, Pair, OtherTuple, NonTuple

(***************************************************************************)
(* Map::from_list (map.rs) is the function of spec 8.6 on every list whose *)
(* elements are all tuples: [] gives the empty map, a proper list of       *)
(* pairs its entries with the last pair of a key winning, and a 3-tuple or *)
(* an improper tail gives None.                                            *)
(***************************************************************************)
THEOREM FromListOnTuples == SpecList => []FromListOnTuplesFollowsSpec
<1>1. ASSUME NEW l \in ListInput,
             \A i \in 1 .. Len(l.elems) : l.elems[i] # NonTuple
      PROVE  FromList(l) = SpecFromList(l)
  <2>1. PICK n \in 0 .. MaxListLen : l.elems \in [1 .. n -> Elem]
    BY ListInputParts
  <2>2. (\E i \in 1 .. Len(l.elems) : l.elems[i] = OtherTuple)
          <=> \E i \in 1 .. Len(l.elems) : l.elems[i].tag # "pair"
    BY <1>1, <2>1, ElemTags
  <2>3. CASE l = NotAList \/ ~l.proper
            \/ \E i \in 1 .. Len(l.elems) : l.elems[i] = OtherTuple
    <3>1. FromList(l) = None
      BY <2>3 DEF FromList
    <3>2. SpecFromList(l) = None
      BY <2>2, <2>3 DEF SpecFromList
    <3>3. QED
      BY <3>1, <3>2
  <2>4. CASE ~(l = NotAList \/ ~l.proper
               \/ \E i \in 1 .. Len(l.elems) : l.elems[i] = OtherTuple)
    <3>1. FromList(l) = Some(PairsMap(l.elems))
      BY <2>4 DEF FromList
    <3>2. SpecFromList(l) = Some(PairsMap(l.elems))
      BY <2>2, <2>4 DEF SpecFromList
    <3>3. QED
      BY <3>1, <3>2
  <2>5. QED
    BY <2>3, <2>4
<1>2. TypeOK => FromListOnTuplesFollowsSpec
  BY <1>1 DEF TypeOK, FromListOnTuplesFollowsSpec, FromListFollowsSpec
<1>3. QED
  BY <1>2, ListTypeCorrect, PTL


=============================================================================
