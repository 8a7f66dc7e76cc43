------------------------------- MODULE MapProofs -------------------------------
(***************************************************************************)
(* Facts about the term orders and the copy-on-write operations of the     *)
(* map term, for every term and every map (MapCore).                      *)
(***************************************************************************)
EXTENDS MapCore, TLAPS

\* m is a function: a map term's association.
IsFunc(m) == m = [x \in DOMAIN m |-> m[x]]

\* A term is the record of its kind and value.
LEMMA TermRecord ==
  ASSUME NEW t \in Term
  PROVE  t = [kind |-> t.kind, val |-> t.val]
BY DEF Term

\* NatCmp is the order of the naturals.
LEMMA NatCmpFacts ==
  ASSUME NEW m \in Nat, NEW n \in Nat
  PROVE  /\ NatCmp(m, n) \in Ordering
         /\ NatCmp(m, n) = "EQ" <=> m = n
         /\ NatCmp(m, n) = "LT" <=> NatCmp(n, m) = "GT"
         /\ NatCmp(m, n) = "LT" <=> m < n
BY DEF NatCmp, Ordering

(***************************************************************************)
(* Term::cmp ties two distinct terms only when one is an integer and the   *)
(* other a float of the same value.  This is the case in which Ord::cmp    *)
(* of maps reaches other.get(key).unwrap() on a key other lacks (map.rs    *)
(* line 267), and in which Hash and Ord disagree.                          *)
(***************************************************************************)
LEMMA TermTiesAreNumeric ==
  ASSUME NEW t \in Term, NEW u \in Term, TermCmp(t, u) = "EQ", t # u
  PROVE  /\ {t.kind, u.kind} = {"int", "float"}
         /\ t.val = u.val
<1>1. Class(t) = Class(u) /\ t.val = u.val
  BY NatCmpFacts DEF TermCmp, Class, Term
<1>2. t.kind # u.kind
  BY <1>1, TermRecord
<1>3. t.kind # "atom" /\ u.kind # "atom"
  BY <1>1, <1>2 DEF Class, Term
<1>4. QED
  BY <1>1, <1>2, <1>3 DEF Term

(***************************************************************************)
(* The key order the spec prescribes for maps (an integer below a float    *)
(* of equal value, otherwise Term::cmp) is a strict total order on terms:  *)
(* it ties only equal terms, is antisymmetric and transitive.  Sorting     *)
(* keys by it, unlike by Term::cmp in sorted_keys, has one result.         *)
(***************************************************************************)
LEMMA KeyOrderIsStrictTotal ==
  ASSUME NEW t \in Term, NEW u \in Term, NEW w \in Term
  PROVE  /\ KeyCmp(t, u) \in Ordering
         /\ KeyCmp(t, u) = "EQ" <=> t = u
         /\ KeyCmp(t, u) = "LT" <=> KeyCmp(u, t) = "GT"
         /\ KeyCmp(t, u) = "LT" /\ KeyCmp(u, w) = "LT" => KeyCmp(t, w) = "LT"
<1> DEFINE Rank(x) == IF x.kind = "float" THEN 1 ELSE 0
<1>1. \A x, y \in Term :
        KeyCmp(x, y) = "LT" <=>
          \/ Class(x) < Class(y)
          \/ Class(x) = Class(y) /\ x.val < y.val
          \/ Class(x) = Class(y) /\ x.val = y.val /\ Rank(x) < Rank(y)
  BY DEF KeyCmp, TermCmp, NatCmp, Class, Term
<1>2. \A x, y \in Term :
        KeyCmp(x, y) = "EQ" <=>
          Class(x) = Class(y) /\ x.val = y.val /\ Rank(x) = Rank(y)
  BY DEF KeyCmp, TermCmp, NatCmp, Class, Term
<1>3. \A x, y \in Term :
        KeyCmp(x, y) = "GT" <=> KeyCmp(y, x) = "LT"
  BY DEF KeyCmp, TermCmp, NatCmp, Class, Term
<1>4. KeyCmp(t, u) \in Ordering
  BY DEF KeyCmp, TermCmp, NatCmp, Ordering
<1>5. Class(t) = Class(u) /\ t.val = u.val /\ Rank(t) = Rank(u) => t = u
  <2> SUFFICES ASSUME Class(t) = Class(u), t.val = u.val, Rank(t) = Rank(u)
               PROVE  t = u
    OBVIOUS
  <2>1. t.kind = u.kind
    BY DEF Class, Term
  <2>2. QED
    BY <2>1, TermRecord
<1>6. \A x \in Term : Class(x) \in Nat /\ Rank(x) \in Nat /\ x.val \in Nat
  BY DEF Class, Term
<1>7. QED
  BY <1>1, <1>2, <1>3, <1>4, <1>5, <1>6

(***************************************************************************)
(* take and put are inverse copy-on-write operations: putting back the     *)
(* value take removed gives a map equal to the receiver, and put then     *)
(* returns Some, since take removed the key.  Neither call changes the     *)
(* receiver (map.rs take clones self.value before removing).              *)
(***************************************************************************)
THEOREM TakeThenPutRestores ==
  ASSUME NEW m, IsFunc(m), NEW k \in DOMAIN m
  PROVE  /\ Take(m, k).some
         /\ Put(Take(m, k).val.map, k, Take(m, k).val.value) = Some(m)
<1>1. Take(m, k) = Some([value |-> m[k], map |-> Delete(m, k)])
  BY DEF Take, IsKey
<1>2. /\ Take(m, k).some
      /\ Take(m, k).val.map = Delete(m, k)
      /\ Take(m, k).val.value = m[k]
  BY <1>1 DEF Some
<1>3. ~IsKey(Delete(m, k), k)
  BY DEF IsKey, Delete
<1>4. Insert(Delete(m, k), k, m[k]) = m
  BY DEF Insert, Delete, IsFunc
<1>5. Put(Delete(m, k), k, m[k]) = Some(m)
  BY <1>3, <1>4 DEF Put
<1>6. QED
  BY <1>2, <1>5

=============================================================================
