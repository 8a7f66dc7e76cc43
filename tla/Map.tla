--------------------------------- MODULE Map ---------------------------------
(***************************************************************************)
(* The map term of liblumen_alloc (src/liblumen_alloc/src/erts/term/map.rs)*)
(* : a HashMap<Term, Term> with copy-on-write put/update/remove/take,      *)
(* construction from a list, and an ordering and a hash computed over the *)
(* keys sorted with sort_unstable_by(Term::cmp).                           *)
(*                                                                         *)
(* A term is a record [kind, val]; only the order class of a term and its  *)
(* value matter here.  Term equality (Eq, Hash, HashMap keys) is exact:   *)
(* the integer 1 and the float 1.0 are distinct keys.  Term::cmp compares  *)
(* numbers by value, so those two compare Equal.  A map is a TLA+ function *)
(* from its keys to its values; two HashMaps holding the same entries may  *)
(* iterate in different orders, so sorted_keys may list keys that compare  *)
(* Equal in either order, and every operator built on it returns the set  *)
(* of its possible results.                                                *)
(***************************************************************************)
EXTENDS MapCore, Naturals, Sequences, FiniteSets, SequencesExt

CONSTANTS
  Keys,        \* the key terms a map may hold
  Vals,        \* the value terms a map may hold
  MaxListLen   \* longest list given to from_list

VARIABLES
  map,   \* map[r]: the map term held in register r
  ret,   \* ret[r]: whether the last operation on r returned Some or None
  list   \* the list term built for from_list

vars == <<map, ret, list>>

ASSUME MapAssumption == MaxListLen \in Nat /\ Keys \subseteq Term /\ Vals \subseteq Term

\* Vec<Term>::cmp: the first element pair that differs, then the lengths.
LexCmp(s, t, cmp(_, _)) ==
  LET D == {i \in 1 .. Min({Len(s), Len(t)}) : cmp(s[i], t[i]) # "EQ"}
  IN IF D = {} THEN NatCmp(Len(s), Len(t)) ELSE cmp(s[Min(D)], t[Min(D)])

(***************************************************************************)
(* sorted_keys: sort_unstable_by(Term::cmp) over the HashMap's keys, as  *)
(* its postcondition: no key compares Greater than a later one.  Any order *)
(* of keys comparing Equal is a possible result.                           *)
(***************************************************************************)
SortedKeys(m) ==
  {ks \in SetToSeqs(DOMAIN m) :
     \A i, j \in 1 .. Len(ks) : i < j => TermCmp(ks[i], ks[j]) # "GT"}

(***************************************************************************)
(* Ord::cmp for one choice of both sorted key vectors: sizes, then key     *)
(* vectors, then values in self's key order.  other.get(key).unwrap()     *)
(* panics when the key of self is not a key of other.                      *)
\* Mutant: the value loop keeps going after a difference (no break).
CmpWithNoBreak(a, b, ka, kb) ==
  LET D == {i \in 1 .. Len(ka) :
              ka[i] \notin DOMAIN b \/ TermCmp(a[ka[i]], b[ka[i]]) # "EQ"}
      last == ka[Max(D)]
  IN IF Cardinality(DOMAIN a) # Cardinality(DOMAIN b)
       THEN NatCmp(Cardinality(DOMAIN a), Cardinality(DOMAIN b))
     ELSE IF LexCmp(ka, kb, TermCmp) # "EQ" THEN LexCmp(ka, kb, TermCmp)
     ELSE IF D = {} THEN "EQ"
     ELSE IF last \notin DOMAIN b THEN "panic"
     ELSE TermCmp(a[last], b[last])

(***************************************************************************)
CmpWith(a, b, ka, kb) ==
  LET D == {i \in 1 .. Len(ka) :
              ka[i] \notin DOMAIN b \/ TermCmp(a[ka[i]], b[ka[i]]) # "EQ"}
      first == ka[Min(D)]
  IN IF Cardinality(DOMAIN a) # Cardinality(DOMAIN b)
       THEN NatCmp(Cardinality(DOMAIN a), Cardinality(DOMAIN b))
     ELSE IF LexCmp(ka, kb, TermCmp) # "EQ" THEN LexCmp(ka, kb, TermCmp)
     ELSE IF D = {} THEN "EQ"
     ELSE IF first \notin DOMAIN b THEN "panic"
     ELSE TermCmp(a[first], b[first])

MapCmp(a, b) == {CmpWith(a, b, ka, kb) : ka \in SortedKeys(a), kb \in SortedKeys(b)}

(***************************************************************************)
(* Hash for Map: key and value of each key of sorted_keys, in that order,  *)
(* fed to the hasher.  The hash is abstracted to the fed stream; a hasher  *)
(* is a function of its stream.                                            *)
\* Mutant: hash in the HashMap's own iteration order.
HashUnsorted(m) == {[i \in 1 .. Len(ks) |-> <<ks[i], m[ks[i]]>>] : ks \in SetToSeqs(DOMAIN m)}

(***************************************************************************)
Hash(m) == {[i \in 1 .. Len(ks) |-> <<ks[i], m[ks[i]]>>] : ks \in SortedKeys(m)}

(***************************************************************************)
(* The order the spec (3, 8.3) and the comment on Ord::cmp prescribe:      *)
(* keys in ascending term order where an integer is below a float of equal *)
(* value, then values in that key order.                                   *)
(***************************************************************************)
SpecSortedKeys(m) ==
  CHOOSE ks \in SetToSeqs(DOMAIN m) :
    \A i, j \in 1 .. Len(ks) : i < j => KeyCmp(ks[i], ks[j]) = "LT"

SpecCmp(a, b) ==
  LET ka == SpecSortedKeys(a)
      kb == SpecSortedKeys(b)
      D == {i \in 1 .. Len(ka) : TermCmp(a[ka[i]], b[ka[i]]) # "EQ"}
  IN IF Cardinality(DOMAIN a) # Cardinality(DOMAIN b)
       THEN NatCmp(Cardinality(DOMAIN a), Cardinality(DOMAIN b))
     ELSE IF LexCmp(ka, kb, KeyCmp) # "EQ" THEN LexCmp(ka, kb, KeyCmp)
     ELSE IF D = {} THEN "EQ"
     ELSE TermCmp(a[ka[Min(D)]], b[ka[Min(D)]])

-----------------------------------------------------------------------------
(***************************************************************************)
(* List terms given to from_list.  A list is its elements and whether it   *)
(* ends in [] (proper) or in another term (improper); a term that is not a *)
(* list at all is the improper list with no element, NotAList.  An element *)
(* is a 2-tuple {k, v}, a tuple of another arity, or a term that is not a  *)
(* tuple.                                                                  *)
(***************************************************************************)
NotAList == [elems |-> <<>>, proper |-> FALSE]

Pair(k, v) == [tag |-> "pair", key |-> k, val |-> v]
OtherTuple == [tag |-> "tuple3"]
NonTuple == [tag |-> "non_tuple"]

Elem == {Pair(k, v) : k \in Keys, v \in Vals} \cup {OtherTuple, NonTuple}

Nil == [elems |-> <<>>, proper |-> TRUE]

\* The entries of the pairs of the list, the last pair of a key winning.
PairsMap(es) ==
  LET P == {i \in 1 .. Len(es) : es[i].tag = "pair"}
      last(k) == Max({i \in P : es[i].key = k})
  IN [k \in {es[i].key : i \in P} |-> es[last(k)].val]

(***************************************************************************)
(* Map::from_list: Nil gives the empty map; for a list, a 2-tuple is       *)
(* inserted, a non-tuple element is skipped (continue), a tuple of another *)
(* arity or the improper tail ends the walk with None; any other term is   *)
(* None.                                                                   *)
\* Mutant: the Err of an improper tail is skipped like a non-tuple.
FromListNoTail(l) ==
  CASE l = NotAList -> None
    [] \E i \in 1 .. Len(l.elems) : l.elems[i] = OtherTuple -> None
    [] OTHER -> Some(PairsMap(l.elems))

(***************************************************************************)
FromList(l) ==
  CASE l = NotAList -> None
    [] \E i \in 1 .. Len(l.elems) : l.elems[i] = OtherTuple -> None
    [] ~l.proper -> None
    [] OTHER -> Some(PairsMap(l.elems))

\* Map::from_slice: every (key, value) of the slice inserted in order, the
\* last of a key winning; the slice is never rejected.
MapFromSlice(es) == PairsMap(es)

\* Spec 4.4/8.6: any element that is not a 2-tuple yields None.
SpecFromList(l) ==
  IF l = NotAList \/ ~l.proper \/ \E i \in 1 .. Len(l.elems) : l.elems[i].tag # "pair"
    THEN None
    ELSE Some(PairsMap(l.elems))

-----------------------------------------------------------------------------
(***************************************************************************)
(* Two map terms a process holds, changed by the map operations.  A None   *)
(* result leaves the register as it was.                                   *)
(***************************************************************************)
Reg == {"a", "b"}

ListInput ==
  {[elems |-> es, proper |-> pr] :
     es \in UNION {[1 .. n -> Elem] : n \in 0 .. MaxListLen}, pr \in BOOLEAN}

Apply(r, res) ==
  /\ ret' = [ret EXCEPT ![r] = IF res.some THEN "Some" ELSE "None"]
  /\ map' = IF res.some THEN [map EXCEPT ![r] = res.val] ELSE map

InitMaps ==
  /\ map = [r \in Reg |-> EmptyMap]
  /\ ret = [r \in Reg |-> "none"]
  /\ list = Nil

PutOp(r, k, v) == Apply(r, Put(map[r], k, v)) /\ UNCHANGED list

UpdateOp(r, k, v) == Apply(r, Update(map[r], k, v)) /\ UNCHANGED list

RemoveOp(r, k) == Apply(r, MapRemove(map[r], k)) /\ UNCHANGED list

TakeOp(r, k) ==
  /\ LET res == Take(map[r], k)
     IN Apply(r, IF res.some THEN Some(res.val.map) ELSE None)
  /\ UNCHANGED list

FromListOp(r, l) == Apply(r, FromList(l)) /\ UNCHANGED list

\* from_slice builds the map term directly, with no Option.
FromSliceOp(r, l) ==
  /\ \A i \in 1 .. Len(l.elems) : l.elems[i].tag = "pair"
  /\ map' = [map EXCEPT ![r] = MapFromSlice(l.elems)]
  /\ UNCHANGED <<ret, list>>

NextMaps ==
  \E r \in Reg :
    \/ \E k \in Keys, v \in Vals : PutOp(r, k, v) \/ UpdateOp(r, k, v)
    \/ \E k \in Keys : RemoveOp(r, k) \/ TakeOp(r, k)
    \/ \E l \in ListInput : FromListOp(r, l) \/ FromSliceOp(r, l)

SpecMaps == InitMaps /\ [][NextMaps]_vars

(***************************************************************************)
(* The list term given to from_list, built with cons onto the term held    *)
(* (onto NotAList it makes an improper list), or started afresh.           *)
(***************************************************************************)
ConsElem(e) ==
  /\ Len(list.elems) < MaxListLen
  /\ list' = [list EXCEPT !.elems = <<e>> \o @]
  /\ UNCHANGED <<map, ret>>

NewList ==
  /\ list' \in {Nil, NotAList}
  /\ UNCHANGED <<map, ret>>

NextList == NewList \/ \E e \in Elem : ConsElem(e)

SpecList == InitMaps /\ [][NextList]_vars

-----------------------------------------------------------------------------

\* A HashMap holds finitely many entries.
MapOf(S) == UNION {[D -> Vals] : D \in {F \in SUBSET S : IsFiniteSet(F)}}

TypeOK ==
  /\ map \in [Reg -> MapOf(Keys)]
  /\ ret \in [Reg -> {"none", "Some", "None"}]
  /\ list \in ListInput

\* No integer and float of equal value among the terms of S.
NoNumericTie(S) == \A t, u \in S : TermCmp(t, u) = "EQ" => t = u

Terms(m) == DOMAIN m \cup {m[k] : k \in DOMAIN m}

(***************************************************************************)
(* Spec 8.3: Ord::cmp on maps orders by size, then by sorted keys, then by *)
(* values in key order, whatever the HashMaps' iteration orders, on maps   *)
(* holding no integer and float of equal value.                            *)
(***************************************************************************)
CmpFollowsSpecOrder ==
  LET a == map["a"]  b == map["b"]
  IN NoNumericTie(Terms(a) \cup Terms(b)) => MapCmp(a, b) = {SpecCmp(a, b)}

(***************************************************************************)
(* Spec 8.3 for all maps: comparing two maps never panics in the unwrap()  *)
(* of Ord::cmp.                                                            *)
(***************************************************************************)
CmpNeverPanics == "panic" \notin MapCmp(map["a"], map["b"])

(***************************************************************************)
(* Spec 8.4: maps comparing Equal hash identically, whatever order their   *)
(* HashMaps iterate in; HashConsistentOnDistinctNumbers restricts it to    *)
(* maps holding no integer and float of equal value.                       *)
(***************************************************************************)
HashConsistentWithCmp ==
  LET a == map["a"]  b == map["b"]
  IN "EQ" \in MapCmp(a, b) => \A ha \in Hash(a), hb \in Hash(b) : ha = hb

HashConsistentOnDistinctNumbers ==
  NoNumericTie(Terms(map["a"]) \cup Terms(map["b"])) => HashConsistentWithCmp

(***************************************************************************)
(* Spec 8.6: from_list returns the empty map for [], the entries (the last *)
(* of a key winning) for a proper list of 2-tuples, and None otherwise;    *)
(* FromListOnTuplesFollowsSpec restricts it to lists whose elements are    *)
(* all tuples.                                                             *)
(***************************************************************************)
FromListFollowsSpec == FromList(list) = SpecFromList(list)

FromListOnTuplesFollowsSpec ==
  (\A i \in 1 .. Len(list.elems) : list.elems[i] # NonTuple)
    => FromListFollowsSpec

=============================================================================
