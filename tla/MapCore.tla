-------------------------------- MODULE MapCore --------------------------------
(***************************************************************************)
(* The part of the map term (src/liblumen_alloc/src/erts/term/map.rs) that *)
(* needs no sequence or recursion: terms and their order, Option, and the  *)
(* copy-on-write operations take, remove, update and put.  Map extends it  *)
(* with sorted_keys, Ord, Hash and from_list; MapProofs proves facts      *)
(* about it.                                                               *)
(***************************************************************************)
EXTENDS Naturals

IntTerm(n) == [kind |-> "int", val |-> n]
FloatTerm(n) == [kind |-> "float", val |-> n]
AtomTerm(n) == [kind |-> "atom", val |-> n]

Term == [kind : {"int", "float", "atom"}, val : Nat]

\* Orderings, as returned by Ord::cmp.
Ordering == {"LT", "EQ", "GT"}

NatCmp(m, n) == IF m < n THEN "LT" ELSE IF m = n THEN "EQ" ELSE "GT"

\* Term order class: numbers before atoms (spec 4.1).
Class(t) == IF t.kind = "atom" THEN 1 ELSE 0

(***************************************************************************)
(* Term::cmp (spec 4.1, not under src/): by class, then by value; an       *)
(* integer and a float of equal value compare Equal.                       *)
(***************************************************************************)
TermCmp(t, u) ==
  IF Class(t) # Class(u) THEN NatCmp(Class(t), Class(u)) ELSE NatCmp(t.val, u.val)

\* Option<T>.
None == [some |-> FALSE]
Some(x) == [some |-> TRUE, val |-> x]

EmptyMap == [k \in {} |-> k]

\* HashMap::insert: last write wins.
Insert(m, k, v) == [x \in DOMAIN m \cup {k} |-> IF x = k THEN v ELSE m[x]]

Delete(m, k) == [x \in DOMAIN m \ {k} |-> m[x]]

(***************************************************************************)
(* The operations of Map.  Each returns an Option: None, or a new map (a   *)
(* record for take); the receiver is never changed.                        *)
(***************************************************************************)
IsKey(m, k) == k \in DOMAIN m

Take(m, k) == IF IsKey(m, k) THEN Some([value |-> m[k], map |-> Delete(m, k)]) ELSE None

MapRemove(m, k) == IF IsKey(m, k) THEN Some(Delete(m, k)) ELSE None

Update(m, k, v) == IF IsKey(m, k) THEN Some(Insert(m, k, v)) ELSE None

\* Mutant: put inserts with key and value swapped.
PutSwapped(m, k, v) == IF IsKey(m, k) /\ m[k] = v THEN None ELSE Some(Insert(m, v, k))

\* put returns None when the key already holds that very value.
Put(m, k, v) == IF IsKey(m, k) /\ m[k] = v THEN None ELSE Some(Insert(m, k, v))

\* The key order of spec 3/8.3: term order, an integer below a float of
\* equal value.
KeyCmp(t, u) ==
  IF TermCmp(t, u) = "EQ" /\ t.kind # u.kind
    THEN IF t.kind = "int" THEN "LT" ELSE "GT"
    ELSE TermCmp(t, u)

=============================================================================
