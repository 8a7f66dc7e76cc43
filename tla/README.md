# Verification of the lumen term memory core

This directory holds TLA+ models of two parts of `liblumen_alloc`:
- the reference-counted binaries shared between process heaps;
- the `Map` term.

It also holds TLC configurations that check them on small instances. TLAPS
proofs cover the refcount invariants, the refinement of an abstract payload
specification and facts about the map term order, for every instance.

## Inventory of the source

| Source | What it is | Model |
|---|---|---|
| `src/liblumen_alloc/src/erts/term/binary/process.rs` | `ProcBinInner` (atomic `refc`, flags, bytes) and `ProcBin` handles: `from_slice`, `Clone`, `clone_to_process`, `clone_to_heap`, `Drop`, `drop_slow` | `ProcBin`, `MCProcBin`, `ProcBinProofs`, `RefcAbstract`, `ProcBinRefinement` |
| `src/liblumen_alloc/src/erts/term/map.rs` | `Map`: `from_slice`, `from_list`, `take`, `is_key`, `remove`, `update`, `put`, `sorted_keys`, `clone_to_heap`, `Hash`, `Ord` | `MapCore`, `Map`, `MCMap`, `MapProofs`, `MapOrderProofs`; `clone_to_heap` is `ProcBin!MapCloneToHeap` |
| `src/native_implemented_functions/otp/src/erlang/date_0.rs`, `lib.rs` | `erlang:date/0`: reads the clock and builds a tuple | not modelled (pure I/O) |
| `src/lumen_runtime/src/otp/...` | tests of `++` and `lists:keymember/3` | not modelled (test code) |

How the parts interact (spec.md §2, §4.3):
- A process holds `ProcBin` handles on its heap.
- Copying a term to another heap (a message send or a promotion) calls `clone_to_heap` or `clone_to_process`.
- For a `ProcBin`, the copy is a new handle to the same `ProcBinInner`, and it must increment `refc`.
- `Map::clone_to_heap` copies its keys and values through `Term::clone_to_heap`. So a map holding a binary produces exactly the handle that `ProcBin::clone_to_heap` produces.

Term, `TypedTerm`, `Header` and `Term::cmp` are not under `src/`. The term order `Map` needs is modelled from spec §4.1 (numbers by value, then atoms), and those definitions are marked `spec_modelled` in `PROJECT.json`.

## Modules

### `ProcBin.tla`: refcounted binaries

Constants:
- `Proc`: processes.
- `Bin`: payloads.
- `Slot`: places a handle can live on any heap.
- `RefcMod`: 2^w for the w-bit `usize`.
- `NoHandle`, `NoBin`: sentinels.

State:

| Variable | Code |
|---|---|
| `payload[b]` | `"unalloc"`, `"live"` (allocated by `from_slice`), `"freed"` (`sys_alloc::free` in `drop_slow`) |
| `refc[b]` | `ProcBinInner.refc`, an `AtomicUsize`, so it is kept modulo `RefcMod` |
| `handle[s]` | a `ProcBin` value in slot `s`: the payload it points to, the process whose heap holds it, and whether its creation was counted (`tracked`) |
| `pc[p]`, `dropBin[p]` | a process between `Drop`'s `fetch_sub` (line 267) and `drop_slow`'s `fetch_sub` (line 180), or a process that panicked in `clone_to_process` |
| `ret[p]` | the `Ok`/`Err` result of the last fallible call |

Actions. Each atomic RMW is one step:

| Action | Code | What it does |
|---|---|---|
| `FromSlice` | 129–168 | allocation succeeds (refc 1, one handle) or returns `Err` |
| `Clone` | 216–227 | `fetch_add` and a new handle |
| `CloneToProcess` | 229–240 | runs under the destination heap lock, so the copy, the `fetch_add` and `virtual_alloc` are one step. The `unwrap` of a failed `clone_to_heap` panics (`pc = "panicked"`) |
| `CloneToHeap` | 242–262 | a new, uncounted handle, or `Err` |
| `MapCloneToHeap` | map.rs 155–186 | a process copies a map holding some of its binary handles (`S`) to a heap of `q`: one uncounted handle per binary value, in distinct free slots, or `Err` |
| `Drop` | 265–307 | `fetch_sub`. If the old value was 1, the process moves to `drop_slow` |
| `DropSlow` | 175–186 | the second `fetch_sub`, which frees only if it returned 1 |

Two next-state relations:
- `NextApi`: every operation except `CloneToHeap`. This is the API a process uses directly.
- `Next`: adds `CloneToHeap` and `MapCloneToHeap`, the composite copies.

`Map::clone_to_heap` is modelled here, not in `Map`, because its only effect on
shared state is the `ProcBin` handle `Term::clone_to_heap` writes for each
binary value. It counts nothing, so an `Err` part-way through the loop (line
167) leaves bytes that no term refers to and no count changed: the model keeps
`handle` unchanged on `Err`. The copy runs on one thread, so it is one step.

The model assumes sequentially consistent atomics. Release/acquire ordering is not modelled.

### `RefcAbstract.tla`: what a payload promises

The abstract payload of spec §3, §5 and §8.1, without a count. `status[b]` is
`unalloc`, `live` or `freed`; `holder[s]` is the payload place `s` refers to.
Actions: `Alloc`, `Share` (a reference duplicated into a free place), `Release`,
`Free` (only of a payload no place holds). `Spec` adds weak fairness of `Free`;
`ReleasedIsFreed` says a live payload nobody holds is eventually freed.

`ProcBin` instantiates it as `Refc` with `status <- payload` and
`holder <- HolderOf`, where `HolderOf[s]` is the payload of the handle in `s`,
or `NoBin`. Under this mapping `from_slice` is `Alloc`, `Clone` and
`clone_to_process` are `Share`, `Drop` is `Release`, and `drop_slow` must be
`Free` or a stutter.

### `Map.tla`: map terms

Constants:
- `Keys`, `Vals`: small sets of integer, float and atom terms.
- `MaxListLen`: the list length bound.

`MapCore.tla` holds the part without recursion (terms, `TermCmp`, `KeyCmp`,
`Put`, `Update`, `MapRemove`, `Take`, `IsKey`), so that `MapProofs` can reason
about it; `Map` extends it with the list, sort and hash definitions.

A map is a TLA+ function from keys to values. The data is abstract and the control is kept:
- `MapFromSlice` builds the map of a slice of pairs, later pairs winning.
- `Put`, `Update`, `MapRemove`, `Take` and `IsKey` follow the code, including `put`'s `None` when the key already holds that value.
- `FromList` follows the code's loop:
  - a non-tuple element is skipped (`continue`, line 58);
  - a tuple of another arity gives `None`;
  - an improper tail gives `None`.
- `SortedKeys(m)` is the set of all results `sort_unstable_by` may give. It is stated by the sort's postcondition: an enumeration of the keys in which no key compares `Greater` than a later one. Every order of keys that tie under `Term::cmp` is included.
- A map holds finitely many entries (`MapOf`), as a `HashMap` does.
- `CmpWith` is `Ord::cmp` for one choice of sorted keys:
  - compare sizes;
  - compare the key vectors lexicographically;
  - walk `self`'s keys and `unwrap` `other.get(key)`. A missing key gives the outcome `"panic"`.

  The code's early returns are written as an `IF` chain, not a `CASE`: a `CASE` whose guards overlap is a `CHOOSE` in TLA+, while the code, like TLC, takes the first arm that holds.
- `Hash(m)` is the set of `(key, value)` streams the hasher may be fed.

The state machine has:
- two map registers, `a` and `b`;
- the operations `PutOp`, `UpdateOp`, `RemoveOp`, `TakeOp`, `FromListOp` and `FromSliceOp`;
- a list built by `ConsElem` and `NewList`, for the `from_list` runs.

The reference definitions from the spec are:
- `KeyCmp`: integers below floats of equal value;
- `SpecSortedKeys` and `SpecCmp`;
- `SpecFromList`.

## Runs

Each run is `tlc -workers 2 -config <cfg> <MC module>`.

| Run | Expect | Checks |
|---|---|---|
| `procbin_api` | pass | under `SpecApi`: `TypeOK`; `CountMatchesHandles` (a payload with handles has exactly that many counts, so `clone_to_process` never counts a copy it failed to make); `NoUseAfterFree` (spec §5); `AbstractSafety` (every step is a step of `RefcAbstract` under `HolderOf`) |
| `procbin_leak` | violation | `LastDropFrees` under `FairSpecApi`: after `from_slice`, `Drop`, `drop_slow` the payload stays live for ever, with refc = 7 = usize::MAX |
| `procbin_uncounted` | violation | `CountCoversHandles` once `clone_to_heap` is allowed |
| `procbin_uaf` | violation | `NoUseAfterFree`, violated in 5 steps across two processes |
| `map_order` | pass | `TypeOK`, `CmpFollowsSpecOrder`, `HashConsistentOnDistinctNumbers`: on maps without numeric ties, `cmp` is the spec's order and hashes agree with equality |
| `map_cmp_panic` | violation | `CmpNeverPanics`: `#{1 => v}` vs `#{1.0 => v}` panics at map.rs:267 |
| `map_hash` | violation | `HashConsistentWithCmp`: `#{1 => 1}` and `#{1 => 1.0}` compare Equal but hash differently |
| `map_from_list` | pass | `FromListOnTuplesFollowsSpec`: on lists of tuples, proper or improper, the code agrees with the spec |
| `map_from_list_non_tuple` | violation | `FromListFollowsSpec`: a non-tuple element is skipped rather than rejected |

The steps of `procbin_uaf`:
1. p1 calls `from_slice`.
2. p1 copies the binary to p2's heap with `clone_to_heap`, which leaves it uncounted.
3. p1 drops its handle (refc 1 → 0).
4. p2 clones the heap copy (0 → 1).
5. p1's `drop_slow` decrements 1 → 0 and frees the payload while p2 holds two handles.

Bounds:
- `MCProcBin` has two processes, two binaries in `api` and one in `leak`, `uncounted` and `uaf` (the race needs only one payload), three slots and `RefcMod = 8`. Three slots allow one original, one copy and one clone at once, which is what the race needs. A 3-bit counter makes the wrap at 0 visible.
- Symmetry over processes and binaries is sound, because no definition distinguishes them.
- `MCMap` has keys `{1, 1.0, 2}` and values `{1, 1.0, atom}`, which contain exactly the numeric ties the properties are about. Lists have at most 2 elements, enough for a duplicate key, an element after a bad one, and an improper tail.

Every mutant in `PROJECT.json` replaces one mapped definition with a plausible bug. Each one makes TLC report its property violated under the run's own cfg:
- a `clone_to_process` that counts before the fallible copy;
- a `clone_to_process` that does not count;
- a `Drop` that enters `drop_slow` one count early;
- a `DropSlow` that does not wrap;
- `Put` inserting with key and value swapped (`PutSwapped`);
- a `cmp` that does not stop at the first difference;
- an unsorted hash;
- `from_list` ignoring the tail.

Deadlock checking is off for `MCProcBin`, because a process that panicked in `clone_to_process` stops for good and the slot bound stops allocation.

Fairness. `FairSpecApi` adds weak fairness of `DropSlow(p)` for every process.
The code justifies it: `Drop` calls `drop_slow` on the same thread right after
the acquire fence, with nothing that can block in between. No other action is
fair: a process need not clone, copy or drop anything. Under this fairness
`LastDropFrees` (= `Refc!ReleasedIsFreed`) fails, so the leak is a liveness
violation of the abstract promise, while the safety part holds
(`AbstractSafety`, proved below).

## Proofs (TLAPS)

### `ProcBinProofs.tla`

The assumptions (`ConstAssumption` and `NoHandleAssumption` in `ProcBin`) are:
- `Slot` is finite;
- `RefcMod > 1`;
- `Cardinality(Slot) < RefcMod`, so the number of handles fits in a `usize`;
- the sentinels lie outside their sets.

| Theorem | Statement |
|---|---|
| `TypeCorrect` | `Spec => []TypeOK` (uncounted copies included) |
| `ApiInvariant` | `SpecApi => []IInv` |
| `ApiCountCoversHandles` | `SpecApi => []CountCoversHandles` |
| `ApiNoUseAfterFree` | `SpecApi => []NoUseAfterFree` |
| `ApiCountMatchesHandles` | `SpecApi => []CountMatchesHandles` |
| `ApiNeverFrees` | `SpecApi => []NeverFreed`: through the API the free branch of `drop_slow` is dead, so every binary leaks |

The inductive invariant `IInv` has these parts:
- `TypeOK`;
- `HandlesLive`: every handle is tracked and its payload is live;
- `DropSlowPending`: a process in `drop_slow` holds a live payload with refc 0, no handles and no other dropper;
- `RefcExact`: refc equals the number of handles, or is `RefcMod - 1` (usize::MAX after the second decrement) with no handle and no dropper;
- `NeverFreed`.

`CountCoversHandles` alone is not inductive. A count equal to the number of handles says nothing about the process waiting in `drop_slow`. `DropSlowPending` pins its state, so that the second decrement provably takes 0 to `RefcMod - 1` and never reaches the free. `IInv` was checked with TLC as an invariant before it was proved.

The proof has one lemma per action:
- `AddCounted` for `Clone` and a successful `clone_to_process`;
- `FromSliceParts`, `DropParts`, `DropSlowParts`, `PanicParts` and `UnchangedParts`.

Each case rests on cardinality facts about `HandlesOf(b)` (`HandlesAdd`, `HandlesRemove`), taken from `FiniteSetTheorems`.

### `ProcBinRefinement.tla`

`ApiRefinesAbstract`: `SpecApi => AbstractSafety`. Initial states map to
`Refc!Init`; `RefinementStep` shows that under `IInv` every `NextApi` step is a
`Refc!Next` step or a stutter of `<<payload, HolderOf>>`, one case per action,
on lemmas `HolderAdd`, `HolderRemove`, `HolderOfHandle` and `CloneIsShare`.
`IInv` is what is needed: `drop_slow` must map to a stutter, and only the
invariant's `DropSlowPending` part says the count it decrements is 0, so it
never frees.

### `MapProofs.tla`

Over `MapCore`, for every term and every map. The first two are lemmas about the term orders, which are modelled from the spec because `Term::cmp` is not under `src/`; they say nothing of `map.rs` by themselves, and the `Map` proofs below rest on them:
- `TermTiesAreNumeric`: `TermCmp` ties two distinct terms only when they are an integer and a float of equal value, the case behind the `cmp` panic and the hash disagreement;
- `KeyOrderIsStrictTotal`: the spec's key order `KeyCmp` is total, antisymmetric and transitive;
- `TakeThenPutRestores`: `put` of what `take` removed gives back `Some` of the original map.

### `MapOrderProofs.tla`

This module proves the four `Map` invariants that the `map_order` and
`map_from_list` runs check, for every key set, value set and list bound.

| Theorem | Statement |
|---|---|
| `MapTypeCorrect` | `SpecMaps => []TypeOK` |
| `MapCmpFollowsSpec` | `SpecMaps => []CmpFollowsSpecOrder` |
| `MapHashConsistent` | `SpecMaps => []HashConsistentOnDistinctNumbers` |
| `FromListOnTuples` | `SpecList => []FromListOnTuplesFollowsSpec` |

The lemma `ListTypeCorrect` (`SpecList => []TypeOK`) keeps the list a well-formed input. `TypeOK` is inductive as it stands. Each of the other three invariants follows
from `TypeOK` in the same state, so no strengthening is needed. The work is in
lemmas about the operators:
- `SortedExists` shows that every finite set of terms has an enumeration in strictly ascending `KeyCmp` order. An element's place is its `Rank`, the number of smaller elements. Rank is injective because `KeyCmp` is total, so by `FS_Injection` it is onto `0 .. n-1`, and listing elements by rank gives the enumeration. `SpecSortedKeys` is therefore never an unconstrained `CHOOSE`.
- `SortedUnique` shows that there is only one such enumeration: the first place where two of them differ leads to a contradiction.
- `SortedKeysNoTie` combines the two. On keys with no integer-float tie, `Term::cmp` is `KeyCmp` (`NoTieSameOrder`), so every outcome of `sort_unstable_by` is the spec's enumeration.
- `LexNoTie` and `LexEqEqual` cover the lexicographic comparison of the key vectors. It agrees under both orders, and it is `Equal` only on equal vectors.
- `CmpNoTie` follows. When the sizes and key vectors agree, both maps have the same key set, so the `unwrap` finds every key and the value loop is the spec's.
- `SpecCmpEqEqual` shows that the spec's order is `Equal` only on equal maps. With the singleton `SortedKeys`, this makes the `Hash` streams equal.
- `FromListOnTuples` splits on `FromList`'s arms. Any list element that is not a pair but is a tuple is the 3-tuple (`ElemTags`).

None of this needs induction. Least elements come from the well-foundedness of
`<` on `Nat` (`WFMin`, in `LeastExists`), and greatest elements from least
ones (`GreatestExists`, used for "the last pair of a key wins" in
`PairsMapType`). `sorted_keys` is written as its postcondition over
`SetToSeqs`, not as TLC's `SortSeq`, so that the provers can read it.

What stays with TLC:
- the properties that are false and are checked as violations: `CmpNeverPanics`, `HashConsistentWithCmp` and `FromListFollowsSpec`, as well as the `ProcBin` properties under `Spec` (with the uncounted copies);
- liveness (`LastDropFrees`), which needs fairness and `ENABLED`, which the provers do not handle.

## Not modelled

- Memory ordering of the atomics. The model is sequentially consistent.
- Layouts and the `Layout::for_value(&inner)` in `drop_slow`.
- The intrusive tracking link.
- Term encoding and the byte contents of a copy.
- Spec §4.3 has `clone_to_heap` count each binary it copies. The code does not. Were it to, an `Err` part-way through `Map::clone_to_heap` would leave counts that no handle releases; the model follows the code.
- `erlang:date/0`.

## Plan for later sittings

1. Release/acquire ordering of the `refc` atomics, as a weak-memory model of the fence in `Drop`.
2. `Update`, `MapRemove` and `Put` copy-on-write lemmas: the receiver is unchanged and the result differs only at the key.
3. Larger instances of `MCMap` (three-element lists) once a run fits in the time budget.
