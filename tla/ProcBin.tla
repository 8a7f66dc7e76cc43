------------------------------- MODULE ProcBin -------------------------------
(***************************************************************************)
(* The reference-counted external binary of liblumen_alloc                *)
(* (src/liblumen_alloc/src/erts/term/binary/process.rs).                   *)
(*                                                                         *)
(* A payload (ProcBinInner) holds an atomic count `refc` and the bytes; a  *)
(* handle (ProcBin) points at a payload.  Processes run on their own       *)
(* threads and touch a payload only through the handles on their own      *)
(* heap, so the count is the only contended state.  Every atomic          *)
(* read-modify-write of `refc` is one step; Drop, which performs two of    *)
(* them, is two steps with a program counter in between.                   *)
(*                                                                         *)
(* A handle is `tracked` when some owner will eventually run Drop on it    *)
(* (a Rust value, or a handle registered on the process's virtual heap),   *)
(* and untracked when it was only written into a heap by clone_to_heap:    *)
(* heap memory is reclaimed without running destructors.                   *)
(***************************************************************************)
EXTENDS Naturals, FiniteSets

CONSTANTS
  Proc,       \* processes, each running on its own scheduler thread
  Bin,        \* payload identities (allocations of ProcBinInner)
  Slot,       \* places a handle can live in; bounds the live handles
  RefcMod,    \* 2^w for the w-bit usize `refc`: fetch_add and fetch_sub
              \* wrap modulo RefcMod
  NoHandle,   \* marks an empty slot
  NoBin       \* the payload argument of an idle process

ASSUME ConstAssumption ==
  /\ IsFiniteSet(Slot)
  /\ RefcMod \in Nat \ {0, 1}
  /\ Cardinality(Slot) < RefcMod
  /\ NoBin \notin Bin

Handle == [bin : Bin, owner : Proc, tracked : BOOLEAN]

ASSUME NoHandleAssumption == NoHandle \notin Handle

VARIABLES
  payload,   \* payload[b]: "unalloc", "live" or "freed"
  refc,      \* refc[b]: the atomic count stored in the payload
  handle,    \* handle[s]: the handle in slot s, or NoHandle
  pc,        \* pc[p]: "idle", "drop_slow" (between Drop's two
             \*   decrements) or "panicked"
  dropBin,   \* dropBin[p]: the payload whose Drop p is running
  ret        \* ret[p]: the Result of p's last fallible call

vars == <<payload, refc, handle, pc, dropBin, ret>>

HandlesOf(b) == {s \in Slot : handle[s] # NoHandle /\ handle[s].bin = b}

FreeSlots == {s \in Slot : handle[s] = NoHandle}

NewSlot == CHOOSE s \in FreeSlots : TRUE

Idle(p) == pc[p] = "idle"

Init ==
  /\ payload = [b \in Bin |-> "unalloc"]
  /\ refc = [b \in Bin |-> 0]
  /\ handle = [s \in Slot |-> NoHandle]
  /\ pc = [p \in Proc |-> "idle"]
  /\ dropBin = [p \in Proc |-> NoBin]
  /\ ret = [p \in Proc |-> "none"]

(***************************************************************************)
(* ProcBin::from_slice: allocate the payload, write refc = 1, the flags    *)
(* and the bytes, and return one handle.  On allocation failure nothing is *)
(* written and Err(Alloc) is returned.                                     *)
(***************************************************************************)
FromSlice(p) ==
  /\ Idle(p)
  /\ FreeSlots # {}
  /\ \E b \in Bin :
       /\ payload[b] = "unalloc"
       /\ \/ /\ payload' = [payload EXCEPT ![b] = "live"]
             /\ refc' = [refc EXCEPT ![b] = 1]
             /\ handle' = [handle EXCEPT ![NewSlot] =
                             [bin |-> b, owner |-> p, tracked |-> TRUE]]
             /\ ret' = [ret EXCEPT ![p] = "Ok"]
          \/ /\ ret' = [ret EXCEPT ![p] = "Err"]
             /\ UNCHANGED <<payload, refc, handle>>
  /\ UNCHANGED <<pc, dropBin>>

(***************************************************************************)
(* Clone for ProcBin: fetch_add(1) on the shared count and a new handle    *)
(* with a fresh link, owned by the caller.                                 *)
(***************************************************************************)
Clone(p, s) ==
  /\ Idle(p)
  /\ handle[s] # NoHandle
  /\ handle[s].owner = p
  /\ FreeSlots # {}
  /\ LET b == handle[s].bin IN
       /\ refc' = [refc EXCEPT ![b] = (@ + 1) % RefcMod]
       /\ handle' = [handle EXCEPT ![NewSlot] =
                       [bin |-> b, owner |-> p, tracked |-> TRUE]]
  /\ UNCHANGED <<payload, pc, dropBin, ret>>

(***************************************************************************)
(* ProcBin::clone_to_process(q), run by the owner p of the source handle:  *)
(* under q's heap lock, clone_to_heap writes a handle on q's heap (no      *)
(* count), fetch_add(1) counts it and virtual_alloc registers it, so q     *)
(* will drop it.  The heap allocation is unwrap()ed: its failure panics    *)
(* p's thread.  The heap lock makes the three one step for everyone else.  *)
\* Mutant: clone_to_process counts before the unwrap, so a panic keeps it.
CloneToProcessCountFirst(p, s, q) ==
  /\ Idle(p)
  /\ handle[s] # NoHandle
  /\ handle[s].owner = p
  /\ FreeSlots # {}
  /\ LET b == handle[s].bin IN
       /\ refc' = [refc EXCEPT ![b] = (@ + 1) % RefcMod]
       /\ \/ /\ handle' = [handle EXCEPT ![NewSlot] =
                             [bin |-> b, owner |-> q, tracked |-> TRUE]]
             /\ UNCHANGED pc
          \/ /\ pc' = [pc EXCEPT ![p] = "panicked"]
             /\ UNCHANGED handle
  /\ UNCHANGED <<payload, dropBin, ret>>

\* Mutant: clone_to_process relies on clone_to_heap to count the handle.
CloneToProcessNoCount(p, s, q) ==
  /\ Idle(p)
  /\ handle[s] # NoHandle
  /\ handle[s].owner = p
  /\ FreeSlots # {}
  /\ \/ /\ handle' = [handle EXCEPT ![NewSlot] =
                        [bin |-> handle[s].bin, owner |-> q, tracked |-> TRUE]]
        /\ UNCHANGED pc
     \/ /\ pc' = [pc EXCEPT ![p] = "panicked"]
        /\ UNCHANGED handle
  /\ UNCHANGED <<payload, refc, dropBin, ret>>

(***************************************************************************)
CloneToProcess(p, s, q) ==
  /\ Idle(p)
  /\ handle[s] # NoHandle
  /\ handle[s].owner = p
  /\ FreeSlots # {}
  /\ LET b == handle[s].bin IN
       \/ /\ refc' = [refc EXCEPT ![b] = (@ + 1) % RefcMod]
          /\ handle' = [handle EXCEPT ![NewSlot] =
                          [bin |-> b, owner |-> q, tracked |-> TRUE]]
          /\ UNCHANGED pc
       \/ /\ pc' = [pc EXCEPT ![p] = "panicked"]
          /\ UNCHANGED <<refc, handle>>
  /\ UNCHANGED <<payload, dropBin, ret>>

(***************************************************************************)
(* ProcBin::clone_to_heap, reached for a binary nested in a term that is   *)
(* copied to q's heap (Map::clone_to_heap copies each key and value with   *)
(* clone_to_heap): a handle is written on q's heap with the same payload   *)
(* pointer and a fresh link; the count is not touched and the handle is    *)
(* not registered.  On allocation failure Err(Alloc) is returned.          *)
(***************************************************************************)
CloneToHeap(p, s, q) ==
  /\ Idle(p)
  /\ handle[s] # NoHandle
  /\ handle[s].owner = p
  /\ FreeSlots # {}
  /\ \/ /\ handle' = [handle EXCEPT ![NewSlot] =
                        [bin |-> handle[s].bin, owner |-> q, tracked |-> FALSE]]
        /\ ret' = [ret EXCEPT ![p] = "Ok"]
     \/ /\ ret' = [ret EXCEPT ![p] = "Err"]
        /\ UNCHANGED handle
  /\ UNCHANGED <<payload, refc, pc, dropBin>>

(***************************************************************************)
(* Map::clone_to_heap of a map term of p whose values include the binaries *)
(* of the handles in S, onto q's heap.  The map cell is allocated, then    *)
(* each entry's key and value is copied with Term::clone_to_heap: for a    *)
(* binary, ProcBin::clone_to_heap writes an uncounted handle.  The loop     *)
(* holds the destination heap by &mut and touches no count, so it is one   *)
(* step.  Any allocation failing returns Err through `?`: the map cell and *)
(* the handles written so far stay on q's heap as bytes no term refers to. *)
(***************************************************************************)
OwnHandles(p) == {s \in Slot : handle[s] # NoHandle /\ handle[s].owner = p}

\* The slots the handle copies go to: one free slot per copied handle.
Placements(S) ==
  {f \in [S -> FreeSlots] : \A s1, s2 \in S : f[s1] = f[s2] => s1 = s2}

MapCloneToHeap(p, S, q) ==
  /\ Idle(p)
  /\ S \subseteq OwnHandles(p)
  /\ \/ /\ \E f \in Placements(S) :
             handle' = [t \in Slot |->
                          IF \E s \in S : f[s] = t
                            THEN [bin |-> handle[CHOOSE s \in S : f[s] = t].bin,
                                  owner |-> q, tracked |-> FALSE]
                            ELSE handle[t]]
        /\ ret' = [ret EXCEPT ![p] = "Ok"]
     \/ /\ ret' = [ret EXCEPT ![p] = "Err"]
        /\ UNCHANGED handle
  /\ UNCHANGED <<payload, refc, pc, dropBin>>

(***************************************************************************)
\* Mutant: Drop takes the slow path one decrement early (old value 2).
DropEarly(p, s) ==
  /\ Idle(p)
  /\ handle[s] # NoHandle
  /\ handle[s].owner = p
  /\ handle[s].tracked
  /\ LET b == handle[s].bin IN
       /\ refc' = [refc EXCEPT ![b] = (@ + RefcMod - 1) % RefcMod]
       /\ handle' = [handle EXCEPT ![s] = NoHandle]
       /\ IF refc[b] = 2
            THEN /\ pc' = [pc EXCEPT ![p] = "drop_slow"]
                 /\ dropBin' = [dropBin EXCEPT ![p] = b]
            ELSE UNCHANGED <<pc, dropBin>>
  /\ UNCHANGED <<payload, ret>>

(***************************************************************************)
(* Drop for ProcBin, first half: fetch_sub(1, Release).  If the old value  *)
(* was not 1 Drop returns; otherwise it fences and calls drop_slow.  The   *)
(* handle is gone from its slot once its destructor runs.                  *)
(***************************************************************************)
Drop(p, s) ==
  /\ Idle(p)
  /\ handle[s] # NoHandle
  /\ handle[s].owner = p
  /\ handle[s].tracked
  /\ LET b == handle[s].bin IN
       /\ refc' = [refc EXCEPT ![b] = (@ + RefcMod - 1) % RefcMod]
       /\ handle' = [handle EXCEPT ![s] = NoHandle]
       /\ IF refc[b] = 1
            THEN /\ pc' = [pc EXCEPT ![p] = "drop_slow"]
                 /\ dropBin' = [dropBin EXCEPT ![p] = b]
            ELSE UNCHANGED <<pc, dropBin>>
  /\ UNCHANGED <<payload, ret>>

(***************************************************************************)
(* ProcBin::drop_slow: a second fetch_sub(1, Release) on the same count;   *)
(* the payload is freed only if that decrement returned 1.                 *)
\* Mutant: drop_slow decrements as if the count could not wrap.
DropSlowNoWrap(p) ==
  /\ pc[p] = "drop_slow"
  /\ LET b == dropBin[p] IN
       /\ refc' = [refc EXCEPT ![b] = @ - 1]
       /\ payload' = IF refc[b] = 1
                       THEN [payload EXCEPT ![b] = "freed"]
                       ELSE payload
  /\ pc' = [pc EXCEPT ![p] = "idle"]
  /\ dropBin' = [dropBin EXCEPT ![p] = NoBin]
  /\ UNCHANGED <<handle, ret>>

(***************************************************************************)
DropSlow(p) ==
  /\ pc[p] = "drop_slow"
  /\ LET b == dropBin[p] IN
       /\ refc' = [refc EXCEPT ![b] = (@ + RefcMod - 1) % RefcMod]
       /\ payload' = IF refc[b] = 1
                       THEN [payload EXCEPT ![b] = "freed"]
                       ELSE payload
  /\ pc' = [pc EXCEPT ![p] = "idle"]
  /\ dropBin' = [dropBin EXCEPT ![p] = NoBin]
  /\ UNCHANGED <<handle, ret>>

(***************************************************************************)
(* The handle API on its own, and with binaries copied inside containers.  *)
(***************************************************************************)
NextApi ==
  \/ \E p \in Proc : FromSlice(p) \/ DropSlow(p)
  \/ \E p \in Proc, s \in Slot : Clone(p, s) \/ Drop(p, s)
  \/ \E p, q \in Proc, s \in Slot : CloneToProcess(p, s, q)

Next ==
  \/ NextApi
  \/ \E p, q \in Proc, s \in Slot : CloneToHeap(p, s, q)
  \/ \E p, q \in Proc, S \in SUBSET Slot : MapCloneToHeap(p, S, q)

SpecApi == Init /\ [][NextApi]_vars

(***************************************************************************)
(* Drop calls drop_slow on the same thread right after its fence, with no  *)
(* lock or wait in between, so a process in "drop_slow" keeps taking that  *)
(* step.  Nothing else is owed: a process need never clone or drop.        *)
(***************************************************************************)
FairSpecApi == SpecApi /\ \A p \in Proc : WF_vars(DropSlow(p))

Spec == Init /\ [][Next]_vars

-----------------------------------------------------------------------------

TypeOK ==
  /\ payload \in [Bin -> {"unalloc", "live", "freed"}]
  /\ refc \in [Bin -> 0 .. RefcMod - 1]
  /\ handle \in [Slot -> Handle \cup {NoHandle}]
  /\ pc \in [Proc -> {"idle", "drop_slow", "panicked"}]
  /\ dropBin \in [Proc -> Bin \cup {NoBin}]
  /\ ret \in [Proc -> {"none", "Ok", "Err"}]

(***************************************************************************)
(* Spec §3: the count is at least the number of live handles referencing  *)
(* the payload.  Clone, clone_to_process and Drop must keep refc in step   *)
(* with the handles they create and destroy.                               *)
(***************************************************************************)
CountCoversHandles ==
  \A b \in Bin : payload[b] = "live" => refc[b] >= Cardinality(HandlesOf(b))

(***************************************************************************)
(* While a payload has handles its count is exactly their number: neither  *)
(* a Drop racing Clones on other processes, nor a clone_to_process whose   *)
(* heap allocation panics, nor drop_slow's extra decrement leaves a count  *)
(* that can never return to 0 (an overcount) or reach it early.            *)
(***************************************************************************)
CountMatchesHandles ==
  \A b \in Bin : payload[b] = "live" /\ HandlesOf(b) # {} =>
    refc[b] = Cardinality(HandlesOf(b))

(***************************************************************************)
(* Spec §5: no handle refers to a payload that has been freed, so no read  *)
(* of bytes through a handle (byte, as_bytes) is a use after free.         *)
(***************************************************************************)
NoUseAfterFree ==
  \A s \in Slot : handle[s] # NoHandle => payload[handle[s].bin] # "freed"

(***************************************************************************)
(* The refinement mapping to RefcAbstract: a slot holds the payload its    *)
(* handle points at; the payload's status is the allocation state.         *)
(***************************************************************************)
HolderOf == [s \in Slot |-> IF handle[s] = NoHandle THEN NoBin ELSE handle[s].bin]

Refc == INSTANCE RefcAbstract WITH status <- payload, holder <- HolderOf

(***************************************************************************)
(* ProcBin implements the abstract payload: from_slice allocates, Clone    *)
(* and clone_to_process share, Drop releases, and drop_slow frees a        *)
(* payload only when no handle refers to it -- whatever the interleaving   *)
(* of Drop's two decrements with other processes' clones and drops.        *)
(***************************************************************************)
AbstractSafety == Refc!Safety

(***************************************************************************)
(* Spec §3/§8.1: once the last handle of a payload is dropped (Drop, then  *)
(* drop_slow), the payload is eventually freed.                            *)
(***************************************************************************)
LastDropFrees == Refc!ReleasedIsFreed

-----------------------------------------------------------------------------
(***************************************************************************)
(* The inductive invariant of the handle API (SpecApi).  Every handle is   *)
(* tracked and refers to a live payload; a process between Drop's two      *)
(* decrements holds the only pending release of a payload whose count is  *)
(* 0 and which has no handle; and a live payload's count is its number of  *)
(* handles, or usize::MAX once drop_slow has decremented past zero.        *)
(***************************************************************************)
Dropping(b) == {p \in Proc : pc[p] = "drop_slow" /\ dropBin[p] = b}

HandlesLive ==
  \A s \in Slot : handle[s] # NoHandle =>
    /\ handle[s].tracked
    /\ payload[handle[s].bin] = "live"

DropSlowPending ==
  \A p \in Proc :
    /\ (pc[p] = "drop_slow") = (dropBin[p] # NoBin)
    /\ pc[p] = "drop_slow" =>
         LET b == dropBin[p] IN
           /\ payload[b] = "live"
           /\ refc[b] = 0
           /\ HandlesOf(b) = {}
           /\ Dropping(b) = {p}

RefcExact ==
  \A b \in Bin : payload[b] = "live" =>
    \/ refc[b] = Cardinality(HandlesOf(b))
    \/ /\ refc[b] = RefcMod - 1
       /\ HandlesOf(b) = {}
       /\ Dropping(b) = {}

NeverFreed == \A b \in Bin : payload[b] # "freed"

IInv == TypeOK /\ HandlesLive /\ DropSlowPending /\ RefcExact /\ NeverFreed

=============================================================================
