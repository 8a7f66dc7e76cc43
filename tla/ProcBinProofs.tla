---------------------------- MODULE ProcBinProofs ----------------------------
(***************************************************************************)
(* Proofs about the reference-counted binary (ProcBin): type correctness   *)
(* of every step, and, for the handle API, the exact count invariant from *)
(* which follow that the count covers the handles and that no payload is  *)
(* ever freed (so no handle can see a freed payload).                      *)
(***************************************************************************)
EXTENDS ProcBin, FiniteSetTheorems, TLAPS

\* The usize modulus exceeds the number of slots, so refc never wraps on an
\* increment while it counts handles.
LEMMA RefcModFacts ==
  /\ Cardinality(Slot) \in Nat
  /\ RefcMod \in Nat
  /\ Cardinality(Slot) < RefcMod
  /\ RefcMod > 1
<1>1. Cardinality(Slot) \in Nat
  BY ConstAssumption, FS_CardinalityType
<1>2. RefcMod \in Nat
  BY ConstAssumption
<1>3. QED
  BY <1>1, <1>2, ConstAssumption

\* NewSlot is an empty slot whenever one exists.
LEMMA NewSlotFree ==
  FreeSlots # {} => NewSlot \in Slot /\ handle[NewSlot] = NoHandle
BY DEF NewSlot, FreeSlots

\* A new handle record written into a slot is a well-typed handle.
LEMMA NewHandleType ==
  ASSUME TypeOK, NEW s \in Slot, handle[s] # NoHandle, NEW q \in Proc,
         NEW tr \in BOOLEAN
  PROVE  [bin |-> handle[s].bin, owner |-> q, tracked |-> tr] \in Handle
BY DEF TypeOK, Handle

\* Every step of the model, container copies included, preserves TypeOK.
LEMMA TypeStep == TypeOK /\ [Next]_vars => TypeOK'
<1> SUFFICES ASSUME TypeOK, [Next]_vars PROVE TypeOK'
  OBVIOUS
<1>1. CASE \E p \in Proc : FromSlice(p)
  <2>1. PICK p \in Proc : FromSlice(p)
    BY <1>1
  <2>2. PICK b \in Bin : payload[b] = "unalloc" /\
           \/ /\ payload' = [payload EXCEPT ![b] = "live"]
              /\ refc' = [refc EXCEPT ![b] = 1]
              /\ handle' = [handle EXCEPT ![NewSlot] =
                              [bin |-> b, owner |-> p, tracked |-> TRUE]]
              /\ ret' = [ret EXCEPT ![p] = "Ok"]
           \/ /\ ret' = [ret EXCEPT ![p] = "Err"]
              /\ UNCHANGED <<payload, refc, handle>>
    BY <2>1 DEF FromSlice
  <2>3. NewSlot \in Slot
    BY <2>1, NewSlotFree DEF FromSlice
  <2>4. [bin |-> b, owner |-> p, tracked |-> TRUE] \in Handle
    BY <2>2 DEF Handle
  <2>5. refc' \in [Bin -> 0 .. RefcMod - 1]
    BY <2>2, RefcModFacts DEF TypeOK
  <2>6. handle' \in [Slot -> Handle \cup {NoHandle}]
    BY <2>2, <2>3, <2>4 DEF TypeOK
  <2>7. QED
    BY <2>1, <2>2, <2>5, <2>6 DEF FromSlice, TypeOK
<1>2. CASE \E p \in Proc : DropSlow(p)
  <2>1. PICK p \in Proc : DropSlow(p)
    BY <1>2
  <2>2. refc' \in [Bin -> 0 .. RefcMod - 1]
    <3>1. CASE dropBin[p] \in Bin
      BY <2>1, <3>1, RefcModFacts DEF DropSlow, TypeOK
    <3>2. CASE dropBin[p] \notin Bin
      BY <2>1, <3>2 DEF DropSlow, TypeOK
    <3>3. QED
      BY <3>1, <3>2
  <2>3. payload' \in [Bin -> {"unalloc", "live", "freed"}]
    BY <2>1 DEF DropSlow, TypeOK
  <2>4. QED
    BY <2>1, <2>2, <2>3 DEF DropSlow, TypeOK
<1>3. CASE \E p \in Proc, s \in Slot : Clone(p, s)
  <2>1. PICK p \in Proc, s \in Slot : Clone(p, s)
    BY <1>3
  <2>2. NewSlot \in Slot /\ handle[s].bin \in Bin
    BY <2>1, NewSlotFree DEF Clone, TypeOK, Handle
  <2>3. [bin |-> handle[s].bin, owner |-> p, tracked |-> TRUE] \in Handle
    BY <2>1, NewHandleType DEF Clone
  <2>4. QED
    BY <2>1, <2>2, <2>3, RefcModFacts DEF Clone, TypeOK
<1>4. CASE \E p \in Proc, s \in Slot : Drop(p, s)
  <2>1. PICK p \in Proc, s \in Slot : Drop(p, s)
    BY <1>4
  <2>2. handle[s].bin \in Bin
    BY <2>1 DEF Drop, TypeOK, Handle
  <2>3. refc' \in [Bin -> 0 .. RefcMod - 1]
    BY <2>1, <2>2, RefcModFacts DEF Drop, TypeOK
  <2>4. handle' \in [Slot -> Handle \cup {NoHandle}]
    BY <2>1 DEF Drop, TypeOK
  <2>5. pc' \in [Proc -> {"idle", "drop_slow", "panicked"}]
        /\ dropBin' \in [Proc -> Bin \cup {NoBin}]
    BY <2>1, <2>2 DEF Drop, TypeOK
  <2>6. QED
    BY <2>1, <2>3, <2>4, <2>5 DEF Drop, TypeOK
<1>5. CASE \E p, q \in Proc, s \in Slot : CloneToProcess(p, s, q)
  <2>1. PICK p, q \in Proc, s \in Slot : CloneToProcess(p, s, q)
    BY <1>5
  <2>2. NewSlot \in Slot /\ handle[s].bin \in Bin
    BY <2>1, NewSlotFree DEF CloneToProcess, TypeOK, Handle
  <2>3. [bin |-> handle[s].bin, owner |-> q, tracked |-> TRUE] \in Handle
    BY <2>1, NewHandleType DEF CloneToProcess
  <2>4. CASE pc' = [pc EXCEPT ![p] = "panicked"] /\ UNCHANGED <<refc, handle>>
    BY <2>1, <2>4 DEF CloneToProcess, TypeOK
  <2>5. CASE /\ refc' = [refc EXCEPT ![handle[s].bin] = (@ + 1) % RefcMod]
             /\ handle' = [handle EXCEPT ![NewSlot] =
                             [bin |-> handle[s].bin, owner |-> q, tracked |-> TRUE]]
             /\ UNCHANGED pc
    <3>1. refc' \in [Bin -> 0 .. RefcMod - 1]
      BY <2>2, <2>5, RefcModFacts DEF TypeOK
    <3>2. handle' \in [Slot -> Handle \cup {NoHandle}]
      BY <2>2, <2>3, <2>5 DEF TypeOK
    <3>3. QED
      BY <2>1, <2>5, <3>1, <3>2 DEF CloneToProcess, TypeOK
  <2>6. QED
    BY <2>1, <2>4, <2>5 DEF CloneToProcess
<1>6. CASE \E p, q \in Proc, s \in Slot : CloneToHeap(p, s, q)
  <2>1. PICK p, q \in Proc, s \in Slot : CloneToHeap(p, s, q)
    BY <1>6
  <2>2. NewSlot \in Slot
    BY <2>1, NewSlotFree DEF CloneToHeap
  <2>3. [bin |-> handle[s].bin, owner |-> q, tracked |-> FALSE] \in Handle
    BY <2>1, NewHandleType DEF CloneToHeap
  <2>4. QED
    BY <2>1, <2>2, <2>3 DEF CloneToHeap, TypeOK
<1>7. CASE UNCHANGED vars
  BY <1>7 DEF vars, TypeOK
<1>8. CASE \E p, q \in Proc, S \in SUBSET Slot : MapCloneToHeap(p, S, q)
  <2>1. PICK p, q \in Proc, S \in SUBSET Slot : MapCloneToHeap(p, S, q)
    BY <1>8
  <2>2. \A s \in S : handle[s].bin \in Bin
    BY <2>1 DEF MapCloneToHeap, OwnHandles, TypeOK, Handle
  <2>3. CASE UNCHANGED handle /\ ret' = [ret EXCEPT ![p] = "Err"]
    BY <2>1, <2>3 DEF MapCloneToHeap, TypeOK
  <2>4. CASE /\ \E f \in Placements(S) :
                 handle' = [t \in Slot |->
                              IF \E s \in S : f[s] = t
                                THEN [bin |-> handle[CHOOSE s \in S : f[s] = t].bin,
                                      owner |-> q, tracked |-> FALSE]
                                ELSE handle[t]]
             /\ ret' = [ret EXCEPT ![p] = "Ok"]
    <3>1. PICK f \in Placements(S) :
            handle' = [t \in Slot |->
                         IF \E s \in S : f[s] = t
                           THEN [bin |-> handle[CHOOSE s \in S : f[s] = t].bin,
                                 owner |-> q, tracked |-> FALSE]
                           ELSE handle[t]]
      BY <2>4
    <3>2. ASSUME NEW t \in Slot, \E s \in S : f[s] = t
          PROVE  [bin |-> handle[CHOOSE s \in S : f[s] = t].bin,
                  owner |-> q, tracked |-> FALSE] \in Handle
      <4>1. (CHOOSE s \in S : f[s] = t) \in S
        BY <3>2
      <4>2. QED
        BY <4>1, <2>2 DEF Handle
    <3>3. handle' \in [Slot -> Handle \cup {NoHandle}]
      BY <3>1, <3>2 DEF TypeOK
    <3>4. QED
      BY <2>1, <2>4, <3>3 DEF MapCloneToHeap, TypeOK
  <2>5. QED
    BY <2>1, <2>3, <2>4 DEF MapCloneToHeap
<1>9. QED
  BY <1>1, <1>2, <1>3, <1>4, <1>5, <1>6, <1>7, <1>8 DEF Next, NextApi

\* The handles of a payload are a finite set of slots.
LEMMA HandlesFinite ==
  ASSUME NEW b
  PROVE  /\ IsFiniteSet(HandlesOf(b))
         /\ Cardinality(HandlesOf(b)) \in Nat
         /\ Cardinality(HandlesOf(b)) <= Cardinality(Slot)
<1>1. HandlesOf(b) \in SUBSET Slot
  BY DEF HandlesOf
<1>2. QED
  BY <1>1, ConstAssumption, FS_Subset, FS_CardinalityType

\* Writing a handle into an empty slot adds that slot to its payload's handles.
LEMMA HandlesAdd ==
  ASSUME handle \in [Slot -> Handle \cup {NoHandle}],
         NEW s0 \in Slot, handle[s0] = NoHandle, NEW h \in Handle,
         handle' = [handle EXCEPT ![s0] = h], NEW b
  PROVE  HandlesOf(b)' = IF b = h.bin THEN HandlesOf(b) \cup {s0} ELSE HandlesOf(b)
BY NoHandleAssumption DEF HandlesOf

\* Emptying a slot removes it from the handles of every payload.
LEMMA HandlesRemove ==
  ASSUME handle \in [Slot -> Handle \cup {NoHandle}],
         NEW s0 \in Slot, handle' = [handle EXCEPT ![s0] = NoHandle], NEW b
  PROVE  HandlesOf(b)' = HandlesOf(b) \ {s0}
BY DEF HandlesOf

(***************************************************************************)
(* Type correctness: in every behaviour of ProcBin, the handle API with    *)
(* binaries copied inside containers, every variable keeps its type; in    *)
(* particular the wrapping fetch_add/fetch_sub keep refc a usize.          *)
(***************************************************************************)
THEOREM TypeCorrect == Spec => []TypeOK
<1>1. Init => TypeOK
  BY RefcModFacts DEF Init, TypeOK
<1>2. QED
  BY <1>1, TypeStep, PTL DEF Spec


-----------------------------------------------------------------------------
(***************************************************************************)
(* The count invariant of the handle API.  IInv (in ProcBin) is TypeOK     *)
(* and the four parts below; each lemma shows one kind of step keeps them. *)
(***************************************************************************)
CountParts == HandlesLive /\ DropSlowPending /\ RefcExact /\ NeverFreed

\* The count of a payload with a handle is exactly its number of handles.
LEMMA RefcOfHandled ==
  ASSUME IInv, NEW b \in Bin, payload[b] = "live", HandlesOf(b) # {}
  PROVE  refc[b] = Cardinality(HandlesOf(b))
BY DEF IInv, RefcExact

\* A payload being released by drop_slow has no handle.
LEMMA DroppingHasNoHandle ==
  ASSUME IInv, NEW q \in Proc, pc[q] = "drop_slow"
  PROVE  /\ dropBin[q] \in Bin
         /\ HandlesOf(dropBin[q]) = {}
         /\ refc[dropBin[q]] = 0
         /\ payload[dropBin[q]] = "live"
         /\ Dropping(dropBin[q]) = {q}
BY DEF IInv, DropSlowPending, TypeOK

(***************************************************************************)
(* Clone and clone_to_process: a counted handle of the payload of handle s *)
(* is written into a free slot and refc is incremented.                    *)
(***************************************************************************)
LEMMA AddCounted ==
  ASSUME IInv, NEW s \in Slot, handle[s] # NoHandle, FreeSlots # {},
         NEW h \in Handle, h.bin = handle[s].bin, h.tracked,
         refc' = [refc EXCEPT ![h.bin] = (@ + 1) % RefcMod],
         handle' = [handle EXCEPT ![NewSlot] = h],
         UNCHANGED <<payload, pc, dropBin>>
  PROVE  CountParts'
<1> DEFINE b == h.bin
           s0 == NewSlot
<1>1. b \in Bin /\ payload[b] = "live" /\ s \in HandlesOf(b)
  BY DEF IInv, HandlesLive, TypeOK, HandlesOf, Handle
<1>2. s0 \in Slot /\ handle[s0] = NoHandle /\ s0 \notin HandlesOf(b)
  BY NewSlotFree DEF HandlesOf
<1>3. \A c \in Bin : HandlesOf(c)' = IF c = b THEN HandlesOf(c) \cup {s0} ELSE HandlesOf(c)
  BY <1>2, HandlesAdd DEF IInv, TypeOK
<1>4. refc[b] = Cardinality(HandlesOf(b))
  BY <1>1, RefcOfHandled
<1>5. /\ Cardinality(HandlesOf(b) \cup {s0}) = Cardinality(HandlesOf(b)) + 1
      /\ Cardinality(HandlesOf(b) \cup {s0}) <= Cardinality(Slot)
  <2>1. IsFiniteSet(HandlesOf(b))
    BY HandlesFinite
  <2>2. HandlesOf(b) \cup {s0} \in SUBSET Slot
    BY <1>2 DEF HandlesOf
  <2>3. QED
    BY <1>2, <2>1, <2>2, FS_AddElement, FS_Subset, ConstAssumption
<1>6. refc'[b] = Cardinality(HandlesOf(b)')
  <2>1. HandlesOf(b)' = HandlesOf(b) \cup {s0}
    BY <1>1, <1>3
  <2>2. refc'[b] = (refc[b] + 1) % RefcMod
    BY <1>1 DEF IInv, TypeOK
  <2>3. refc[b] \in Nat /\ refc[b] + 1 < RefcMod
    BY <1>4, <1>5, HandlesFinite, RefcModFacts
  <2>4. QED
    BY <1>4, <1>5, <2>1, <2>2, <2>3, RefcModFacts
<1>7. \A c \in Bin \ {b} : refc'[c] = refc[c] /\ HandlesOf(c)' = HandlesOf(c)
  BY <1>3 DEF IInv, TypeOK
<1>8. \A c \in Bin : Dropping(c)' = Dropping(c)
  BY DEF Dropping
<1>9. HandlesLive'
  BY <1>1, <1>2 DEF IInv, HandlesLive, TypeOK
<1>10. DropSlowPending'
  <2> SUFFICES ASSUME NEW q \in Proc, pc[q] = "drop_slow"
               PROVE  LET c == dropBin[q] IN
                        /\ payload[c] = "live"
                        /\ refc'[c] = 0
                        /\ HandlesOf(c)' = {}
                        /\ Dropping(c)' = {q}
    BY DEF IInv, DropSlowPending
  <2>1. dropBin[q] # b
    BY <1>1, DroppingHasNoHandle
  <2>2. QED
    BY <1>7, <1>8, <2>1, DroppingHasNoHandle
<1>11. RefcExact'
  <2> SUFFICES ASSUME NEW c \in Bin, payload[c] = "live"
               PROVE  \/ refc'[c] = Cardinality(HandlesOf(c)')
                      \/ /\ refc'[c] = RefcMod - 1
                         /\ HandlesOf(c)' = {}
                         /\ Dropping(c)' = {}
    BY DEF RefcExact
  <2>1. CASE c = b
    BY <1>6, <2>1
  <2>2. CASE c # b
    BY <1>7, <1>8, <2>2 DEF IInv, RefcExact
  <2>3. QED
    BY <2>1, <2>2
<1>12. NeverFreed'
  BY DEF IInv, NeverFreed
<1>13. QED
  BY <1>9, <1>10, <1>11, <1>12 DEF CountParts


(***************************************************************************)
(* from_slice: a fresh payload with refc = 1 and its one handle.           *)
(***************************************************************************)
LEMMA FromSliceParts ==
  ASSUME IInv, NEW p \in Proc, NEW b \in Bin, payload[b] = "unalloc",
         FreeSlots # {},
         payload' = [payload EXCEPT ![b] = "live"],
         refc' = [refc EXCEPT ![b] = 1],
         handle' = [handle EXCEPT ![NewSlot] = [bin |-> b, owner |-> p, tracked |-> TRUE]],
         UNCHANGED <<pc, dropBin>>
  PROVE  CountParts'
<1> DEFINE s0 == NewSlot
           h == [bin |-> b, owner |-> p, tracked |-> TRUE]
<1>1. s0 \in Slot /\ handle[s0] = NoHandle /\ h \in Handle
  BY NewSlotFree DEF Handle
<1>2. HandlesOf(b) = {}
  BY DEF IInv, HandlesLive, HandlesOf
<1>3. \A c \in Bin : HandlesOf(c)' = IF c = b THEN {s0} ELSE HandlesOf(c)
  BY <1>1, <1>2, HandlesAdd DEF IInv, TypeOK
<1>4. \A c \in Bin : Dropping(c)' = Dropping(c)
  BY DEF Dropping
<1>5. HandlesLive'
  BY <1>1 DEF IInv, HandlesLive, TypeOK
<1>6. DropSlowPending'
  <2> SUFFICES ASSUME NEW q \in Proc, pc[q] = "drop_slow"
               PROVE  LET c == dropBin[q] IN
                        /\ payload'[c] = "live"
                        /\ refc'[c] = 0
                        /\ HandlesOf(c)' = {}
                        /\ Dropping(c)' = {q}
    BY DEF IInv, DropSlowPending
  <2>1. dropBin[q] \in Bin \ {b}
    BY DroppingHasNoHandle
  <2>2. QED
    BY <1>3, <1>4, <2>1, DroppingHasNoHandle DEF IInv, TypeOK
<1>7. RefcExact'
  <2> SUFFICES ASSUME NEW c \in Bin, payload'[c] = "live"
               PROVE  \/ refc'[c] = Cardinality(HandlesOf(c)')
                      \/ /\ refc'[c] = RefcMod - 1
                         /\ HandlesOf(c)' = {}
                         /\ Dropping(c)' = {}
    BY DEF RefcExact
  <2>1. CASE c = b
    BY <1>3, <2>1, FS_Singleton DEF IInv, TypeOK
  <2>2. CASE c # b
    BY <1>3, <1>4, <2>2 DEF IInv, TypeOK, RefcExact
  <2>3. QED
    BY <2>1, <2>2
<1>8. NeverFreed'
  BY DEF IInv, TypeOK, NeverFreed
<1>9. QED
  BY <1>5, <1>6, <1>7, <1>8 DEF CountParts

(***************************************************************************)
(* Drop: the handle leaves its slot and refc is decremented; when the old  *)
(* count was 1 the process goes on to drop_slow with the payload.          *)
(***************************************************************************)
LEMMA DropParts ==
  ASSUME IInv, NEW p \in Proc, NEW s \in Slot, Drop(p, s)
  PROVE  CountParts'
<1>0. PICK b \in Bin : b = handle[s].bin
  BY DEF Drop, IInv, TypeOK, Handle
<1>1. payload[b] = "live" /\ s \in HandlesOf(b) /\ pc[p] = "idle"
  BY <1>0 DEF Drop, IInv, HandlesLive, TypeOK, HandlesOf, Idle
<1>2. \A c \in Bin : HandlesOf(c)' = HandlesOf(c) \ {s}
  BY HandlesRemove DEF Drop, IInv, TypeOK
<1>3. \A c \in Bin \ {b} : HandlesOf(c)' = HandlesOf(c)
  BY <1>0, <1>2 DEF HandlesOf
<1>4. refc[b] = Cardinality(HandlesOf(b)) /\ refc[b] >= 1
  BY <1>1, RefcOfHandled, HandlesFinite, FS_EmptySet
<1>5. Cardinality(HandlesOf(b)') = refc[b] - 1
  BY <1>1, <1>2, <1>4, HandlesFinite, FS_RemoveElement
<1>6. refc'[b] = refc[b] - 1 /\ \A c \in Bin \ {b} : refc'[c] = refc[c]
  BY <1>0, <1>1, <1>4, RefcModFacts DEF Drop, IInv, TypeOK
<1>7. Dropping(b) = {}
  BY <1>1, DroppingHasNoHandle DEF Dropping
<1>8. \A q \in Proc \ {p} : pc'[q] = pc[q] /\ dropBin'[q] = dropBin[q]
  BY DEF Drop, IInv, TypeOK
<1>9. \A c \in Bin \ {b} : Dropping(c)' = Dropping(c)
  <2>1. \/ pc'[p] = pc[p] /\ dropBin'[p] = dropBin[p]
        \/ dropBin'[p] = b
    BY <1>0, <1>1 DEF Drop, IInv, TypeOK
  <2>2. pc[p] # "drop_slow"
    BY <1>1
  <2>3. QED
    BY <1>8, <2>1, <2>2 DEF Dropping
<1>10. HandlesLive'
  BY <1>2 DEF Drop, IInv, HandlesLive, TypeOK, HandlesOf
<1>11. CASE refc[b] = 1
  <2>1. pc'[p] = "drop_slow" /\ dropBin'[p] = b
    BY <1>0, <1>1, <1>11 DEF Drop, IInv, TypeOK
  <2>2. HandlesOf(b)' = {} /\ refc'[b] = 0
    <3>1. IsFiniteSet(HandlesOf(b)')
      BY <1>2, HandlesFinite, FS_RemoveElement
    <3>2. QED
      BY <1>5, <1>6, <1>11, <3>1, FS_EmptySet
  <2>3. Dropping(b)' = {p}
    BY <1>7, <1>8, <2>1 DEF Dropping
  <2>4. DropSlowPending'
    <3> SUFFICES ASSUME NEW q \in Proc
                 PROVE  (/\ (pc[q] = "drop_slow") = (dropBin[q] # NoBin)
                         /\ pc[q] = "drop_slow" =>
                              /\ payload[dropBin[q]] = "live"
                              /\ refc[dropBin[q]] = 0
                              /\ HandlesOf(dropBin[q]) = {}
                              /\ Dropping(dropBin[q]) = {q})'
      BY DEF DropSlowPending
    <3>1. CASE q = p
      <4>1. payload'[b] = "live" /\ b # NoBin
        BY <1>1, ConstAssumption DEF Drop
      <4>2. QED
        BY <2>1, <2>2, <2>3, <3>1, <4>1 DEF HandlesOf, Dropping
    <3>2. CASE q # p /\ pc[q] = "drop_slow"
      <4>1. PICK c \in Bin \ {b} : c = dropBin[q]
        BY <1>1, <3>2, DroppingHasNoHandle
      <4>2. /\ pc'[q] = pc[q] /\ dropBin'[q] = c
            /\ payload'[c] = "live" /\ refc'[c] = 0
            /\ HandlesOf(c)' = {} /\ Dropping(c)' = {q}
        BY <1>3, <1>6, <1>8, <1>9, <3>2, <4>1, DroppingHasNoHandle DEF Drop
      <4>3. dropBin[q] # NoBin
        BY <3>2 DEF IInv, DropSlowPending
      <4>4. QED
        BY <3>2, <4>1, <4>2, <4>3 DEF HandlesOf, Dropping
    <3>3. CASE q # p /\ pc[q] # "drop_slow"
      BY <1>8, <3>3 DEF IInv, DropSlowPending
    <3>4. QED
      BY <3>1, <3>2, <3>3
  <2>5. RefcExact'
    <3> SUFFICES ASSUME NEW c \in Bin, payload'[c] = "live"
                 PROVE  \/ refc'[c] = Cardinality(HandlesOf(c)')
                        \/ /\ refc'[c] = RefcMod - 1
                           /\ HandlesOf(c)' = {}
                           /\ Dropping(c)' = {}
      BY DEF RefcExact
    <3>1. CASE c = b
      BY <1>5, <1>6, <3>1
    <3>2. CASE c # b
      BY <1>3, <1>6, <1>9, <3>2 DEF Drop, IInv, RefcExact
    <3>3. QED
      BY <3>1, <3>2
  <2>6. QED
    BY <1>10, <2>4, <2>5 DEF Drop, IInv, NeverFreed, CountParts
<1>12. CASE refc[b] # 1
  <2>1. UNCHANGED <<pc, dropBin>>
    BY <1>0, <1>1, <1>12 DEF Drop
  <2>2. \A c \in Bin : Dropping(c)' = Dropping(c)
    BY <2>1 DEF Dropping
  <2>3. DropSlowPending'
    <3> SUFFICES ASSUME NEW q \in Proc, pc[q] = "drop_slow"
                 PROVE  LET c == dropBin[q] IN
                          /\ payload'[c] = "live"
                          /\ refc'[c] = 0
                          /\ HandlesOf(c)' = {}
                          /\ Dropping(c)' = {q}
      BY <2>1 DEF IInv, DropSlowPending
    <3>1. PICK c \in Bin \ {b} : c = dropBin[q]
      BY <1>1, DroppingHasNoHandle
    <3>2. payload'[c] = "live" /\ refc'[c] = 0 /\ HandlesOf(c)' = {} /\ Dropping(c)' = {q}
      BY <1>3, <1>6, <2>2, <3>1, DroppingHasNoHandle DEF Drop
    <3>3. QED
      BY <2>1, <3>1, <3>2
  <2>4. RefcExact'
    <3> SUFFICES ASSUME NEW c \in Bin, payload'[c] = "live"
                 PROVE  \/ refc'[c] = Cardinality(HandlesOf(c)')
                        \/ /\ refc'[c] = RefcMod - 1
                           /\ HandlesOf(c)' = {}
                           /\ Dropping(c)' = {}
      BY DEF RefcExact
    <3>1. CASE c = b
      BY <1>5, <1>6, <3>1
    <3>2. CASE c # b
      BY <1>3, <1>6, <2>2, <3>2 DEF Drop, IInv, RefcExact
    <3>3. QED
      BY <3>1, <3>2
  <2>5. QED
    BY <1>10, <2>3, <2>4 DEF Drop, IInv, NeverFreed, CountParts
<1>13. QED
  BY <1>11, <1>12


(***************************************************************************)
(* drop_slow: the second decrement takes the count of a payload with no    *)
(* handle from 0 to RefcMod - 1; the free branch is not taken.             *)
(***************************************************************************)
LEMMA DropSlowParts ==
  ASSUME IInv, NEW p \in Proc, DropSlow(p)
  PROVE  CountParts'
<1>1. PICK b \in Bin : b = dropBin[p]
  BY DroppingHasNoHandle DEF DropSlow
<1>2. /\ HandlesOf(b) = {} /\ refc[b] = 0 /\ payload[b] = "live"
      /\ Dropping(b) = {p}
  BY <1>1, DroppingHasNoHandle DEF DropSlow
<1>3. refc'[b] = RefcMod - 1 /\ \A c \in Bin \ {b} : refc'[c] = refc[c]
  BY <1>1, <1>2, RefcModFacts DEF DropSlow, IInv, TypeOK
<1>4. payload' = payload /\ handle' = handle
  BY <1>1, <1>2 DEF DropSlow
<1>5. \A c \in Bin : HandlesOf(c)' = HandlesOf(c)
  BY <1>4 DEF HandlesOf
<1>6. /\ pc'[p] = "idle" /\ dropBin'[p] = NoBin
      /\ \A q \in Proc \ {p} : pc'[q] = pc[q] /\ dropBin'[q] = dropBin[q]
  BY DEF DropSlow, IInv, TypeOK
<1>7. Dropping(b)' = {} /\ \A c \in Bin \ {b} : Dropping(c)' = Dropping(c)
  BY <1>1, <1>2, <1>6 DEF Dropping
<1>8. HandlesLive'
  BY <1>4 DEF IInv, HandlesLive
<1>9. DropSlowPending'
  <2> SUFFICES ASSUME NEW q \in Proc
               PROVE  (/\ (pc[q] = "drop_slow") = (dropBin[q] # NoBin)
                       /\ pc[q] = "drop_slow" =>
                            /\ payload[dropBin[q]] = "live"
                            /\ refc[dropBin[q]] = 0
                            /\ HandlesOf(dropBin[q]) = {}
                            /\ Dropping(dropBin[q]) = {q})'
    BY DEF DropSlowPending
  <2>1. CASE q = p
    BY <1>6, <2>1
  <2>2. CASE q # p /\ pc[q] = "drop_slow"
    <3>1. PICK c \in Bin \ {b} : c = dropBin[q]
      BY <1>2, <2>2, DroppingHasNoHandle DEF Dropping
    <3>2. payload'[c] = "live" /\ refc'[c] = 0 /\ HandlesOf(c)' = {} /\ Dropping(c)' = {q}
      BY <1>3, <1>4, <1>5, <1>7, <2>2, <3>1, DroppingHasNoHandle
    <3>3. dropBin[q] # NoBin
      BY <2>2 DEF IInv, DropSlowPending
    <3>4. QED
      BY <1>6, <2>2, <3>1, <3>2, <3>3 DEF HandlesOf, Dropping
  <2>3. CASE q # p /\ pc[q] # "drop_slow"
    BY <1>6, <2>3 DEF IInv, DropSlowPending
  <2>4. QED
    BY <2>1, <2>2, <2>3
<1>10. RefcExact'
  <2> SUFFICES ASSUME NEW c \in Bin, payload'[c] = "live"
               PROVE  \/ refc'[c] = Cardinality(HandlesOf(c)')
                      \/ /\ refc'[c] = RefcMod - 1
                         /\ HandlesOf(c)' = {}
                         /\ Dropping(c)' = {}
    BY DEF RefcExact
  <2>1. CASE c = b
    BY <1>2, <1>3, <1>5, <1>7, <2>1
  <2>2. CASE c # b
    BY <1>3, <1>4, <1>5, <1>7, <2>2 DEF IInv, RefcExact
  <2>3. QED
    BY <2>1, <2>2
<1>11. NeverFreed'
  BY <1>4 DEF IInv, NeverFreed
<1>12. QED
  BY <1>8, <1>9, <1>10, <1>11 DEF CountParts

\* clone_to_process panicking on a failed heap allocation stops an idle
\* process and changes nothing else of the count's state.
LEMMA PanicParts ==
  ASSUME IInv, NEW p \in Proc, pc[p] = "idle",
         pc' = [pc EXCEPT ![p] = "panicked"],
         UNCHANGED <<payload, refc, handle, dropBin>>
  PROVE  CountParts'
<1>1. \A c \in Bin : HandlesOf(c)' = HandlesOf(c) /\ Dropping(c)' = Dropping(c)
  BY DEF HandlesOf, Dropping, IInv, TypeOK
<1>2. HandlesLive' /\ NeverFreed'
  BY DEF IInv, HandlesLive, NeverFreed
<1>3. DropSlowPending'
  <2> SUFFICES ASSUME NEW q \in Proc
               PROVE  (/\ (pc[q] = "drop_slow") = (dropBin[q] # NoBin)
                       /\ pc[q] = "drop_slow" =>
                            /\ payload[dropBin[q]] = "live"
                            /\ refc[dropBin[q]] = 0
                            /\ HandlesOf(dropBin[q]) = {}
                            /\ Dropping(dropBin[q]) = {q})'
    BY DEF DropSlowPending
  <2>1. CASE q = p
    BY <2>1 DEF IInv, DropSlowPending, TypeOK
  <2>2. CASE q # p
    <3>1. pc'[q] = pc[q]
      BY <2>2 DEF IInv, TypeOK
    <3>2. QED
      BY <1>1, <3>1 DEF IInv, DropSlowPending, TypeOK
  <2>3. QED
    BY <2>1, <2>2
<1>4. RefcExact'
  BY <1>1 DEF IInv, RefcExact
<1>5. QED
  BY <1>2, <1>3, <1>4 DEF CountParts


\* A step that leaves the payloads, counts, handles and program counters
\* alone (an Err result of from_slice, or a stutter) keeps the parts.
LEMMA UnchangedParts ==
  ASSUME IInv, UNCHANGED <<payload, refc, handle, pc, dropBin>>
  PROVE  CountParts'
BY DEF IInv, CountParts, HandlesLive, DropSlowPending, RefcExact, NeverFreed,
       HandlesOf, Dropping

LEMMA ApiStep == IInv /\ [NextApi]_vars => IInv'
<1> SUFFICES ASSUME IInv, [NextApi]_vars PROVE IInv'
  OBVIOUS
<1>1. TypeOK'
  BY TypeStep DEF IInv, Next
<1>2. CountParts'
  <2>1. CASE \E p \in Proc : FromSlice(p)
    <3>1. PICK p \in Proc, b \in Bin : FromSlice(p) /\ payload[b] = "unalloc" /\
            \/ /\ payload' = [payload EXCEPT ![b] = "live"]
               /\ refc' = [refc EXCEPT ![b] = 1]
               /\ handle' = [handle EXCEPT ![NewSlot] =
                               [bin |-> b, owner |-> p, tracked |-> TRUE]]
               /\ ret' = [ret EXCEPT ![p] = "Ok"]
            \/ /\ ret' = [ret EXCEPT ![p] = "Err"]
               /\ UNCHANGED <<payload, refc, handle>>
      BY <2>1 DEF FromSlice
    <3>2. QED
      BY <3>1, FromSliceParts, UnchangedParts DEF FromSlice
  <2>2. CASE \E p \in Proc : DropSlow(p)
    BY <2>2, DropSlowParts
  <2>3. CASE \E p \in Proc, s \in Slot : Clone(p, s)
    <3>1. PICK p \in Proc, s \in Slot : Clone(p, s)
      BY <2>3
    <3>2. [bin |-> handle[s].bin, owner |-> p, tracked |-> TRUE] \in Handle
      BY <3>1, NewHandleType DEF Clone, IInv
    <3>3. QED
      BY <3>1, <3>2, AddCounted DEF Clone
  <2>4. CASE \E p \in Proc, s \in Slot : Drop(p, s)
    BY <2>4, DropParts
  <2>5. CASE \E p, q \in Proc, s \in Slot : CloneToProcess(p, s, q)
    <3>1. PICK p, q \in Proc, s \in Slot : CloneToProcess(p, s, q)
      BY <2>5
    <3>2. [bin |-> handle[s].bin, owner |-> q, tracked |-> TRUE] \in Handle
      BY <3>1, NewHandleType DEF CloneToProcess, IInv
    <3>3. QED
      BY <3>1, <3>2, AddCounted, PanicParts DEF CloneToProcess, Idle
  <2>6. CASE UNCHANGED vars
    BY <2>6, UnchangedParts DEF vars
  <2>7. QED
    BY <2>1, <2>2, <2>3, <2>4, <2>5, <2>6 DEF NextApi
<1>3. QED
  BY <1>1, <1>2 DEF IInv, CountParts

(***************************************************************************)
(* The count invariant holds in every behaviour of the handle API          *)
(* (from_slice, Clone, clone_to_process, Drop/drop_slow), for any number  *)
(* of processes, payloads and slots below the usize modulus.               *)
(***************************************************************************)
THEOREM ApiInvariant == SpecApi => []IInv
<1>1. Init => IInv
  BY RefcModFacts, ConstAssumption
     DEF Init, IInv, TypeOK, HandlesLive, DropSlowPending, RefcExact,
         NeverFreed, HandlesOf
<1>2. QED
  BY <1>1, ApiStep, PTL DEF SpecApi

(***************************************************************************)
(* Spec 3 for the handle API: the count of a live payload is never below   *)
(* the number of its handles, whatever the interleaving of Clone,          *)
(* clone_to_process and Drop across processes.                             *)
(***************************************************************************)
THEOREM ApiCountCoversHandles == SpecApi => []CountCoversHandles
<1>1. IInv => CountCoversHandles
  <2> SUFFICES ASSUME IInv, NEW b \in Bin, payload[b] = "live"
               PROVE  refc[b] >= Cardinality(HandlesOf(b))
    BY DEF CountCoversHandles
  <2>1. Cardinality(HandlesOf(b)) \in Nat
    BY HandlesFinite
  <2>2. QED
    BY <2>1, RefcModFacts, FS_EmptySet DEF IInv, RefcExact
<1>2. QED
  BY <1>1, ApiInvariant, PTL

(***************************************************************************)
(* Through the handle API a payload with handles has a count equal to     *)
(* their number: clone_to_process counts only after its allocation        *)
(* succeeded, and Drop's two decrements never overlap a live handle.      *)
(***************************************************************************)
THEOREM ApiCountMatchesHandles == SpecApi => []CountMatchesHandles
<1>1. IInv => CountMatchesHandles
  BY RefcOfHandled DEF CountMatchesHandles
<1>2. QED
  BY <1>1, ApiInvariant, PTL

(***************************************************************************)
(* Through the handle API no payload is ever freed: drop_slow decrements   *)
(* the count a second time, from 0, so its free branch is dead, and the    *)
(* payload of every dropped binary leaks (see the run procbin_leak).       *)
(***************************************************************************)
THEOREM ApiNeverFrees == SpecApi => []NeverFreed
BY ApiInvariant, PTL DEF IInv

(***************************************************************************)
(* Spec 5 for the handle API: no handle ever refers to a freed payload.    *)
(***************************************************************************)
THEOREM ApiNoUseAfterFree == SpecApi => []NoUseAfterFree
<1>1. IInv => NoUseAfterFree
  BY DEF IInv, NeverFreed, NoUseAfterFree, TypeOK, Handle
<1>2. QED
  BY <1>1, ApiInvariant, PTL

=============================================================================
