-------------------------- MODULE ProcBinRefinement --------------------------
(***************************************************************************)
(* Proof that the handle API of ProcBin implements the abstract payload    *)
(* of RefcAbstract under the mapping HolderOf: every initial state maps to *)
(* an initial state, and every step of SpecApi maps to an abstract step or *)
(* a stutter.  The count invariant IInv of ProcBinProofs is what makes     *)
(* drop_slow a stutter: it never frees.                                    *)
(***************************************************************************)
EXTENDS ProcBinProofs

\* Writing a handle into a slot makes that slot hold the handle's payload.
LEMMA HolderAdd ==
  ASSUME handle \in [Slot -> Handle \cup {NoHandle}],
         NEW s0 \in Slot, NEW h \in Handle,
         handle' = [handle EXCEPT ![s0] = h]
  PROVE  HolderOf' = [HolderOf EXCEPT ![s0] = h.bin]
BY NoHandleAssumption DEF HolderOf

\* Emptying a slot makes it hold no payload.
LEMMA HolderRemove ==
  ASSUME handle \in [Slot -> Handle \cup {NoHandle}],
         NEW s0 \in Slot, handle' = [handle EXCEPT ![s0] = NoHandle]
  PROVE  HolderOf' = [HolderOf EXCEPT ![s0] = NoBin]
BY DEF HolderOf

\* A slot with a handle holds a payload, never NoBin.
LEMMA HolderOfHandle ==
  ASSUME TypeOK, NEW s \in Slot, handle[s] # NoHandle
  PROVE  HolderOf[s] = handle[s].bin /\ HolderOf[s] # NoBin
BY ConstAssumption DEF TypeOK, Handle, HolderOf

\* The clone of the handle in s into NewSlot is an abstract Share.
LEMMA CloneIsShare ==
  ASSUME TypeOK, NEW s \in Slot, handle[s] # NoHandle, FreeSlots # {},
         NEW h \in Handle, h.bin = handle[s].bin,
         handle' = [handle EXCEPT ![NewSlot] = h], UNCHANGED payload
  PROVE  Refc!Share(s, NewSlot)
<1>1. NewSlot \in Slot /\ handle[NewSlot] = NoHandle
  BY NewSlotFree
<1>2. HolderOf[NewSlot] = NoBin
  BY <1>1 DEF HolderOf
<1>3. HolderOf' = [HolderOf EXCEPT ![NewSlot] = h.bin]
  BY <1>1, HolderAdd DEF TypeOK
<1>4. HolderOf[s] = h.bin /\ HolderOf[s] # NoBin
  BY HolderOfHandle
<1>5. QED
  BY <1>2, <1>3, <1>4 DEF Refc!Share

LEMMA RefinementStep ==
  IInv /\ [NextApi]_vars => [Refc!Next]_Refc!avars
<1> SUFFICES ASSUME IInv, [NextApi]_vars PROVE [Refc!Next]_Refc!avars
  OBVIOUS
<1>0. TypeOK
  BY DEF IInv
<1>1. CASE \E p \in Proc : FromSlice(p)
  <2>1. PICK p \in Proc, b \in Bin : FromSlice(p) /\ payload[b] = "unalloc" /\
          \/ /\ payload' = [payload EXCEPT ![b] = "live"]
             /\ handle' = [handle EXCEPT ![NewSlot] =
                             [bin |-> b, owner |-> p, tracked |-> TRUE]]
          \/ UNCHANGED <<payload, handle>>
    BY <1>1 DEF FromSlice
  <2>2. NewSlot \in Slot /\ handle[NewSlot] = NoHandle
    BY <2>1, NewSlotFree DEF FromSlice
  <2>3. CASE UNCHANGED <<payload, handle>>
    BY <2>3 DEF Refc!avars, HolderOf
  <2>4. CASE handle' = [handle EXCEPT ![NewSlot] =
                          [bin |-> b, owner |-> p, tracked |-> TRUE]]
             /\ payload' = [payload EXCEPT ![b] = "live"]
    <3>1. [bin |-> b, owner |-> p, tracked |-> TRUE] \in Handle
      BY DEF Handle
    <3>2. HolderOf' = [HolderOf EXCEPT ![NewSlot] = b]
      BY <2>2, <2>4, <3>1, <1>0, HolderAdd DEF TypeOK
    <3>3. HolderOf[NewSlot] = NoBin
      BY <2>2 DEF HolderOf
    <3>4. Refc!Alloc(b, NewSlot)
      BY <2>1, <2>4, <3>2, <3>3 DEF Refc!Alloc
    <3>5. QED
      BY <2>2, <3>4 DEF Refc!Next
  <2>5. QED
    BY <2>1, <2>3, <2>4
<1>2. CASE \E p \in Proc : DropSlow(p)
  <2>1. PICK p \in Proc : DropSlow(p)
    BY <1>2
  <2>2. refc[dropBin[p]] = 0
    BY <2>1, DroppingHasNoHandle DEF DropSlow
  <2>3. UNCHANGED <<payload, handle>>
    BY <2>1, <2>2 DEF DropSlow
  <2>4. QED
    BY <2>3 DEF Refc!avars, HolderOf
<1>3. CASE \E p \in Proc, s \in Slot : Clone(p, s)
  <2>1. PICK p \in Proc, s \in Slot : Clone(p, s)
    BY <1>3
  <2>2. [bin |-> handle[s].bin, owner |-> p, tracked |-> TRUE] \in Handle
    BY <2>1, <1>0, NewHandleType DEF Clone
  <2>3. Refc!Share(s, NewSlot)
    BY <2>1, <2>2, <1>0, CloneIsShare DEF Clone
  <2>4. NewSlot \in Slot
    BY <2>1, NewSlotFree DEF Clone
  <2>5. QED
    BY <2>3, <2>4 DEF Refc!Next
<1>4. CASE \E p \in Proc, s \in Slot : Drop(p, s)
  <2>1. PICK p \in Proc, s \in Slot : Drop(p, s)
    BY <1>4
  <2>2. HolderOf' = [HolderOf EXCEPT ![s] = NoBin]
    BY <2>1, <1>0, HolderRemove DEF Drop, TypeOK
  <2>3. HolderOf[s] # NoBin
    BY <2>1, <1>0, HolderOfHandle DEF Drop
  <2>4. Refc!Release(s)
    BY <2>1, <2>2, <2>3 DEF Drop, Refc!Release
  <2>5. QED
    BY <2>4 DEF Refc!Next
<1>5. CASE \E p, q \in Proc, s \in Slot : CloneToProcess(p, s, q)
  <2>1. PICK p, q \in Proc, s \in Slot : CloneToProcess(p, s, q)
    BY <1>5
  <2>2. CASE handle' = [handle EXCEPT ![NewSlot] =
                          [bin |-> handle[s].bin, owner |-> q, tracked |-> TRUE]]
    <3>1. [bin |-> handle[s].bin, owner |-> q, tracked |-> TRUE] \in Handle
      BY <2>1, <1>0, NewHandleType DEF CloneToProcess
    <3>2. Refc!Share(s, NewSlot)
      BY <2>1, <2>2, <3>1, <1>0, CloneIsShare DEF CloneToProcess
    <3>3. NewSlot \in Slot
      BY <2>1, NewSlotFree DEF CloneToProcess
    <3>4. QED
      BY <3>2, <3>3 DEF Refc!Next
  <2>3. CASE UNCHANGED handle
    BY <2>1, <2>3 DEF CloneToProcess, Refc!avars, HolderOf
  <2>4. QED
    BY <2>1, <2>2, <2>3 DEF CloneToProcess
<1>6. CASE UNCHANGED vars
  BY <1>6 DEF vars, Refc!avars, HolderOf
<1>7. QED
  BY <1>1, <1>2, <1>3, <1>4, <1>5, <1>6 DEF NextApi

(***************************************************************************)
(* The handle API (from_slice, Clone, clone_to_process, Drop/drop_slow)    *)
(* implements the safety of the abstract payload, for every number of     *)
(* processes, payloads and slots: it frees a payload only when no handle  *)
(* refers to it.  The abstract liveness does not hold (run procbin_leak). *)
(***************************************************************************)
THEOREM ApiRefinesAbstract == SpecApi => AbstractSafety
<1>1. Init => Refc!Init
  BY DEF Init, Refc!Init, HolderOf
<1>2. QED
  BY <1>1, RefinementStep, ApiInvariant, PTL
     DEF SpecApi, AbstractSafety, Refc!Safety

=============================================================================
