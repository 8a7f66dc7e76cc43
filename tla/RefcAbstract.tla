---------------------------- MODULE RefcAbstract ----------------------------
(***************************************************************************)
(* What an external binary payload promises its users (spec.md §3, §5,    *)
(* §8.1), with the count abstracted away: a payload is allocated with one  *)
(* holder, holders may share it into free places and release it, and it   *)
(* is freed only when no place holds it -- and then, eventually, it is.    *)
(*                                                                         *)
(* ProcBin refines this module under the mapping ProcBin!Refc: a place is  *)
(* a handle slot, a holder is the payload its handle points at.            *)
(***************************************************************************)

CONSTANTS
  Bin,     \* payload identities
  Slot,    \* places a reference to a payload can be kept in
  NoBin    \* what an empty place holds

VARIABLES
  status,  \* status[b]: "unalloc", "live" or "freed"
  holder   \* holder[s]: the payload place s refers to, or NoBin

avars == <<status, holder>>

Holders(b) == {s \in Slot : holder[s] = b}

Init ==
  /\ status = [b \in Bin |-> "unalloc"]
  /\ holder = [s \in Slot |-> NoBin]

\* A payload comes into being with its first reference in place s.
Alloc(b, s) ==
  /\ status[b] = "unalloc"
  /\ holder[s] = NoBin
  /\ status' = [status EXCEPT ![b] = "live"]
  /\ holder' = [holder EXCEPT ![s] = b]

\* A reference in s is duplicated into the free place t.
Share(s, t) ==
  /\ holder[s] # NoBin
  /\ holder[t] = NoBin
  /\ holder' = [holder EXCEPT ![t] = holder[s]]
  /\ UNCHANGED status

\* The reference in s goes away.
Release(s) ==
  /\ holder[s] # NoBin
  /\ holder' = [holder EXCEPT ![s] = NoBin]
  /\ UNCHANGED status

\* A payload nobody refers to is deallocated.
Free(b) ==
  /\ status[b] = "live"
  /\ Holders(b) = {}
  /\ status' = [status EXCEPT ![b] = "freed"]
  /\ UNCHANGED holder

Next ==
  \/ \E b \in Bin, s \in Slot : Alloc(b, s)
  \/ \E s, t \in Slot : Share(s, t)
  \/ \E s \in Slot : Release(s)
  \/ \E b \in Bin : Free(b)

Safety == Init /\ [][Next]_avars

Spec == Safety /\ \A b \in Bin : WF_avars(Free(b))

(***************************************************************************)
(* Spec §3 "freed exactly when the reference count transitions from 1 to  *)
(* 0" and §8.1: a live payload left with no reference is eventually        *)
(* deallocated.                                                            *)
(***************************************************************************)
ReleasedIsFreed ==
  \A b \in Bin : (status[b] = "live" /\ Holders(b) = {}) ~> status[b] = "freed"

=============================================================================
