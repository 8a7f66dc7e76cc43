------------------------------ MODULE MCProcBin ------------------------------
(* Model-checking instance of ProcBin: two processes, small slot and bit   *)
(* bounds.  Process and payload identities are model values.               *)
EXTENDS ProcBin, TLC

CONSTANTS p1, p2, b1, b2

MCProc == {p1, p2}
MCBin == {b1, b2}
MCOneBin == {b1}
MCSlot == 1 .. 3
MCRefcMod == 2^3

\* Processes and payloads are interchangeable model values.
MCSymmetry == Permutations(MCProc) \cup Permutations(MCBin)

=============================================================================
