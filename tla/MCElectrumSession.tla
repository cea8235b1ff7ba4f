-------------------------- MODULE MCElectrumSession ---------------------------
(***************************************************************************)
(* Instances of ElectrumSession for TLC.                                   *)
(***************************************************************************)
EXTENDS ElectrumSession, TLC

CONSTANTS out, in, t1, t2

\* t1 spends from an address of the wallet's (in) and pays to another (out).
MCOuts == [t \in Tx |-> IF t = t1 THEN {out} ELSE {in}]
MCIns  == [t \in Tx |-> IF t = t1 THEN {in} ELSE {out}]

SessionSymmetry == Permutations(Session)
=============================================================================
