------------------------------ MODULE MCTurno ------------------------------
(* Instances of Turno for TLC.                                             *)
EXTENDS Turno, TLC

Simetria == Permutations(Procs) \cup Permutations(Turnos) \cup Permutations(Devices)
=============================================================================
