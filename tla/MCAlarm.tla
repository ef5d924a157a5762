------------------------------ MODULE MCAlarm ------------------------------
(***************************************************************************)
(* A small instance of Alarm.                                               *)
(***************************************************************************)
EXTENDS Alarm

CONSTANTS p, q, r0, r1, g1

MCSlots == {p, q}
MCRegs == {r0, r1}

=============================================================================
