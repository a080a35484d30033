------------------------------ MODULE MCSteering ------------------------------
(***************************************************************************)
(* Small instances of Steering.                                            *)
(***************************************************************************)
EXTENDS Steering
===============================================================================
