----------------------------- MODULE MCTestTask -----------------------------
(***************************************************************************)
(* Instances of TestTask for TLC.                                          *)
(***************************************************************************)
EXTENDS TestTask

const_Inputs == 1..2
=============================================================================
