----------------------------- MODULE MCLogStruct -----------------------------
(***************************************************************************)
(* Instances of LogStruct for TLC; the constants are in the cfg files.     *)
(***************************************************************************)
EXTENDS LogStruct
=============================================================================
