------------------------- MODULE MCAtomicFileWriter -------------------------
(***************************************************************************)
(* The instance of AtomicFileWriter for TLC; the constants are in the cfg. *)
(***************************************************************************)
EXTENDS AtomicFileWriter
=============================================================================
