-------------------------------- MODULE Null --------------------------------
(***************************************************************************)
(* What stands for nothing, shared by the modules that Activities          *)
(* composes.                                                               *)
(***************************************************************************)
CONSTANT None
=============================================================================
