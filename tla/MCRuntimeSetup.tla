--------------------------- MODULE MCRuntimeSetup ---------------------------
(***************************************************************************)
(* A TLC instance of RuntimeSetup: three setups of one profile, one after  *)
(* the other or overlapping.                                               *)
(***************************************************************************)
EXTENDS RuntimeSetup

CONSTANTS s1, s2, s3

MCSetups == {s1, s2, s3}
=============================================================================
