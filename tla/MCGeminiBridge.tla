--------------------------- MODULE MCGeminiBridge ---------------------------
(***************************************************************************)
(* GeminiBridge for TLC.  The number 4 is both a proper beginning and a    *)
(* proper ending of 44, and one that the tail of the welcome may begin     *)
(* with.                                                                   *)
(***************************************************************************)
EXTENDS GeminiBridge
=============================================================================
