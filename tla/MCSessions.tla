----------------------------- MODULE MCSessions -----------------------------
(***************************************************************************)
(* Sessions for TLC.  Descriptors are small integers, because the system   *)
(* hands out the lowest free one; nicknames are model values.              *)
(***************************************************************************)
EXTENDS Sessions, TLC

CONSTANTS alice, longname, gemini

MCNicks == {alice, longname, gemini}
MCLongNicks == {longname}
=============================================================================
