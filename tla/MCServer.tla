------------------------------ MODULE MCServer ------------------------------
(***************************************************************************)
(* Server for TLC: two descriptors, as in MCSessions, and one channel.     *)
(***************************************************************************)
EXTENDS Server, TLC

CONSTANTS alice, bob, gemini, red

MCNicks == {alice, bob, gemini}
OneChannel == {red}
None == {}

AliceAndBob == Permutations({alice, bob})
=============================================================================
