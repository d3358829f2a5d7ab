------------------------------- MODULE MCChat -------------------------------
(***************************************************************************)
(* Chat for TLC.  Descriptors, nicknames and channel names are model       *)
(* values; the program compares them with each other only.                 *)
(***************************************************************************)
EXTENDS Chat, TLC

CONSTANTS s1, s2, s3, alice, bob, carol, red, key1, topic1

TwoSockets == {s1, s2}
ThreeSockets == {s1, s2, s3}
TwoNicks == {alice, bob}
ThreeNicks == {alice, bob, carol}
OneChannel == {red}
NoKeys == {}
OneKey == {key1}
NoTopics == {}
OneTopic == {topic1}

SocketsAndNicks == Permutations(ThreeSockets) \cup Permutations(ThreeNicks)

(* With s3 the only descriptor that is swept. *)
AllButS3AndNicks == Permutations({s1, s2}) \cup Permutations(ThreeNicks)
=============================================================================
