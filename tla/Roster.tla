------------------------------- MODULE Roster -------------------------------
(***************************************************************************)
(* What the channels of an IRC server promise, in sets: who is online,     *)
(* who is told what is said in a channel, and which channels exist.        *)
(*                                                                         *)
(* Somebody enters the server in no channel, joins and leaves channels one *)
(* at a time, and departs from the server and all channels at once; a      *)
(* channel exists as long as it has members.                               *)
(***************************************************************************)
CONSTANTS
  People,  \* who may be online
  Names    \* channel names

VARIABLES
  online,   \* the people on the server
  members,  \* the members of each channel
  existing, \* the channels that exist
  trusted   \* the promise is still kept; once it is not, anything goes

vars == <<online, members, existing, trusted>>

Init ==
  /\ online = {}
  /\ members = [c \in Names |-> {}]
  /\ existing = {}
  /\ trusted = TRUE

Enter(p) ==
  /\ p \notin online
  /\ online' = online \cup {p}
  /\ UNCHANGED <<members, existing>>

Depart(p) ==
  /\ p \in online
  /\ online' = online \ {p}
  /\ members' = [c \in Names |-> members[c] \ {p}]
  /\ existing' = {c \in existing : members'[c] # {}}

Join(p, c) ==
  /\ p \in online \ members[c]
  /\ members' = [members EXCEPT ![c] = @ \cup {p}]
  /\ existing' = existing \cup {c}
  /\ UNCHANGED online

Leave(p, c) ==
  /\ p \in members[c]
  /\ members' = [members EXCEPT ![c] = @ \ {p}]
  /\ existing' = {d \in existing : members'[d] # {}}
  /\ UNCHANGED online

Step ==
  \E p \in People :
    \/ Enter(p) \/ Depart(p)
    \/ \E c \in Names : Join(p, c) \/ Leave(p, c)

Kept == Step /\ UNCHANGED trusted

Broken == ~trusted'

Next == Kept \/ Broken

Spec == Init /\ [][Next]_vars
=============================================================================
