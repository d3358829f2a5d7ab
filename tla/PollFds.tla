------------------------------- MODULE PollFds -------------------------------
(***************************************************************************)
(* The poll table `struct pollfds` (components/pollfds.hpp): the array     *)
(* handed to poll(), the reverse index `cash` from a descriptor to its     *)
(* slot, and the set of descriptors marked as registered.                  *)
(*                                                                         *)
(* Slot 0 of the array is the listening socket: it is pushed first and     *)
(* never erased, so only the client slots are kept and slots[i] is         *)
(* fds[i] for i >= 1.  A slot is what poll() sees of it, the descriptor    *)
(* and its POLLIN bit.  startTime and clientsInfo are write-only data and  *)
(* are left out.                                                           *)
(***************************************************************************)
EXTENDS Integers, Sequences

CONSTANTS
  Fds,       \* descriptors the system may hand out to client connections
  MaxSlots   \* client slots of the array: FD_SETSIZE less the listening one

ASSUME FdsAssumption == Fds \subseteq Nat \ {0}
ASSUME MaxSlotsAssumption == MaxSlots \in Nat \ {0}

(* The "no such index / no such socket" value of the code. *)
NONE == -1

Slot == [fd : Fds, pollin : BOOLEAN]

Table == [slots : Seq(Slot),
          cash : [Fds -> Nat \cup {NONE}],
          registered : SUBSET Fds]

EmptyTable == [slots |-> <<>>,
               cash |-> [s \in Fds |-> NONE],
               registered |-> {}]

-----------------------------------------------------------------------------
(* Mutated forms of the operators below, for the mutation runs only. *)

(* push_back forgets the reverse index. *)
PushBackUnindexed(t, s, stale) ==
  [t EXCEPT !.slots = Append(@, [fd |-> s, pollin |-> stale])]

(* erase clears the freed slot (fd = -1) but does not shrink the array. *)
CompactedUnshrunk(t, s) ==
  [t.slots EXCEPT ![t.cash[s]] = [fd |-> NONE, pollin |-> FALSE]]

(* erase drops the last slot instead of moving it into the freed one. *)
CompactedUnmoved(t, s) == SubSeq(t.slots, 1, Len(t.slots) - 1)

(* erase does not re-index the slot it moved. *)
ReindexedStale(t, s) == [t.cash EXCEPT ![s] = NONE]

(* erase leaves the registered mark of the descriptor. *)
UnmarkedNever(t, s) == t.registered
-----------------------------------------------------------------------------
(* Whether `find` answers the socket itself, i.e. it is marked registered. *)
Find(t, s) == s \in t.registered

Register(t, s) ==
  [slots |-> t.slots, cash |-> t.cash, registered |-> t.registered \cup {s}]

(***************************************************************************)
(* push_back appends without looking for an older slot of the same         *)
(* descriptor, and leaves the revents of the reused array element as they  *)
(* were: `stale` is the POLLIN bit found there.                            *)
(***************************************************************************)
PushBack(t, s, stale) ==
  [slots |-> Append(t.slots, [fd |-> s, pollin |-> stale]),
   cash |-> [t.cash EXCEPT ![s] = Len(t.slots) + 1],
   registered |-> t.registered]

(***************************************************************************)
(* erase moves the last slot into the freed one and re-indexes it.  For a  *)
(* descriptor without an index it returns at once: neither the registered  *)
(* mark nor the descriptor itself is then touched.                         *)
(***************************************************************************)
CanErase(t, s) == t.cash[s] # NONE

LastSlot(t) == t.slots[Len(t.slots)]

Compacted(t, s) ==
  [i \in 1..(Len(t.slots) - 1) |->
     IF i = t.cash[s] THEN LastSlot(t) ELSE t.slots[i]]

Reindexed(t, s) ==
  [t.cash EXCEPT ![LastSlot(t).fd] = t.cash[s], ![s] = NONE]

Unmarked(t, s) == t.registered \ {s}

Erase(t, s) ==
  IF CanErase(t, s)
    THEN [slots |-> Compacted(t, s),
          cash |-> Reindexed(t, s),
          registered |-> Unmarked(t, s)]
    ELSE t

(* What poll() writes back: POLLIN on the slots of the ready descriptors. *)
Polled(t, ready) ==
  [slots |-> [i \in 1..Len(t.slots) |->
                [fd |-> t.slots[i].fd, pollin |-> t.slots[i].fd \in ready]],
   cash |-> t.cash,
   registered |-> t.registered]

(* The reverse index names, for every descriptor it knows, a slot of it.   *)
ValidIndex(t) ==
  \A s \in Fds : CanErase(t, s) =>
    /\ t.cash[s] \in 1..Len(t.slots)
    /\ t.slots[t.cash[s]].fd = s
=============================================================================
