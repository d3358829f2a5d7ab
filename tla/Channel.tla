------------------------------- MODULE Channel -------------------------------
(***************************************************************************)
(* The class Channel (src/channel): three vectors of Client copies and the *)
(* modes.  Of a Client copy the descriptor and the nickname are kept, the  *)
(* two fields by which the vectors are searched; they are snapshots, kept  *)
(* in step with the server's clients by explicit calls only.               *)
(*                                                                         *)
(* Left out: the name, which is the index of the server's `channels`.      *)
(***************************************************************************)
EXTENDS Integers, SequencesExt

CONSTANTS
  Fds,     \* descriptors
  Nicks,   \* nicknames
  Keys,    \* channel keys
  NoKey,   \* the empty string: no key given, no key set
  Topics,  \* topic texts
  NoTopic  \* the empty string: no topic set

ASSUME KeysAssumption == NoKey \notin Keys
ASSUME TopicsAssumption == NoTopic \notin Topics

(* The descriptor broadcastToMembers is given to leave nobody out. *)
Nobody == -1

ASSUME NobodyAssumption == Nobody \notin Fds

Member == [sock : Fds, nick : Nicks]

Channel == [clients : Seq(Member),
            operators : Seq(Member),
            invited : Seq(Member),
            inviteChannel : BOOLEAN,
            topicProtected : BOOLEAN,
            limited : BOOLEAN,
            limit : Nat,
            isProtected : BOOLEAN,
            pass : Keys \cup {NoKey},
            topic : Topics \cup {NoTopic}]
-----------------------------------------------------------------------------
HasSocket(v, s) == \E i \in 1..Len(v) : v[i].sock = s
HasNick(v, n)   == \E i \in 1..Len(v) : v[i].nick = n

EachSocketOnce(v) ==
  \A i, j \in 1..Len(v) : v[i].sock = v[j].sock => i = j

HasClient(ch, s)   == HasSocket(ch.clients, s)
HasOperator(ch, s) == HasSocket(ch.operators, s)
HasInvited(ch, n)  == HasNick(ch.invited, n)

(* removeClient, removeOperator and removeInvited erase the first match    *)
(* and return: a second entry of the same client stays.                    *)
WithoutSocket(v, s) == RemoveFirstMatch(v, LAMBDA m : m.sock = s)
WithoutNick(v, n)   == RemoveFirstMatch(v, LAMBDA m : m.nick = n)
-----------------------------------------------------------------------------
(* Mutated forms of the operators below, for the mutation runs only. *)

(* setNickInChannels renames the operators and the invited, not the members. *)
RenamedOperators(ch, s, n) ==
  LET new(m) == IF m.sock = s THEN [sock |-> s, nick |-> n] ELSE m
  IN  [ch EXCEPT !.operators = [i \in 1..Len(@) |-> new(@[i])],
                 !.invited   = [i \in 1..Len(@) |-> new(@[i])]]

(* setNickInvited does not look at the descriptor. *)
RenamedInvitations(ch, s, n) ==
  LET new(m) == IF m.sock = s THEN [sock |-> s, nick |-> n] ELSE m
  IN  [ch EXCEPT !.clients   = [i \in 1..Len(@) |-> new(@[i])],
                 !.operators = [i \in 1..Len(@) |-> new(@[i])],
                 !.invited   = [i \in 1..Len(@) |-> [@[i] EXCEPT !.nick = n]]]

(* -l only resets the flag. *)
UnlimitedFlag(ch) == [ch EXCEPT !.limited = FALSE]
-----------------------------------------------------------------------------
NewChannel(m, key) ==
  [clients |-> <<m>>, operators |-> <<m>>, invited |-> <<>>,
   inviteChannel |-> FALSE, topicProtected |-> FALSE,
   limited |-> FALSE, limit |-> 0,
   isProtected |-> key # NoKey, pass |-> key,
   topic |-> NoTopic]

(* What joinChannel asks of a client that is not a member, in the order of *)
(* its branches.  A channel without +k ignores the key.                    *)
HasRoom(ch) == ch.limited => Len(ch.clients) < ch.limit
LetsIn(ch, n) == ch.inviteChannel => HasInvited(ch, n)

Admits(ch, n, key) ==
  IF ch.isProtected
    THEN key # NoKey /\ key = ch.pass /\ HasRoom(ch) /\ LetsIn(ch, n)
    ELSE LetsIn(ch, n) /\ HasRoom(ch)

(* setNickClient, setNickInvited and setNickOperators: every entry of the  *)
(* descriptor.                                                             *)
Renamed(ch, s, n) ==
  LET new(m) == IF m.sock = s THEN [sock |-> s, nick |-> n] ELSE m
  IN  [ch EXCEPT !.clients   = [i \in 1..Len(@) |-> new(@[i])],
                 !.operators = [i \in 1..Len(@) |-> new(@[i])],
                 !.invited   = [i \in 1..Len(@) |-> new(@[i])]]

(* addOperator(nickname): the first member of that nickname, once more.    *)
Promoted(ch, n) ==
  [ch EXCEPT !.operators =
     Append(@, ch.clients[SelectInSeq(ch.clients, LAMBDA m : m.nick = n)])]

Joined(ch, m) == [ch EXCEPT !.clients = Append(@, m)]

InvitedTo(ch, m) == [ch EXCEPT !.invited = Append(@, m)]

(* partChannel: the member by descriptor, the operator by nickname. *)
Parted(ch, s, n) ==
  [ch EXCEPT !.clients = WithoutSocket(@, s), !.operators = WithoutNick(@, n)]

(* kickClient and quiteCmd: everything by nickname. *)
Erased(ch, n) ==
  [ch EXCEPT !.clients   = WithoutNick(@, n),
             !.operators = WithoutNick(@, n),
             !.invited   = WithoutNick(@, n)]

Demoted(ch, n) == [ch EXCEPT !.operators = WithoutNick(@, n)]

Limited(ch, limit) == [ch EXCEPT !.limited = TRUE, !.limit = limit]
Unlimited(ch)      == [ch EXCEPT !.limited = FALSE, !.limit = 0]

(* broadcastToMembers: the descriptors it sends to, one for each entry of  *)
(* the member vector, but for the one that is excluded.                    *)
Recipients(ch, excluded) ==
  {ch.clients[i].sock : i \in 1..Len(ch.clients)} \ {excluded}

(* getModes shows "l" if this holds; joinChannel looks at `limited`.       *)
ShowsLimit(ch) == ch.limit > 0
=============================================================================
