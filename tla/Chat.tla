-------------------------------- MODULE Chat --------------------------------
(***************************************************************************)
(* The channel commands of registered clients (src/commands): JOIN, PART,  *)
(* KICK, INVITE, TOPIC, MODE, NICK, QUIT, and what the life of connections *)
(* does to channels.                                                       *)
(*                                                                         *)
(* Channels hold copies of clients, found now by descriptor, now by        *)
(* nickname; both are reused.  The commands keep the copies in step one by *)
(* one, the PING sweep does not.                                           *)
(*                                                                         *)
(* A comma list of channels is a loop of joinChannel or partChannel calls  *)
(* that share nothing, hence a sequence of the steps below.  The letters   *)
(* of one MODE and the nicknames of one KICK do share something, the check *)
(* of the operator made before the loop and not made again in it.  So      *)
(* these two are modelled as a command that begins, letter by letter or    *)
(* nickname by nickname, and nothing else happens before it ends.          *)
(***************************************************************************)
EXTENDS Channel

CONSTANTS
  ChannelNames, \* valid channel names
  NoChannel,    \* no such channel
  NoNick,       \* no client on the descriptor
  NoCommand,    \* no MODE or KICK is being executed
  Limits,       \* numbers given to +l
  IntMax,       \* largest C++ int that atoi returns, 2^31 - 1
  Evictable,    \* descriptors a PING sweep may remove
  Letters,      \* bound: the mode letters used
  MaxOps,       \* bound: entries of an operator vector
  MaxInvited    \* bound: entries of an invitation vector

ASSUME NoChannelAssumption == NoChannel \notin Channel
ASSUME NoNickAssumption == NoNick \notin Nicks
ASSUME LimitsAssumption == Limits \subseteq Nat
ASSUME IntMaxAssumption == IntMax \in Nat
ASSUME EvictableAssumption == Evictable \subseteq Fds
ASSUME LettersAssumption == Letters \subseteq {"i", "t", "o", "l", "k"}
ASSUME BoundsAssumption == MaxOps \in Nat /\ MaxInvited \in Nat

(* A MODE with its sign, or a KICK, that has passed its checks. *)
Signs == {"+", "-"}
Command == [by : Fds, on : ChannelNames, kind : Signs \cup {"kick"}]
ASSUME NoCommandAssumption == NoCommand \notin Command

VARIABLES
  client,   \* the nickname of the Client on each descriptor, or NoNick
  channels, \* the server's channels by name
  command,  \* the MODE or KICK being executed, or NoCommand
  swept     \* history: a sweep has removed a client

vars == <<client, channels, command, swept>>

Exists(c) == channels[c] # NoChannel
Present(s) == client[s] # NoNick
NickTaken(n) == \E s \in Fds : client[s] = n
Me(s) == [sock |-> s, nick |-> client[s]]

(* The server executes a command of the client on s. *)
Serves(s) == command = NoCommand /\ Present(s)
-----------------------------------------------------------------------------
(* Mutated forms of definitions below, for the mutation runs only. *)

(* An emptied channel is kept. *)
KeptIfUsed(ch) == ch

(* joinChannel does not ask whether the client is a member already. *)
NewToAnyone(s, c) == Exists(c)
-----------------------------------------------------------------------------
Init ==
  /\ client = [s \in Fds |-> NoNick]
  /\ channels = [c \in ChannelNames |-> NoChannel]
  /\ command = NoCommand
  /\ swept = FALSE

(***************************************************************************)
(* Connections.                                                            *)
(***************************************************************************)

(* The handshake of Sessions, in one step: no channel is involved. *)
SignOn(s, n) ==
  /\ command = NoCommand /\ ~Present(s)
  /\ ~NickTaken(n)
  /\ client' = [client EXCEPT ![s] = n]
  /\ UNCHANGED <<channels, command, swept>>

(* setNickInChannels: only channels the client is a member of. *)
AfterNick(s, n) ==
  [c \in ChannelNames |-> IF Exists(c) /\ HasClient(channels[c], s)
                            THEN Renamed(channels[c], s, n)
                            ELSE channels[c]]

ChangeNick(s, n) ==
  /\ Serves(s)
  /\ ~NickTaken(n)
  /\ client' = [client EXCEPT ![s] = n]
  /\ channels' = AfterNick(s, n)
  /\ UNCHANGED <<command, swept>>

(* partChannel and quiteCmd delete a channel without members. *)
IfUsed(ch) == IF ch.clients = <<>> THEN NoChannel ELSE ch

(* Mutated: quiteCmd finds the channels the client is an operator of. *)
AfterQuitOperators(s, n) ==
  [c \in ChannelNames |-> IF Exists(c) /\ HasOperator(channels[c], s)
                            THEN IfUsed(Erased(channels[c], n))
                            ELSE channels[c]]

(* quiteCmd of a client on s with the nickname n: the channels are found   *)
(* by descriptor, what is erased in them by nickname.  The loop erases     *)
(* from the vector of channels under its own iterator and goes on with the *)
(* next channel.                                                           *)
AfterQuit(s, n) ==
  [c \in ChannelNames |-> IF Exists(c) /\ HasClient(channels[c], s)
                            THEN IfUsed(Erased(channels[c], n))
                            ELSE channels[c]]

(* QUIT, or the connection broke. *)
Quit(s) ==
  /\ Serves(s)
  /\ client' = [client EXCEPT ![s] = NoNick]
  /\ channels' = AfterQuit(s, client[s])
  /\ UNCHANGED <<command, swept>>

(* The connection of a client that has not completed the handshake breaks: *)
(* quiteCmd all the same.  It has no nickname yet or one that no other     *)
(* client has.  The channels may know its descriptor from a client that    *)
(* was swept.                                                              *)
QuitHandshake(s, n) ==
  /\ command = NoCommand /\ ~Present(s)
  /\ n # NoNick => ~NickTaken(n)
  /\ channels' = AfterQuit(s, n)
  /\ UNCHANGED <<client, command, swept>>

(* checkClientConnections calls removeClient, which knows no channels. *)
Evict(s) ==
  /\ Serves(s)
  /\ s \in Evictable
  /\ client' = [client EXCEPT ![s] = NoNick]
  /\ swept' = TRUE
  /\ UNCHANGED <<channels, command>>
-----------------------------------------------------------------------------
(***************************************************************************)
(* Membership.                                                             *)
(***************************************************************************)

(* joinChannel *)
NewTo(s, c) == Exists(c) /\ ~HasClient(channels[c], s)

CreateChannel(s, c, key) ==
  /\ Serves(s)
  /\ ~Exists(c)
  /\ channels' = [channels EXCEPT ![c] = NewChannel(Me(s), key)]
  /\ UNCHANGED <<client, command, swept>>

JoinChannel(s, c, key) ==
  /\ Serves(s)
  /\ NewTo(s, c)
  /\ Admits(channels[c], client[s], key)
  /\ channels' = [channels EXCEPT ![c] = Joined(@, Me(s))]
  /\ UNCHANGED <<client, command, swept>>

PartChannel(s, c) ==
  /\ Serves(s)
  /\ Exists(c) /\ HasClient(channels[c], s)
  /\ channels' = [channels EXCEPT ![c] = IfUsed(Parted(@, s, client[s]))]
  /\ UNCHANGED <<client, command, swept>>

(* findClient finds the client m, which may still be in its handshake. *)
Findable(m) ==
  IF Present(m.sock) THEN client[m.sock] = m.nick ELSE ~NickTaken(m.nick)

Invite(s, m, c) ==
  /\ Serves(s)
  /\ Exists(c) /\ HasClient(channels[c], s)
  /\ channels[c].inviteChannel => HasOperator(channels[c], s)
  /\ Findable(m) /\ ~HasClient(channels[c], m.sock)
  /\ Len(channels[c].invited) < MaxInvited
  /\ channels' = [channels EXCEPT ![c] = InvitedTo(@, m)]
  /\ UNCHANGED <<client, command, swept>>

(* topicCmd with a text. *)
SetTopic(s, c, text) ==
  /\ Serves(s)
  /\ Exists(c) /\ HasClient(channels[c], s)
  /\ channels[c].topicProtected => HasOperator(channels[c], s)
  /\ channels' = [channels EXCEPT ![c].topic = text]
  /\ UNCHANGED <<client, command, swept>>
-----------------------------------------------------------------------------
(***************************************************************************)
(* MODE and KICK.  The check of the operator, and for KICK of the          *)
(* membership, is made once, before the loop over the letters or the       *)
(* comma list.  A letter that is unknown or lacks its parameter, and a     *)
(* nickname that is not in the channel, have no effect, so that only the   *)
(* effective ones are chosen.                                              *)
(***************************************************************************)
Begin(s, c, kind) ==
  /\ Serves(s)
  /\ Exists(c) /\ HasOperator(channels[c], s)
  /\ command' = [by |-> s, on |-> c, kind |-> kind]
  /\ UNCHANGED <<client, channels, swept>>

BeginMode(s, c, sign) == sign \in Signs /\ Begin(s, c, sign)

BeginKick(s, c) == Begin(s, c, "kick") /\ HasClient(channels[c], s)

EndCommand ==
  /\ command # NoCommand
  /\ command' = NoCommand
  /\ UNCHANGED <<client, channels, swept>>

On == channels[command.on]

InKick == command # NoCommand /\ command.kind = "kick"
InMode == command # NoCommand /\ command.kind \in Signs
Adds   == command.kind = "+"

(* kickClient: nobody is kicked by the nickname of the one who kicks. *)
KickClient(n) ==
  /\ InKick
  /\ HasNick(On.clients, n)
  /\ client[command.by] # n
  /\ channels' = [channels EXCEPT ![command.on] = Erased(@, n)]
  /\ UNCHANGED <<client, command, swept>>

(* The letter l is executed and leaves the channel as ch. *)
Applies(l, ch) ==
  /\ l \in Letters
  /\ channels' = [channels EXCEPT ![command.on] = ch]
  /\ UNCHANGED <<client, command, swept>>

ModeInvite ==
  /\ InMode
  /\ Applies("i", [On EXCEPT !.inviteChannel = Adds])

ModeTopic ==
  /\ InMode
  /\ Applies("t", [On EXCEPT !.topicProtected = Adds])

ModeOperator(n) ==
  /\ InMode
  /\ HasNick(On.clients, n)
  /\ Adds => Len(On.operators) < MaxOps
  /\ Applies("o", IF Adds THEN Promoted(On, n) ELSE Demoted(On, n))

(* atoi on a string of digits: strtol, cut to the width of an int. *)
Atoi(v) == ((v + IntMax + 1) % (2 * (IntMax + 1))) - (IntMax + 1)

(* Mutated: limitMode does not refuse a negative limit. *)
ModeLimitUnchecked(v) ==
  /\ InMode
  /\ Applies("l", IF Adds THEN Limited(On, Atoi(v)) ELSE Unlimited(On))

ModeLimit(v) ==
  /\ InMode
  /\ Adds => Atoi(v) >= 0
  /\ Applies("l", IF Adds THEN Limited(On, Atoi(v)) ELSE Unlimited(On))

ModeKey(key) ==
  /\ InMode
  /\ Applies("k", [On EXCEPT !.isProtected = Adds,
                             !.pass = IF Adds THEN key ELSE NoKey])
-----------------------------------------------------------------------------
CommandLoop ==
  \/ EndCommand \/ ModeInvite \/ ModeTopic
  \/ \E n \in Nicks : KickClient(n) \/ ModeOperator(n)
  \/ \E v \in Limits : ModeLimit(v)
  \/ \E key \in Keys : ModeKey(key)

(* The commands of s that only channels notice. *)
ChannelCommand(s) ==
  \E c \in ChannelNames :
    \/ PartChannel(s, c)
    \/ \E key \in Keys \cup {NoKey} :
         CreateChannel(s, c, key) \/ JoinChannel(s, c, key)
    \/ BeginKick(s, c)
    \/ \E m \in Member : Invite(s, m, c)
    \/ \E text \in Topics : SetTopic(s, c, text)
    \/ \E sign \in Signs : BeginMode(s, c, sign)

Next ==
  \/ CommandLoop
  \/ \E s \in Fds :
       \/ Quit(s) \/ Evict(s) \/ ChannelCommand(s)
       \/ \E n \in Nicks \cup {NoNick} : QuitHandshake(s, n)
       \/ \E n \in Nicks : SignOn(s, n) \/ ChangeNick(s, n)

Spec == Init /\ [][Next]_vars
-----------------------------------------------------------------------------
TypeOK ==
  /\ client \in [Fds -> Nicks \cup {NoNick}]
  /\ channels \in [ChannelNames -> Channel \cup {NoChannel}]
  /\ command \in Command \cup {NoCommand}
  /\ swept \in BOOLEAN

Existing == {c \in ChannelNames : Exists(c)}

(* As long as no sweep has removed a client, every member of a channel is  *)
(* a client of the server under its present nickname: QUIT, KICK, PART and *)
(* NICK keep the copies in step although they search by nickname.          *)
MembersLive ==
  ~swept => \A c \in Existing : \A i \in 1..Len(channels[c].clients) :
              LET m == channels[c].clients[i] IN client[m.sock] = m.nick

(* As long as no sweep has removed a client, a channel that exists has a   *)
(* member: although KICK never deletes a channel, it cannot empty one.     *)
ChannelsNonEmpty == ~swept => \A c \in Existing : channels[c].clients # <<>>

(* A descriptor is a member of a channel once, so that removing its first  *)
(* entry removes it, whatever was swept and reused.                        *)
MemberOnce == \A c \in Existing : EachSocketOnce(channels[c].clients)

(* A limit that MODE shows is enforced.                                    *)
ShownLimitEnforced ==
  \A c \in Existing : ShowsLimit(channels[c]) => channels[c].limited

(* An invitation to the client on s under its present nickname. *)
Invited(s, c) ==
  /\ Present(s) /\ Exists(c)
  /\ \E i \in 1..Len(channels[c].invited) : channels[c].invited[i] = Me(s)

(* A client that keeps its nickname keeps its invitation, until it is      *)
(* kicked or the channel ends: although invitations are taken away by      *)
(* nickname, by every KICK and every QUIT of a member, and renamed by      *)
(* descriptor, by every NICK of a member, those of others are not touched. *)
InvitationsKept ==
  [][\A c \in ChannelNames, s \in Fds :
       Invited(s, c) /\ client'[s] = client[s] =>
         \/ Invited(s, c)' \/ ~Exists(c)'
         \/ KickClient(client[s]) /\ command.on = c]_vars

(* Unless something was swept, a client that stays connected leaves a      *)
(* channel only by its own PART or by a KICK that names it, of somebody    *)
(* else who is still in the channel himself; not by a QUIT or NICK of      *)
(* others, although QUIT, KICK and PART search by nickname.                *)
Leaves(s, c) ==
  /\ Exists(c) /\ HasClient(channels[c], s)
  /\ channels[c]' = NoChannel \/ ~HasClient(channels[c]', s)
StaysUnlessKicked ==
  [][\A c \in ChannelNames, s \in Fds :
       Leaves(s, c) /\ Present(s)' /\ ~swept =>
         \/ PartChannel(s, c)
         \/ /\ KickClient(client[s]) /\ command.on = c
            /\ command.by # s /\ HasClient(channels[c], command.by)]_vars

(* The channels keep what Roster promises, as long as no sweep has removed *)
(* a client: although QUIT, NICK and broken connections have to be carried *)
(* to every channel by hand and KICK deletes none, who is told what is     *)
(* said in a channel changes by one JOIN, PART or KICK at a time, or by a  *)
(* departure that leaves no trace.                                         *)
Told(c) ==
  IF Exists(c) THEN Recipients(channels[c], Nobody) ELSE {}

Promise == INSTANCE Roster WITH
  People   <- Fds,
  Names    <- ChannelNames,
  online   <- {s \in Fds : Present(s)},
  members  <- [c \in ChannelNames |-> Told(c)],
  existing <- Existing,
  trusted  <- ~swept
IsRoster == Promise!Spec
-----------------------------------------------------------------------------
(* What the program says of itself and its runs show to be otherwise.      *)

(* "You're not channel operator" (kickCmd.cpp:89): a connection that has   *)
(* just signed on is no operator anywhere.                                 *)
NewcomersAreNoOperators ==
  [][\A s \in Fds, n \in Nicks : SignOn(s, n) =>
       \A c \in Existing : ~HasOperator(channels[c], s)]_vars
=============================================================================
