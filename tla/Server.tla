------------------------------- MODULE Server -------------------------------
(***************************************************************************)
(* The whole server: the connections of Sessions and the channels of Chat  *)
(* in one thread.  Sessions knows the clients, Chat the channels; here a   *)
(* step of a connection is given its effect on the channels, and a channel *)
(* command is executed when the loop is in a batch of a registered client. *)
(*                                                                         *)
(* What is new in the whole: the Client of a descriptor is not always that *)
(* of the connection on it, a broken connection may be at any stage of its *)
(* handshake, and a sweep closes whatever is in the last slot.             *)
(***************************************************************************)
EXTENDS Sessions

CONSTANTS
  ChannelNames, NoChannel, Keys, NoKey, Topics, NoTopic, Limits, IntMax,
  NoCommand, Letters, MaxOps, MaxInvited \* as in Chat

ASSUME KeysAssumption == NoKey \notin Keys
ASSUME TopicsAssumption == NoTopic \notin Topics
ASSUME LimitsAssumption == Limits \subseteq Nat
ASSUME IntMaxAssumption == IntMax \in Nat
ASSUME LettersAssumption == Letters \subseteq {"i", "t", "o", "l", "k"}
ASSUME BoundsAssumption == MaxOps \in Nat /\ MaxInvited \in Nat

VARIABLES
  channels, \* the server's channels by name
  command,  \* the MODE or KICK being executed, or NoCommand
  swept     \* history: a sweep has removed a registered client

chatVars == <<channels, command, swept>>
allVars == <<vars, chatVars>>

(* The nickname of the registered client on s: what Chat knows of clients. *)
RegisteredNick(s) ==
  IF \E c \in clients : c.sock = s /\ c.registered THEN ClientOf(s).nick
                                                    ELSE NoNick

C == INSTANCE Chat WITH
  client <- [s \in Fds |-> RegisteredNick(s)],
  Evictable <- Fds

ASSUME NoChannelAssumption == NoChannel \notin C!Channel
ASSUME NoCommandAssumption == NoCommand \notin C!Command
-----------------------------------------------------------------------------
(* Mutated forms of definitions below, for the mutation runs only. *)

(* The error path of a read removes the client without quiteCmd. *)
BrokenUnquit(s) == PeerGone(s) /\ UNCHANGED chatVars

(* nickCmd does not call setNickInChannels. *)
NickCommandOnly(s, n) == ChangeNick(s, n) /\ UNCHANGED chatVars
-----------------------------------------------------------------------------
ServerInit ==
  /\ Init
  /\ channels = [c \in ChannelNames |-> NoChannel]
  /\ command = NoCommand
  /\ swept = FALSE

(***************************************************************************)
(* Steps that no channel notices.                                          *)
(***************************************************************************)
LoopOnly ==
  \/ Poll \/ RefuseClient \/ NoConnection \/ EndPass \/ EndBatch
  \/ \E s \in Fds : AcceptClient(s) \/ SkipSlot(s) \/ StartBatch(s)

Handshake ==
  \E s \in Fds :
    \/ PassAccepted(s) \/ PassRejected(s) \/ AuthUser(s) \/ LostClient(s)
    \/ \E n \in Nicks : AuthNick(s, n)

(***************************************************************************)
(* Steps of a connection and what they do to channels.                     *)
(***************************************************************************)

(* The client that goes is looked up before removeClient, registered or    *)
(* not; without one nothing is done to the channels.                       *)
ChannelsWithout(s) ==
  IF HasClient(s) THEN C!AfterQuit(s, ClientOf(s).nick) ELSE channels

BrokenConnection(s) ==
  /\ PeerGone(s)
  /\ channels' = ChannelsWithout(s)
  /\ UNCHANGED <<command, swept>>

QuitCommand(s) ==
  /\ Quit(s)
  /\ channels' = ChannelsWithout(s)
  /\ UNCHANGED <<command, swept>>

NickCommand(s, n) ==
  /\ ChangeNick(s, n)
  /\ channels' = C!AfterNick(s, n)
  /\ UNCHANGED <<command, swept>>

(* checkClientConnections goes through removeClient, not quiteCmd. *)
SweepClients ==
  /\ Sweep
  /\ swept' = (swept \/ RegisteredNick(LastSlot(fds).fd) # NoNick)
  /\ UNCHANGED <<channels, command>>

(***************************************************************************)
(* Channel commands: executeCommand with the client of the batch.          *)
(***************************************************************************)
ChannelCommand(s) ==
  /\ Registered(s) /\ s # geminiSocket
  /\ HasClient(s)
  /\ UNCHANGED vars
  /\ C!ChannelCommand(s)

(* A MODE or KICK, once begun, runs to its end. *)
CommandLoop == UNCHANGED vars /\ C!CommandLoop
-----------------------------------------------------------------------------
Quiet == (LoopOnly \/ Handshake) /\ UNCHANGED chatVars

ServerNext ==
  \/ CommandLoop
  \/ /\ command = NoCommand
     /\ \/ Quiet
        \/ SweepClients
        \/ \E s \in Fds :
             \/ BrokenConnection(s) \/ QuitCommand(s) \/ ChannelCommand(s)
             \/ \E n \in Nicks : NickCommand(s, n)

ServerSpec == ServerInit /\ [][ServerNext]_allVars
-----------------------------------------------------------------------------
(* The server runs its channels as Chat has them, where a client signs on, *)
(* renames itself and quits in single steps: whatever is in the middle of  *)
(* a handshake, closed under a batch, or served as a client that another   *)
(* connection registered, it meets the channels only in the ways that Chat *)
(* allows.                                                                 *)
RunsChat == C!Spec

(* Who is told what is said in a channel, connection by connection: as     *)
(* long as no sweep has removed a client and PASS has not succeeded on a   *)
(* closed descriptor, the descriptors in a member vector stand for the     *)
(* very connections that joined, although numbers are closed and given out *)
(* again; a connection is told from its JOIN to its PART, KICK, QUIT or    *)
(* end and no longer.                                                      *)
Audience(c) == {conn[s] : s \in C!Told(c)}

Promise == INSTANCE Roster WITH
  People   <- 1..MaxConns,
  Names    <- ChannelNames,
  online   <- {conn[s] : s \in {t \in Fds : RegisteredNick(t) # NoNick}},
  members  <- [c \in ChannelNames |-> Audience(c)],
  existing <- C!Existing,
  trusted  <- ~swept /\ ~ghost
IsRoster == Promise!Spec
=============================================================================
