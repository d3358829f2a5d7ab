------------------------------ MODULE Sessions ------------------------------
(***************************************************************************)
(* The life of a connection in ircserv: the poll loop of Server::start,    *)
(* acceptClient, the PASS/NICK/USER handshake, the part of a registered    *)
(* client's commands that touches the connection or its nickname (NICK,    *)
(* QUIT), removeClient and the PING sweep checkClientConnections.          *)
(*                                                                         *)
(* The server is one thread.  What interleaves are the peers, which decide *)
(* when a connection arrives, what one read returns and when it breaks,    *)
(* with a pass over the slots that closes and erases descriptors while it  *)
(* walks them; and the system hands a closed descriptor number out again.  *)
(***************************************************************************)
EXTENDS PollFds, FiniteSets

CONSTANTS
  Nicks,      \* nicknames that pass validateNickname
  LongNicks,  \* those of 11 to 15 characters: refused by the NICK command
  GeminiNick, \* the nickname of the bot
  NoNick,     \* the empty nickname of a client that has not sent NICK
  Flaky,      \* descriptors on which the send of a PING may fail
  MaxConns    \* bound: connections accepted in a behaviour

ASSUME NicksAssumption ==
  LongNicks \subseteq Nicks /\ GeminiNick \in Nicks /\ NoNick \notin Nicks
ASSUME FlakyAssumption == Flaky \subseteq Fds
ASSUME MaxConnsAssumption == MaxConns \in Nat

VARIABLES
  fds,          \* the poll table
  open,         \* descriptors of client connections the process holds open
  ipAddresses,  \* keys of the map from descriptor to host
  clients,      \* the Client objects of the server's vector
  geminiSocket, \* descriptor of the bot, or NONE
  loop,         \* where Server::start stands
  pos,          \* the slot index i of the scanning loop
  serving,      \* clientId of the batch being executed, or NONE
  conn,         \* history: the connection that last got each descriptor
  nextConn,     \* history: the number of the next connection
  ghost         \* history: PASS has succeeded on a closed descriptor

loopVars == <<loop, pos, serving>>
connVars == <<conn, nextConn>>
vars == <<fds, open, ipAddresses, clients, geminiSocket, loopVars, connVars,
          ghost>>

Client == [sock : Fds, nick : Nicks \cup {NoNick}, passwordCheck : BOOLEAN,
           nicknameCheck : BOOLEAN, registered : BOOLEAN, conn : Nat]

-----------------------------------------------------------------------------
(* Mutated forms of definitions below, for the mutation runs only. *)

(* The constructor does not set passwordCheck, nor does authPass. *)
NewClientUnchecked(s) ==
  [sock |-> s, nick |-> NoNick, passwordCheck |-> FALSE,
   nicknameCheck |-> FALSE, registered |-> FALSE, conn |-> conn[s]]

(* Only registered clients are asked whether they hold the nickname. *)
NickTakenRegistered(n) == \E c \in clients : c.registered /\ c.nick = n

(* removeClient does not forget the bot. *)
GeminiKept(s) == geminiSocket

(* handleCommands does not ask find whether the handshake is over. *)
UnregisteredAnybody(s) == loop = "batch" /\ serving = s

(* The loop re-visits the slot it has just dealt with. *)
NextSlotAgain == loop' = "scan" /\ pos' = pos /\ serving' = NONE
-----------------------------------------------------------------------------
(* Client::Client: the object a correct PASS creates. *)
NewClient(s) ==
  [sock |-> s, nick |-> NoNick, passwordCheck |-> TRUE,
   nicknameCheck |-> FALSE, registered |-> FALSE, conn |-> conn[s]]

(* getClient(s) finds a client; when it does not, the code throws. *)
HasClient(s) == \E c \in clients : c.sock = s
ClientOf(s) == CHOOSE c \in clients : c.sock = s

(* findClient(n) # NULL *)
NickTaken(n) == \E c \in clients : c.nick = n

Update(s, d) == {IF c.sock = s THEN d ELSE c : c \in clients}
-----------------------------------------------------------------------------
Init ==
  /\ fds = EmptyTable
  /\ open = {}
  /\ ipAddresses = {}
  /\ clients = {}
  /\ geminiSocket = NONE
  /\ loop = "top" /\ pos = 0 /\ serving = NONE
  /\ conn = [s \in Fds |-> 0] /\ nextConn = 1
  /\ ghost = FALSE

(***************************************************************************)
(* Effects shared by several handlers.                                     *)
(***************************************************************************)

(* removeClient forgets the bot when it is the bot that goes. *)
GeminiWithout(s) == IF s = geminiSocket THEN NONE ELSE geminiSocket

(* removeClient: close() is inside erase, so it is skipped when erase      *)
(* returns early; the rest is done in any case.                            *)
RemoveClient(s) ==
  /\ fds' = Erase(fds, s)
  /\ open' = IF CanErase(fds, s) THEN open \ {s} ELSE open
  /\ ipAddresses' = ipAddresses \ {s}
  /\ geminiSocket' = GeminiWithout(s)
  /\ clients' = {c \in clients : c.sock # s}
  /\ UNCHANGED <<connVars, ghost>>

(* Execution goes on with slot pos + 1. *)
NextSlot == loop' = "scan" /\ pos' = pos + 1 /\ serving' = NONE
-----------------------------------------------------------------------------
(***************************************************************************)
(* The loop top.  Every 1000th turn is a sweep; the counter is abstracted. *)
(***************************************************************************)

(* checkClientConnections.  The PING fails on a closed descriptor (EBADF)  *)
(* and may fail on a flaky one.  The removing loop does not use the        *)
(* descriptors it collected: it removes `socket`, which after the first    *)
(* loop is the last slot's.  Doing so again for a further failure finds    *)
(* no index and nothing left to remove.                                    *)
Sweep ==
  /\ loop = "top"
  /\ \E i \in 1..Len(fds.slots) :
       /\ fds.slots[i].fd # geminiSocket
       /\ fds.slots[i].fd \in Flaky \/ fds.slots[i].fd \notin open
  /\ RemoveClient(fds.slots[Len(fds.slots)].fd)
  /\ UNCHANGED loopVars

(* poll(): a closed descriptor gets POLLNVAL, never POLLIN. *)
Poll ==
  /\ loop = "top"
  /\ \E ready \in SUBSET open : fds' = Polled(fds, ready)
  /\ loop' = "accept"
  /\ UNCHANGED <<open, ipAddresses, clients, geminiSocket, pos, serving,
                 connVars, ghost>>

(***************************************************************************)
(* Slot 0, the listening socket.                                           *)
(***************************************************************************)
StartScan == loop' = "scan" /\ pos' = 1 /\ serving' = NONE

(* The system returns the lowest free descriptor. *)
LowestFree(s) == s \in Fds \ open /\ \A t \in Fds \ open : s <= t

AcceptClient(s) ==
  /\ loop = "accept"
  /\ nextConn <= MaxConns
  /\ LowestFree(s)
  /\ Len(fds.slots) < MaxSlots
  /\ \E stale \in BOOLEAN : fds' = PushBack(fds, s, stale)
  /\ open' = open \cup {s}
  /\ ipAddresses' = ipAddresses \cup {s}
  /\ conn' = [conn EXCEPT ![s] = nextConn]
  /\ nextConn' = nextConn + 1
  /\ StartScan
  /\ UNCHANGED <<clients, geminiSocket, ghost>>

(* "Server capacity is full": the new connection is closed at once. *)
RefuseClient ==
  /\ loop = "accept"
  /\ nextConn <= MaxConns
  /\ Fds \ open # {}
  /\ Len(fds.slots) >= MaxSlots
  /\ nextConn' = nextConn + 1
  /\ StartScan
  /\ UNCHANGED <<fds, open, ipAddresses, clients, geminiSocket, conn, ghost>>

(* No connection is waiting, or accept() fails. *)
NoConnection ==
  /\ loop = "accept"
  /\ StartScan
  /\ UNCHANGED <<fds, open, ipAddresses, clients, geminiSocket, connVars, ghost>>
-----------------------------------------------------------------------------
(***************************************************************************)
(* The scan: slot pos is visited.                                          *)
(***************************************************************************)
Visiting(s) ==
  /\ loop = "scan"
  /\ pos <= Len(fds.slots)
  /\ s = fds.slots[pos].fd

(* No event, or a read that yields no complete line: EAGAIN or a fragment. *)
SkipSlot(s) ==
  /\ Visiting(s)
  /\ fds.slots[pos].pollin => s \in open
  /\ NextSlot
  /\ UNCHANGED <<fds, open, ipAddresses, clients, geminiSocket, connVars, ghost>>

(* recv returns 0 or fails: quiteCmd, or removeClient without a Client.    *)
(* A descriptor closed since poll() fails with EBADF.                      *)
PeerGone(s) ==
  /\ Visiting(s)
  /\ fds.slots[pos].pollin
  /\ RemoveClient(s)
  /\ NextSlot

StartBatch(s) ==
  /\ Visiting(s)
  /\ fds.slots[pos].pollin /\ s \in open
  /\ loop' = "batch" /\ serving' = s
  /\ UNCHANGED <<fds, open, ipAddresses, clients, geminiSocket, pos, connVars,
                 ghost>>

EndPass ==
  /\ loop = "scan"
  /\ pos > Len(fds.slots)
  /\ loop' = "top" /\ pos' = 0
  /\ UNCHANGED <<fds, open, ipAddresses, clients, geminiSocket, serving,
                 connVars, ghost>>
-----------------------------------------------------------------------------
(***************************************************************************)
(* The batch: the commands of one read, until they run out or one throws.  *)
(***************************************************************************)
Unregistered(s) == loop = "batch" /\ serving = s /\ ~Find(fds, s)
Registered(s)   == loop = "batch" /\ serving = s /\ Find(fds, s)

(* No command left, or an unregistered client's unknown command threw. *)
EndBatch ==
  /\ loop = "batch"
  /\ NextSlot
  /\ UNCHANGED <<fds, open, ipAddresses, clients, geminiSocket, connVars, ghost>>

(* authPass with the right password: nothing asks if s is still open. *)
PassAccepted(s) ==
  /\ Unregistered(s)
  /\ ~(HasClient(s) /\ ClientOf(s).passwordCheck)
  /\ clients' = clients \cup {NewClient(s)}
  /\ ghost' = (ghost \/ s \notin open)
  /\ UNCHANGED <<fds, open, ipAddresses, geminiSocket, loopVars, connVars>>

(* authPass without a password or with a wrong one: sendErrorMessage       *)
(* closes the descriptor and leaves its slot in the table.                 *)
PassRejected(s) ==
  /\ Unregistered(s)
  /\ ~(HasClient(s) /\ ClientOf(s).passwordCheck)
  /\ open' = open \ {s}
  /\ UNCHANGED <<fds, ipAddresses, clients, geminiSocket, loopVars, connVars,
                 ghost>>

AuthNick(s, n) ==
  /\ Unregistered(s)
  /\ HasClient(s) /\ ~ClientOf(s).nicknameCheck
  /\ ~NickTaken(n)
  /\ clients' = Update(s, [ClientOf(s) EXCEPT !.nick = n,
                                              !.nicknameCheck = TRUE])
  /\ UNCHANGED <<fds, open, ipAddresses, geminiSocket, loopVars, connVars,
                 ghost>>

AuthUser(s) ==
  /\ Unregistered(s)
  /\ HasClient(s) /\ ClientOf(s).nicknameCheck
  /\ clients' = Update(s, [ClientOf(s) EXCEPT !.registered = TRUE])
  /\ geminiSocket' = IF ClientOf(s).nick = GeminiNick THEN s ELSE geminiSocket
  /\ fds' = Register(fds, s)
  /\ UNCHANGED <<open, ipAddresses, loopVars, connVars, ghost>>

(* getClient throws for a descriptor that is marked registered: the client *)
(* is removed and the batch is dropped.                                    *)
LostClient(s) ==
  /\ Registered(s) /\ s # geminiSocket
  /\ ~HasClient(s)
  /\ RemoveClient(s)
  /\ NextSlot

(* quiteCmd.  The batch goes on with the next command. *)
Quit(s) ==
  /\ Registered(s) /\ s # geminiSocket
  /\ HasClient(s)
  /\ RemoveClient(s)
  /\ UNCHANGED loopVars

(* nickCmd, as far as the Client object is concerned. *)
ChangeNick(s, n) ==
  /\ Registered(s) /\ s # geminiSocket
  /\ HasClient(s)
  /\ n \notin LongNicks /\ ~NickTaken(n)
  /\ clients' = Update(s, [ClientOf(s) EXCEPT !.nick = n])
  /\ UNCHANGED <<fds, open, ipAddresses, geminiSocket, loopVars, connVars,
                 ghost>>
-----------------------------------------------------------------------------
(* The steps of the loop itself; the rest are the commands of a batch. *)
LoopStep ==
  \/ Sweep \/ Poll \/ RefuseClient \/ NoConnection \/ EndPass \/ EndBatch
  \/ \E s \in Fds :
       AcceptClient(s) \/ SkipSlot(s) \/ PeerGone(s) \/ StartBatch(s)

CommandStep ==
  \E s \in Fds :
    \/ PassAccepted(s) \/ PassRejected(s) \/ AuthUser(s)
    \/ LostClient(s) \/ Quit(s)
    \/ \E n \in Nicks : AuthNick(s, n) \/ ChangeNick(s, n)

Next == LoopStep \/ CommandStep

Spec == Init /\ [][Next]_vars

(***************************************************************************)
(* One thread runs the loop, and one read is at most RECV_MAX - 1 bytes,   *)
(* so a batch ends: the loop takes its next step eventually.               *)
(***************************************************************************)
FairSpec == Spec /\ WF_vars(LoopStep)
-----------------------------------------------------------------------------
TypeOK ==
  /\ fds \in Table
  /\ open \subseteq Fds
  /\ ipAddresses \subseteq Fds
  /\ clients \subseteq Client
  /\ geminiSocket \in Fds \cup {NONE}
  /\ loop \in {"top", "accept", "scan", "batch"}
  /\ pos \in Nat
  /\ serving \in Fds \cup {NONE}
  /\ conn \in [Fds -> Nat]
  /\ nextConn \in Nat
  /\ ghost \in BOOLEAN

(* The reverse index is right: the slot it names for a descriptor holds    *)
(* that descriptor, even though a rejected PASS leaves slots of closed     *)
(* descriptors behind and a reused number then has two (pollfds::erase     *)
(* swaps, re-indexes and clears).                                          *)
CashValid == ValidIndex(fds)

(* An open connection can always be served and torn down: it is indexed,   *)
(* hence (CashValid) polled, and JOIN finds its host in ipAddresses.  No   *)
(* erase of another descriptor and no sweep takes that away.               *)
OpenIsServed == \A s \in open : CanErase(fds, s) /\ s \in ipAddresses

(* A socket has one Client and a nickname one owner, whatever the order in *)
(* which connections register, rename, leave and are swept: getClient and  *)
(* findClient, which take the first match, are unambiguous.                *)
OneClientPerSocket == \A c, d \in clients : c.sock = d.sock => c = d
NickUnique ==
  \A c, d \in clients : c.nick = d.nick /\ c.nick # NoNick => c = d

(* The bot's descriptor is that of a registered client: GEMINI requests    *)
(* never go to a descriptor whose client has been removed.                 *)
GeminiIsClient ==
  geminiSocket # NONE =>
    \E c \in clients : c.sock = geminiSocket /\ c.registered

(* As long as PASS has not succeeded on a closed descriptor, a Client      *)
(* belongs to the connection that is on its descriptor now, and a          *)
(* descriptor marked registered has a Client that registered.              *)
Identity ==
  ~ghost =>
    /\ \A c \in clients : c.sock \in open /\ c.conn = conn[c.sock]
    /\ \A s \in fds.registered :
         \E c \in clients : c.sock = s /\ c.registered

(* The mark by which the loop chooses between handshake and commands and   *)
(* the Client's own flag agree wherever there is a Client, ghosts and      *)
(* marks that erase has left behind included: executeCommand never works   *)
(* for a client that is still in its handshake, nor can one that has       *)
(* completed it go through it again.                                       *)
MarkedIsRegistered ==
  \A c \in clients : c.registered <=> c.sock \in fds.registered

(* A connection that stays never moves to a later slot: erase may move it  *)
(* behind the scan, so that this pass skips it, but only downwards, so it  *)
(* is skipped finitely often.                                              *)
Stays(s) == s \in open /\ s \in open' /\ conn'[s] = conn[s]
SlotsOnlyMoveDown ==
  [][\A i \in 1..Len(fds.slots) : Stays(fds.slots[i].fd) =>
       \E j \in 1..i : /\ j <= Len(fds'.slots)
                       /\ fds'.slots[j].fd = fds.slots[i].fd]_vars

(* Every pass ends: the loop always comes back to poll(), although slots   *)
(* are erased under the scan.                                              *)
BackToPoll == loop # "top" ~> loop = "top"
-----------------------------------------------------------------------------
(***************************************************************************)
(* What messages of the program say and its code does not keep.            *)
(***************************************************************************)

(* "please register first to have access to server resources"              *)
(* (server.cpp:229): a connection whose commands are executed, because its *)
(* descriptor is marked registered, has itself completed the handshake.    *)
RegisteredFirst ==
  \A s \in open \cap fds.registered :
    \E c \in clients : c.sock = s /\ c.registered /\ c.conn = conn[s]

(* "Failed to send PING to client" (server.cpp:264), collected in          *)
(* socketsToRemove: a sweep closes only connections whose PING failed.     *)
SweepClosesOnlyTheDead == [][Sweep => open \ open' \subseteq Flaky]_vars

(* "Server capacity is full" (server.cpp:203): a connection is refused     *)
(* only when MaxSlots connections are open.                                *)
RefusedOnlyWhenFull == [][RefuseClient => Cardinality(open) >= MaxSlots]_vars
=============================================================================
