# A verification model of ft_irc (`ircserv`)

TLA+ modules for the IRC server in this repository: the poll table, the life of
a connection, the framing of lines, the channel commands, the two together, and
the bridge to the bot. TLC checks them on small instances; TLAPS proves every
invariant and every property of a step for every value of the constants, so that
liveness alone rests on TLC. Paths below are relative to the repository's root,
where the server is in `src/`, the bot in `bot/` and shared headers in
`components/`.

## 1. Inventory

`ircserv` is one process with one thread. `Server::start` polls a table of
descriptors, walks the slots, reads, cuts what it read into commands and
executes them, and every reply is sent before the next command. What interleaves
is outside: when connections arrive and break, where TCP cuts the stream, which
of the peers speaks next, and that the system hands closed descriptor numbers
out again while vectors, maps and slots still hold them.

| Component | State | Operations | What is hard |
|---|---|---|---|
| Poll table, `components/pollfds.hpp` | array of `pollfd`, `totalFds`, `cashedFds` (descriptor to slot), `clientFds` (registered) | `push_back`, `erase`, `Register`, `find`, `event` | `erase` swaps the last slot into the hole; duplicates of a number |
| Server loop, `src/server/server.cpp` | `clients`, `ipAddresses`, `commandsList`, `geminiSocket`, the loop's position | `start`, `acceptClient`, `registerClient`, `removeClient`, `checkClientConnections` | handlers close and erase under the scan; reuse of descriptors |
| Registration, `src/server/auth.cpp` | flags and nickname of a `Client` | `authPass`, `authNick`, `authUser` | a batch continues after its connection was closed |
| Line framing, `server.cpp`, `receive.hpp`, `split.hpp` | `commandsList[fd]` | one read | a read ends anywhere |
| Channels, `src/channel/` | members, operators, invited (vectors of `Client` copies), modes, topic | `addClient`, `removeClient`, `addOperator`, ... | copies found by descriptor here, by nickname there |
| Membership commands, `joinCmd`, `partCmd`, `kickCmd`, `inviteCmd`, `nickCmd`, `quiteCmd` | `channels` | one handler each | keeping the copies in step; who deletes an empty channel |
| MODE, `modeCmd.cpp` | the modes | a loop over letters | one operator check for all letters, as KICK has one for all nicknames; numbers |
| TOPIC | topic text | set, show | who may |
| PRIVMSG | none | broadcast, send | whom the member vector stands for |
| GEMINI, `gemini.cpp`, `bot/` | the streams to and from the bot, its `commandsList`, `geminiSocket` | forward, reassemble, answer, deliver | two processes; answers addressed by descriptor number; reads end anywhere; the first read is dropped |
| Start-up, helpers | none at run time | argument checks, character functions | none |

They interact by direct calls on shared state: the loop calls the handshake or
`executeCommand`; QUIT and a broken connection go through `removeClient`
(connection) and then through the channels; the sweep goes through
`removeClient` only. Channels hold copies, so a change of a client must be
carried to every channel by an explicit call. The bot is a second process, an
ordinary client whose nickname the handshake recognizes; requests and answers
travel over its connection while clients come and go.

What makes each correct:

* poll table: the index names a slot of its descriptor, and every open
  connection is indexed, so it is polled and can be closed;
* connections: one `Client` per descriptor, one per nickname; the `Client` and
  the registered mark of a descriptor belong to the connection that is on it
  now; the loop returns to `poll()`;
* framing: each line is executed once, in order, whatever the reads were;
* channels: members are present clients under their present nicknames, once;
  nobody is removed by another's QUIT or NICK and nobody's invitation taken
  away; a limit shown is enforced; a channel without members is gone;
* the whole: the connections that are told what is said in a channel are those
  that joined it and have not left;
* bridge: a request is answered once, in its turn and not to somebody else's
  disadvantage; none is lost on the way.

## 2. Modules

| Module | Models | Extends |
|---|---|---|
| `PollFds` | `pollfds` as a record (slots, index, registered) and its operations as operators | |
| `Sessions` | `Server::start`, accept, handshake, NICK, QUIT, `removeClient`, sweep | `PollFds` |
| `SessionsProofs` | lemmas about the table's operations, nine theorems | `Sessions` |
| `Channel` | the class `Channel` as a record and its operations | |
| `Chat` | the channel commands over clients and channels | `Channel` |
| `ChatProofs` | four theorems | `Chat` |
| `StepProofs` | three theorems on what one step does to one channel | `ChatProofs` |
| `Roster` | abstract: who is online, the members of each channel, which channels exist | |
| `RosterProofs` | `Chat` implements `Roster` | `ChatProofs` |
| `Server` | the composition: the steps of `Sessions` with their effect on channels, and the commands of `Chat` | `Sessions`; instantiates `Chat`, `Roster` |
| `ServerProofs` | `Server` implements `Chat` and, by connection, `Roster` | `Server`, `SessionsProofs`; instantiates `RosterProofs` |
| `Enumeration` | the places at which something is found in a text, in order | |
| `EnumerationProofs` | lemmas about it | `Enumeration` |
| `LineFraming` | one connection's reads and the commands they become | `Enumeration` |
| `FramingProofs` | three theorems | `LineFraming`, `EnumerationProofs` |
| `GeminiBridge` | requests to the bot, its loop, its answers, their delivery | `Enumeration` |
| `BridgeProofs` | two theorems | `GeminiBridge`, `EnumerationProofs` |
| `MCSessions`, `MCChat`, `MCServer`, `MCLineFraming`, `MCGeminiBridge` | values of the constants for TLC | the above |

### Sessions

`loop` says where `Server::start` stands: `top` (before `poll`), `accept` (the
listening socket), `scan` (slot `pos`), `batch` (executing the commands of one
read for `serving`). A batch is a nondeterministic number of commands because
what a peer sends is its choice. `open` are the descriptors the process holds
open, apart from the slots that name them: `sendErrorMessage` closes a
descriptor and leaves its slot, so the two differ. Descriptors are numbers and
`accept` returns the lowest free one, as POSIX has it: reuse is immediate.
Every 1000th turn of the loop is a sweep; the counter is abstracted to "any
turn". `conn`, `nextConn` and `ghost` are history and guard nothing.

`Client` is what the code's `Client` holds and the loop reads: descriptor,
nickname, the three flags; `conn` is the connection it was made for. A name is a
model value, with those the handshake accepts and the NICK command refuses
(11 to 15 characters) a set of their own. The channels' part of QUIT and NICK is
in `Chat`, and both parts together in `Server`.

### Chat

`client[s]` is the nickname of the registered client on descriptor `s`;
`channels[c]` the `Channel` of that name or none. SignOn stands for a whole
handshake. A comma list of JOIN or PART is a sequence of steps, because the
iterations share nothing. Those of MODE and KICK do share something, the check
made before the loop and not again in it. So `command` holds the MODE or KICK
that has passed it: `BeginMode` and `BeginKick` are the check (KICK's asks for
membership too), then comes one step per effective letter or nickname
(`CommandLoop`), then `EndCommand`; nothing else runs in between, as in the code.
`Admits` has the two branches of `joinChannel`, with a key and without.

`Evict` is a sweep that removes a client: it goes through
`Server::removeClient`, which does not know channels, and sets `swept`.
`QuitHandshake` is a connection that breaks before it has registered:
`Server::start` calls `quiteCmd` for it all the same, and after a sweep channels may know its descriptor from somebody else. `Invite` may
find such a client, too, as `findClient` does not ask whether it is registered.
`Recipients` is whom `broadcastToMembers` sends to; PRIVMSG and the replies that
are broadcast have no other effect.

Numbers given to `+l` are read by `atoi`: cut to the width of an int, whose
largest value is the constant `IntMax`.

### Roster

What channels promise, in sets: `Enter`, `Depart`, `Join`, `Leave`, one person at
a time; `Depart` leaves no trace in any channel; a channel exists as long as it
has members. `trusted` says whether the promise is still made. `Chat` implements
it (`Chat!IsRoster`) with descriptors for people, `Told(c)` for the members of
`c`, and `~swept` for `trusted`. The commands that change no membership (MODE,
TOPIC, INVITE, NICK) are stutters. `RosterProofs` proves it.

### Server

`Server` extends `Sessions` and instantiates `Chat` as `C` with
`client <- [s \in Fds |-> RegisteredNick(s)]`: what `Chat` knows of a client is
computed from the `Client` objects of `Sessions`. Each step of `Sessions` is
given its effect on the channels (a broken read and QUIT: `ChannelsWithout`;
NICK: `AfterNick`; a sweep: none), and a channel command of `Chat` is executed
when the loop stands in a batch of a registered client. Two properties relate
the whole to its parts and to the abstract specification:

* `RunsChat`: every behaviour of the server is one of `Chat`. It says that the
  atomic SignOn, Quit, QuitHandshake and Evict of `Chat`, on which its
  invariants rest, are what handshakes that break half-way, batches that outlive
  their connection, rejected PASSes on served descriptors and sweeps of stale
  slots amount to.
* `IsRoster`: the same promise as in `Chat`, but with connections for people,
  not descriptors. A number is closed and given out again; the vectors hold the
  number only. The promise is dropped when a sweep has removed a registered
  client or PASS has succeeded on a closed descriptor (`ghost`): both leave
  copies that the next connection on the number inherits, and without either of
  these conditions TLC finds such a behaviour.

### LineFraming

The peer sends one of `Streams`, each a text of lines that are not empty, with
their terminators (`IsLines`); a step reads any number of characters up to
`RecvMax`, and `Commands` is what the code in `Server::start` makes of one read
and the buffer. `Split` has one piece for each member of `Lasts`, the places
where a non-empty piece ends, in their order; `Enumeration` puts them in it, as
the loop around `find` does, without recursion. With `Interactive`, reads are
what typing gives: whole lines, or text, and then its terminator on its own.
Without it, reads are cut anywhere.

### GeminiBridge

Clients sign on, leave and ask; `toBot` and `fromBot` are the two directions of
the bot's connection, `buffer` its `commandsList`. A line to the bot is three
pieces, the beginning of its text, the rest with the `\r`, and the `\n`, which is
enough for a read to end inside the text, between the two characters of the
terminator, at a line's end, or after several lines. `BotRead` is one turn of
`Bot::serveClient`: the first read of a process is dropped; one that does not end
with a `\n` is buffered; else `Served` says which commands come of the buffer and
the read, in the code's three cases. Without a buffer they are the lines of the
read. A buffer without a `\n` is continued by the first of these lines; if it
ends with the `\r` of its own line, `split` has dropped the `\n` as an empty
piece, the next line is joined to it and cut away at the first `\r`, and its
request is lost. A buffer that holds a `\n` is a command by itself, of which only
the first line survives the cut.

A reply is to a whole line, or to a head or a tail (`got`). `Addresses` is what
the server's `std::stoi` can make of its beginning: the descriptor, for a whole
line; no number, the descriptor or a proper beginning of it for a head; no
number or a proper ending for a tail. `Deliver` gives it to whoever has a
`Client` on that number now. `owner`, `asked` and `answers` follow the
connections. `cuts` chooses once whether reads may end inside lines.

The bot goes in two ways. `EndBot` is the end of the process: its buffer and what
it has not read are gone, the answers it has sent are not, and the server goes on
sending until it notices. `LoseBot` is the server's `removeClient`, because it has
read the end of the stream or because a sweep took the last slot for a dead
one; answers not read by then are lost.

## 3. Runs

| Run | Question | Bounds |
|---|---|---|
| `sessions` | do table, clients, nicknames, registered marks and the bot's descriptor stay consistent, does no connection move up, does the loop return to `poll` | 2 descriptors, 3 slots, 4 connections, 3 nicknames (one long, one the bot's), both descriptors may fail a PING; 494,909 states |
| `sessions_register` | *violated:* only registered connections have commands executed | 3 connections, no flaky descriptor |
| `sessions_sweep` | *violated:* a sweep closes only connections whose PING failed | the same |
| `sessions_refuse` | *violated:* a connection is refused only when the server is full | 2 slots |
| `chat_members` | do members follow clients, once each; is no channel empty; does nobody leave but by PART or a KICK that names it; are the channels a roster | 3 descriptors, 3 nicknames, 1 channel, one evictable descriptor, 2 operator entries; symmetry in the other descriptors and the nicknames; 131,238 states |
| `chat_modes` | is a limit shown one that is enforced; does an invitation stay with a client that keeps its nickname; types under `atoi` | 3 clients, 1 channel, letters i t l k, limits 0, 2, 5, 9 with a 3-bit int (5 wraps to a negative number, 9 to 1), 1 topic, 1 invitation; symmetry in descriptors and nicknames; 11,596 states |
| `chat_newcomer` | *violated:* a new connection is no operator | 2 clients, 2 nicknames |
| `framing` | are an interactive peer's lines executed once, in order, without a crash | 4 lines (one letter, two, a space inside, spaces at the end), 3 of them sent |
| `framing_partial` | *violated:* the same for lines cut anywhere | 2 lines, reads of up to 6 characters |
| `framing_crash` | *violated:* the server does not crash | the same |
| `server` | is the whole server one of `Chat`; are those who are told what is said in a channel the connections that joined and have not left | 2 descriptors, 3 slots, 3 connections, 3 nicknames (one the bot's), one descriptor may fail a PING, 1 channel, letter o; symmetry in the two common nicknames; 355,669 states |
| `bridge` | are requests answered at most once and in order, whoever has the descriptor then; is none lost among others | descriptors 4 and 44 (one begins and ends with the other), 2 connections, 2 requests each, 2 bot processes, reads cut anywhere or at line ends; 581,241 states |

Why the bounds are enough for the cases that matter. Two descriptors and four
connections let a number be closed, reused while its stale slot is still in the
table, and reused again; three slots let the swapped-in slot be another
descriptor's, its own and a stale one, and let the table be full. Three clients
in a channel are one that acts, one that is acted on and one that has taken the
nickname or number of either. One channel suffices because no step reads one
channel to change another; two entries of an operator vector are the shortest
duplicate. Symmetry is used only where descriptors and nicknames are compared
with each other and nothing else; `sessions` uses none, as `accept` compares
numbers; in `chat_members` the evictable descriptor is left out of it, in
`server` all descriptors and the bot's nickname are.

In `server`, three connections are one on a descriptor that is closed, one that
gets the number, and one that sees it. Invitations and modes other than o, which
no step of a connection reads, are left to `chat_modes`. In `bridge`, two requests of
two connections are the fewest that can be exchanged within a connection,
between descriptors and across a reuse; a second bot process is enough for
answers of the first to be too late.

Deadlock is checked but in `LineFraming`, where the peer's lines come to an end,
and in `GeminiBridge`, where connections, requests and bots do.

Fairness: `FairSpec` adds weak fairness of `LoopStep`, the steps the server's
thread takes by itself. The thread runs, `poll` returns (its timeout is finite),
and a batch ends because a read is at most `RECV_MAX - 1` bytes. No fairness is
assumed of peers, nor of which way a choice goes. Its property is `BackToPoll`.
`GeminiBridge` assumes weak fairness of the bot's reads and of the server's
delivery: TCP delivers what was sent to a connection that stands, and both
processes are loops that come back to `poll`, the server's by `BackToPoll`.
Clients, and whether the bot lives, are free. Its property is `RequestsAnswered`,
stated for reads that end with a `\n`, since a cut read does lose requests, and
for a bot past its first read, which it drops.

## 4. What the violated runs show

* `sessions_register`: PASS wrong, PASS right in one read. `authPass` closes
  the descriptor at the first and makes a `Client` for the closed descriptor at
  the second; NICK and USER in the same read register it. The next connection
  gets the number and is served without having registered.
* `sessions_sweep`: `removeClient(socket)` in the removing loop uses the
  variable of the loop before, the last slot's descriptor, instead of
  `socketsToRemove[i]`. When some PING fails (that of a leaked slot always
  does), the last connection is closed.
* `sessions_refuse`: a rejected PASS leaves its slot in the table for good.
* `chat_newcomer`: a client given `+o` twice has two operator entries; QUIT
  removes one; the next client on the descriptor is an operator.
* `framing_partial`: an unfinished last line is executed at once, and the piece
  that continues a buffered line loses its last character, because
  `erase(find_last_not_of(' '))` erases from that character on.
* `framing_crash`: with only spaces there, `find_last_not_of` is `npos` and
  `erase(npos)` throws outside every `try`.

Also in the model, without a run of their own:

* A KICK with a list goes on when its sender is no operator any more. A client
  has been given `+o` twice, has parted, renamed itself and come back; one of its
  operator entries still has its old nickname, and another member has taken that
  nickname. `KICK #c old,bob` removes with the first name the sender's own entry
  and with the second bob. Therefore `StaysUnlessKicked` asks of a KICK that its
  sender is in the channel, not that it is an operator.
* An invitation does not follow a client that renames itself outside the channel:
  `setNickInvited` runs for members only. The next client of the nickname enters
  in its place. JOIN does not use up an invitation either.
* A swept client stays in the member vectors, and the next client on its
  descriptor is a member of its channels without having joined. Therefore the
  properties of membership are stated until a sweep.
* `-o` on a doubled operator removes one entry and leaves it operator; the letters
  after one that removed the sender's own status are still applied.
* `+l` with a number beyond an int announces that number and enforces its low
  bits; `+l 0` closes a channel and is not shown.
* An answer to a client that has gone is told to the next connection on its
  number. The bot loses the line after one it has read up to its `\r`.

## 5. Proofs

All for any number of descriptors, slots, connections, nicknames, channels,
requests and characters, from the named assumptions on the constants: what is a
number is one, the special values (no channel, no nickname, no mode, no key, no
topic, no descriptor) are none of those they stand beside, and the letters of
MODE are among i, t, o, l, k. `Server` repeats those of `Chat` for the constants
it hands on. Two theorems of `FramingProofs` have hypotheses of their own.

`SessionsProofs` begins with the table. `PushBackOK`, `EraseOK`, `EraseKeeps`,
`PolledOK` and `RegisterOK` say that each operation keeps the table well-typed
and its index valid and which entries it leaves alone. They assume nothing about
duplicates, which is the case that matters: `erase` of a number with a second
slot. Then the inductive invariant: `IInv` is the conjunction of the
checked invariants and `AllChecked`, every `Client` has `passwordCheck` set.
`AllChecked` is what makes `OneClientPerSocket` inductive: PASS makes a new
`Client` unless there is one with `passwordCheck`, so an unchecked one would get
a second beside it. `OpenIsServed` is needed by `Identity`: `removeClient` skips
`close` and the registered mark exactly when `erase` returns early, and
`OpenIsServed` says that then the descriptor is not open. Theorems:
`TypeCorrect`, `IndexCorrect`, `OpenAlwaysServed`, `SocketsUnique`,
`NicknamesUnique`, `GeminiAlwaysClient`, `IdentityKept`, and the action property
`NeverMovesUp`. `MarksAgree` (a `Client`'s flag and the mark of its descriptor)
adds two parts, `Handshakes`: the property itself, and that a client that is
registered has a nickname; `erase` that returns early leaves the mark but
`removeClient` then removes the `Client`, and PASS is executed only where the
mark is unset. `ConnNumbers`, which `ServerProofs` needs, says that open
descriptors have connections of their own.

`ChatProofs`: the invariant says of every channel that it is `Good`: of its
type, no descriptor twice among the members, and, before any sweep, its members
live under their present nicknames and at least one. It needs `ClientsDistinct`
(a nickname has one client) because QUIT and KICK remove by nickname: with it,
the first member of that nickname is the client meant (`ErasedIsGone`). KICK
cannot empty a channel because who kicks is a member under another nickname and
stays: `KickerStays` carries that through all the nicknames of a list, although
whether it is still an operator is not known then. `CommandOnChannel` keeps the
channel of a MODE or KICK in existence to the command's end. Theorems: `TypeCorrect`, `MembersOnce`, `MembersAlwaysLive`,
`ChannelsNeverEmpty`. Below them `RemoveAtOK`, `WithoutSocketOK` and
`WithoutNickOK` say what erasing the first match does to a vector, and one lemma
per operation of `Channel` what it does to the members.

`RosterProofs`: `ChatIsRoster`, the refinement. `Told(c)`, the descriptors a
broadcast goes to, is the set of descriptors in the member vector
(`RecipientsOK`), so that a step maps to the roster by what it does to that set.
A step that sweeps, or any step after a sweep, is the roster's `Broken`. Before
it the invariant is needed three times. A channel that exists has members
(`ToldNonEmpty`), without which a channel left alone by a QUIT could be one that
should have vanished. A nickname erased is a descriptor removed (`SocksErased`),
because members live under their present nicknames and a nickname has one
client: this makes QUIT a `Depart` and KICK a `Leave`. A descriptor without a
registered client is in no channel (`AbsentIsNoMember`), so that quiteCmd for a
broken handshake is a stutter. Each action then has its lemma (`QuitDeparts`,
`PartChannelLeaves`, `JoinChannelJoins`, ...).

`StepProofs`: `AllSteps` says what a step can do to one channel: create it
without a limit, end it, leave limit and flag alone, or set or drop them
together. From it follows `LimitsEnforced`, for any numbers and any width of an int. `InvitationsLast` needs
of the invariant that a nickname has one client, and holds across sweeps: what
QUIT and KICK erase by nickname is the invitation of who quits or is kicked, and
what NICK renames by descriptor is the renamed client's own (`ErasedInvited`,
`RenamedInvited`). `NobodyElseRemoves` needs the invariant again: who is gone after an erasure by
nickname had that nickname (`ErasedOnly`), so it is who quit or who was kicked.

`ServerProofs`: the composition. `ServerInv` is `IInv`, `Handshakes` and
`ConnNumbers`, carried over from `Sessions` because every step of the server is
one of `Sessions` or leaves its variables alone (`ConnectionStep`). Nothing about
the channels is needed to show `ServerRunsChat`: each step of a connection is
mapped by what it does to the nicknames `Chat` sees. USER is SignOn
(`AuthUserSignsOn`), for the client was unmarked, hence unregistered, before; a
broken read and QUIT are Quit or QuitHandshake according to whether the `Client`
was registered (`GoneQuits`), and `MarksAgree` rules out that a handshake
continues for a registered one; a sweep is Evict (`SweepEvicts`); what happens in
a handshake is not seen. Hence the invariant of `Chat` holds of the server
(`ServerMembersLive`): the proofs of `ChatProofs` and `RosterProofs` are used
through an instance of the latter, and the lemmas `Same...` say that it and the
instance in `Server` are the same formulas.

`ServerIsRoster` then starts from the roster of descriptors (`DescriptorStep`)
and takes its image under `conn`. The image is faithful where `conn` is one to
one, which it is on open descriptors, and while there is neither a ghost nor a
sweep whoever is told something is on an open one (`ToldSeen`, `SeenOpen`).
A step that changes `conn` is an accept: its descriptor was closed and hence told
nothing before it, and is told nothing after it (`ConnChanges`).

`EnumerationProofs`: `InOrder(S)` of a finite set of numbers lists each member
once and in increasing order (`Listed`), and is the only sequence that does
(`OneListing`). From these follow what the next two need: the listing of a set
with later members added is the two one after the other (`ListedBeyond`), that of a
set moved along is the listing moved (`ListedMoved`). Nothing is recursive, and
the proofs count instead of doing induction: as many ranks as there are members,
and no two members of one rank.

`FramingProofs`, for any alphabet, streams of any length and reads of any size.
`FramingTypes` holds for all peers. `LinesFramed` assumes `Interactive`, without
which `framing_partial` shows it false, and `LinesDoNotCrash` also `NoBlankLines`:
an interactive peer that sends a line of spaces does crash the server
(`executeCommand` takes the first of no words). Both have instances: every
constant of the run `framing` satisfies them. The invariant is `Pending`, the
buffer is what came after the last end of a line. A read is text, and is kept; or
it is the terminator of what is pending, one command (`TerminatorFrames`); or it
is whole lines while nothing is pending, and then the places where `split` ends
its pieces are exactly two before the ends of the lines (`WholeLasts`,
`WholeEnds`), so the two listings are one moved along and each command is the
line that ends there (`WholeFrames`). That a continued line loses its last
character does not appear: the piece that continues an interactive peer's buffer
is a terminator alone, and `split` drops the empty piece.

`BridgeProofs`: `BridgeTypes`, and `BridgeInOrder` by `BridgeInv`. It puts the
replies, the bot's buffer and the stream to the bot into one line, the `Way`, and
says that on it the requests of one descriptor come in the order in which they
were made (`WayInOrder`), that each was issued by its connection, no later than
the one that has the descriptor now, and that what a connection has been told
precedes all that is on the way (`ToldFits`). A new request is the last
(`NewIsLast`). A read of the bot only drops and moves: there is an increasing map
of the new way into the old one that keeps the request at each place
(`ReadEmbeds`), whatever the read cuts and the buffer joins, because a command
answers the line whose end it has. A delivery moves the first of the way to the
told. Replies to a head or a tail count as replies for nobody: they are outside
the property but still have their place (`ServedInPlace`).

Only model-checked: `BackToPoll` and `RequestsAnswered`, liveness under fairness,
which the prover does not reach. Not proved either is that the streams TLC uses
are those of `MCLineFraming`'s lines put one after the other (`FlattenSeq`, a
recursive definition): the theorems are about every stream that `IsLines`, and
TLC evaluates that assumption for those it uses.

## 6. Not modelled

* Text: replies and their numbers, topics, answers of the bot, validity of
  names. Names, topics and keys are model values that passed the check.
* PRIVMSG to a nickname: it changes nothing and goes to the first client of that
  nickname, of whom `NickUnique` says there is one.
* Positions of parameters in a command: a missing one is read beyond a vector
  (`JOIN` with one channel and no key, `PART ,`), and `-l` and `-k` in a MODE
  skip a parameter they do not take. The modelled commands are given the
  parameters they find.
* What other clients send to the bot by PRIVMSG or INVITE, which it would take
  for requests. An answer of the bot arrives whole at the server: how reads of
  the server cut lines is `LineFraming`'s subject.
* The bot's descriptor is not among those its clients use in `GeminiBridge`;
  that it is a registered client's, and what else may get its number, is in
  `Sessions`.
* Sends to a full or broken peer; memory: growth of `commandsList`, failure of
  allocation, the array element `pollfds::erase` writes behind the last one, the
  entries `memset` leaves uninitialised because it counts bytes.
* Process start, arguments, signals; helpers that are pure functions.

## 7. Plan

Done: the table, connections, channels, framing, the roster, the composition and
the bridge, their runs, and a theorem for every property of the passing runs but
the two of liveness. Next:

1. `CommandParams`: the parameters of JOIN, PART, PRIVMSG and MODE and their
   positions, checked against a reference over bounded inputs.
2. Proofs that name the measure behind `BackToPoll`: that each step of a scan
   advances the slot, ends the batch or shortens the table is a safety property
   of a step and within the prover's reach, although the liveness itself is not.
