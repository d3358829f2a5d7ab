---------------------------- MODULE GeminiBridge ----------------------------
(***************************************************************************)
(* GEMINI: ircserv (commands/gemini.cpp and the reply branch of            *)
(* Server::start) passes a client's request on to the bot process          *)
(* (bot/gemini.cpp), which answers it, over one TCP connection.            *)
(*                                                                         *)
(* Requests and answers name the client by its descriptor number only.     *)
(* The two processes run concurrently with the clients, which come and go: *)
(* a number may belong to somebody else when the answer arrives.  The bot  *)
(* drops its first read, whatever it holds, and reassembles lines that TCP *)
(* has cut.                                                                *)
(*                                                                         *)
(* A line to the bot is three pieces, so that a read can end in the middle *)
(* of its text or between its '\r' and its '\n'; a reply of the bot is one  *)
(* send and arrives whole (LineFraming is about the server's side of it).  *)
(* The bot's own descriptor is not in Fds.                                 *)
(***************************************************************************)
EXTENDS SequencesExt, Enumeration

CONSTANTS
  Fds,         \* descriptors of clients
  MaxConns,    \* bound: connections of clients
  MaxRequests, \* bound: requests of a connection
  MaxBots,     \* bound: bot processes started
  NONE         \* no descriptor

ASSUME FdsAssumption == Fds \subseteq Nat /\ NONE \notin Fds
ASSUME BoundsAssumption ==
  MaxConns \in Nat /\ MaxRequests \in Nat /\ MaxBots \in Nat

Conns == 1..MaxConns

(* The n-th request of connection `conn`, sent from descriptor `sock`. *)
Request == [sock : Fds, conn : Conns, n : 1..MaxRequests]
Welcome == [sock |-> NONE, conn |-> 0, n |-> 0]

(* tail: the rest of the text and its '\r'; end: its '\n'. *)
Parts == {"head", "tail", "end"}
Piece == [line : Request \cup {Welcome}, part : Parts]

(* What the bot replies to: a whole line, or what it has of one. *)
Reply == [to : Request \cup {Welcome}, got : {"whole", "head", "tail"}]

VARIABLES
  owner,   \* the connection that has a Client on each descriptor, or 0
  nextConn,
  asked,   \* the number of requests each connection has sent
  bot,     \* "down", "greeting" (has not read yet), "serving" or "gone"
  bots,    \* bot processes started
  toBot,   \* the stream from the server to the bot
  buffer,  \* commandsList of the bot
  fromBot, \* the stream from the bot to the server
  answers, \* history: the requests whose answers each connection was told
  cuts     \* whether reads of the bot may end inside a line

streams == <<toBot, buffer, fromBot>>
vars == <<owner, nextConn, asked, bot, bots, streams, answers, cuts>>

Line(r) == <<[line |-> r, part |-> "head"], [line |-> r, part |-> "tail"],
             [line |-> r, part |-> "end"]>>
-----------------------------------------------------------------------------
Init ==
  /\ owner = [s \in Fds |-> 0]
  /\ nextConn = 1
  /\ asked = [c \in Conns |-> 0]
  /\ bot = "down" /\ bots = 0
  /\ toBot = <<>> /\ buffer = <<>> /\ fromBot = <<>>
  /\ answers = [c \in Conns |-> <<>>]
  /\ cuts \in BOOLEAN

(***************************************************************************)
(* Clients of the server.                                                  *)
(***************************************************************************)
SignOn(s) ==
  /\ owner[s] = 0 /\ nextConn \in Conns
  /\ owner' = [owner EXCEPT ![s] = nextConn]
  /\ nextConn' = nextConn + 1
  /\ UNCHANGED <<asked, bot, bots, streams, answers, cuts>>

(* removeClient: nothing is done about requests on their way. *)
Leave(s) ==
  /\ owner[s] # 0
  /\ owner' = [owner EXCEPT ![s] = 0]
  /\ UNCHANGED <<nextConn, asked, bot, bots, streams, answers, cuts>>

(* Server::gemini; of a bot that is gone it only knows the descriptor. *)
Ask(s) ==
  LET c == owner[s]
  IN  /\ c # 0 /\ asked[c] < MaxRequests
      /\ bot # "down"
      /\ asked' = [asked EXCEPT ![c] = @ + 1]
      /\ toBot' = IF bot = "gone" THEN toBot
                  ELSE toBot \o Line([sock |-> s, conn |-> c, n |-> asked[c] + 1])
      /\ UNCHANGED <<owner, nextConn, bot, bots, buffer, fromBot, answers, cuts>>

(***************************************************************************)
(* The bot's connection.                                                   *)
(***************************************************************************)

(* A bot process registers: authUser sends it the welcome in one piece of  *)
(* four lines, here one line.                                              *)
StartBot ==
  /\ bot = "down" /\ bots < MaxBots
  /\ bot' = "greeting" /\ bots' = bots + 1
  /\ toBot' = Line(Welcome)
  /\ UNCHANGED <<owner, nextConn, asked, buffer, fromBot, answers, cuts>>

(* The process ends, and with it what it has not answered; the server does *)
(* not know yet, and what it was answered is still there to be read.       *)
EndBot ==
  /\ bot \in {"greeting", "serving"}
  /\ bot' = "gone"
  /\ toBot' = <<>> /\ buffer' = <<>>
  /\ UNCHANGED <<owner, nextConn, asked, bots, fromBot, answers, cuts>>

(* The server removes the bot: it has read the end of the stream, or a     *)
(* sweep removes the client in the last slot, which may be the bot (it     *)
(* then waits in poll() without a descriptor until it is killed).  What    *)
(* was on its way is lost.                                                 *)
LoseBot ==
  /\ bot # "down"
  /\ bot' = "down"
  /\ toBot' = <<>> /\ buffer' = <<>> /\ fromBot' = <<>>
  /\ UNCHANGED <<owner, nextConn, asked, bots, answers, cuts>>
-----------------------------------------------------------------------------
(***************************************************************************)
(* The loop of the bot (Bot::serveClient): one read.                       *)
(***************************************************************************)
Tails(text) == {i \in 1..Len(text) : text[i].part = "tail"}

(* The places where the text of a line ends, in order. *)
Returns(text) == InOrder(Tails(text))

Closed(text) == \E i \in 1..Len(text) : text[i].part = "end"

(* The command that ends in text[i]: a whole line or the tail of one. *)
Answer(text, i) ==
  [to  |-> text[i].line,
   got |-> IF i = 1 \/ text[i - 1].part # "head" THEN "tail" ELSE "whole"]

Answers(text) == [k \in 1..Len(Returns(text)) |-> Answer(text, Returns(text)[k])]

(* Each command is cut at its first '\r'.                                  *)
First(text) ==
  IF Tails(text) = {} THEN [to |-> Last(text).line, got |-> "head"]
                      ELSE Head(Answers(text))

(* Mutated: the text is sent back instead of the answers to it. *)
ServedRaw(old, read) == old \o read

(* Mutated: what was buffered is executed after what is read. *)
ServedLate(old, read) == Answers(read) \o Answers(old)

(* Mutated: of the commands of a read only the first is executed. *)
ServedFirst(old, read) == <<First(old \o read)>>

(* A read that ends with a '\n', after what is buffered.  It is split into *)
(* lines, without empty ones.  A buffer without a '\n' is continued by the *)
(* first of them, which is lost if the buffer ends with its '\r'; of a     *)
(* buffer with a '\n' only the first line survives.                        *)
Served(old, read) ==
  CASE old = <<>>   -> Answers(read)
    [] Closed(old)  -> <<First(old)>> \o Answers(read)
    [] OTHER        -> <<First(old \o read)>>
                       \o SubSeq(Answers(read), 2, Len(Answers(read)))

BotRead(k) ==
  LET read == SubSeq(toBot, 1, k)
      ended == read[k].part = "end"
  IN  /\ k \in 1..Len(toBot)
      /\ cuts \/ ended
      /\ toBot' = SubSeq(toBot, k + 1, Len(toBot))
      /\ \/ /\ bot = "greeting"
            /\ bot' = "serving"
            /\ UNCHANGED <<buffer, fromBot>>
         \/ /\ bot = "serving" /\ ~ended
            /\ buffer' = buffer \o read
            /\ UNCHANGED <<bot, fromBot>>
         \/ /\ bot = "serving" /\ ended
            /\ fromBot' = fromBot \o Served(buffer, read)
            /\ buffer' = <<>>
            /\ UNCHANGED bot
      /\ UNCHANGED <<owner, nextConn, asked, bots, answers, cuts>>
-----------------------------------------------------------------------------
(***************************************************************************)
(* The reply branch of Server::start.                                      *)
(***************************************************************************)

(* What std::stoi makes of a line's beginning.  A line may be broken off   *)
(* inside its number or after it; its tail may begin inside its number or  *)
(* after it, and that of the welcome with one of 001 to 004.               *)
Powers == {10, 100, 1000}

Addresses(r) ==
  CASE r.got = "whole" -> {r.to.sock}
    [] r.got = "head"  ->
         {NONE, r.to.sock}
         \cup {d \in Fds : r.to # Welcome /\ \E p \in Powers : r.to.sock \div p = d}
    [] r.got = "tail"  ->
         {NONE} \cup
         IF r.to = Welcome THEN Fds \cap 1..4
         ELSE {d \in Fds : d < r.to.sock /\ \E p \in Powers : r.to.sock % p = d}

(* getClient throws for a number without a client. *)
Told(d, r) ==
  IF d = NONE \/ owner[d] = 0 THEN answers
  ELSE [answers EXCEPT ![owner[d]] = Append(@, r)]

Deliver ==
  /\ fromBot # <<>>
  /\ \E d \in Addresses(Head(fromBot)) : answers' = Told(d, Head(fromBot))
  /\ fromBot' = Tail(fromBot)
  /\ UNCHANGED <<owner, nextConn, asked, bot, bots, toBot, buffer, cuts>>
-----------------------------------------------------------------------------
Read == \E k \in 1..Len(toBot) : BotRead(k)

Next ==
  \/ \E s \in Fds : SignOn(s) \/ Leave(s) \/ Ask(s)
  \/ StartBot \/ EndBot \/ LoseBot \/ Read \/ Deliver

(***************************************************************************)
(* TCP delivers what was sent, both processes are single loops around      *)
(* poll() that come back to it, and the server reads from every descriptor *)
(* that is ready.                                                          *)
(***************************************************************************)
Spec == Init /\ [][Next]_vars /\ WF_vars(Read) /\ WF_vars(Deliver)
-----------------------------------------------------------------------------
TypeOK ==
  /\ owner \in [Fds -> {0} \cup Conns]
  /\ nextConn \in 1..(MaxConns + 1)
  /\ asked \in [Conns -> 0..MaxRequests]
  /\ bot \in {"down", "greeting", "serving", "gone"}
  /\ bots \in 0..MaxBots
  /\ toBot \in Seq(Piece) /\ buffer \in Seq(Piece)
  /\ fromBot \in Seq(Reply)
  /\ answers \in [Conns -> Seq(Reply)]
  /\ cuts \in BOOLEAN

(* Requests are answered at most once and, on each descriptor, in the      *)
(* order in which they were sent, whatever TCP cuts, the bot buffers and   *)
(* bots come and go.  So a connection that has been told an answer of its  *)
(* own is told none of the descriptor's former owners any more, and no     *)
(* connection is told the answer to a later one.                           *)
Before(q, r) == q.conn < r.conn \/ (q.conn = r.conn /\ q.n < r.n)

AnswersInOrder ==
  \A c, d \in Conns : \A i \in 1..Len(answers[c]), j \in 1..Len(answers[d]) :
    LET q == answers[c][i].to
        r == answers[d][j].to
    IN  answers[c][i].got = "whole" /\ answers[d][j].got = "whole" =>
          /\ q.conn <= c
          /\ c = d => q.sock = r.sock
          /\ q.sock = r.sock /\ (c < d \/ (c = d /\ i < j)) => Before(q, r)

(* As long as reads end with lines, a request that finds the bot past its  *)
(* first read is answered, unless the client or the bot goes away: none is *)
(* lost among others that are on their way.                                *)
OnItsWay(c, n) ==
  /\ ~cuts /\ bot = "serving"
  /\ \E i \in Tails(toBot) : toBot[i].line.conn = c /\ toBot[i].line.n = n

Settled(c, n) ==
  \/ \E i \in 1..Len(answers[c]) :
       answers[c][i].got = "whole" /\ answers[c][i].to.conn = c
                                  /\ answers[c][i].to.n = n
  \/ \A s \in Fds : owner[s] # c
  \/ bot # "serving"

RequestsAnswered ==
  \A c \in Conns, n \in 1..MaxRequests : OnItsWay(c, n) ~> Settled(c, n)
=============================================================================
