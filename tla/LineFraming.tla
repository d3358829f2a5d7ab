----------------------------- MODULE LineFraming -----------------------------
(***************************************************************************)
(* How Server::start turns what recv() returns into commands               *)
(* (server.cpp, components/receive.hpp and split.hpp), for one registered  *)
(* connection.                                                             *)
(*                                                                         *)
(* The peer sends a stream of lines; TCP cuts it where it likes, and each  *)
(* read is framed on its own: commandsList[clientId] holds what came       *)
(* without a terminator.  Characters are strings; Space, CR and LF are the *)
(* three the code looks for.                                               *)
(***************************************************************************)
EXTENDS SequencesExt, Enumeration

CONSTANTS
  Characters,
  Streams,     \* what a peer may send: lines, each with its terminator
  Interactive, \* the peer sends whole lines, or text and then a terminator
  RecvMax      \* characters one recv() may return: RECV_MAX - 1

Space == "space"
CR == "cr"
LF == "lf"
Terminator == <<CR, LF>>

Text == Seq(Characters)

(* Lines that are not empty, each followed by a terminator. *)
IsLines(s) ==
  /\ s # <<>> => s[Len(s)] = LF
  /\ \A i \in 1..Len(s) : s[i] = CR => i < Len(s) /\ s[i + 1] = LF
  /\ \A i \in 1..Len(s) : s[i] = LF => i > 2 /\ s[i - 1] = CR /\ s[i - 2] # LF

ASSUME CharactersAssumption == {Space, CR, LF} \subseteq Characters
ASSUME StreamsAssumption == \A s \in Streams : s \in Text /\ IsLines(s)
ASSUME BoundsAssumption == Interactive \in BOOLEAN /\ RecvMax \in Nat \ {0}

VARIABLES
  stream,   \* the characters the peer sends
  pos,      \* characters of the stream received so far
  buffer,   \* commandsList[clientId]
  executed, \* history: the commands passed to executeCommand
  crashed   \* an exception or fault that ends the server

vars == <<stream, pos, buffer, executed, crashed>>
-----------------------------------------------------------------------------
Has(s, ch) == \E i \in 1..Len(s) : s[i] = ch

LastNotSpace(s) == Max({0} \cup {i \in 1..Len(s) : s[i] # Space})

(* Mutated forms of definitions below, for the mutation runs only. *)

(* The buffer is not cleared once its command has been taken. *)
BufferKept(req) == buffer \o req

(* The empty pieces between terminators are kept. *)
LastsWithEmpty(s) ==
  {i \in 0..Len(s) : i = Len(s) \/ (i < Len(s) - 1 /\ s[i + 1] = CR /\ s[i + 2] = LF)}
-----------------------------------------------------------------------------
(* split(req, "\r\n"): the non-empty pieces between terminators, by their  *)
(* last characters.                                                        *)
Breaks(s) == {i \in 1..(Len(s) - 1) : s[i] = CR /\ s[i + 1] = LF}

Lasts(s) ==
  {i \in 1..Len(s) : /\ i \notin Breaks(s) /\ i - 1 \notin Breaks(s)
                     /\ i = Len(s) \/ i + 1 \in Breaks(s)}

First(s, last) == Max({1} \cup {i + 2 : i \in {j \in Breaks(s) : j < last}})

Split(s) ==
  LET lasts == InOrder(Lasts(s))
  IN  [k \in 1..Len(lasts) |-> SubSeq(s, First(s, lasts[k]), lasts[k])]

(* Trailing spaces of a piece are removed... *)
Piece(s) == SubSeq(s, 1, LastNotSpace(s))

(* ...but of the piece that continues the buffer erase() also removes the  *)
(* last character that is not a space, and throws if there is none.        *)
Continuation(s) == SubSeq(s, 1, LastNotSpace(s) - 1)
Throws(req) ==
  /\ buffer # <<>> /\ Split(req) # <<>>
  /\ LastNotSpace(Split(req)[1]) = 0

(* The loop after it: a command ends before its first CR. *)
CutAtCR(s) ==
  IF Has(s, CR) THEN SubSeq(s, 1, Min({i \in 1..Len(s) : s[i] = CR}) - 1) ELSE s

Commands(req) ==
  LET tmp == Split(req)
      raw == IF buffer = <<>> THEN [i \in 1..Len(tmp) |-> Piece(tmp[i])]
             ELSE IF tmp = <<>> THEN <<buffer>>
             ELSE <<buffer \o Continuation(tmp[1])>> \o
                  [i \in 1..(Len(tmp) - 1) |-> Piece(tmp[i + 1])]
  IN  [i \in 1..Len(raw) |-> CutAtCR(raw[i])]

Complete(req) == Has(req, CR) /\ Has(req, LF)

BufferAfter(req) == IF Complete(req) THEN <<>> ELSE buffer \o req

(* executeCommand reads the first word of a command without asking if      *)
(* there is one.                                                           *)
Blank(cmd) == \A i \in 1..Len(cmd) : cmd[i] = Space
-----------------------------------------------------------------------------
EndsInTerminator(s) == Len(s) >= 2 /\ SubSeq(s, Len(s) - 1, Len(s)) = Terminator

(* An interactive peer's reads: text of the current line, a terminator on  *)
(* its own, or whole lines when nothing of a line is pending.              *)
Regular(req) ==
  \/ ~Has(req, CR) /\ ~Has(req, LF)
  \/ req = Terminator
  \/ buffer = <<>> /\ EndsInTerminator(req)

Init ==
  /\ stream \in Streams
  /\ pos = 0 /\ buffer = <<>> /\ executed = <<>> /\ crashed = FALSE

(* A read of k characters is framed and its commands are executed, up to a *)
(* blank one.                                                              *)
Receive(k) ==
  LET req == SubSeq(stream, pos + 1, pos + k)
      cmds == Commands(req)
      blank == {i \in 1..Len(cmds) : Blank(cmds[i])}
  IN  /\ ~crashed
      /\ pos + k <= Len(stream)
      /\ Interactive => Regular(req)
      /\ pos' = pos + k
      /\ buffer' = BufferAfter(req)
      /\ crashed' = (Complete(req) /\ (Throws(req) \/ blank # {}))
      /\ executed' = IF ~Complete(req) \/ Throws(req) THEN executed
                     ELSE IF blank # {} THEN executed \o SubSeq(cmds, 1, Min(blank) - 1)
                     ELSE executed \o cmds
      /\ UNCHANGED stream

Next == \E k \in 1..RecvMax : Receive(k)

Spec == Init /\ [][Next]_vars
-----------------------------------------------------------------------------
(* The buffer of an interactive peer holds text only.                      *)
TypeOK ==
  /\ stream \in Streams
  /\ pos \in 0..Len(stream)
  /\ buffer \in Text /\ Len(buffer) <= pos
  /\ Interactive => ~Has(buffer, CR) /\ ~Has(buffer, LF)
  /\ executed \in Seq(Text)
  /\ \A i \in 1..Len(executed) : ~Blank(executed[i])
  /\ crashed \in BOOLEAN

(* The lines of a stream, by the places of their ends. *)
LineEnds(s, n) == {i \in 1..n : s[i] = LF}
LastEnd(s, n) == Max({0} \cup LineEnds(s, n))
LineTo(s, end) == SubSeq(s, LastEnd(s, end - 1) + 1, end - 2)

(* What has been executed is what has been sent: the lines received whole, *)
(* in order, each once, and nothing of a line that is still on its way;    *)
(* up to trailing spaces, as commands are split into words.  It holds for  *)
(* an interactive peer.  README.md:46 has it hold for "partial data        *)
(* reception" in general, which is not so.                                 *)
FramedExactly ==
  LET ends == InOrder(LineEnds(stream, pos))
  IN  ~crashed => /\ Len(executed) = Len(ends)
                  /\ \A k \in 1..Len(ends) :
                       Piece(executed[k]) = Piece(LineTo(stream, ends[k]))

(* "Ensure the program does not crash under any circumstances"             *)
(* (README.md:26).  An interactive peer cannot make it crash with lines    *)
(* that are not blank; a read that starts with spaces before a terminator  *)
(* can.                                                                    *)
NeverCrashes == ~crashed
=============================================================================
