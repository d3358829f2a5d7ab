---------------------------- MODULE MCLineFraming ----------------------------
(* LineFraming for TLC: two letters, so that a lost or misplaced one shows. *)
EXTENDS LineFraming

CONSTANT MaxLines \* bound: lines in a stream

MCCharacters == {"a", "b", Space, CR, LF}

MCLines == {<<"a">>, <<"a", "b">>, <<"b", Space, "a">>, <<"b", Space, Space>>}

MCStreams ==
  {FlattenSeq([i \in 1..Len(q) |-> q[i] \o Terminator]) :
     q \in UNION {[1..n -> MCLines] : n \in 1..MaxLines}}
=============================================================================
