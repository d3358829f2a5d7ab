---------------------------- MODULE BridgeProofs ----------------------------
(***************************************************************************)
(* Theorems about GeminiBridge: the types, and that answers come in the    *)
(* order of the requests whatever is cut, lost or handed on to the next    *)
(* owner of a descriptor.                                                  *)
(***************************************************************************)
EXTENDS GeminiBridge, EnumerationProofs

-----------------------------------------------------------------------------
(***************************************************************************)
(* Returns lists the places in a text where the text of a line ends.       *)
(***************************************************************************)

LEMMA ReturnsInOrder ==
  ASSUME NEW text, Len(text) \in Nat
  PROVE  /\ Len(Returns(text)) = Cardinality(Tails(text))
         /\ Len(Returns(text)) \in Nat
         /\ Returns(text) \in Seq(Nat)
         /\ \A k \in 1..Len(Returns(text)) : Returns(text)[k] \in Tails(text)
         /\ \A k, l \in 1..Len(Returns(text)) : k < l => Returns(text)[k] < Returns(text)[l]
         /\ Returns(text) = <<>> <=> Tails(text) = {}
         /\ \A i \in Tails(text) : \E k \in 1..Len(Returns(text)) : Returns(text)[k] = i
  <1>1. Tails(text) \in SUBSET (1..Len(text))
    BY DEF Tails
  <1>2. IsFiniteSet(1..Len(text))
    BY FS_Interval
  <1>3. IsFiniteSet(Tails(text))
    BY <1>1, <1>2, FS_Subset
  <1>4. Tails(text) \subseteq Nat
    BY <1>1
  <1>5. QED
    BY <1>3, <1>4, Listed DEF Returns

(* An answer goes to the request whose line ends there.                    *)
LEMMA AnswersInPlace ==
  ASSUME NEW text \in Seq(Piece)
  PROVE  /\ Answers(text) \in Seq(Reply)
         /\ Len(Answers(text)) = Len(Returns(text))
         /\ \A k \in 1..Len(Returns(text)) :
              Answers(text)[k].to = text[Returns(text)[k]].line
  <1> DEFINE n == Len(Returns(text))
  <1>1. n \in Nat /\ \A k \in 1..n : Returns(text)[k] \in Tails(text)
    BY ReturnsInOrder
  <1>2. \A i \in Tails(text) : i \in 1..Len(text) /\ text[i].line \in Request \cup {Welcome}
    <2>1. \A i \in Tails(text) : i \in 1..Len(text)
      BY DEF Tails
    <2>2. \A i \in Tails(text) : text[i] \in Piece
      BY <2>1, ElementOfSeq
    <2>3. QED
      BY <2>1, <2>2 DEF Piece
  <1>3. \A i \in Tails(text) : Answer(text, i) \in Reply /\ Answer(text, i).to = text[i].line
    BY <1>2 DEF Answer, Reply
  <1>4. Answers(text) = [k \in 1..n |-> Answer(text, Returns(text)[k])]
    BY DEF Answers
  <1> HIDE DEF n
  <1>5. Answers(text) \in [1..n -> Reply]
    <2>1. \A k \in 1..n : Answer(text, Returns(text)[k]) \in Reply
      BY <1>1, <1>3
    <2>2. QED
      BY <2>1, <1>4
  <1>6. Answers(text) \in Seq(Reply) /\ Len(Answers(text)) = n
    BY <1>5, <1>1
  <1>7. \A k \in 1..n : Answers(text)[k].to = text[Returns(text)[k]].line
    BY <1>1, <1>3, <1>4
  <1>8. QED
    BY <1>6, <1>7 DEF n

(* The replies in `out` to whole lines are to lines that end in `text` at  *)
(* the places e, one after the other.                                      *)
Places(e, out, text) ==
  /\ \A m \in 1..Len(out) :
       out[m].got = "whole" => e[m] \in Tails(text) /\ out[m].to = text[e[m]].line
  /\ \A l, m \in 1..Len(out) :
       l < m /\ out[l].got = "whole" /\ out[m].got = "whole" => e[l] < e[m]

(* The reply to what is joined is to the first line that ends in it.       *)
LEMMA FirstInPlace ==
  ASSUME NEW text \in Seq(Piece), text # <<>>
  PROVE  /\ First(text) \in Reply
         /\ First(text).got = "whole" =>
              \E p \in Tails(text) : /\ First(text).to = text[p].line
                                     /\ \A i \in Tails(text) : p <= i
  <1>1. CASE Tails(text) = {}
    <2>1. Len(text) \in 1..Len(text)
      BY EmptySeq
    <2>2. text[Len(text)] \in Piece
      BY <2>1, ElementOfSeq
    <2>3. First(text) = [to |-> text[Len(text)].line, got |-> "head"]
      BY <1>1 DEF First, Last
    <2>4. QED
      BY <2>2, <2>3 DEF Piece, Reply
  <1>2. CASE Tails(text) # {}
    <2>1. /\ Len(Returns(text)) \in Nat /\ Returns(text) # <<>>
          /\ Returns(text) \in Seq(Nat)
          /\ Answers(text) \in Seq(Reply) /\ Len(Answers(text)) = Len(Returns(text))
      BY <1>2, ReturnsInOrder, AnswersInPlace
    <2>2. 1 \in 1..Len(Returns(text)) /\ 1 \in 1..Len(Answers(text))
      BY <2>1, EmptySeq
    <2>3. First(text) = Answers(text)[1]
      BY <1>2 DEF First
    <2>4. First(text) \in Reply
      BY <2>1, <2>2, <2>3, ElementOfSeq
    <2>5. PICK p : p = Returns(text)[1]
      OBVIOUS
    <2>6. p \in Tails(text) /\ First(text).to = text[p].line
      BY <2>2, <2>3, <2>5, ReturnsInOrder, AnswersInPlace
    <2>7. ASSUME NEW i \in Tails(text)
          PROVE  p <= i
      <3>1. PICK k \in 1..Len(Returns(text)) : Returns(text)[k] = i
        BY ReturnsInOrder
      <3>2. k # 1 => Returns(text)[1] < Returns(text)[k]
        BY <2>1, <2>2, ReturnsInOrder
      <3>3. p \in Nat
        BY <2>1, <2>2, <2>5, ElementOfSeq
      <3>4. CASE k = 1
        BY <3>1, <3>3, <3>4, <2>5
      <3>5. CASE k # 1
        BY <3>1, <3>2, <3>3, <3>5, <2>5, <2>6 DEF Tails
      <3>6. QED
        BY <3>4, <3>5
    <2>8. QED
      BY <2>4, <2>6, <2>7
  <1>3. QED
    BY <1>1, <1>2

(* A reply in front of others that are in place.                           *)
LEMMA FirstAndOthers ==
  ASSUME NEW text, NEW first \in Reply, NEW others \in Seq(Reply), NEW p, NEW q,
         first.got = "whole" => p \in Tails(text) /\ first.to = text[p].line,
         \A j \in 1..Len(others) :
           /\ q[j] \in Tails(text) /\ others[j].to = text[q[j]].line
           /\ first.got = "whole" => p < q[j],
         \A i, j \in 1..Len(others) : i < j => q[i] < q[j]
  PROVE  /\ <<first>> \o others \in Seq(Reply)
         /\ \E e : Places(e, <<first>> \o others, text)
  <1>1. PICK out : out = <<first>> \o others
    OBVIOUS
  <1>2. /\ out \in Seq(Reply) /\ Len(out) = Len(others) + 1 /\ Len(others) \in Nat
        /\ out[1] = first /\ \A m \in 2..(Len(others) + 1) : out[m] = others[m - 1]
    <2>1. <<first>> \in Seq(Reply) /\ Len(<<first>>) = 1 /\ <<first>>[1] = first
      OBVIOUS
    <2>2. /\ out \in Seq(Reply) /\ Len(out) = 1 + Len(others)
          /\ \A i \in 1..(1 + Len(others)) :
               out[i] = IF i <= 1 THEN <<first>>[i] ELSE others[i - 1]
      BY <1>1, <2>1, ConcatProperties
    <2>3. Len(others) \in Nat
      OBVIOUS
    <2>4. QED
      BY <2>1, <2>2, <2>3
  <1>3. PICK n \in Nat : n = Len(others)
    BY <1>2
  <1>4. PICK e : \A m \in 1..(n + 1) : e[m] = IF m = 1 THEN p ELSE q[m - 1]
    <2>1. \A m \in 1..(n + 1) :
            [k \in 1..(n + 1) |-> IF k = 1 THEN p ELSE q[k - 1]][m]
            = IF m = 1 THEN p ELSE q[m - 1]
      OBVIOUS
    <2>2. QED
      BY <2>1
  <1>5. ASSUME NEW m \in 1..(n + 1), out[m].got = "whole"
        PROVE  e[m] \in Tails(text) /\ out[m].to = text[e[m]].line
    <2>1. CASE m = 1
      BY <2>1, <1>2, <1>4, <1>5
    <2>2. CASE m # 1
      <3>1. m \in 2..(n + 1) /\ m - 1 \in 1..n
        BY <2>2
      <3>2. e[m] = q[m - 1] /\ out[m] = others[m - 1]
        BY <3>1, <2>2, <1>2, <1>3, <1>4
      <3>3. QED
        BY <3>1, <3>2, <1>3
    <2>3. QED
      BY <2>1, <2>2
  <1>6. ASSUME NEW l \in 1..(n + 1), NEW m \in 1..(n + 1), l < m, out[l].got = "whole"
        PROVE  e[l] < e[m]
    <2>1. m - 1 \in 1..n /\ e[m] = q[m - 1]
      BY <1>4, <1>6
    <2>2. CASE l = 1
      <3>1. first.got = "whole" /\ e[l] = p
        BY <2>2, <1>2, <1>4, <1>6
      <3>2. QED
        BY <3>1, <2>1, <1>3
    <2>3. CASE l # 1
      <3>1. l - 1 \in 1..n /\ l - 1 < m - 1 /\ e[l] = q[l - 1]
        BY <2>3, <1>4, <1>6
      <3>2. QED
        BY <3>1, <2>1, <1>3
    <2>4. QED
      BY <2>2, <2>3
  <1>7. Places(e, out, text)
    BY <1>2, <1>3, <1>5, <1>6 DEF Places
  <1>8. QED
    BY <1>1, <1>2, <1>7

(* The line ends of one text after another.                                *)
LEMMA TailsOfConcat ==
  ASSUME NEW u \in Seq(Piece), NEW v \in Seq(Piece)
  PROVE  /\ \A i \in Tails(u) : i \in Tails(u \o v) /\ (u \o v)[i] = u[i]
         /\ \A i \in Tails(v) :
              Len(u) + i \in Tails(u \o v) /\ (u \o v)[Len(u) + i] = v[i]
         /\ \A i \in Tails(u \o v) :
              i \in Tails(u) \/ \E j \in Tails(v) : i = Len(u) + j
         /\ Tails(u) \subseteq 1..Len(u) /\ Tails(v) \subseteq 1..Len(v)
         /\ Len(u) \in Nat /\ Len(v) \in Nat
  <1> DEFINE w == u \o v
  <1>1. /\ Len(u) \in Nat /\ Len(v) \in Nat /\ Len(w) = Len(u) + Len(v)
        /\ \A i \in 1..Len(u) : w[i] = u[i]
        /\ \A j \in 1..Len(v) : w[Len(u) + j] = v[j]
    OBVIOUS
  <1> HIDE DEF w
  <1>2. \A i \in Tails(u) : i \in Tails(w) /\ w[i] = u[i]
    BY <1>1 DEF Tails
  <1>3. \A i \in Tails(v) : Len(u) + i \in Tails(w) /\ w[Len(u) + i] = v[i]
    BY <1>1 DEF Tails
  <1>4. ASSUME NEW i \in Tails(w)
        PROVE  i \in Tails(u) \/ \E j \in Tails(v) : i = Len(u) + j
    <2>1. i \in 1..(Len(u) + Len(v)) /\ w[i].part = "tail"
      BY <1>1 DEF Tails
    <2>2. CASE i <= Len(u)
      BY <2>1, <2>2, <1>1 DEF Tails
    <2>3. CASE ~(i <= Len(u))
      <3>1. PICK j \in 1..Len(v) : i = Len(u) + j
        <4>1. i - Len(u) \in 1..Len(v) /\ i = Len(u) + (i - Len(u))
          BY <2>1, <2>3, <1>1
        <4>2. QED
          BY <4>1
      <3>2. j \in Tails(v)
        BY <3>1, <2>1, <1>1 DEF Tails
      <3>3. QED
        BY <3>1, <3>2
    <2>4. QED
      BY <2>2, <2>3
  <1>5. Tails(u) \subseteq 1..Len(u) /\ Tails(v) \subseteq 1..Len(v)
    BY DEF Tails
  <1>6. QED
    BY <1>1, <1>2, <1>3, <1>4, <1>5 DEF w

(* What the bot makes of its buffer and a read is replies to some of the   *)
(* lines that end there, in their order, but for those to parts of lines.  *)
LEMMA ServedInPlace ==
  ASSUME NEW old \in Seq(Piece), NEW read \in Seq(Piece)
  PROVE  /\ Served(old, read) \in Seq(Reply)
         /\ \E e : Places(e, Served(old, read), old \o read)
  <1>1. PICK text \in Seq(Piece) : text = old \o read
    <2>1. old \o read \in Seq(Piece)
      BY ConcatProperties
    <2>2. QED
      BY <2>1
  <1>2. PICK n \in Nat : n = Len(Returns(read))
    BY ReturnsInOrder
  <1>3. PICK ans \in Seq(Reply) : ans = Answers(read)
    BY AnswersInPlace
  <1>4. PICK b \in Nat : b = Len(old)
    OBVIOUS
  <1>5. PICK q : \A k \in 1..n : q[k] = b + Returns(read)[k]
    <2>1. \A k \in 1..n : [l \in 1..n |-> b + Returns(read)[l]][k] = b + Returns(read)[k]
      OBVIOUS
    <2>2. QED
      BY <2>1
  <1>6. /\ Len(ans) = n
        /\ \A k \in 1..n : /\ Returns(read)[k] \in Tails(read)
                            /\ ans[k].to = read[Returns(read)[k]].line
        /\ \A k, l \in 1..n : k < l => Returns(read)[k] < Returns(read)[l]
    <2>1. Len(read) \in Nat
      OBVIOUS
    <2>2. /\ \A k \in 1..n : Returns(read)[k] \in Tails(read)
          /\ \A k, l \in 1..n : k < l => Returns(read)[k] < Returns(read)[l]
      BY <2>1, <1>2, ReturnsInOrder
    <2>3. Len(ans) = n /\ \A k \in 1..n : ans[k].to = read[Returns(read)[k]].line
      BY <1>2, <1>3, AnswersInPlace
    <2>4. QED
      BY <2>2, <2>3
  <1>7. /\ \A i \in Tails(old) : i \in Tails(text) /\ text[i] = old[i] /\ i \in 1..b
        /\ \A i \in Tails(read) : /\ b + i \in Tails(text) /\ text[b + i] = read[i]
                                   /\ i \in Nat /\ i # 0
    <2>1. /\ \A i \in Tails(old) : i \in Tails(text) /\ text[i] = old[i]
          /\ \A i \in Tails(read) : b + i \in Tails(text) /\ text[b + i] = read[i]
          /\ Tails(old) \subseteq 1..b /\ Tails(read) \subseteq 1..Len(read)
          /\ Len(read) \in Nat
      BY <1>1, <1>4, TailsOfConcat, Zenon
    <2>2. \A i \in Tails(read) : i \in Nat /\ i # 0
      BY <2>1
    <2>3. QED
      BY <2>1, <2>2, Zenon
  <1>8. /\ \A k \in 1..n : /\ q[k] \in Tails(text) /\ ans[k].to = text[q[k]].line
                            /\ q[k] \in Nat /\ b < q[k]
        /\ \A k, l \in 1..n : k < l => q[k] < q[l]
    <2>1. \A k \in 1..n : /\ q[k] \in Tails(text) /\ ans[k].to = text[q[k]].line
                          /\ q[k] \in Nat /\ b < q[k] /\ Returns(read)[k] \in Nat
      <3>1. SUFFICES ASSUME NEW k \in 1..n
                     PROVE  /\ q[k] \in Tails(text) /\ ans[k].to = text[q[k]].line
                            /\ q[k] \in Nat /\ b < q[k] /\ Returns(read)[k] \in Nat
        OBVIOUS
      <3>2. PICK i : i = Returns(read)[k]
        OBVIOUS
      <3>3. i \in Tails(read) /\ ans[k].to = read[i].line /\ q[k] = b + i
        BY <1>5, <1>6, <3>2
      <3>4. /\ b + i \in Tails(text) /\ text[b + i] = read[i]
            /\ i \in Nat /\ i # 0
        BY <1>7, <3>3, Zenon
      <3>5. b + i \in Nat /\ b < b + i
        BY <3>4
      <3>6. QED
        BY <3>2, <3>3, <3>4, <3>5, Zenon
    <2>2. ASSUME NEW k \in 1..n, NEW l \in 1..n, k < l
          PROVE  q[k] < q[l]
      <3>1. /\ Returns(read)[k] < Returns(read)[l]
            /\ Returns(read)[k] \in Nat /\ Returns(read)[l] \in Nat
        BY <2>1, <2>2, <1>6
      <3>2. q[k] = b + Returns(read)[k] /\ q[l] = b + Returns(read)[l]
        BY <1>5
      <3>3. QED
        BY <3>1, <3>2
    <2>3. QED
      BY <2>1, <2>2
  <1>9. CASE old = <<>>
    <2>1. ~Closed(old)
      BY <1>9 DEF Closed
    <2>2. Served(old, read) = ans
      BY <2>1, <1>3, <1>9 DEF Served
    <2>3. Places(q, ans, text)
      BY <1>6, <1>8 DEF Places
    <2>4. QED
      BY <2>2, <2>3, <1>1
  <1>10. CASE old # <<>> /\ Closed(old)
    <2>1. PICK first \in Reply : first = First(old)
      BY <1>10, FirstInPlace
    <2>2. Served(old, read) = <<first>> \o ans
      BY <2>1, <1>3, <1>10 DEF Served
    <2>3. PICK p : first.got = "whole" => p \in Tails(old) /\ first.to = old[p].line
      BY <2>1, <1>10, FirstInPlace
    <2>4. first.got = "whole" => /\ p \in Tails(text) /\ first.to = text[p].line
                                 /\ p \in 1..b
      BY <2>3, <1>7
    <2>5. \A k \in 1..n : first.got = "whole" => p < q[k]
      BY <2>4, <1>8
    <2>6. /\ <<first>> \o ans \in Seq(Reply)
          /\ \E e : Places(e, <<first>> \o ans, text)
      BY <2>4, <2>5, <1>6, <1>8, FirstAndOthers
    <2>7. QED
      BY <2>2, <2>6, <1>1
  <1>11. CASE old # <<>> /\ ~Closed(old)
    <2>1. text # <<>>
      BY <1>1, <1>11
    <2>2. PICK first \in Reply : first = First(text)
      BY <2>1, FirstInPlace
    <2>3. PICK others : others = SubSeq(ans, 2, Len(ans))
      OBVIOUS
    <2>4. Served(old, read) = <<first>> \o others
      BY <2>2, <2>3, <1>1, <1>3, <1>11 DEF Served
    <2>5. /\ others \in Seq(Reply) /\ Len(others) = IF n = 0 THEN 0 ELSE n - 1
          /\ \A j \in 1..Len(others) : j + 1 \in 1..n /\ others[j] = ans[j + 1]
      <3>1. \A i \in 2..n : ans[i] \in Reply
        BY <1>6, ElementOfSeq
      <3>2. /\ others \in Seq(Reply) /\ Len(others) = IF 2 <= n THEN n - 2 + 1 ELSE 0
            /\ \A i \in 1..(n - 2 + 1) : others[i] = ans[2 + i - 1]
        BY <2>3, <3>1, <1>6, SubSeqProperties
      <3>3. \A i \in 1..Len(others) : i \in 1..(n - 2 + 1) /\ 2 + i - 1 = i + 1
        BY <3>2
      <3>4. QED
        BY <3>2, <3>3
    <2>6. PICK p : first.got = "whole" => /\ p \in Tails(text) /\ first.to = text[p].line
                                          /\ \A i \in Tails(text) : p <= i
      BY <2>1, <2>2, FirstInPlace
    <2>7. PICK f : \A j \in 1..Len(others) : f[j] = q[j + 1]
      <3>1. \A j \in 1..Len(others) : [i \in 1..Len(others) |-> q[i + 1]][j] = q[j + 1]
        OBVIOUS
      <3>2. QED
        BY <3>1
    <2>8. ASSUME NEW j \in 1..Len(others)
          PROVE  /\ f[j] \in Tails(text) /\ others[j].to = text[f[j]].line
                 /\ first.got = "whole" => p < f[j]
      <3>1. /\ j + 1 \in 1..n /\ f[j] = q[j + 1] /\ others[j] = ans[j + 1]
            /\ 1 \in 1..n /\ 1 < j + 1
        BY <2>5, <2>7
      <3>2. q[1] < q[j + 1] /\ q[1] \in Tails(text) /\ q[1] \in Nat /\ q[j + 1] \in Nat
        BY <3>1, <1>8
      <3>3. first.got = "whole" => p <= q[1] /\ p \in Nat
        BY <3>2, <2>6 DEF Tails
      <3>4. QED
        BY <3>1, <3>2, <3>3, <1>8
    <2>9. ASSUME NEW i \in 1..Len(others), NEW j \in 1..Len(others), i < j
          PROVE  f[i] < f[j]
      BY <2>5, <2>7, <2>9, <1>8
    <2>10. /\ <<first>> \o others \in Seq(Reply)
           /\ \E e : Places(e, <<first>> \o others, text)
      BY <2>5, <2>6, <2>8, <2>9, FirstAndOthers
    <2>11. QED
      BY <2>4, <2>10, <1>1
  <1>12. QED
    BY <1>9, <1>10, <1>11
-----------------------------------------------------------------------------
(***************************************************************************)
(* Types.                                                                  *)
(***************************************************************************)
LEMMA LineType ==
  ASSUME NEW r \in Request \cup {Welcome}
  PROVE  /\ Line(r) \in Seq(Piece) /\ Len(Line(r)) = 3 /\ Tails(Line(r)) = {2}
         /\ \A i \in 1..3 : Line(r)[i].line = r
  <1>1. \A p \in Parts : [line |-> r, part |-> p] \in Piece
    BY DEF Piece
  <1>2. /\ Line(r) \in Seq(Piece) /\ Len(Line(r)) = 3
        /\ \A i \in 1..3 : Line(r)[i].line = r
        /\ Line(r)[1].part = "head" /\ Line(r)[2].part = "tail" /\ Line(r)[3].part = "end"
    BY <1>1 DEF Line, Parts
  <1>3. Tails(Line(r)) = {i \in 1..3 : Line(r)[i].part = "tail"}
    BY <1>2 DEF Tails
  <1>4. QED
    BY <1>2, <1>3

(* A request names a client's descriptor, the welcome does not.            *)
LEMMA Requests ==
  /\ \A r \in Request \cup {Welcome} : r.sock \in Fds \cup {NONE}
  /\ \A r \in Request \cup {Welcome} : r.sock \in Fds => r \in Request
  /\ \A r \in Request : /\ r.sock \in Fds /\ r.conn \in Conns /\ r.conn \in Nat
                        /\ r.n \in 1..MaxRequests /\ r.n \in Nat
  <1>1. Welcome.sock = NONE /\ NONE \notin Fds
    BY FdsAssumption DEF Welcome
  <1>2. \A r \in Request : /\ r.sock \in Fds /\ r.conn \in Conns /\ r.conn \in Nat
                           /\ r.n \in 1..MaxRequests /\ r.n \in Nat
    BY BoundsAssumption DEF Request, Conns
  <1>3. QED
    BY <1>1, <1>2

(* A read splits the stream to the bot in two.                             *)
LEMMA ReadSplits ==
  ASSUME TypeOK, NEW k \in 1..Len(toBot)
  PROVE  /\ SubSeq(toBot, 1, k) \in Seq(Piece) /\ Len(SubSeq(toBot, 1, k)) = k
         /\ SubSeq(toBot, k + 1, Len(toBot)) \in Seq(Piece)
         /\ Len(SubSeq(toBot, k + 1, Len(toBot))) = Len(toBot) - k
         /\ k \in Nat /\ Len(toBot) \in Nat
         /\ \A i \in 1..k : SubSeq(toBot, 1, k)[i] = toBot[i]
         /\ \A i \in 1..(Len(toBot) - k) : SubSeq(toBot, k + 1, Len(toBot))[i] = toBot[k + i]
  <1>1. toBot \in Seq(Piece) /\ Len(toBot) \in Nat /\ k \in Nat /\ k <= Len(toBot)
    BY DEF TypeOK
  <1>2. \A i \in 1..Len(toBot) : toBot[i] \in Piece
    BY <1>1, ElementOfSeq
  <1>3. /\ SubSeq(toBot, 1, k) \in Seq(Piece) /\ Len(SubSeq(toBot, 1, k)) = k
        /\ \A i \in 1..k : SubSeq(toBot, 1, k)[i] = toBot[i]
    <2>1. \A i \in 1..k : toBot[i] \in Piece
      BY <1>1, <1>2
    <2>2. /\ SubSeq(toBot, 1, k) \in Seq(Piece)
          /\ Len(SubSeq(toBot, 1, k)) = IF 1 <= k THEN k - 1 + 1 ELSE 0
          /\ \A i \in 1..(k - 1 + 1) : SubSeq(toBot, 1, k)[i] = toBot[1 + i - 1]
      BY <1>1, <2>1, SubSeqProperties
    <2>3. QED
      BY <1>1, <2>2
  <1>4. /\ SubSeq(toBot, k + 1, Len(toBot)) \in Seq(Piece)
        /\ Len(SubSeq(toBot, k + 1, Len(toBot))) = Len(toBot) - k
        /\ \A i \in 1..(Len(toBot) - k) :
             SubSeq(toBot, k + 1, Len(toBot))[i] = toBot[k + i]
    <2> DEFINE n == Len(toBot)
    <2> DEFINE m == k + 1
    <2>1. \A i \in m..n : toBot[i] \in Piece
      BY <1>1, <1>2
    <2>2. m \in Int /\ n \in Int
      BY <1>1
    <2> HIDE DEF n, m
    <2>3. /\ SubSeq(toBot, m, n) \in Seq(Piece)
          /\ Len(SubSeq(toBot, m, n)) = IF m <= n THEN n - m + 1 ELSE 0
          /\ \A i \in 1..(n - m + 1) : SubSeq(toBot, m, n)[i] = toBot[m + i - 1]
      BY <2>1, <2>2, SubSeqProperties
    <2>4. n - m + 1 = n - k /\ (~(m <= n) => n - k = 0)
      BY <1>1 DEF n, m
    <2>5. \A i \in 1..(n - k) : m + i - 1 = k + i
      BY <1>1 DEF n, m
    <2>6. QED
      BY <2>3, <2>4, <2>5 DEF n, m
  <1>5. QED
    BY <1>1, <1>3, <1>4

(* The types hold at the start...                                          *)
LEMMA TypeInit == Init => TypeOK
  BY BoundsAssumption DEF Init, TypeOK, Conns

(* ...and after every step.                                                *)
LEMMA TypeStep == TypeOK /\ [Next]_vars => TypeOK'
  <1> SUFFICES ASSUME TypeOK, [Next]_vars
               PROVE  TypeOK'
    OBVIOUS
  <1> USE BoundsAssumption
  <1>1. ASSUME NEW s \in Fds, SignOn(s)
        PROVE  TypeOK'
    BY <1>1 DEF SignOn, TypeOK, Conns, streams
  <1>2. ASSUME NEW s \in Fds, Leave(s)
        PROVE  TypeOK'
    BY <1>2 DEF Leave, TypeOK, streams
  <1>3. ASSUME NEW s \in Fds, Ask(s)
        PROVE  TypeOK'
    <2> DEFINE c == owner[s]
    <2> DEFINE r == [sock |-> s, conn |-> c, n |-> asked[c] + 1]
    <2>1. c \in Conns /\ asked[c] \in Nat /\ asked[c] + 1 \in 1..MaxRequests
      BY <1>3 DEF Ask, TypeOK
    <2>2. r \in Request
      BY <2>1 DEF Request
    <2>3. toBot' = toBot \/ toBot' = toBot \o Line(r)
      BY <1>3 DEF Ask
    <2> HIDE DEF r
    <2>4. toBot' \in Seq(Piece)
      <3>1. toBot \in Seq(Piece) /\ Line(r) \in Seq(Piece)
        BY <2>2, LineType DEF TypeOK
      <3>2. toBot \o Line(r) \in Seq(Piece)
        BY <3>1, ConcatProperties
      <3>3. QED
        BY <3>1, <3>2, <2>3
    <2>5. asked' \in [Conns -> 0..MaxRequests]
      BY <1>3, <2>1 DEF Ask, TypeOK
    <2>6. QED
      BY <1>3, <2>4, <2>5 DEF Ask, TypeOK, streams
  <1>4. CASE StartBot
    <2>1. toBot' \in Seq(Piece)
      BY <1>4, LineType DEF StartBot
    <2>2. QED
      BY <1>4, <2>1 DEF StartBot, TypeOK
  <1>5. CASE EndBot \/ LoseBot
    <2>1. CASE EndBot
      BY <2>1 DEF EndBot, TypeOK
    <2>2. CASE LoseBot
      BY <2>2 DEF LoseBot, TypeOK
    <2>3. QED
      BY <1>5, <2>1, <2>2
  <1>6. ASSUME NEW k \in 1..Len(toBot), BotRead(k)
        PROVE  TypeOK'
    <2> DEFINE read == SubSeq(toBot, 1, k)
    <2>1. read \in Seq(Piece) /\ toBot' \in Seq(Piece)
      BY <1>6, ReadSplits DEF BotRead
    <2> HIDE DEF read
    <2>2. buffer \o read \in Seq(Piece) /\ fromBot \o Served(buffer, read) \in Seq(Reply)
      BY <2>1, ServedInPlace, ConcatProperties DEF TypeOK
    <2>3. \/ buffer' = buffer /\ fromBot' = fromBot
          \/ buffer' = buffer \o read /\ fromBot' = fromBot
          \/ buffer' = <<>> /\ fromBot' = fromBot \o Served(buffer, read)
      BY <1>6 DEF BotRead, read
    <2>4. buffer' \in Seq(Piece) /\ fromBot' \in Seq(Reply)
      <3>1. /\ buffer \in Seq(Piece) /\ fromBot \in Seq(Reply) /\ <<>> \in Seq(Piece)
        BY DEF TypeOK
      <3> HIDE DEF TypeOK
      <3>2. QED
        BY <3>1, <2>2, <2>3, Zenon
    <2>5. bot' \in {"down", "greeting", "serving", "gone"}
      BY <1>6 DEF BotRead, TypeOK
    <2>6. QED
      BY <1>6, <2>1, <2>4, <2>5 DEF BotRead, TypeOK
  <1>7. CASE Deliver
    <2>1. fromBot # <<>> /\ fromBot \in Seq(Reply)
      BY <1>7 DEF Deliver, TypeOK
    <2>2. Head(fromBot) \in Reply /\ fromBot' \in Seq(Reply)
      BY <1>7, <2>1, HeadTailProperties DEF Deliver
    <2>3. PICK d \in Addresses(Head(fromBot)) : answers' = Told(d, Head(fromBot))
      BY <1>7 DEF Deliver
    <2>4. d \in Fds \cup {NONE}
      <3>1. PICK r \in Reply : r = Head(fromBot)
        BY <2>2
      <3>2. r.to.sock \in Fds \cup {NONE} /\ r.got \in {"whole", "head", "tail"}
        BY Requests DEF Reply
      <3>3. d \in Addresses(r)
        BY <3>1, <2>3
      <3>4. QED
        BY <3>2, <3>3 DEF Addresses
    <2>5. answers' \in [Conns -> Seq(Reply)]
      <3>1. CASE d = NONE \/ owner[d] = 0
        BY <2>3, <3>1 DEF Told, TypeOK
      <3>2. CASE ~(d = NONE \/ owner[d] = 0)
        <4>1. d \in Fds /\ owner[d] \in Conns
          BY <2>4, <3>2 DEF TypeOK
        <4>2. Append(answers[owner[d]], Head(fromBot)) \in Seq(Reply)
          BY <4>1, <2>2, AppendProperties DEF TypeOK
        <4>3. QED
          BY <2>3, <3>2, <4>1, <4>2 DEF Told, TypeOK
      <3>3. QED
        BY <3>1, <3>2
    <2>6. QED
      BY <1>7, <2>2, <2>5 DEF Deliver, TypeOK
  <1>8. CASE UNCHANGED vars
    BY <1>8 DEF vars, streams, TypeOK
  <1>9. QED
    BY <1>1, <1>2, <1>3, <1>4, <1>5, <1>6, <1>7, <1>8 DEF Next, Read

(* What goes over the two streams is pieces of requests and of the welcome *)
(* and replies to them, each under the number of a descriptor and of a     *)
(* connection that made it: the bot answers every line a read ends with    *)
(* one reply and sends nothing else back.                                  *)
THEOREM BridgeTypes == Spec => []TypeOK
  BY TypeInit, TypeStep, PTL DEF Spec
-----------------------------------------------------------------------------
(***************************************************************************)
(* Order.                                                                  *)
(***************************************************************************)

(* What is on the way: the replies of the bot, then the lines that end in  *)
(* its buffer and in the stream to it.                                     *)
Stream == buffer \o toBot

Way == 1..Len(fromBot) \cup {Len(fromBot) + i : i \in Tails(Stream)}

(* A reply to a part of a line counts as one for nobody.                   *)
Whole(r) == IF r.got = "whole" THEN r.to ELSE Welcome

At(p) == IF p <= Len(fromBot) THEN Whole(fromBot[p]) ELSE Stream[p - Len(fromBot)].line

Comes(q, r) == q.sock \in Fds /\ q.sock = r.sock => Before(q, r)

(* A request was made by a connection that has been, and none has owned    *)
(* its descriptor before.                                                  *)
Issued(r) ==
  r.sock \in Fds =>
    /\ r.conn < nextConn
    /\ r.n <= asked[r.conn]
    /\ owner[r.sock] # 0 => r.conn <= owner[r.sock]

OwnersApart ==
  \A s, t \in Fds : owner[s] # 0 =>
    /\ owner[s] < nextConn
    /\ owner[s] = owner[t] => s = t

WayInOrder ==
  \A p \in Way : /\ Issued(At(p))
                 /\ \A q \in Way : p < q => Comes(At(p), At(q))

(* What a connection was told: its descriptor's, and what it and former    *)
(* owners asked, before all that is on the way.                            *)
Fitting(c, q) ==
  /\ c < nextConn
  /\ q.sock \in Fds /\ Issued(q) /\ q.conn <= c
  /\ \A s \in Fds : owner[s] = c => q.sock = s
  /\ owner[q.sock] # 0 => c <= owner[q.sock]

ToldFits ==
  \A c \in Conns : \A i \in 1..Len(answers[c]) :
    answers[c][i].got = "whole" => /\ Fitting(c, answers[c][i].to)
                            /\ \A p \in Way : Comes(answers[c][i].to, At(p))

BridgeInv ==
  TypeOK /\ OwnersApart /\ WayInOrder /\ ToldFits /\ AnswersInOrder

(* What is on the way are requests and the welcome.                        *)
LEMMA WayTypes ==
  ASSUME TypeOK
  PROVE  /\ Way \subseteq Nat
         /\ Len(fromBot) \in Nat /\ Stream \in Seq(Piece)
         /\ \A p \in Way : At(p) \in Request \cup {Welcome}
         /\ \A c \in Conns : \A i \in 1..Len(answers[c]) :
              answers[c][i] \in Reply /\ answers[c][i].to \in Request \cup {Welcome}
  <1>1. fromBot \in Seq(Reply) /\ Len(fromBot) \in Nat /\ Stream \in Seq(Piece)
    BY ConcatProperties DEF TypeOK, Stream
  <1>2. Tails(Stream) \subseteq 1..Len(Stream) /\ Len(Stream) \in Nat
    BY <1>1 DEF Tails
  <1>3. Way \subseteq Nat
    BY <1>1, <1>2 DEF Way
  <1>4. \A i \in 1..Len(fromBot) : Whole(fromBot[i]) \in Request \cup {Welcome}
    <2>1. \A i \in 1..Len(fromBot) : fromBot[i] \in Reply
      BY <1>1, ElementOfSeq
    <2>2. QED
      BY <2>1 DEF Reply, Whole
  <1>5. \A i \in Tails(Stream) : Stream[i].line \in Request \cup {Welcome}
    <2>1. \A i \in Tails(Stream) : Stream[i] \in Piece
      BY <1>1, <1>2, ElementOfSeq
    <2>2. QED
      BY <2>1 DEF Piece
  <1>6. ASSUME NEW p \in Way
        PROVE  At(p) \in Request \cup {Welcome}
    <2>1. CASE p \in 1..Len(fromBot)
      BY <2>1, <1>1, <1>4 DEF At
    <2>2. CASE p \notin 1..Len(fromBot)
      <3>1. PICK i \in Tails(Stream) : p = Len(fromBot) + i
        BY <2>2 DEF Way
      <3>2. ~(p <= Len(fromBot)) /\ p - Len(fromBot) = i
        BY <3>1, <1>1, <1>2
      <3>3. QED
        BY <3>2, <1>5 DEF At
    <2>3. QED
      BY <2>1, <2>2
  <1>7. ASSUME NEW c \in Conns, NEW i \in 1..Len(answers[c])
        PROVE  answers[c][i] \in Reply /\ answers[c][i].to \in Request \cup {Welcome}
    <2>1. answers[c] \in Seq(Reply)
      BY DEF TypeOK
    <2>2. answers[c][i] \in Reply
      BY <2>1, ElementOfSeq
    <2>3. QED
      BY <2>2 DEF Reply
  <1>8. QED
    BY <1>1, <1>3, <1>6, <1>7

(* Nothing that happens makes a request one of the future.                 *)
LEMMA IssuedStays ==
  ASSUME TypeOK, Next, NEW r \in Request \cup {Welcome}, Issued(r)
  PROVE  Issued(r)'
  <1> SUFFICES ASSUME r.sock \in Fds
               PROVE  /\ r.conn < nextConn'
                      /\ r.n <= asked'[r.conn]
                      /\ owner'[r.sock] # 0 => r.conn <= owner'[r.sock]
    BY DEF Issued
  <1>1. /\ r \in Request /\ r.sock \in Fds /\ r.conn \in Conns
        /\ r.conn \in Nat /\ r.n \in Nat
    BY Requests
  <1>2. /\ r.conn < nextConn /\ r.n <= asked[r.conn]
        /\ owner[r.sock] # 0 => r.conn <= owner[r.sock]
    BY DEF Issued
  <1>3. /\ nextConn \in Nat /\ asked[r.conn] \in Nat
        /\ owner \in [Fds -> {0} \cup Conns] /\ asked \in [Conns -> 0..MaxRequests]
    BY <1>1, BoundsAssumption DEF TypeOK
  <1>4. ASSUME NEW s \in Fds, SignOn(s)
        PROVE  /\ r.conn < nextConn'
               /\ r.n <= asked'[r.conn]
               /\ owner'[r.sock] # 0 => r.conn <= owner'[r.sock]
    BY <1>1, <1>2, <1>3, <1>4 DEF SignOn
  <1>5. ASSUME NEW s \in Fds, Leave(s)
        PROVE  /\ r.conn < nextConn'
               /\ r.n <= asked'[r.conn]
               /\ owner'[r.sock] # 0 => r.conn <= owner'[r.sock]
    BY <1>1, <1>2, <1>3, <1>5 DEF Leave
  <1>6. ASSUME NEW s \in Fds, Ask(s)
        PROVE  /\ r.conn < nextConn'
               /\ r.n <= asked'[r.conn]
               /\ owner'[r.sock] # 0 => r.conn <= owner'[r.sock]
    <2>1. UNCHANGED <<owner, nextConn>> /\ asked' = [asked EXCEPT ![owner[s]] = @ + 1]
      BY <1>6 DEF Ask
    <2>2. asked'[r.conn] = asked[r.conn] \/ asked'[r.conn] = asked[r.conn] + 1
      BY <2>1, <1>1, <1>3
    <2>3. QED
      BY <2>1, <2>2, <1>1, <1>2, <1>3
  <1>7. CASE StartBot \/ EndBot \/ LoseBot \/ Read \/ Deliver
    <2>1. UNCHANGED <<owner, nextConn, asked>>
      BY <1>7 DEF StartBot, EndBot, LoseBot, Read, BotRead, Deliver
    <2>2. QED
      BY <2>1, <1>2
  <1>8. QED
    BY <1>4, <1>5, <1>6, <1>7 DEF Next

(* An answer that fits its connection goes on to, whoever comes and goes.  *)
LEMMA FittingStays ==
  ASSUME TypeOK, Next, NEW c \in Conns, NEW q \in Request \cup {Welcome}, Fitting(c, q)
  PROVE  Fitting(c, q)'
  <1>1. /\ c < nextConn /\ q.sock \in Fds /\ Issued(q) /\ q.conn <= c
        /\ \A s \in Fds : owner[s] = c => q.sock = s
        /\ owner[q.sock] # 0 => c <= owner[q.sock]
    BY DEF Fitting
  <1>2. /\ nextConn \in Nat /\ c \in Nat /\ c # 0
        /\ owner \in [Fds -> {0} \cup Conns]
    BY BoundsAssumption DEF TypeOK, Conns
  <1>3. Issued(q)'
    BY <1>1, IssuedStays
  <1>4. /\ c < nextConn'
        /\ \A s \in Fds : owner'[s] = c => q.sock = s
        /\ owner'[q.sock] # 0 => c <= owner'[q.sock]
    <2>1. ASSUME NEW t \in Fds, SignOn(t)
          PROVE  /\ c < nextConn'
                 /\ \A s \in Fds : owner'[s] = c => q.sock = s
                 /\ owner'[q.sock] # 0 => c <= owner'[q.sock]
      BY <1>1, <1>2, <2>1 DEF SignOn
    <2>2. ASSUME NEW t \in Fds, Leave(t)
          PROVE  /\ c < nextConn'
                 /\ \A s \in Fds : owner'[s] = c => q.sock = s
                 /\ owner'[q.sock] # 0 => c <= owner'[q.sock]
      BY <1>1, <1>2, <2>2 DEF Leave
    <2>3. CASE (\E t \in Fds : Ask(t)) \/ StartBot \/ EndBot \/ LoseBot \/ Read \/ Deliver
      <3>1. UNCHANGED <<owner, nextConn>>
        BY <2>3 DEF Ask, StartBot, EndBot, LoseBot, Read, BotRead, Deliver
      <3>2. QED
        BY <3>1, <1>1
    <2>4. QED
      BY <2>1, <2>2, <2>3 DEF Next
  <1>5. QED
    BY <1>1, <1>3, <1>4 DEF Fitting

(* No two descriptors come to have one connection.                         *)
LEMMA OwnersStep ==
  ASSUME TypeOK, OwnersApart, Next
  PROVE  OwnersApart'
  <1>1. nextConn \in Nat /\ nextConn # 0 /\ owner \in [Fds -> {0} \cup Conns] /\ Conns \subseteq Nat
    BY BoundsAssumption DEF TypeOK, Conns
  <1>2. ASSUME NEW t \in Fds, SignOn(t)
        PROVE  OwnersApart'
    <2>1. nextConn' = nextConn + 1
      BY <1>2 DEF SignOn
    <2>2. /\ owner'[t] = nextConn
          /\ \A s \in Fds : s # t => owner'[s] = owner[s]
          /\ \A s \in Fds : owner[s] \in Nat
      <3>1. owner' = [owner EXCEPT ![t] = nextConn]
        BY <1>2 DEF SignOn
      <3>2. owner \in [Fds -> {0} \cup Conns]
        BY <1>1
      <3>3. owner'[t] = nextConn /\ \A s \in Fds : s # t => owner'[s] = owner[s]
        BY <3>1, <3>2
      <3>4. \A s \in Fds : owner[s] \in Nat
        <4>1. \A s \in Fds : owner[s] \in {0} \cup Conns
          BY <3>2
        <4>2. QED
          BY <4>1, BoundsAssumption DEF Conns
      <3>5. QED
        BY <3>3, <3>4
    <2> HIDE <1>2
    <2>0. \A s \in Fds : owner[s] # 0 => owner[s] < nextConn
      BY DEF OwnersApart
    <2>3. ASSUME NEW s \in Fds, NEW u \in Fds, owner'[s] # 0
          PROVE  owner'[s] < nextConn' /\ (owner'[s] = owner'[u] => s = u)
      <3>1. CASE s = t
        <4>1. owner'[s] = nextConn
          BY <3>1, <2>2
        <4>2. u # t => owner'[u] # nextConn
          BY <2>0, <2>2, <1>1
        <4>3. QED
          BY <4>1, <4>2, <3>1, <2>1, <1>1
      <3>2. CASE s # t
        <4>1. owner'[s] = owner[s] /\ owner[s] < nextConn /\ owner[s] \in Nat
          BY <3>2, <2>0, <2>2, <2>3
        <4>2. u = t => owner'[u] = nextConn
          BY <2>2
        <4>3. u # t => owner'[u] = owner[u]
          BY <2>2
        <4>4. owner[s] = owner[u] => s = u
          BY <4>1, <2>3 DEF OwnersApart
        <4>5. QED
          BY <4>1, <4>2, <4>3, <4>4, <2>1, <1>1
      <3>3. QED
        BY <3>1, <3>2
    <2>4. QED
      BY <2>3 DEF OwnersApart
  <1>3. ASSUME NEW t \in Fds, Leave(t)
        PROVE  OwnersApart'
    BY <1>1, <1>3 DEF Leave, OwnersApart
  <1>4. CASE (\E t \in Fds : Ask(t)) \/ StartBot \/ EndBot \/ LoseBot \/ Read \/ Deliver
    <2>1. UNCHANGED <<owner, nextConn>>
      BY <1>4 DEF Ask, StartBot, EndBot, LoseBot, Read, BotRead, Deliver
    <2>2. QED
      BY <2>1 DEF OwnersApart
  <1>5. QED
    BY <1>2, <1>3, <1>4 DEF Next

(* What is on the way to or from somebody after a step was before, in the  *)
(* same order.                                                             *)
Embeds(e) ==
  /\ \A p \in Way' : At(p)'.sock \in Fds => e[p] \in Way /\ At(p)' = At(e[p])
  /\ \A p, q \in Way' : At(p)'.sock \in Fds /\ At(q)'.sock \in Fds /\ p < q
                         => e[p] < e[q]

(* Such a step keeps the order.                                            *)
LEMMA WayThinned ==
  ASSUME BridgeInv, Next, NEW e, Embeds(e)
  PROVE  /\ WayInOrder'
         /\ \A q : (\A p \in Way : Comes(q, At(p))) => \A p \in Way' : Comes(q, At(p)')
  <1>1. TypeOK /\ WayInOrder
    BY DEF BridgeInv
  <1>0. /\ \A p \in Way' : At(p)'.sock \in Fds => e[p] \in Way /\ At(p)' = At(e[p])
        /\ \A p, q \in Way' : At(p)'.sock \in Fds /\ At(q)'.sock \in Fds /\ p < q
                               => e[p] < e[q]
    BY DEF Embeds
  <1>2. \A p \in Way : /\ At(p) \in Request \cup {Welcome} /\ Issued(At(p))
                       /\ \A q \in Way : p < q => Comes(At(p), At(q))
    BY <1>1, WayTypes DEF WayInOrder
  <1>3. ASSUME NEW p \in Way'
        PROVE  Issued(At(p))'
    <2>1. CASE At(p)'.sock \in Fds
      <3>1. PICK r \in Request \cup {Welcome} : r = At(e[p]) /\ Issued(r)
        BY <2>1, <1>0, <1>2
      <3>2. Issued(r)'
        BY <3>1, <1>1, IssuedStays
      <3>3. At(p)' = r
        BY <2>1, <1>0, <3>1
      <3>4. QED
        BY <3>2, <3>3 DEF Issued
    <2>2. CASE At(p)'.sock \notin Fds
      BY <2>2 DEF Issued
    <2>3. QED
      BY <2>1, <2>2
  <1>4. ASSUME NEW p \in Way', NEW q \in Way', p < q
        PROVE  Comes(At(p)', At(q)')
    <2>1. CASE At(p)'.sock \in Fds /\ At(q)'.sock \in Fds
      BY <2>1, <1>0, <1>4, <1>2
    <2>2. CASE ~(At(p)'.sock \in Fds /\ At(q)'.sock \in Fds)
      BY <2>2 DEF Comes
    <2>3. QED
      BY <2>1, <2>2
  <1>5. ASSUME NEW q, \A p \in Way : Comes(q, At(p)), NEW p \in Way'
        PROVE  Comes(q, At(p)')
    <2>1. CASE At(p)'.sock \in Fds
      BY <2>1, <1>0, <1>5
    <2>2. CASE At(p)'.sock \notin Fds
      BY <2>2 DEF Comes
    <2>3. QED
      BY <2>1, <2>2
  <1>6. WayInOrder'
    BY <1>3, <1>4 DEF WayInOrder
  <1>7. QED
    BY <1>5, <1>6

(* Such a step in which nobody is told anything keeps the invariant.       *)
LEMMA Untold ==
  ASSUME BridgeInv, Next, UNCHANGED answers, WayInOrder',
         \A c \in Conns : \A i \in 1..Len(answers[c]) :
           /\ answers[c][i].got = "whole"
           /\ \A p \in Way : Comes(answers[c][i].to, At(p))
           => \A p \in Way' : Comes(answers[c][i].to, At(p)')
  PROVE  BridgeInv'
  <1>1. TypeOK /\ TypeOK' /\ OwnersApart' /\ ToldFits /\ AnswersInOrder
    BY TypeStep, OwnersStep DEF BridgeInv
  <1>2. AnswersInOrder'
    BY <1>1 DEF AnswersInOrder
  <1>3. ASSUME NEW c \in Conns, NEW i \in 1..Len(answers[c]), answers[c][i].got = "whole"
        PROVE  /\ Fitting(c, answers[c][i].to)'
               /\ \A p \in Way' : Comes(answers[c][i].to, At(p)')
    <2>1. PICK q \in Request \cup {Welcome} : q = answers[c][i].to
      BY <1>1, WayTypes
    <2>2. Fitting(c, q) /\ \A p \in Way : Comes(q, At(p))
      BY <1>1, <1>3, <2>1 DEF ToldFits
    <2>3. Fitting(c, q)'
      BY <1>1, <2>2, FittingStays
    <2>4. answers'[c][i].to = q
      BY <2>1
    <2>5. Fitting(c, answers[c][i].to)'
      BY <2>3, <2>4 DEF Fitting, Issued
    <2>6. QED
      BY <2>5, <2>1, <2>2, <1>3
  <1>4. ToldFits'
    BY <1>3 DEF ToldFits
  <1>5. QED
    BY <1>1, <1>2, <1>4 DEF BridgeInv

(* Where things are on the way: the replies first, then the line ends in   *)
(* the buffer, then those in the stream.                                   *)
PlacesOfWay ==
  LET n == Len(fromBot)
      b == Len(buffer)
  IN  /\ n \in Nat /\ b \in Nat
      /\ \A p \in 1..n : p \in Way /\ At(p) = Whole(fromBot[p])
      /\ \A i \in Tails(buffer) :
           i \in 1..b /\ n + i \in Way /\ At(n + i) = buffer[i].line
      /\ \A i \in Tails(toBot) :
           /\ i \in 1..Len(toBot)
           /\ n + (b + i) \in Way /\ At(n + (b + i)) = toBot[i].line
      /\ \A p \in Way :
           \/ p \in 1..n
           \/ \E i \in Tails(buffer) : p = n + i
           \/ \E i \in Tails(toBot) : p = n + (b + i)

(* The way by its places: replies, line ends in the buffer, line ends in   *)
(* the stream.                                                             *)
LEMMA WayPlaces == TypeOK => PlacesOfWay
  <1> SUFFICES ASSUME TypeOK
               PROVE  PlacesOfWay
    OBVIOUS
  <1> DEFINE n == Len(fromBot)
  <1> DEFINE b == Len(buffer)
  <1>1. /\ n \in Nat /\ buffer \in Seq(Piece) /\ toBot \in Seq(Piece) /\ Stream = buffer \o toBot
    BY WayTypes DEF TypeOK, Stream
  <1>2. /\ \A i \in Tails(buffer) : i \in Tails(Stream) /\ Stream[i] = buffer[i]
        /\ \A i \in Tails(toBot) : b + i \in Tails(Stream) /\ Stream[b + i] = toBot[i]
        /\ \A i \in Tails(Stream) :
             i \in Tails(buffer) \/ \E j \in Tails(toBot) : i = b + j
        /\ Tails(buffer) \subseteq 1..b /\ Tails(toBot) \subseteq 1..Len(toBot)
        /\ b \in Nat /\ Len(toBot) \in Nat
    BY <1>1, TailsOfConcat
  <1>3. \A p \in 1..n : p \in Way /\ At(p) = Whole(fromBot[p])
    BY <1>1 DEF Way, At
  <1>4. ASSUME NEW i \in Tails(Stream), i \in Nat, i # 0
        PROVE  n + i \in Way /\ At(n + i) = Stream[i].line
    <2>1. ~(n + i <= n) /\ (n + i) - n = i
      BY <1>1, <1>4
    <2>2. QED
      BY <2>1 DEF Way, At
  <1>5. ASSUME NEW i \in Tails(buffer)
        PROVE  i \in 1..b /\ n + i \in Way /\ At(n + i) = buffer[i].line
    BY <1>2, <1>4
  <1>6. ASSUME NEW i \in Tails(toBot)
        PROVE  i \in 1..Len(toBot) /\ n + (b + i) \in Way /\ At(n + (b + i)) = toBot[i].line
    <2>1. b + i \in Nat /\ b + i # 0 /\ b + i \in Tails(Stream) /\ Stream[b + i] = toBot[i]
      BY <1>2
    <2>2. QED
      BY <2>1, <1>2, <1>4
  <1>7. ASSUME NEW p \in Way
        PROVE  \/ p \in 1..n
               \/ \E i \in Tails(buffer) : p = n + i
               \/ \E i \in Tails(toBot) : p = n + (b + i)
    <2>1. CASE p \notin 1..n
      <3>1. PICK i \in Tails(Stream) : p = n + i
        BY <2>1 DEF Way
      <3>2. QED
        BY <3>1, <1>2
    <2>2. QED
      BY <2>1
  <1>8. QED
    BY <1>1, <1>2, <1>3, <1>5, <1>6, <1>7 DEF PlacesOfWay

(* The same after a step.                                                  *)
LEMMA WayPlacesNext == TypeOK' => PlacesOfWay'
  BY WayPlaces, PTL

(* What stays on the way stays in its place.                               *)
LEMMA SamePlaces ==
  ASSUME TypeOK', \A p \in Way' : At(p)'.sock \in Fds => p \in Way /\ At(p)' = At(p)
  PROVE  \E e : Embeds(e)
  <1>1. PICK e : \A p \in Way : e[p] = p
    <2>1. \A p \in Way : [q \in Way |-> q][p] = p
      OBVIOUS
    <2>2. QED
      BY <2>1
  <1>2. ASSUME NEW p \in Way', At(p)'.sock \in Fds
        PROVE  e[p] = p /\ e[p] \in Way /\ At(p)' = At(e[p])
    <2>1. p \in Way /\ At(p)' = At(p)
      BY <1>2
    <2>2. e[p] = p
      BY <2>1, <1>1
    <2>3. At(e[p]) = At(p)
      BY <2>2
    <2>4. QED
      BY <2>1, <2>2, <2>3
  <1>3. ASSUME NEW p \in Way', NEW q \in Way', At(p)'.sock \in Fds, At(q)'.sock \in Fds, p < q
        PROVE  e[p] < e[q]
    <2>1. e[p] = p /\ e[q] = q
      BY <1>2, <1>3
    <2>2. QED
      BY <2>1, <1>3
  <1>4. QED
    BY <1>2, <1>3 DEF Embeds

(* A step that adds nothing to the way and tells nobody keeps the          *)
(* invariant.                                                              *)
LEMMA QuietStep ==
  ASSUME BridgeInv, Next, UNCHANGED <<streams, answers>>
  PROVE  BridgeInv'
  <1>1. Way' = Way /\ \A p : At(p)' = At(p)
    BY DEF Way, At, Stream, streams
  <1>2. TypeOK'
    BY TypeStep DEF BridgeInv
  <1>3. PICK e : Embeds(e)
    BY <1>1, <1>2, SamePlaces
  <1>4. WayInOrder'
    BY <1>3, WayThinned
  <1>5. QED
    BY <1>1, <1>4, Untold

(* The stream to a new bot begins with the welcome, which is for nobody.   *)
LEMMA StartBotStep ==
  ASSUME BridgeInv, StartBot
  PROVE  BridgeInv'
  <1> DEFINE n == Len(fromBot)
  <1>1. /\ TypeOK /\ TypeOK' /\ Next /\ UNCHANGED <<answers, fromBot, buffer>>
        /\ toBot' = Line(Welcome)
    BY TypeStep DEF BridgeInv, Next, StartBot
  <1>2. /\ buffer \in Seq(Piece) /\ toBot \in Seq(Piece) /\ toBot' \in Seq(Piece)
        /\ Len(buffer) \in Nat /\ Len(toBot) \in Nat /\ Len(toBot') = 3 /\ n \in Nat
    BY <1>1, LineType, LenProperties DEF TypeOK
  <1>3. \A i \in 1..3 : toBot'[i].line = Welcome
    BY <1>1, LineType
  <1>4. ASSUME NEW p \in Way', At(p)'.sock \in Fds
        PROVE  p \in Way /\ At(p)' = At(p)
    <2>1. PlacesOfWay /\ PlacesOfWay'
      BY <1>1, WayPlaces, WayPlacesNext
    <2>2. \/ p \in 1..n
          \/ \E i \in Tails(buffer) : p = n + i
          \/ \E i \in Tails(toBot') : p = n + (Len(buffer) + i)
      BY <2>1, <1>1 DEF PlacesOfWay
    <2>3. CASE p \in 1..n
      BY <2>1, <2>3, <1>1 DEF PlacesOfWay
    <2>4. CASE \E i \in Tails(buffer) : p = n + i
      BY <2>1, <2>4, <1>1 DEF PlacesOfWay
    <2>5. CASE \E i \in Tails(toBot') : p = n + (Len(buffer) + i)
      <3>1. PICK i \in Tails(toBot') : p = n + (Len(buffer) + i)
        BY <2>5
      <3>2. i \in 1..Len(toBot') /\ At(p)' = toBot'[i].line
        BY <2>1, <3>1, <1>1 DEF PlacesOfWay
      <3>3. At(p)' = Welcome
        BY <3>2, <1>2, <1>3
      <3>4. QED
        BY <3>3, <1>4, FdsAssumption DEF Welcome
    <2>6. QED
      BY <2>2, <2>3, <2>4, <2>5
  <1>6. PICK e : Embeds(e)
    BY <1>1, <1>4, SamePlaces
  <1>7. /\ WayInOrder'
        /\ \A q : (\A p \in Way : Comes(q, At(p))) => \A p \in Way' : Comes(q, At(p)')
    BY <1>1, <1>6, WayThinned
  <1>8. QED
    BY <1>1, <1>7, Untold

(* A bot that ends takes with it what it has not answered.                 *)
LEMMA EndBotStep ==
  ASSUME BridgeInv, EndBot
  PROVE  BridgeInv'
  <1>1. /\ TypeOK /\ TypeOK' /\ Next /\ UNCHANGED <<answers, fromBot>>
        /\ toBot' = <<>> /\ buffer' = <<>>
    BY TypeStep DEF BridgeInv, Next, EndBot
  <1>2. PlacesOfWay /\ PlacesOfWay'
    BY <1>1, WayPlaces, WayPlacesNext
  <1>3. Tails(toBot') = {} /\ Tails(buffer') = {}
    BY <1>1 DEF Tails
  <1>4. ASSUME NEW p \in Way'
        PROVE  p \in Way /\ At(p)' = At(p)
    <2>1. p \in 1..Len(fromBot)
      BY <1>1, <1>2, <1>3 DEF PlacesOfWay
    <2>2. QED
      BY <2>1, <1>1, <1>2 DEF PlacesOfWay
  <1>5. PICK e : Embeds(e)
    BY <1>1, <1>4, SamePlaces
  <1>6. /\ WayInOrder'
        /\ \A q : (\A p \in Way : Comes(q, At(p))) => \A p \in Way' : Comes(q, At(p)')
    BY <1>1, <1>5, WayThinned
  <1>7. QED
    BY <1>1, <1>6, Untold

(* A bot that goes away takes all that is on the way with it.              *)
LEMMA LoseBotStep ==
  ASSUME BridgeInv, LoseBot
  PROVE  BridgeInv'
  <1>1. TypeOK /\ Next /\ UNCHANGED answers
    BY DEF BridgeInv, Next, LoseBot
  <1>2. Way' = {}
    <2>1. fromBot' = <<>> /\ Stream' = <<>>
      BY DEF LoseBot, Stream
    <2>2. Tails(Stream') = {}
      BY <2>1 DEF Tails
    <2>3. QED
      BY <2>1, <2>2 DEF Way
  <1>3. WayInOrder'
    BY <1>2 DEF WayInOrder
  <1>4. QED
    BY <1>1, <1>2, <1>3, Untold

(* A request comes after all that were made before it.                     *)
LEMMA NewIsLast ==
  ASSUME TypeOK, NEW s \in Fds, owner[s] # 0,
         NEW q \in Request \cup {Welcome}, Issued(q)
  PROVE  Comes(q, [sock |-> s, conn |-> owner[s], n |-> asked[owner[s]] + 1])
  <1>1. owner[s] \in Conns /\ owner[s] \in Nat /\ asked[owner[s]] \in Nat
    BY BoundsAssumption DEF TypeOK, Conns
  <1>2. CASE q.sock = s
    <2>1. q.conn \in Nat /\ q.n \in Nat
      BY <1>2, Requests
    <2>2. q.conn <= owner[s] /\ q.n <= asked[q.conn]
      BY <1>2 DEF Issued
    <2>3. q.conn < owner[s] \/ (q.conn = owner[s] /\ q.n < asked[owner[s]] + 1)
      BY <1>1, <2>1, <2>2
    <2>4. QED
      BY <2>3 DEF Comes, Before
  <1>3. CASE q.sock # s
    BY <1>3 DEF Comes
  <1>4. QED
    BY <1>2, <1>3

(* A request is later than all that is on the way and all that was told.   *)
LEMMA AskStep ==
  ASSUME BridgeInv, NEW s \in Fds, Ask(s), bot # "gone"
  PROVE  BridgeInv'
  <1> DEFINE c == owner[s]
  <1>0. PICK r : r = [sock |-> s, conn |-> c, n |-> asked[c] + 1]
    OBVIOUS
  <1> DEFINE n == Len(fromBot)
  <1> DEFINE b == Len(buffer)
  <1> DEFINE z == n + (b + (Len(toBot) + 2))
  <1>1. /\ TypeOK /\ TypeOK' /\ Next /\ OwnersApart /\ WayInOrder /\ ToldFits
        /\ UNCHANGED <<answers, fromBot, buffer, owner, nextConn>>
        /\ c # 0 /\ toBot' = toBot \o Line(r)
    BY <1>0, TypeStep DEF BridgeInv, Next, Ask
  <1>2. PlacesOfWay /\ PlacesOfWay'
    BY <1>1, WayPlaces, WayPlacesNext
  <1>3. /\ c \in Conns /\ asked[c] \in Nat /\ r \in Request
        /\ asked'[c] = asked[c] + 1
    <2>1. /\ asked' = [asked EXCEPT ![c] = @ + 1] /\ asked[c] < MaxRequests
          /\ asked \in [Conns -> 0..MaxRequests] /\ owner \in [Fds -> {0} \cup Conns]
      BY <1>1 DEF Ask, TypeOK
    <2>2. c \in Conns
      BY <1>1, <2>1
    <2>3. /\ asked[c] \in Nat /\ asked[c] + 1 \in 1..MaxRequests
          /\ asked'[c] = asked[c] + 1
      BY <2>1, <2>2, BoundsAssumption
    <2>4. QED
      BY <1>0, <2>2, <2>3 DEF Request
  <1>4. /\ n \in Nat /\ b \in Nat /\ Len(toBot) \in Nat /\ Tails(toBot) \subseteq 1..Len(toBot)
        /\ toBot \in Seq(Piece)
    BY <1>1, <1>2 DEF PlacesOfWay, TypeOK, Tails
  <1>5. /\ Line(r) \in Seq(Piece) /\ Tails(Line(r)) = {2} /\ Line(r)[2].line = r
    BY <1>3, LineType
  <1>6. \A i \in Tails(toBot') :
          \/ i \in Tails(toBot) /\ toBot'[i] = toBot[i]
          \/ i = Len(toBot) + 2 /\ toBot'[i].line = r
    BY <1>1, <1>4, <1>5, TailsOfConcat
  <1>7. ASSUME NEW p \in Way'
        PROVE  (p \in Way /\ p < z /\ At(p)' = At(p)) \/ (p = z /\ At(p)' = r)
    <2>1. CASE p \in 1..n
      BY <2>1, <1>1, <1>2, <1>4 DEF PlacesOfWay
    <2>2. CASE \E i \in Tails(buffer) : p = n + i
      <3>1. PICK i \in Tails(buffer) : p = n + i
        BY <2>2
      <3>2. i \in 1..b /\ p \in Way /\ At(p)' = At(p)
        BY <3>1, <1>1, <1>2 DEF PlacesOfWay
      <3>3. QED
        BY <3>1, <3>2, <1>4
    <2>3. CASE \E i \in Tails(toBot') : p = n + (b + i)
      <3>1. PICK i \in Tails(toBot') : p = n + (b + i)
        BY <2>3
      <3>2. At(p)' = toBot'[i].line
        BY <3>1, <1>1, <1>2 DEF PlacesOfWay
      <3>3. CASE i \in Tails(toBot) /\ toBot'[i] = toBot[i]
        <4>1. i \in 1..Len(toBot) /\ p \in Way /\ At(p) = toBot[i].line
          BY <3>1, <3>3, <1>2 DEF PlacesOfWay
        <4>2. p < z
          BY <3>1, <4>1, <1>4
        <4>3. QED
          BY <3>2, <3>3, <4>1, <4>2
      <3>4. CASE i = Len(toBot) + 2 /\ toBot'[i].line = r
        BY <3>1, <3>2, <3>4
      <3>5. QED
        BY <3>3, <3>4, <1>6
    <2>4. QED
      BY <2>1, <2>2, <2>3, <1>1, <1>2 DEF PlacesOfWay
  <1>8. \A q \in Request \cup {Welcome} : Issued(q) => Comes(q, r)
    BY <1>0, <1>1, NewIsLast
  <1>9. \A p \in Way : /\ At(p) \in Request \cup {Welcome} /\ Issued(At(p)) /\ p \in Nat
                       /\ \A q \in Way : p < q => Comes(At(p), At(q))
    BY <1>1, WayTypes DEF WayInOrder
  <1>10. z \in Nat
    BY <1>4
  <1>11. Issued(r)'
    <2>1. r.sock = s /\ r.conn = c /\ r.n = asked[c] + 1
      BY <1>0
    <2>2. c < nextConn /\ c \in Nat
      BY <1>1, <1>3, BoundsAssumption DEF OwnersApart, Conns
    <2>3. r.conn < nextConn' /\ r.n <= asked'[r.conn] /\ r.conn <= owner'[r.sock]
      BY <1>1, <1>3, <2>1, <2>2
    <2>4. QED
      BY <2>3 DEF Issued
  <1> HIDE DEF z
  <1>12. WayInOrder'
    <2>1. ASSUME NEW p \in Way'
          PROVE  Issued(At(p))'
      <3>1. CASE p \in Way /\ At(p)' = At(p)
        <4>1. PICK q \in Request \cup {Welcome} : q = At(p) /\ Issued(q)
          BY <3>1, <1>9
        <4>2. Issued(q)' /\ At(p)' = q
          BY <3>1, <4>1, <1>1, IssuedStays
        <4>3. QED
          BY <4>2 DEF Issued
      <3>2. CASE At(p)' = r
        BY <3>2, <1>11 DEF Issued
      <3>3. QED
        BY <3>1, <3>2, <1>7
    <2>2. ASSUME NEW p \in Way', NEW q \in Way', p < q
          PROVE  Comes(At(p)', At(q)')
      <3>1. p \in Way /\ At(p)' = At(p)
        <4>1. (q \in Way /\ q < z) \/ q = z
          BY <1>7
        <4>2. q \in Nat /\ (p \in Way => p \in Nat) /\ p # z
          BY <4>1, <2>2, <1>9, <1>10
        <4>3. QED
          BY <4>2, <1>7
      <3>2. CASE q \in Way /\ At(q)' = At(q)
        BY <3>1, <3>2, <2>2, <1>9
      <3>3. CASE At(q)' = r
        BY <3>1, <3>3, <1>8, <1>9
      <3>4. QED
        BY <3>2, <3>3, <1>7
    <2>3. QED
      BY <2>1, <2>2 DEF WayInOrder
  <1>13. ASSUME NEW d \in Conns, NEW i \in 1..Len(answers[d]), answers[d][i].got = "whole",
                \A p \in Way : Comes(answers[d][i].to, At(p)), NEW p \in Way'
         PROVE  Comes(answers[d][i].to, At(p)')
    <2>1. CASE p \in Way /\ At(p)' = At(p)
      BY <2>1, <1>13
    <2>2. CASE At(p)' = r
      <3>1. Issued(answers[d][i].to) /\ answers[d][i].to \in Request \cup {Welcome}
        BY <1>1, <1>13, WayTypes DEF ToldFits, Fitting
      <3>2. QED
        BY <2>2, <3>1, <1>8
    <2>3. QED
      BY <2>1, <2>2, <1>7
  <1>14. QED
    BY <1>1, <1>12, <1>13, Untold

(* The line ends of a read and of what it leaves in the stream.            *)
LEMMA ReadTails ==
  ASSUME TypeOK, NEW k \in 1..Len(toBot),
         NEW read, read = SubSeq(toBot, 1, k),
         NEW rest, rest = SubSeq(toBot, k + 1, Len(toBot))
  PROVE  /\ \A i \in Tails(read) : /\ i \in 1..k /\ i \in Tails(toBot)
                                  /\ read[i] = toBot[i]
         /\ \A i \in Tails(rest) : /\ i \in Nat /\ i # 0 /\ k + i \in Tails(toBot)
                                  /\ rest[i] = toBot[k + i]
  <1>1. /\ read \in Seq(Piece) /\ Len(read) = k
        /\ rest \in Seq(Piece) /\ Len(rest) = Len(toBot) - k
        /\ k \in Nat /\ Len(toBot) \in Nat /\ k <= Len(toBot)
        /\ \A i \in 1..k : read[i] = toBot[i]
        /\ \A i \in 1..(Len(toBot) - k) : rest[i] = toBot[k + i]
    BY ReadSplits
  <1>2. \A i \in Tails(read) : /\ i \in 1..k /\ i \in Tails(toBot)
                             /\ read[i] = toBot[i]
    BY <1>1 DEF Tails
  <1>3. \A i \in Tails(rest) : /\ i \in Nat /\ i # 0 /\ k + i \in Tails(toBot)
                             /\ rest[i] = toBot[k + i]
    BY <1>1 DEF Tails
  <1>4. QED
    BY <1>2, <1>3

(* After a read what is on the way was on it before, in the same order.    *)
LEMMA ReadEmbeds ==
  ASSUME TypeOK, TypeOK', NEW k \in 1..Len(toBot), BotRead(k)
  PROVE  \E e : Embeds(e)
  <1> DEFINE n == Len(fromBot)
  <1> DEFINE b == Len(buffer)
  <1>1. PICK read : read = SubSeq(toBot, 1, k)
    OBVIOUS
  <1>2. PICK rest : rest = SubSeq(toBot, k + 1, Len(toBot))
    OBVIOUS
  <1>3. /\ \A i \in Tails(read) : /\ i \in 1..k /\ i \in Tails(toBot)
                                 /\ read[i] = toBot[i]
        /\ \A i \in Tails(rest) : /\ i \in Nat /\ i # 0 /\ k + i \in Tails(toBot)
                                 /\ rest[i] = toBot[k + i]
    BY <1>1, <1>2, ReadTails
  <1>4. /\ read \in Seq(Piece) /\ Len(read) = k /\ k \in Nat
        /\ rest \in Seq(Piece) /\ buffer \in Seq(Piece) /\ toBot' = rest
    BY <1>1, <1>2, ReadSplits DEF TypeOK, BotRead
  <1>5. PlacesOfWay /\ PlacesOfWay'
    BY WayPlaces, WayPlacesNext
  <1>6. n \in Nat /\ b \in Nat
    BY <1>5 DEF PlacesOfWay
  <1>7. \/ UNCHANGED <<buffer, fromBot>>
        \/ buffer' = buffer \o read /\ UNCHANGED fromBot
        \/ buffer' = <<>> /\ fromBot' = fromBot \o Served(buffer, read)
    BY <1>1 DEF BotRead
  <1>8. \A i \in Tails(rest) : /\ n + (b + (k + i)) \in Way
                             /\ At(n + (b + (k + i))) = rest[i].line
    BY <1>3, <1>5 DEF PlacesOfWay
  <1>9. \A i \in Tails(buffer \o read) :
          /\ i \in 1..(b + k) /\ n + i \in Way
          /\ At(n + i) = (buffer \o read)[i].line
    <2> SUFFICES ASSUME NEW i \in Tails(buffer \o read)
                 PROVE  /\ i \in 1..(b + k) /\ n + i \in Way
                        /\ At(n + i) = (buffer \o read)[i].line
      OBVIOUS
    <2>1. CASE i \in Tails(buffer)
      <3>1. i \in 1..b /\ n + i \in Way /\ At(n + i) = buffer[i].line
        BY <2>1, <1>5 DEF PlacesOfWay
      <3>2. (buffer \o read)[i] = buffer[i]
        BY <2>1, <1>4, TailsOfConcat
      <3>3. QED
        BY <3>1, <3>2, <1>4, <1>6
    <2>2. CASE \E j \in Tails(read) : i = b + j
      <3>1. PICK j \in Tails(read) : i = b + j
        BY <2>2
      <3>2. (buffer \o read)[i] = read[j]
        BY <3>1, <1>4, TailsOfConcat
      <3>3. j \in 1..k /\ j \in Tails(toBot) /\ read[j] = toBot[j]
        BY <1>3
      <3>4. n + i \in Way /\ At(n + i) = toBot[j].line
        BY <3>1, <3>3, <1>5 DEF PlacesOfWay
      <3>5. i \in 1..(b + k)
        BY <3>1, <3>3, <1>4, <1>6
      <3>6. QED
        BY <3>2, <3>3, <3>4, <3>5
    <2>3. QED
      BY <2>1, <2>2, <1>4, TailsOfConcat
  <1>10. CASE UNCHANGED <<buffer, fromBot>>
    <2>1. PICK e : \A p \in Nat : e[p] = IF p <= n + b THEN p ELSE p + k
      <3>1. \A p \in Nat : [q \in Nat |-> IF q <= n + b THEN q ELSE q + k][p]
                           = IF p <= n + b THEN p ELSE p + k
        OBVIOUS
      <3>2. QED
        BY <3>1
    <2>2. ASSUME NEW p \in Way'
          PROVE  p \in Nat /\ e[p] \in Way /\ At(p)' = At(e[p])
      <3>1. CASE p \in 1..n
        <4>1. e[p] = p /\ p \in Nat
          BY <3>1, <2>1, <1>6
        <4>2. p \in Way /\ At(p)' = At(p)
          BY <3>1, <1>5, <1>10 DEF PlacesOfWay
        <4>3. QED
          BY <4>1, <4>2
      <3>2. CASE \E i \in Tails(buffer) : p = n + i
        <4>1. PICK i \in Tails(buffer) : p = n + i
          BY <3>2
        <4>2. i \in 1..b /\ p \in Way /\ At(p)' = At(p)
          BY <4>1, <1>5, <1>10 DEF PlacesOfWay
        <4>3. e[p] = p /\ p \in Nat
          BY <4>1, <4>2, <2>1, <1>6
        <4>4. QED
          BY <4>2, <4>3
      <3>3. CASE \E i \in Tails(rest) : p = n + (b + i)
        <4>1. PICK i \in Tails(rest) : p = n + (b + i)
          BY <3>3
        <4>2. At(p)' = rest[i].line
          BY <4>1, <1>4, <1>5, <1>10 DEF PlacesOfWay
        <4>3. e[p] = n + (b + (k + i)) /\ p \in Nat
          BY <4>1, <2>1, <1>3, <1>4, <1>6
        <4>4. QED
          BY <4>2, <4>3, <1>8
      <3>4. QED
        BY <3>1, <3>2, <3>3, <1>4, <1>5, <1>10 DEF PlacesOfWay
    <2>3. ASSUME NEW p \in Way', NEW q \in Way', p < q
          PROVE  e[p] < e[q]
      BY <2>1, <2>2, <2>3, <1>4, <1>6
    <2>4. QED
      BY <2>2, <2>3 DEF Embeds
  <1>11. CASE buffer' = buffer \o read /\ UNCHANGED fromBot
    <2>1. Len(buffer') = b + k
      BY <1>4, <1>11, ConcatProperties
    <2>2. ASSUME NEW p \in Way'
          PROVE  p \in Way /\ At(p)' = At(p)
      <3>1. CASE p \in 1..n
        BY <3>1, <1>5, <1>11 DEF PlacesOfWay
      <3>2. CASE \E i \in Tails(buffer') : p = n + i
        <4>1. PICK i \in Tails(buffer') : p = n + i
          BY <3>2
        <4>2. At(p)' = buffer'[i].line
          BY <4>1, <1>5, <1>11 DEF PlacesOfWay
        <4>3. QED
          BY <4>1, <4>2, <1>9, <1>11
      <3>3. CASE \E i \in Tails(rest) : p = n + ((b + k) + i)
        <4>1. PICK i \in Tails(rest) : p = n + ((b + k) + i)
          BY <3>3
        <4>2. At(p)' = rest[i].line
          BY <4>1, <2>1, <1>4, <1>5, <1>11 DEF PlacesOfWay
        <4>3. p = n + (b + (k + i))
          BY <4>1, <1>3, <1>4, <1>6
        <4>4. QED
          BY <4>2, <4>3, <1>8
      <3>4. QED
        BY <3>1, <3>2, <3>3, <2>1, <1>4, <1>5, <1>11 DEF PlacesOfWay
    <2>3. QED
      BY <2>2, SamePlaces
  <1>12. CASE buffer' = <<>> /\ fromBot' = fromBot \o Served(buffer, read)
    <2>1. PICK out : out = Served(buffer, read)
      OBVIOUS
    <2>2. PICK f : Places(f, out, buffer \o read)
      BY <2>1, <1>4, ServedInPlace
    <2> DEFINE m == Len(out)
    <2>3. /\ out \in Seq(Reply) /\ m \in Nat /\ Len(fromBot') = n + m
          /\ \A p \in 1..n : fromBot'[p] = fromBot[p]
          /\ \A l \in 1..m : fromBot'[n + l] = out[l]
      <3>1. out \in Seq(Reply) /\ fromBot \in Seq(Reply) /\ fromBot' = fromBot \o out
        BY <2>1, <1>4, <1>12, ServedInPlace DEF TypeOK
      <3>2. QED
        BY <3>1
    <2>4. \A l \in 1..m : out[l].got = "whole" =>
            /\ f[l] \in 1..(b + k) /\ n + f[l] \in Way
            /\ At(n + f[l]) = out[l].to
            /\ \A j \in 1..m : l < j /\ out[j].got = "whole" => f[l] < f[j]
      BY <2>2, <1>9 DEF Places
    <2> HIDE DEF m
    <2>5. PICK e : \A p \in Nat : e[p] = IF p <= n THEN p
                                       ELSE IF p <= n + m THEN n + f[p - n]
                                       ELSE p + ((b + k) - m)
      <3>1. \A p \in Nat :
              [q \in Nat |-> IF q <= n THEN q
                             ELSE IF q <= n + m THEN n + f[q - n]
                             ELSE q + ((b + k) - m)][p]
              = IF p <= n THEN p ELSE IF p <= n + m THEN n + f[p - n]
                ELSE p + ((b + k) - m)
        OBVIOUS
      <3>2. QED
        BY <3>1
    <2>6. ASSUME NEW p \in Way'
          PROVE  \/ p \in 1..n /\ At(p)' = Whole(fromBot[p])
                 \/ \E l \in 1..m : p = n + l /\ At(p)' = Whole(out[l])
                 \/ \E i \in Tails(rest) : p = (n + m) + i /\ At(p)' = rest[i].line
      <3>1. Len(buffer') = 0 /\ Tails(buffer') = {}
        BY <1>12 DEF Tails
      <3>2. p \in 1..(n + m) \/ \E i \in Tails(rest) : p = (n + m) + (0 + i)
        BY <3>1, <2>3, <1>4, <1>5 DEF PlacesOfWay
      <3>3. CASE p \in 1..(n + m)
        <4>1. At(p)' = Whole(fromBot'[p])
          BY <3>3, <2>3, <1>5 DEF PlacesOfWay
        <4>2. CASE p <= n
          BY <4>1, <4>2, <3>3, <2>3, <1>6
        <4>3. CASE ~(p <= n)
          <5>1. PICK l \in 1..m : p = n + l
            <6>1. p - n \in 1..m /\ p = n + (p - n)
              BY <4>3, <3>3, <2>3, <1>6
            <6>2. QED
              BY <6>1
          <5>2. QED
            BY <5>1, <4>1, <2>3
        <4>4. QED
          BY <4>2, <4>3
      <3>4. CASE \E i \in Tails(rest) : p = (n + m) + (0 + i)
        <4>1. PICK i \in Tails(rest) : p = (n + m) + (0 + i)
          BY <3>4
        <4>2. At(p)' = rest[i].line
          BY <4>1, <3>1, <2>3, <1>4, <1>5 DEF PlacesOfWay
        <4>3. p = (n + m) + i
          BY <4>1, <1>3, <1>6, <2>3
        <4>4. QED
          BY <4>2, <4>3
      <3>5. QED
        BY <3>2, <3>3, <3>4
    <2>7. ASSUME NEW p \in Way', At(p)'.sock \in Fds
          PROVE  /\ p \in Nat /\ e[p] \in Nat /\ e[p] \in Way /\ At(p)' = At(e[p])
                 /\ p <= n => e[p] = p
                 /\ n < p /\ p <= n + m => /\ p - n \in 1..m /\ e[p] = n + f[p - n]
                                          /\ out[p - n].got = "whole"
                 /\ n + m < p => e[p] = p + ((b + k) - m)
      <3>1. CASE p \in 1..n /\ At(p)' = Whole(fromBot[p])
        <4>1. e[p] = p /\ p \in Nat /\ p <= n
          BY <3>1, <2>5, <1>6
        <4>2. p \in Way /\ At(p)' = At(p)
          BY <3>1, <1>5 DEF PlacesOfWay
        <4>3. QED
          BY <4>1, <4>2, <2>3, <1>6
      <3>2. CASE \E l \in 1..m : p = n + l /\ At(p)' = Whole(out[l])
        <4>1. PICK l \in 1..m : p = n + l /\ At(p)' = Whole(out[l])
          BY <3>2
        <4>2. /\ p \in Nat /\ ~(p <= n) /\ p <= n + m /\ p - n = l
          BY <4>1, <2>3, <1>6
        <4>3. e[p] = n + f[l]
          BY <4>2, <2>5
        <4>4. out[l].got = "whole" /\ Whole(out[l]) = out[l].to
          <5>1. Whole(out[l]).sock \in Fds
            BY <4>1, <2>7
          <5>2. Welcome.sock \notin Fds
            BY FdsAssumption DEF Welcome
          <5>3. QED
            BY <5>1, <5>2 DEF Whole
        <4>5. f[l] \in Nat /\ n + f[l] \in Way /\ At(n + f[l]) = out[l].to
          BY <4>4, <2>4, <1>4, <1>6
        <4>6. QED
          BY <4>1, <4>2, <4>3, <4>4, <4>5, <2>3, <1>6
      <3>3. CASE \E i \in Tails(rest) : p = (n + m) + i /\ At(p)' = rest[i].line
        <4>1. PICK i \in Tails(rest) : p = (n + m) + i /\ At(p)' = rest[i].line
          BY <3>3
        <4>2. i \in Nat /\ i # 0
          BY <1>3
        <4>3. /\ p \in Nat /\ ~(p <= n) /\ ~(p <= n + m)
              /\ p + ((b + k) - m) = n + (b + (k + i))
          BY <4>1, <4>2, <2>3, <1>4, <1>6
        <4>4. e[p] = n + (b + (k + i))
          BY <4>3, <2>5
        <4>5. e[p] \in Nat /\ e[p] = p + ((b + k) - m)
          BY <4>2, <4>3, <4>4, <1>4, <1>6
        <4>6. e[p] \in Way /\ At(p)' = At(e[p])
          BY <4>1, <4>4, <1>8
        <4>7. QED
          BY <4>3, <4>5, <4>6, <2>3, <1>6
      <3>4. QED
        BY <2>6, <3>1, <3>2, <3>3
    <2>8. ASSUME NEW p \in Way', NEW q \in Way', p < q,
                 At(p)'.sock \in Fds, At(q)'.sock \in Fds
          PROVE  e[p] < e[q]
      <3>1. p \in Nat /\ q \in Nat
        BY <2>7, <2>8
      <3>2. CASE p <= n
        <4>1. e[p] = p
          BY <3>2, <2>7, <2>8
        <4>2. CASE q <= n
          BY <4>1, <4>2, <2>7, <2>8
        <4>3. CASE n < q /\ q <= n + m
          <5>1. e[q] = n + f[q - n] /\ f[q - n] \in 1..(b + k)
            BY <4>3, <2>4, <2>7, <2>8
          <5>2. QED
            BY <4>1, <5>1, <3>1, <3>2, <1>4, <1>6
        <4>4. CASE n + m < q
          <5>1. q \notin 1..n /\ \A l \in 1..m : q # n + l
            BY <4>4, <2>3, <1>6
          <5>2. PICK i \in Tails(rest) : q = (n + m) + i
            BY <5>1, <2>6
          <5>3. e[q] = n + (b + (k + i)) /\ i \in Nat /\ i # 0
            BY <4>4, <5>2, <2>3, <2>7, <2>8, <1>3, <1>4, <1>6
          <5>4. QED
            BY <4>1, <5>3, <3>1, <3>2, <1>4, <1>6
        <4>5. QED
          BY <4>2, <4>3, <4>4, <3>1, <2>3, <1>6
      <3>3. CASE n < p /\ p <= n + m
        <4>1. /\ p - n \in 1..m /\ e[p] = n + f[p - n] /\ f[p - n] \in 1..(b + k)
              /\ out[p - n].got = "whole"
          BY <3>3, <2>4, <2>7, <2>8
        <4>2. CASE q <= n + m
          <5>1. n < q
            BY <3>1, <3>3, <2>8, <1>6
          <5>2. /\ q - n \in 1..m /\ e[q] = n + f[q - n] /\ f[q - n] \in 1..(b + k)
                /\ out[q - n].got = "whole"
            BY <4>2, <5>1, <2>4, <2>7, <2>8
          <5>3. p - n < q - n
            BY <3>1, <2>8, <1>6
          <5>4. f[p - n] < f[q - n]
            BY <4>1, <5>2, <5>3, <2>4
          <5>5. QED
            BY <4>1, <5>2, <5>4, <1>4, <1>6
        <4>3. CASE n + m < q
          <5>1. q \notin 1..n /\ \A l \in 1..m : q # n + l
            BY <4>3, <2>3, <1>6
          <5>2. PICK i \in Tails(rest) : q = (n + m) + i
            BY <5>1, <2>6
          <5>3. e[q] = n + (b + (k + i)) /\ i \in Nat /\ i # 0
            BY <4>3, <5>2, <2>3, <2>7, <2>8, <1>3, <1>4, <1>6
          <5>4. QED
            BY <4>1, <5>3, <1>4, <1>6
        <4>4. QED
          BY <4>2, <4>3, <3>1, <2>3, <1>6
      <3>4. CASE n + m < p
        <4>1. n + m < q
          BY <3>1, <3>4, <2>8, <2>3, <1>6
        <4>2. e[p] = p + ((b + k) - m) /\ e[q] = q + ((b + k) - m)
          BY <3>4, <4>1, <2>7, <2>8
        <4>3. QED
          BY <4>2, <3>1, <2>3, <2>8, <1>4, <1>6
      <3>5. QED
        BY <3>2, <3>3, <3>4, <3>1, <2>3, <1>6
    <2>9. QED
      BY <2>7, <2>8 DEF Embeds
  <1>13. QED
    BY <1>7, <1>10, <1>11, <1>12

(* A read of the bot moves, joins and drops lines, in their order.         *)
LEMMA ReadStep ==
  ASSUME BridgeInv, NEW k \in 1..Len(toBot), BotRead(k)
  PROVE  BridgeInv'
  <1>1. TypeOK /\ TypeOK' /\ Next /\ UNCHANGED answers
    BY TypeStep DEF BridgeInv, Next, Read, BotRead
  <1>2. PICK e : Embeds(e)
    BY <1>1, ReadEmbeds
  <1>3. /\ WayInOrder'
        /\ \A q : (\A p \in Way : Comes(q, At(p))) => \A p \in Way' : Comes(q, At(p)')
    BY <1>1, <1>2, WayThinned
  <1>4. QED
    BY <1>1, <1>3, Untold

(* The server tells the owner of a descriptor the first reply on its way.  *)
LEMMA DeliverStep ==
  ASSUME BridgeInv, Deliver
  PROVE  BridgeInv'
  <1> DEFINE n == Len(fromBot)
  <1> DEFINE b == Len(buffer)
  <1>1. /\ TypeOK /\ TypeOK' /\ Next /\ OwnersApart /\ OwnersApart'
        /\ WayInOrder /\ ToldFits /\ AnswersInOrder
        /\ UNCHANGED <<owner, nextConn, asked, buffer, toBot>>
    BY TypeStep, OwnersStep DEF BridgeInv, Next, Deliver
  <1>2. PlacesOfWay /\ PlacesOfWay'
    BY <1>1, WayPlaces, WayPlacesNext
  <1>3. /\ fromBot \in Seq(Reply) /\ fromBot # <<>> /\ fromBot' = Tail(fromBot)
        /\ n \in Nat /\ n # 0 /\ Len(fromBot') = n - 1 /\ b \in Nat
        /\ \A i \in 1..(n - 1) : fromBot'[i] = fromBot[i + 1]
    <2>1. fromBot \in Seq(Reply) /\ fromBot # <<>> /\ fromBot' = Tail(fromBot)
      BY <1>1 DEF TypeOK, Deliver
    <2>2. n \in Nat /\ n # 0 /\ b \in Nat
      BY <2>1, <1>2, EmptySeq DEF PlacesOfWay
    <2>3. Len(fromBot') = n - 1 /\ \A i \in 1..(n - 1) : fromBot'[i] = fromBot[i + 1]
      BY <2>1, <2>2, HeadTailProperties
    <2>4. QED
      BY <2>1, <2>2, <2>3
  <1>4. PICK r \in Reply : r = Head(fromBot)
    BY <1>3, HeadTailProperties
  <1>5. /\ 1 \in Way /\ At(1) = Whole(r) /\ Issued(Whole(r))
        /\ r.to \in Request \cup {Welcome} /\ r.got \in {"whole", "head", "tail"}
        /\ r.got = "whole" => Whole(r) = r.to
    <2>1. 1 \in 1..n /\ fromBot[1] = r
      BY <1>3, <1>4
    <2>2. 1 \in Way /\ At(1) = Whole(r)
      BY <2>1, <1>2 DEF PlacesOfWay
    <2>3. Issued(Whole(r))
      BY <2>2, <1>1 DEF WayInOrder
    <2>4. QED
      BY <2>2, <2>3, <1>4 DEF Reply, Whole
  <1>6. ASSUME NEW p \in Way'
        PROVE  p \in Nat /\ p # 0 /\ p + 1 \in Way /\ At(p)' = At(p + 1)
    <2>1. CASE p \in 1..(n - 1)
      <3>1. At(p)' = Whole(fromBot'[p])
        BY <2>1, <1>2, <1>3 DEF PlacesOfWay
      <3>2. p + 1 \in 1..n
        BY <2>1, <1>3
      <3>3. p + 1 \in Way /\ At(p + 1) = Whole(fromBot[p + 1])
        BY <3>2, <1>2 DEF PlacesOfWay
      <3>4. QED
        BY <2>1, <3>1, <3>3, <1>3
    <2>2. CASE \E i \in Tails(buffer) : p = (n - 1) + i
      <3>1. PICK i \in Tails(buffer) : p = (n - 1) + i
        BY <2>2
      <3>2. /\ i \in 1..b /\ n + i \in Way /\ At(n + i) = buffer[i].line
            /\ At(p)' = buffer[i].line
        BY <3>1, <1>1, <1>2, <1>3 DEF PlacesOfWay
      <3>3. p + 1 = n + i /\ p \in Nat /\ p # 0
        BY <3>1, <3>2, <1>3
      <3>4. QED
        BY <3>2, <3>3
    <2>3. CASE \E i \in Tails(toBot) : p = (n - 1) + (b + i)
      <3>1. PICK i \in Tails(toBot) : p = (n - 1) + (b + i)
        BY <2>3
      <3>2. /\ i \in 1..Len(toBot) /\ n + (b + i) \in Way
            /\ At(n + (b + i)) = toBot[i].line /\ At(p)' = toBot[i].line
        BY <3>1, <1>1, <1>2, <1>3 DEF PlacesOfWay
      <3>3. p + 1 = n + (b + i) /\ p \in Nat /\ p # 0
        BY <3>1, <3>2, <1>3
      <3>4. QED
        BY <3>2, <3>3
    <2>4. QED
      BY <2>1, <2>2, <2>3, <1>1, <1>2, <1>3 DEF PlacesOfWay
  <1>7. PICK e : \A p \in Nat : e[p] = p + 1
    <2>1. \A p \in Nat : [q \in Nat |-> q + 1][p] = p + 1
      OBVIOUS
    <2>2. QED
      BY <2>1
  <1>8. Embeds(e)
    <2>1. ASSUME NEW p \in Way'
          PROVE  p \in Nat /\ e[p] = p + 1 /\ e[p] \in Way /\ At(p)' = At(e[p])
      BY <1>6, <1>7
    <2>2. ASSUME NEW p \in Way', NEW q \in Way', p < q
          PROVE  e[p] < e[q]
      BY <2>1, <2>2
    <2>3. QED
      BY <2>1, <2>2 DEF Embeds
  <1>9. /\ WayInOrder'
        /\ \A q : (\A p \in Way : Comes(q, At(p))) => \A p \in Way' : Comes(q, At(p)')
    BY <1>1, <1>8, WayThinned
  <1>10. PICK d \in Addresses(r) : answers' = Told(d, r)
    BY <1>4 DEF Deliver
  <1>11. CASE d = NONE \/ owner[d] = 0
    <2>1. UNCHANGED answers
      BY <1>10, <1>11 DEF Told
    <2>2. QED
      BY <2>1, <1>1, <1>9, Untold
  <1>12. CASE ~(d = NONE \/ owner[d] = 0)
    <2>1. d \in Fds /\ (r.got = "whole" => d = r.to.sock)
      <3>1. r.to.sock \in Fds \cup {NONE}
        BY <1>5, Requests
      <3>2. QED
        BY <3>1, <1>5, <1>10, <1>12 DEF Addresses
    <2>2. PICK c : c = owner[d]
      OBVIOUS
    <2>3. /\ c \in Conns /\ c \in Nat /\ c # 0
          /\ answers \in [Conns -> Seq(Reply)]
          /\ answers' = [answers EXCEPT ![c] = Append(@, r)]
      BY <2>1, <2>2, <1>1, <1>10, <1>12, BoundsAssumption DEF TypeOK, Told, Conns
    <2>4. PICK l \in Nat : l = Len(answers[c])
      BY <2>3
    <2>5. /\ Len(answers'[c]) = l + 1 /\ answers'[c][l + 1] = r
          /\ \A i \in 1..l : answers'[c][i] = answers[c][i]
      BY <2>3, <2>4, AppendProperties
    <2>6. \A a \in Conns : a # c => answers'[a] = answers[a]
      BY <2>3
    <2>7. ASSUME NEW a \in Conns, NEW i \in 1..Len(answers'[a])
          PROVE  \/ i \in 1..Len(answers[a]) /\ answers'[a][i] = answers[a][i]
                 \/ a = c /\ i = l + 1 /\ answers'[a][i] = r
      <3>1. CASE a = c
        <4>1. i \in 1..l \/ i = l + 1
          BY <3>1, <2>5, <2>4
        <4>2. QED
          BY <3>1, <4>1, <2>4, <2>5
      <3>2. CASE a # c
        BY <3>2, <2>6
      <3>3. QED
        BY <3>1, <3>2
    <2>8. ASSUME r.got = "whole"
          PROVE  /\ Fitting(c, r.to)
                 /\ \A p \in Way' : Comes(r.to, At(p)')
      <3>0. Issued(r.to) /\ At(1) = r.to
        <4>1. PICK w : w = r.to
          OBVIOUS
        <4>2. Whole(r) = w /\ At(1) = w
          BY <4>1, <2>8, <1>5
        <4>3. Issued(w)
          BY <4>2, <1>5
        <4>4. QED
          BY <4>1, <4>2, <4>3
      <3>1. d = r.to.sock /\ owner[r.to.sock] = c
        BY <2>1, <2>2, <2>8
      <3>2. r.to.conn <= c
        BY <3>0, <3>1, <2>1, <2>3 DEF Issued
      <3>3. c < nextConn /\ \A s \in Fds : owner[s] = c => r.to.sock = s
        BY <3>1, <2>1, <2>3, <1>1 DEF OwnersApart
      <3>4. Fitting(c, r.to)
        BY <3>0, <3>1, <3>2, <3>3, <2>1, <2>3 DEF Fitting
      <3>5. ASSUME NEW p \in Way'
            PROVE  Comes(r.to, At(p)')
        <4>1. p \in Nat /\ p # 0 /\ p + 1 \in Way /\ At(p)' = At(p + 1)
          BY <1>6
        <4>2. 1 < p + 1
          BY <4>1
        <4>3. Comes(At(1), At(p + 1))
          BY <4>1, <4>2, <1>1, <1>5 DEF WayInOrder
        <4>4. QED
          BY <4>1, <4>3, <3>0
      <3>6. QED
        BY <3>4, <3>5
    <2>9. ToldFits'
      <3>1. ASSUME NEW a \in Conns, NEW i \in 1..Len(answers'[a]), answers'[a][i].got = "whole"
            PROVE  /\ Fitting(a, answers[a][i].to)'
                   /\ \A p \in Way' : Comes(answers'[a][i].to, At(p)')
        <4>1. PICK q \in Request \cup {Welcome} :
                /\ q = answers'[a][i].to /\ Fitting(a, q)
                /\ \A p \in Way' : Comes(q, At(p)')
          <5>1. CASE i \in 1..Len(answers[a]) /\ answers'[a][i] = answers[a][i]
            BY <5>1, <3>1, <1>1, <1>9, WayTypes DEF ToldFits
          <5>2. CASE a = c /\ answers'[a][i] = r
            BY <5>2, <3>1, <2>8, <1>5
          <5>3. QED
            BY <5>1, <5>2, <2>7
        <4>2. Fitting(a, q)'
          BY <4>1, <1>1, FittingStays
        <4>3. QED
          BY <4>1, <4>2 DEF Fitting, Issued
      <3>2. QED
        BY <3>1 DEF ToldFits
    <2>10. AnswersInOrder'
      <3> SUFFICES ASSUME NEW a \in Conns, NEW g \in Conns,
                          NEW i \in 1..Len(answers'[a]), NEW j \in 1..Len(answers'[g]),
                          answers'[a][i].got = "whole", answers'[g][j].got = "whole"
                   PROVE  LET q == answers'[a][i].to
                              t == answers'[g][j].to
                          IN  /\ q.conn <= a
                              /\ a = g => q.sock = t.sock
                              /\ q.sock = t.sock /\ (a < g \/ (a = g /\ i < j)) => Before(q, t)
        BY DEF AnswersInOrder
      <3>1. CASE /\ i \in 1..Len(answers[a]) /\ answers'[a][i] = answers[a][i]
                 /\ j \in 1..Len(answers[g]) /\ answers'[g][j] = answers[g][j]
        BY <3>1, <1>1 DEF AnswersInOrder
      <3>2. CASE /\ i \in 1..Len(answers[a]) /\ answers'[a][i] = answers[a][i]
                 /\ g = c /\ j = l + 1 /\ answers'[g][j] = r
        <4>1. Fitting(a, answers[a][i].to) /\ Comes(answers[a][i].to, At(1))
          BY <3>2, <1>1, <1>5 DEF ToldFits
        <4>2. d = r.to.sock /\ d \in Fds
          BY <3>2, <2>1
        <4>3. QED
          BY <3>2, <4>1, <4>2, <2>1, <2>2, <1>5 DEF Fitting, Comes
      <3>3. CASE /\ a = c /\ i = l + 1 /\ answers'[a][i] = r
                 /\ j \in 1..Len(answers[g]) /\ answers'[g][j] = answers[g][j]
        <4>1. Fitting(g, answers[g][j].to)
          BY <3>3, <1>1 DEF ToldFits
        <4>2. d = r.to.sock /\ d \in Fds /\ Fitting(c, r.to)
          BY <3>3, <2>1, <2>8
        <4>3. r.to.conn <= a
          BY <3>3, <4>2 DEF Fitting
        <4>4. a = g => r.to.sock = answers[g][j].to.sock
          BY <3>3, <4>1, <4>2, <2>2 DEF Fitting
        <4>5. ~(r.to.sock = answers[g][j].to.sock /\ (a < g \/ (a = g /\ i < j)))
          <5>1. r.to.sock = answers[g][j].to.sock => g <= c
            BY <4>1, <4>2, <2>2, <2>3 DEF Fitting
          <5>2. a = g => j \in 1..l
            BY <3>3, <2>4
          <5>3. g \in Nat
            BY BoundsAssumption DEF Conns
          <5>4. QED
            BY <3>3, <5>1, <5>2, <5>3, <2>3
        <4>6. QED
          BY <3>3, <4>3, <4>4, <4>5
      <3>4. CASE /\ a = c /\ i = l + 1 /\ answers'[a][i] = r
                 /\ g = c /\ j = l + 1 /\ answers'[g][j] = r
        <4>1. r.to.conn <= a
          BY <3>4, <2>8 DEF Fitting
        <4>2. ~(a < g) /\ ~(i < j)
          BY <3>4, <2>3
        <4>3. QED
          BY <3>4, <4>1, <4>2
      <3>5. QED
        BY <2>7, <3>1, <3>2, <3>3, <3>4
    <2>11. QED
      BY <1>1, <1>9, <2>9, <2>10 DEF BridgeInv
  <1>13. QED
    BY <1>11, <1>12

(* The invariant holds at the start...                                     *)
LEMMA BridgeInit == Init => BridgeInv
  <1> SUFFICES ASSUME Init
               PROVE  BridgeInv
    OBVIOUS
  <1>1. TypeOK
    BY TypeInit
  <1>2. Way = {}
    <2>1. fromBot = <<>> /\ Stream = <<>>
      BY DEF Init, Stream
    <2>2. Tails(Stream) = {}
      BY <2>1 DEF Tails
    <2>3. QED
      BY <2>1, <2>2 DEF Way
  <1>3. \A c \in Conns : Len(answers[c]) = 0
    BY DEF Init
  <1>4. OwnersApart
    BY DEF Init, OwnersApart
  <1>5. WayInOrder /\ ToldFits /\ AnswersInOrder
    BY <1>2, <1>3 DEF WayInOrder, ToldFits, AnswersInOrder
  <1>6. QED
    BY <1>1, <1>4, <1>5 DEF BridgeInv

(* ...and after every step.                                                *)
LEMMA BridgeStep == BridgeInv /\ [Next]_vars => BridgeInv'
  <1> SUFFICES ASSUME BridgeInv, [Next]_vars
               PROVE  BridgeInv'
    OBVIOUS
  <1>1. ASSUME NEW s \in Fds, SignOn(s) \/ Leave(s)
        PROVE  BridgeInv'
    BY <1>1, QuietStep DEF Next, SignOn, Leave
  <1>2. ASSUME NEW s \in Fds, Ask(s)
        PROVE  BridgeInv'
    <2>1. CASE bot # "gone"
      BY <1>2, <2>1, AskStep
    <2>2. CASE bot = "gone"
      <3>1. UNCHANGED <<streams, answers>>
        BY <1>2, <2>2 DEF Ask, streams
      <3>2. QED
        BY <1>2, <3>1, QuietStep DEF Next
    <2>3. QED
      BY <2>1, <2>2
  <1>3. CASE StartBot \/ EndBot \/ LoseBot \/ Deliver
    BY <1>3, StartBotStep, EndBotStep, LoseBotStep, DeliverStep
  <1>4. ASSUME NEW k \in 1..Len(toBot), BotRead(k)
        PROVE  BridgeInv'
    BY <1>4, ReadStep
  <1>5. CASE UNCHANGED vars
    <2>1. UNCHANGED <<owner, nextConn, asked, answers, fromBot, buffer, toBot>>
      BY <1>5 DEF vars, streams
    <2>2. Way' = Way /\ (\A p : At(p)' = At(p)) /\ (\A q : Issued(q)' <=> Issued(q))
      BY <2>1 DEF Way, At, Stream, Issued
    <2>3. WayInOrder'
      <3>1. ASSUME NEW p \in Way
            PROVE  Issued(At(p))'
        BY <2>1, <2>2 DEF BridgeInv, WayInOrder, Issued
      <3>2. QED
        BY <2>2, <3>1 DEF BridgeInv, WayInOrder
    <2>4. ToldFits'
      <3>1. \A c, q : Fitting(c, q)' <=> Fitting(c, q)
        BY <2>1, <2>2 DEF Fitting
      <3>2. ASSUME NEW c \in Conns, NEW i \in 1..Len(answers[c]), answers[c][i].got = "whole"
            PROVE  Fitting(c, answers[c][i].to)'
        BY <2>1, <3>2 DEF BridgeInv, ToldFits, Fitting, Issued
      <3>3. QED
        BY <2>1, <2>2, <3>2 DEF BridgeInv, ToldFits
    <2>5. OwnersApart' /\ AnswersInOrder'
      BY <2>1 DEF BridgeInv, OwnersApart, AnswersInOrder
    <2>6. QED
      BY <1>5, <2>3, <2>4, <2>5, TypeStep DEF BridgeInv
  <1>6. QED
    BY <1>1, <1>2, <1>3, <1>4, <1>5 DEF Next, Read

(* Answers come at most once and in the order of the requests on their     *)
(* descriptor, wherever a read of the bot ends, whatever it buffers and    *)
(* drops, whoever owns the descriptor when an answer arrives and however   *)
(* often the bot is restarted: no connection is told what a later one      *)
(* asked, and one that was told an answer of its own is told none of a     *)
(* former owner's any more.                                                *)
THEOREM BridgeInOrder == Spec => []AnswersInOrder
  <1>1. BridgeInv => AnswersInOrder
    BY DEF BridgeInv
  <1>2. QED
    BY <1>1, BridgeInit, BridgeStep, PTL DEF Spec

=============================================================================
