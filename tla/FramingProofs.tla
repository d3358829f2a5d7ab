--------------------------- MODULE FramingProofs ---------------------------
(***************************************************************************)
(* Theorems about LineFraming: the types for every peer, and for a peer    *)
(* that types, that its lines are executed exactly.                        *)
(***************************************************************************)
EXTENDS LineFraming, EnumerationProofs

-----------------------------------------------------------------------------
(***************************************************************************)
(* Parts of a text.                                                        *)
(***************************************************************************)

(* SubSeq by its elements.                                                 *)
LEMMA Part ==
  ASSUME NEW S, NEW s \in Seq(S), NEW a \in Nat, NEW b \in Nat,
         1 <= a, a <= b + 1, b <= Len(s)
  PROVE  /\ SubSeq(s, a, b) \in Seq(S)
         /\ Len(SubSeq(s, a, b)) = b - a + 1
         /\ \A i \in 1..(b - a + 1) : SubSeq(s, a, b)[i] = s[a + i - 1]
  OBVIOUS

(* A sequence of one.                                                      *)
LEMMA Single ==
  ASSUME NEW S, NEW x \in S
  PROVE  <<x>> \in Seq(S) /\ Len(<<x>>) = 1 /\ <<x>>[1] = x
  OBVIOUS

(* A part of a part.                                                       *)
LEMMA PartOfPart ==
  ASSUME NEW S, NEW s \in Seq(S), NEW n \in Nat, NEW k \in Nat,
         n + k <= Len(s), NEW a \in Nat, NEW b \in Nat, 1 <= a, a <= b + 1, b <= k
  PROVE  SubSeq(SubSeq(s, n + 1, n + k), a, b) = SubSeq(s, n + a, n + b)
  <1>1. PICK t : t = SubSeq(s, n + 1, n + k)
    OBVIOUS
  <1>2. t \in Seq(S) /\ Len(t) = k /\ \A i \in 1..k : t[i] = s[n + i]
    <2>1. n + 1 \in Nat /\ n + k \in Nat /\ n + k - (n + 1) + 1 = k /\ n + 1 <= n + k + 1
      OBVIOUS
    <2>2. /\ t \in Seq(S) /\ Len(t) = k
          /\ \A i \in 1..k : t[i] = s[n + 1 + i - 1]
      BY <1>1, <2>1, Part
    <2>3. \A i \in 1..k : n + 1 + i - 1 = n + i
      OBVIOUS
    <2>4. QED
      BY <2>2, <2>3
  <1>3. PICK u : u = SubSeq(t, a, b)
    OBVIOUS
  <1>4. PICK v : v = SubSeq(s, n + a, n + b)
    OBVIOUS
  <1>5. /\ u \in Seq(S) /\ Len(u) = b - a + 1
        /\ \A i \in 1..(b - a + 1) : u[i] = t[a + i - 1]
    BY <1>2, <1>3, Part
  <1>6. /\ v \in Seq(S) /\ Len(v) = b - a + 1
        /\ \A i \in 1..(b - a + 1) : v[i] = s[n + (a + i - 1)]
    <2>1. /\ n + a \in Nat /\ n + b \in Nat /\ n + b - (n + a) + 1 = b - a + 1
          /\ n + a <= n + b + 1 /\ 1 <= n + a /\ n + b <= Len(s)
      OBVIOUS
    <2>2. /\ v \in Seq(S) /\ Len(v) = b - a + 1
          /\ \A i \in 1..(b - a + 1) : v[i] = s[n + a + i - 1]
      BY <1>4, <2>1, Part
    <2>3. \A i \in 1..(b - a + 1) : n + a + i - 1 = n + (a + i - 1)
      OBVIOUS
    <2>4. QED
      BY <2>2, <2>3
  <1>7. \A i \in 1..(b - a + 1) : a + i - 1 \in 1..k
    OBVIOUS
  <1>8. \A i \in 1..(b - a + 1) : u[i] = v[i]
    BY <1>2, <1>5, <1>6, <1>7
  <1>9. u = v
    BY <1>5, <1>6, <1>8, SeqEqual
  <1>10. QED
    BY <1>1, <1>3, <1>4, <1>9

(* Two parts that follow each other.                                       *)
LEMMA PartsJoin ==
  ASSUME NEW S, NEW s \in Seq(S), NEW a \in Nat, NEW b \in Nat, NEW c \in Nat,
         1 <= a, a <= b + 1, b <= c, c <= Len(s)
  PROVE  SubSeq(s, a, b) \o SubSeq(s, b + 1, c) = SubSeq(s, a, c)
  <1>1. PICK t : t = SubSeq(s, a, b)
    OBVIOUS
  <1>2. PICK u : u = SubSeq(s, b + 1, c)
    OBVIOUS
  <1>3. PICK v : v = SubSeq(s, a, c)
    OBVIOUS
  <1>4. /\ t \in Seq(S) /\ Len(t) = b - a + 1
        /\ \A i \in 1..(b - a + 1) : t[i] = s[a + i - 1]
    BY <1>1, Part
  <1>5. u \in Seq(S) /\ Len(u) = c - b /\ \A i \in 1..(c - b) : u[i] = s[b + i]
    <2>1. b + 1 \in Nat /\ c - (b + 1) + 1 = c - b /\ b + 1 <= c + 1
      OBVIOUS
    <2>2. /\ u \in Seq(S) /\ Len(u) = c - b
          /\ \A i \in 1..(c - b) : u[i] = s[b + 1 + i - 1]
      BY <1>2, <2>1, Part
    <2>3. \A i \in 1..(c - b) : b + 1 + i - 1 = b + i
      OBVIOUS
    <2>4. QED
      BY <2>2, <2>3
  <1>6. /\ v \in Seq(S) /\ Len(v) = c - a + 1
        /\ \A i \in 1..(c - a + 1) : v[i] = s[a + i - 1]
    BY <1>3, Part
  <1>7. PICK w : w = t \o u
    OBVIOUS
  <1>8. /\ w \in Seq(S) /\ Len(w) = c - a + 1
        /\ \A i \in 1..(c - a + 1) : i <= b - a + 1 => w[i] = t[i]
        /\ \A i \in 1..(c - a + 1) : ~(i <= b - a + 1) => w[i] = u[i - (b - a + 1)]
    <2>1. PICK m : m = b - a + 1
      OBVIOUS
    <2>2. PICK l : l = c - b
      OBVIOUS
    <2>3. m \in Nat /\ l \in Nat /\ m + l = c - a + 1
      BY <2>1, <2>2
    <2>4. Len(t) = m /\ Len(u) = l
      BY <2>1, <2>2, <1>4, <1>5
    <2>8. t \in Seq(S) /\ u \in Seq(S)
      BY <1>4, <1>5
    <2>9. /\ w \in Seq(S) /\ Len(w) = Len(t) + Len(u)
          /\ \A i \in 1 .. Len(t) + Len(u) : w[i] = IF i <= Len(t) THEN t[i] ELSE u[i - Len(t)]
      BY <1>7, <2>8, ConcatProperties
    <2>5. w \in Seq(S) /\ Len(w) = m + l
      BY <2>9, <2>4
    <2>6. \A i \in 1..(m + l) : (i <= m => w[i] = t[i]) /\ (~(i <= m) => w[i] = u[i - m])
      BY <2>9, <2>4
    <2>7. QED
      BY <2>1, <2>3, <2>5, <2>6
  <1>9. ASSUME NEW i \in 1..(c - a + 1)
        PROVE  w[i] = v[i]
    <2>1. CASE i <= b - a + 1
      <3>1. i \in 1..(b - a + 1)
        BY <2>1
      <3>2. QED
        BY <2>1, <3>1, <1>4, <1>6, <1>8
    <2>2. CASE ~(i <= b - a + 1)
      <3>1. PICK j : j = i - (b - a + 1)
        OBVIOUS
      <3>2. j \in 1..(c - b) /\ b + j = a + i - 1
        BY <2>2, <3>1
      <3>3. QED
        BY <2>2, <3>1, <3>2, <1>5, <1>6, <1>8
    <2>3. QED
      BY <2>1, <2>2
  <1>10. w = v
    BY <1>6, <1>8, <1>9, SeqEqual
  <1>11. QED
    BY <1>1, <1>2, <1>3, <1>7, <1>10

-----------------------------------------------------------------------------
(***************************************************************************)
(* What framing makes of one read.                                         *)
(***************************************************************************)

(* The last of some places, or a place before them all.                    *)
LEMMA LastOf ==
  ASSUME NEW low \in Nat, NEW n \in Nat, NEW S, S \subseteq 1..n,
         NEW m, m = Max({low} \cup S)
  PROVE  /\ m \in Nat /\ (m = low \/ m \in S)
         /\ low <= m /\ \A i \in S : i <= m
  <1> DEFINE T == {low} \cup S
  <1>1. IsFiniteSet(1..n) /\ S \in SUBSET (1..n)
    BY FS_Interval
  <1>2. IsFiniteSet(S)
    BY <1>1, FS_Subset
  <1>3. IsFiniteSet({low} \cup S)
    <2>1. IsFiniteSet({low})
      BY FS_Singleton
    <2>2. QED
      BY <1>2, <2>1, FS_Union
  <1>4. T \subseteq Nat /\ T # {}
    OBVIOUS
  <1> HIDE DEF T
  <1>5. \E x \in T : \A y \in T : x >= y
    BY <1>3, <1>4, FirstAndLast DEF T
  <1>6. m \in T /\ \A y \in T : m >= y
    BY <1>5 DEF Max, T
  <1>7. m \in Nat /\ \A y \in T : y <= m
    BY <1>4, <1>6
  <1>8. QED
    BY <1>4, <1>6, <1>7 DEF T

(* The least element of a set of numbers.                                  *)
LEMMA FirstOf ==
  ASSUME NEW n \in Nat, NEW S, S \subseteq 1..n, S # {}
  PROVE  Min(S) \in S /\ \A i \in S : Min(S) <= i
  <1>1. IsFiniteSet(1..n) /\ S \in SUBSET (1..n)
    BY FS_Interval
  <1>2. IsFiniteSet(S)
    BY <1>1, FS_Subset
  <1>3. S \subseteq Nat
    OBVIOUS
  <1>4. \E x \in S : \A y \in S : x <= y
    BY <1>2, <1>3, FirstAndLast
  <1>5. QED
    BY <1>4 DEF Min

(* LastNotSpace is where the last word of a text ends.                     *)
LEMMA LastNotSpaceIs ==
  ASSUME NEW s \in Text
  PROVE  /\ Len(s) \in Nat /\ LastNotSpace(s) \in 0..Len(s)
         /\ LastNotSpace(s) # 0 => s[LastNotSpace(s)] # Space
         /\ \A i \in 1..Len(s) : i > LastNotSpace(s) => s[i] = Space
  <1> DEFINE S == {i \in 1..Len(s) : s[i] # Space}
  <1>1. Len(s) \in Nat
    BY DEF Text
  <1>2. S \subseteq 1..Len(s) /\ 0 \in Nat
    OBVIOUS
  <1>3. LastNotSpace(s) = Max({0} \cup S)
    BY DEF LastNotSpace
  <1>4. \A i \in 1..Len(s) : i \in S <=> s[i] # Space
    OBVIOUS
  <1> HIDE DEF S
  <1> DEFINE n == LastNotSpace(s)
  <1> HIDE DEF n
  <1>5. /\ n \in Nat /\ (n = 0 \/ n \in S)
        /\ \A i \in S : i <= n
    BY <1>1, <1>2, <1>3, LastOf DEF n
  <1>6. n \in 0..Len(s) /\ (n # 0 => s[n] # Space)
    BY <1>1, <1>2, <1>4, <1>5
  <1>7. \A i \in 1..Len(s) : i > n => i \notin S
    BY <1>1, <1>5
  <1>8. QED
    BY <1>1, <1>4, <1>6, <1>7 DEF n

(* Only one place is the last that is not a space.                         *)
LEMMA LastNotSpaceUnique ==
  ASSUME NEW s \in Text, NEW n \in 0..Len(s), n # 0 => s[n] # Space,
         \A i \in 1..Len(s) : i > n => s[i] = Space
  PROVE  LastNotSpace(s) = n
  <1>1. PICK m : m = LastNotSpace(s)
    OBVIOUS
  <1>2. /\ Len(s) \in Nat /\ m \in 0..Len(s) /\ (m # 0 => s[m] # Space)
        /\ \A i \in 1..Len(s) : i > m => s[i] = Space
    BY <1>1, LastNotSpaceIs
  <1>3. ~(m > n)
    BY <1>2
  <1>4. ~(n > m)
    BY <1>2
  <1>5. QED
    BY <1>1, <1>2, <1>3, <1>4

(* A command is blank if it has no such place.                             *)
LEMMA BlankIs ==
  ASSUME NEW s \in Text
  PROVE  Blank(s) <=> LastNotSpace(s) = 0
  <1>1. /\ Len(s) \in Nat /\ LastNotSpace(s) \in 0..Len(s)
        /\ LastNotSpace(s) # 0 => s[LastNotSpace(s)] # Space
        /\ \A i \in 1..Len(s) : i > LastNotSpace(s) => s[i] = Space
    BY LastNotSpaceIs
  <1>2. QED
    BY <1>1 DEF Blank

(* Trailing spaces are removed once and for all.                           *)
LEMMA PieceIs ==
  ASSUME NEW s \in Text
  PROVE  /\ Piece(s) \in Text
         /\ Len(Piece(s)) <= Len(s)
         /\ \A i \in 1..Len(Piece(s)) : Piece(s)[i] = s[i]
         /\ Piece(Piece(s)) = Piece(s)
         /\ Blank(Piece(s)) <=> Blank(s)
  <1>1. PICK n : n = LastNotSpace(s)
    OBVIOUS
  <1>2. PICK t : t = Piece(s)
    OBVIOUS
  <1>3. /\ Len(s) \in Nat /\ n \in 0..Len(s) /\ (n # 0 => s[n] # Space)
    BY <1>1, LastNotSpaceIs
  <1>4. t = SubSeq(s, 1, n)
    BY <1>1, <1>2 DEF Piece
  <1>5. s \in Seq(Characters) /\ n \in Nat /\ 1 \in Nat /\ 1 <= n + 1 /\ n <= Len(s) /\ n - 1 + 1 = n
    BY <1>3 DEF Text
  <1>6. t \in Seq(Characters) /\ Len(t) = n /\ \A i \in 1..n : t[i] = s[1 + i - 1]
    BY <1>4, <1>5, Part
  <1>7. \A i \in 1..n : t[i] = s[i]
    BY <1>6
  <1>8. t \in Text
    BY <1>6 DEF Text
  <1>9. LastNotSpace(t) = n
    <2>1. n \in 0..Len(t) /\ (n # 0 => t[n] # Space) /\ \A i \in 1..Len(t) : ~(i > n)
      BY <1>3, <1>6, <1>7
    <2>2. QED
      BY <1>8, <2>1, LastNotSpaceUnique
  <1>10. Piece(t) = t
    <2>1. Piece(t) = SubSeq(t, 1, Len(t))
      BY <1>6, <1>9 DEF Piece
    <2>2. QED
      BY <1>6, <2>1
  <1>11. Blank(t) <=> Blank(s)
    BY <1>1, <1>8, <1>9, BlankIs
  <1>12. QED
    BY <1>2, <1>3, <1>6, <1>7, <1>8, <1>10, <1>11

(* A text without CR is left as it is.                                     *)
LEMMA CutIs ==
  ASSUME NEW s \in Text
  PROVE  CutAtCR(s) \in Text /\ (~Has(s, CR) => CutAtCR(s) = s)
  <1>1. CASE ~Has(s, CR)
    BY <1>1 DEF CutAtCR
  <1>2. CASE Has(s, CR)
    <2> DEFINE S == {i \in 1..Len(s) : s[i] = CR}
    <2>1. S \subseteq 1..Len(s) /\ S # {} /\ Len(s) \in Nat
      BY <1>2 DEF Has, Text
    <2>2. CutAtCR(s) = SubSeq(s, 1, Min(S) - 1)
      BY <1>2 DEF CutAtCR
    <2> HIDE DEF S
    <2>3. Min(S) \in 1..Len(s)
      BY <2>1, FirstOf
    <2>4. PICK n : n = Min(S) - 1
      OBVIOUS
    <2>5. n \in Nat /\ n <= Len(s) /\ 1 <= n + 1 /\ 1 \in Nat /\ s \in Seq(Characters)
      BY <2>1, <2>3, <2>4 DEF Text
    <2>6. SubSeq(s, 1, n) \in Seq(Characters)
      BY <2>5, Part
    <2>7. QED
      BY <1>2, <2>2, <2>4, <2>6 DEF Text
  <1>3. QED
    BY <1>1, <1>2

(* Where a piece begins: after the last terminator before its end.         *)
LEMMA FirstIs ==
  ASSUME NEW s \in Text, NEW e \in Lasts(s)
  PROVE  /\ Breaks(s) \subseteq 1..Len(s)
         /\ e \in 1..Len(s)
         /\ First(s, e) \in 1..e
         /\ First(s, e) = 1 \/ \E b \in Breaks(s) : b < e /\ First(s, e) = b + 2
         /\ \A b \in Breaks(s) : b < e => b + 2 <= First(s, e)
  <1> DEFINE B == {j \in Breaks(s) : j < e}
  <1> DEFINE S == {i + 2 : i \in B}
  <1>1. /\ Len(s) \in Nat /\ e \in 1..Len(s) /\ e \notin Breaks(s) /\ e - 1 \notin Breaks(s)
        /\ Breaks(s) \subseteq 1..Len(s)
    BY DEF Lasts, Breaks, Text
  <1>2. \A b \in B : b \in Nat /\ b >= 1 /\ b + 2 <= e
    <2>1. TAKE b \in B
    <2>2. b \in Nat /\ b >= 1 /\ b < e /\ b # e - 1
      BY <1>1
    <2>3. QED
      BY <2>2, <1>1
  <1>3. S \subseteq 1..e /\ e \in Nat
    BY <1>1, <1>2
  <1>4. First(s, e) = Max({1} \cup S)
    BY DEF First
  <1>5. /\ \A b \in B : b \in Breaks(s) /\ b < e /\ b + 2 \in S
        /\ \A f \in S : \E b \in B : f = b + 2
        /\ \A b \in Breaks(s) : b < e => b \in B
    OBVIOUS
  <1> HIDE DEF S, B
  <1>6. /\ First(s, e) \in Nat /\ (First(s, e) = 1 \/ First(s, e) \in S)
        /\ 1 <= First(s, e) /\ \A i \in S : i <= First(s, e)
    BY <1>3, <1>4, LastOf
  <1>7. First(s, e) \in 1..e
    BY <1>1, <1>3, <1>6
  <1>8. First(s, e) = 1 \/ \E b \in Breaks(s) : b < e /\ First(s, e) = b + 2
    BY <1>5, <1>6
  <1>9. \A b \in Breaks(s) : b < e => b + 2 <= First(s, e)
    BY <1>5, <1>6
  <1>10. QED
    BY <1>1, <1>7, <1>8, <1>9

(* The pieces by their last characters.                                    *)
LEMMA SplitIs ==
  ASSUME NEW s \in Text
  PROVE  /\ IsFiniteSet(Lasts(s)) /\ Lasts(s) \subseteq Nat
         /\ Split(s) \in Seq(Text) /\ Len(Split(s)) \in Nat
         /\ Len(Split(s)) = Len(InOrder(Lasts(s)))
         /\ \A k \in 1..Len(Split(s)) :
              /\ InOrder(Lasts(s))[k] \in Lasts(s)
              /\ Split(s)[k]
                   = SubSeq(s, First(s, InOrder(Lasts(s))[k]), InOrder(Lasts(s))[k])
  <1>1. PICK q : q = InOrder(Lasts(s))
    OBVIOUS
  <1>2. Len(s) \in Nat /\ Lasts(s) \in SUBSET (1..Len(s))
    BY DEF Lasts, Text
  <1>3. IsFiniteSet(Lasts(s)) /\ Lasts(s) \subseteq Nat
    <2>1. IsFiniteSet(1..Len(s))
      BY <1>2, FS_Interval
    <2>2. IsFiniteSet(Lasts(s))
      BY <1>2, <2>1, FS_Subset
    <2>3. QED
      BY <1>2, <2>2
  <1>4. Len(q) \in Nat /\ \A k \in 1..Len(q) : q[k] \in Lasts(s)
    BY <1>1, <1>3, Listed
  <1> DEFINE P(k) == SubSeq(s, First(s, q[k]), q[k])
  <1>5. ASSUME NEW k \in 1..Len(q)
        PROVE  P(k) \in Text
    <2>1. PICK e : e = q[k]
      OBVIOUS
    <2>2. PICK f : f = First(s, e)
      OBVIOUS
    <2>3. e \in Lasts(s) /\ e \in 1..Len(s) /\ f \in 1..e
      BY <1>4, <2>1, <2>2, FirstIs
    <2>4. e \in Nat /\ f \in Nat /\ 1 <= f /\ f <= e + 1 /\ e <= Len(s) /\ s \in Seq(Characters)
      BY <1>2, <2>3 DEF Text
    <2>5. SubSeq(s, f, e) \in Seq(Characters)
      BY <2>4, Part
    <2>6. QED
      BY <2>1, <2>2, <2>5 DEF Text
  <1>6. Split(s) = [k \in 1..Len(q) |-> P(k)]
    BY <1>1 DEF Split
  <1> HIDE DEF P
  <1>7. Split(s) \in Seq(Text) /\ Len(Split(s)) = Len(q) /\ \A k \in 1..Len(q) : Split(s)[k] = P(k)
    BY <1>4, <1>5, <1>6
  <1>8. QED
    BY <1>1, <1>3, <1>4, <1>7 DEF P

(* A read that does not throw becomes commands.                            *)
LEMMA CommandsAre ==
  ASSUME NEW req \in Text, buffer \in Text, ~Throws(req)
  PROVE  Commands(req) \in Seq(Text)
  <1>1. PICK tmp : tmp = Split(req)
    OBVIOUS
  <1>2. PICK old : old = buffer
    OBVIOUS
  <1>3. tmp \in Seq(Text) /\ Len(tmp) \in Nat /\ \A i \in 1..Len(tmp) : tmp[i] \in Text
    <2>1. tmp \in Seq(Text)
      BY <1>1, SplitIs
    <2>2. QED
      BY <2>1
  <1> DEFINE trimmed == [i \in 1..Len(tmp) |-> Piece(tmp[i])]
  <1> DEFINE rest == [i \in 1..(Len(tmp) - 1) |-> Piece(tmp[i + 1])]
  <1> DEFINE raw == IF old = <<>> THEN trimmed
                    ELSE IF tmp = <<>> THEN <<old>>
                    ELSE <<old \o Continuation(tmp[1])>> \o rest
  <1>4. trimmed \in Seq(Text)
    <2>1. \A i \in 1..Len(tmp) : Piece(tmp[i]) \in Text
      BY <1>3, PieceIs
    <2>2. QED
      BY <1>3, <2>1
  <1>5. ASSUME old # <<>>, tmp # <<>>
        PROVE  rest \in Seq(Text) /\ old \o Continuation(tmp[1]) \in Text
    <2>1. Len(tmp) - 1 \in Nat /\ 1 \in 1..Len(tmp)
      BY <1>3, <1>5
    <2>2. \A i \in 1..(Len(tmp) - 1) : Piece(tmp[i + 1]) \in Text
      <3>1. \A i \in 1..(Len(tmp) - 1) : i + 1 \in 1..Len(tmp)
        BY <1>3
      <3>2. \A i \in 1..(Len(tmp) - 1) : tmp[i + 1] \in Text
        BY <1>3, <3>1
      <3>3. QED
        BY <3>2, PieceIs
    <2>3. PICK n : n = LastNotSpace(tmp[1]) - 1
      OBVIOUS
    <2>4. LastNotSpace(tmp[1]) \in 0..Len(tmp[1]) /\ Len(tmp[1]) \in Nat /\ LastNotSpace(tmp[1]) # 0
      <3>1. tmp[1] \in Text
        BY <1>3, <2>1
      <3>2. LastNotSpace(tmp[1]) # 0
        BY <1>1, <1>2, <1>5 DEF Throws
      <3>3. QED
        BY <3>1, <3>2, LastNotSpaceIs
    <2>5. n \in Nat /\ n <= Len(tmp[1]) /\ 1 <= n + 1 /\ 1 \in Nat
      BY <2>3, <2>4
    <2>6. SubSeq(tmp[1], 1, n) \in Seq(Characters)
      BY <1>3, <2>1, <2>5, Part DEF Text
    <2>7. Continuation(tmp[1]) \in Seq(Characters) /\ old \in Seq(Characters)
      BY <1>2, <2>3, <2>6 DEF Continuation, Text
    <2>8. old \o Continuation(tmp[1]) \in Seq(Characters)
      BY <2>7, ConcatProperties
    <2>9. rest \in Seq(Text)
      BY <2>1, <2>2
    <2>10. QED
      BY <2>8, <2>9 DEF Text
  <1>6. Commands(req) = [i \in 1..Len(raw) |-> CutAtCR(raw[i])]
    BY <1>1, <1>2 DEF Commands
  <1> HIDE DEF trimmed, rest
  <1>7. raw \in Seq(Text)
    <2>1. CASE old = <<>>
      BY <2>1, <1>4
    <2>2. CASE old # <<>> /\ tmp = <<>>
      <3>1. raw = <<old>> /\ old \in Text
        BY <2>2, <1>2
      <3>2. <<old>> \in Seq(Text)
        BY <3>1, Single
      <3>3. QED
        BY <3>1, <3>2
    <2>3. CASE old # <<>> /\ tmp # <<>>
      <3>1. PICK c : c = old \o Continuation(tmp[1])
        OBVIOUS
      <3>2. c \in Text /\ rest \in Seq(Text) /\ raw = <<c>> \o rest
        BY <2>3, <3>1, <1>5
      <3>3. <<c>> \in Seq(Text)
        BY <3>2, Single
      <3>4. QED
        BY <3>2, <3>3, ConcatProperties
    <2>4. QED
      BY <2>1, <2>2, <2>3
  <1> HIDE DEF raw
  <1>8. Len(raw) \in Nat /\ \A i \in 1..Len(raw) : raw[i] \in Text
    BY <1>7
  <1>9. \A i \in 1..Len(raw) : CutAtCR(raw[i]) \in Text
    BY <1>8, CutIs
  <1>10. QED
    BY <1>6, <1>8, <1>9

(* One read of a stream.                                                   *)
LEMMA ReadIs ==
  ASSUME NEW s \in Text, NEW n \in Nat, NEW k \in 1..RecvMax, n + k <= Len(s)
  PROVE  /\ SubSeq(s, n + 1, n + k) \in Text
         /\ Len(SubSeq(s, n + 1, n + k)) = k /\ k \in Nat
         /\ \A i \in 1..k : SubSeq(s, n + 1, n + k)[i] = s[n + i]
  <1>1. PICK a : a = n + 1
    OBVIOUS
  <1>2. PICK b : b = n + k
    OBVIOUS
  <1>3. k \in Nat
    BY BoundsAssumption
  <1>4. /\ a \in Nat /\ b \in Nat /\ 1 <= a /\ a <= b + 1 /\ b <= Len(s)
        /\ b - a + 1 = k
    BY <1>1, <1>2, <1>3
  <1>5. s \in Seq(Characters)
    BY DEF Text
  <1>6. PICK t : t = SubSeq(s, a, b)
    OBVIOUS
  <1>7. /\ t \in Seq(Characters) /\ Len(t) = b - a + 1
        /\ \A i \in 1..(b - a + 1) : t[i] = s[a + i - 1]
    BY <1>4, <1>5, <1>6, Part
  <1>8. \A i \in 1..k : a + i - 1 = n + i
    BY <1>1, <1>3
  <1>9. t \in Seq(Characters) /\ Len(t) = k /\ \A i \in 1..k : t[i] = s[n + i]
    BY <1>4, <1>7, <1>8
  <1>10. QED
    BY <1>1, <1>2, <1>3, <1>6, <1>9 DEF Text

(* Commands up to the first blank one.                                     *)
LEMMA UpToBlank ==
  ASSUME NEW cmds \in Seq(Text), {i \in 1..Len(cmds) : Blank(cmds[i])} # {}
  PROVE  LET q == SubSeq(cmds, 1, Min({i \in 1..Len(cmds) : Blank(cmds[i])}) - 1)
         IN  q \in Seq(Text) /\ \A i \in 1..Len(q) : ~Blank(q[i])
  <1> DEFINE S == {i \in 1..Len(cmds) : Blank(cmds[i])}
  <1>1. S \subseteq 1..Len(cmds) /\ S # {} /\ Len(cmds) \in Nat
    OBVIOUS
  <1>2. \A i \in 1..Len(cmds) : Blank(cmds[i]) => i \in S
    OBVIOUS
  <1>3. PICK n : n = Min(S) - 1
    OBVIOUS
  <1>4. PICK q : q = SubSeq(cmds, 1, n)
    OBVIOUS
  <1> HIDE DEF S
  <1>5. Min(S) \in S /\ \A i \in S : Min(S) <= i
    BY <1>1, FirstOf
  <1>6. /\ n \in Nat /\ n <= Len(cmds) /\ 1 <= n + 1 /\ 1 \in Nat /\ n - 1 + 1 = n
        /\ \A i \in 1..n : i \in 1..Len(cmds) /\ i \notin S
    <2>1. PICK m : m = Min(S)
      OBVIOUS
    <2>2. m \in 1..Len(cmds) /\ n = m - 1 /\ \A i \in S : m <= i
      BY <1>1, <1>3, <1>5, <2>1
    <2>3. \A i \in 1..n : i \in 1..Len(cmds) /\ ~(m <= i)
      BY <1>1, <2>2
    <2>4. QED
      BY <1>1, <2>2, <2>3
  <1>7. q \in Seq(Text) /\ Len(q) = n /\ \A i \in 1..n : q[i] = cmds[1 + i - 1]
    BY <1>4, <1>6, Part
  <1>8. \A i \in 1..n : q[i] = cmds[i]
    <2>1. \A i \in 1..n : 1 + i - 1 = i
      BY <1>6
    <2>2. QED
      BY <1>7, <2>1
  <1>9. \A i \in 1..Len(q) : ~Blank(q[i])
    BY <1>2, <1>6, <1>7, <1>8
  <1>10. QED
    BY <1>3, <1>4, <1>7, <1>9 DEF S

-----------------------------------------------------------------------------
(***************************************************************************)
(* Types, for every peer.                                                  *)
(***************************************************************************)

(* The types hold at the start...                                          *)
LEMMA TypeInit == Init => TypeOK
  <1> SUFFICES ASSUME Init PROVE TypeOK
    OBVIOUS
  <1>1. stream \in Text
    BY StreamsAssumption DEF Init
  <1>2. Len(stream) \in Nat
    BY <1>1 DEF Text
  <1>3. <<>> \in Seq(Characters) /\ <<>> \in Seq(Text) /\ Len(<<>>) = 0
    OBVIOUS
  <1>4. \A ch : ~Has(<<>>, ch)
    BY DEF Has
  <1>5. /\ stream \in Streams /\ pos \in 0..Len(stream) /\ buffer = <<>> /\ Len(buffer) <= pos
        /\ executed = <<>> /\ crashed \in BOOLEAN
    <2>1. stream \in Streams /\ pos = 0 /\ buffer = <<>> /\ executed = <<>>
      BY DEF Init
    <2>2. crashed \in BOOLEAN
      BY DEF Init
    <2>3. Len(buffer) = 0
      BY <2>1, <1>3
    <2>4. Len(buffer) <= pos /\ pos \in 0..Len(stream)
      BY <2>1, <2>3, <1>2
    <2>5. QED
      BY <2>1, <2>2, <2>4
  <1>6. \A i \in 1..Len(executed) : ~Blank(executed[i])
    BY <1>3, <1>5
  <1>7. buffer \in Text /\ ~Has(buffer, CR) /\ ~Has(buffer, LF)
    BY <1>3, <1>4, <1>5 DEF Text
  <1>8. QED
    BY <1>3, <1>5, <1>6, <1>7 DEF TypeOK

(* What comes without CR and LF leaves none in the buffer.                 *)
LEMMA NoneJoined ==
  ASSUME NEW s \in Text, NEW t \in Text, NEW ch, ~Has(s, ch), ~Has(t, ch)
  PROVE  ~Has(s \o t, ch)
  <1>1. PICK w : w = s \o t
    OBVIOUS
  <1>2. /\ Len(s) \in Nat /\ Len(t) \in Nat
        /\ w \in Seq(Characters) /\ Len(w) = Len(s) + Len(t)
        /\ \A i \in 1 .. Len(s) + Len(t) : w[i] = IF i <= Len(s) THEN s[i] ELSE t[i - Len(s)]
    BY <1>1, ConcatProperties DEF Text
  <1>3. ASSUME NEW i \in 1..Len(w)
        PROVE  w[i] # ch
    <2>1. CASE i <= Len(s)
      BY <2>1, <1>2 DEF Has
    <2>2. CASE ~(i <= Len(s))
      <3>1. i - Len(s) \in 1..Len(t)
        BY <2>2, <1>2
      <3>2. w[i] = t[i - Len(s)]
        BY <2>2, <1>2
      <3>3. QED
        BY <3>1, <3>2 DEF Has
    <2>3. QED
      BY <2>1, <2>2
  <1>4. QED
    BY <1>1, <1>3 DEF Has

(* A terminator at the end of a read.                                      *)
LEMMA EndsAre ==
  ASSUME NEW req \in Text, EndsInTerminator(req)
  PROVE  /\ Len(req) - 1 \in 1..Len(req) /\ Len(req) \in 1..Len(req)
         /\ req[Len(req) - 1] = CR /\ req[Len(req)] = LF
  <1>1. PICK t : t = SubSeq(req, Len(req) - 1, Len(req))
    OBVIOUS
  <1>2. t = <<CR, LF>> /\ Len(req) \in Nat /\ Len(req) >= 2 /\ req \in Seq(Characters)
    BY <1>1 DEF EndsInTerminator, Terminator, Text
  <1>3. t[1] = CR /\ t[2] = LF
    BY <1>2
  <1>4. /\ Len(req) - 1 \in Nat /\ 1 <= Len(req) - 1 /\ Len(req) - 1 <= Len(req) + 1
        /\ Len(req) - (Len(req) - 1) + 1 = 2
    BY <1>2
  <1>5. \A i \in 1..2 : t[i] = req[Len(req) - 1 + i - 1]
    BY <1>1, <1>2, <1>4, Part
  <1>6. Len(req) - 1 + 1 - 1 = Len(req) - 1 /\ Len(req) - 1 + 2 - 1 = Len(req)
    BY <1>2
  <1>7. req[Len(req) - 1] = CR /\ req[Len(req)] = LF
    BY <1>3, <1>5, <1>6
  <1>8. Len(req) - 1 \in 1..Len(req) /\ Len(req) \in 1..Len(req)
    BY <1>2
  <1>9. QED
    BY <1>7, <1>8

(* An interactive peer's read without a complete terminator is text.       *)
LEMMA RegularIs ==
  ASSUME NEW req \in Text, Regular(req)
  PROVE  \/ ~Has(req, CR) /\ ~Has(req, LF)
         \/ Complete(req)
  <1>1. CASE ~Has(req, CR) /\ ~Has(req, LF)
    BY <1>1
  <1>2. CASE req = Terminator
    <2>1. Len(req) = 2 /\ req[1] = CR /\ req[2] = LF
      BY <1>2 DEF Terminator
    <2>2. QED
      BY <2>1 DEF Complete, Has
  <1>3. CASE EndsInTerminator(req)
    <2>1. /\ Len(req) - 1 \in 1..Len(req) /\ Len(req) \in 1..Len(req)
          /\ req[Len(req) - 1] = CR /\ req[Len(req)] = LF
      BY <1>3, EndsAre
    <2>2. QED
      BY <2>1 DEF Complete, Has
  <1>4. QED
    BY <1>1, <1>2, <1>3 DEF Regular

(* The commands executed are not blank.                                    *)
LEMMA NoneBlank ==
  ASSUME NEW p \in Seq(Text), NEW q \in Seq(Text),
         \A i \in 1..Len(p) : ~Blank(p[i]), \A i \in 1..Len(q) : ~Blank(q[i])
  PROVE  p \o q \in Seq(Text) /\ \A i \in 1..Len(p \o q) : ~Blank((p \o q)[i])
  <1>1. PICK w : w = p \o q
    OBVIOUS
  <1>2. /\ Len(p) \in Nat /\ Len(q) \in Nat
        /\ w \in Seq(Text) /\ Len(w) = Len(p) + Len(q)
        /\ \A i \in 1 .. Len(p) + Len(q) : w[i] = IF i <= Len(p) THEN p[i] ELSE q[i - Len(p)]
    BY <1>1, ConcatProperties
  <1>3. ASSUME NEW i \in 1..Len(w)
        PROVE  ~Blank(w[i])
    <2>1. CASE i <= Len(p)
      BY <2>1, <1>2
    <2>2. CASE ~(i <= Len(p))
      <3>1. i - Len(p) \in 1..Len(q)
        BY <2>2, <1>2
      <3>2. w[i] = q[i - Len(p)]
        BY <2>2, <1>2
      <3>3. QED
        BY <3>1, <3>2
    <2>3. QED
      BY <2>1, <2>2
  <1>4. QED
    BY <1>1, <1>2, <1>3

(* ...and after every read.                                                *)
LEMMA TypeStep == TypeOK /\ [Next]_vars => TypeOK'
  <1> SUFFICES ASSUME TypeOK, [Next]_vars PROVE TypeOK'
    OBVIOUS
  <1>1. CASE UNCHANGED vars
    BY <1>1 DEF vars, TypeOK, Has
  <1>2. ASSUME NEW k \in 1..RecvMax, Receive(k)
        PROVE  TypeOK'
    <2>1. PICK s : s = stream
      OBVIOUS
    <2>2. PICK n : n = pos
      OBVIOUS
    <2>3. PICK old : old = buffer
      OBVIOUS
    <2>4. PICK req : req = SubSeq(s, n + 1, n + k)
      OBVIOUS
    <2>5. PICK cmds : cmds = Commands(req)
      OBVIOUS
    <2>6. PICK done : done = executed
      OBVIOUS
    <2>7. /\ n + k <= Len(s)
          /\ Interactive => Regular(req)
          /\ stream' = s /\ pos' = n + k
          /\ buffer' = BufferAfter(req)
          /\ crashed' \in BOOLEAN
          /\ \/ executed' = done
             \/ /\ ~Throws(req)
                /\ {i \in 1..Len(cmds) : Blank(cmds[i])} = {}
                /\ executed' = done \o cmds
             \/ /\ ~Throws(req)
                /\ {i \in 1..Len(cmds) : Blank(cmds[i])} # {}
                /\ executed' = done \o SubSeq(cmds, 1, Min({i \in 1..Len(cmds) : Blank(cmds[i])}) - 1)
      BY <1>2, <2>1, <2>2, <2>4, <2>5, <2>6 DEF Receive
    <2>8. /\ s \in Streams /\ s \in Text /\ Len(s) \in Nat /\ n \in Nat
          /\ old \in Text /\ Len(old) \in Nat /\ Len(old) <= n
          /\ Interactive => ~Has(old, CR) /\ ~Has(old, LF)
          /\ done \in Seq(Text) /\ \A i \in 1..Len(done) : ~Blank(done[i])
      BY <2>1, <2>2, <2>3, <2>6, StreamsAssumption DEF TypeOK, Text
    <2>9. req \in Text /\ Len(req) = k /\ k \in Nat
      BY <2>4, <2>7, <2>8, ReadIs
    <2>10. n + k \in 0..Len(s)
      BY <2>7, <2>8, <2>9
    <2>11. /\ buffer' \in Text /\ Len(buffer') <= n + k
           /\ Interactive => ~Has(buffer', CR) /\ ~Has(buffer', LF)
      <3>1. CASE Complete(req)
        <4>1. buffer' = <<>>
          BY <2>7, <3>1 DEF BufferAfter
        <4>2. <<>> \in Text /\ Len(<<>>) <= n + k
          BY <2>8, <2>9 DEF Text
        <4>3. \A ch : ~Has(<<>>, ch)
          BY DEF Has
        <4>4. QED
          BY <4>1, <4>2, <4>3
      <3>2. CASE ~Complete(req)
        <4>1. buffer' = old \o req
          BY <2>3, <2>7, <3>2 DEF BufferAfter
        <4>2. old \o req \in Seq(Characters) /\ Len(old \o req) = Len(old) + Len(req)
          BY <2>8, <2>9, ConcatProperties DEF Text
        <4>3. Len(old \o req) <= n + k
          BY <4>2, <2>8, <2>9
        <4>4. Interactive => ~Has(old \o req, CR) /\ ~Has(old \o req, LF)
          <5>1. SUFFICES ASSUME Interactive
                         PROVE  ~Has(old \o req, CR) /\ ~Has(old \o req, LF)
            OBVIOUS
          <5>2. ~Has(req, CR) /\ ~Has(req, LF)
            BY <5>1, <2>7, <2>9, <3>2, RegularIs
          <5>3. QED
            BY <5>1, <5>2, <2>8, <2>9, NoneJoined
        <4>5. QED
          BY <4>1, <4>2, <4>3, <4>4 DEF Text
      <3>3. QED
        BY <3>1, <3>2
    <2>12. executed' \in Seq(Text) /\ \A i \in 1..Len(executed') : ~Blank(executed'[i])
      <3>1. CASE executed' = done
        BY <3>1, <2>8
      <3>2. CASE ~Throws(req) /\ {i \in 1..Len(cmds) : Blank(cmds[i])} = {} /\ executed' = done \o cmds
        <4>1. cmds \in Seq(Text)
          BY <3>2, <2>3, <2>5, <2>8, <2>9, CommandsAre
        <4>2. \A i \in 1..Len(cmds) : ~Blank(cmds[i])
          BY <3>2
        <4>3. QED
          BY <3>2, <4>1, <4>2, <2>8, NoneBlank
      <3>3. CASE /\ ~Throws(req) /\ {i \in 1..Len(cmds) : Blank(cmds[i])} # {}
                 /\ executed' = done \o SubSeq(cmds, 1, Min({i \in 1..Len(cmds) : Blank(cmds[i])}) - 1)
        <4>1. cmds \in Seq(Text)
          BY <3>3, <2>3, <2>5, <2>8, <2>9, CommandsAre
        <4>2. PICK q : q = SubSeq(cmds, 1, Min({i \in 1..Len(cmds) : Blank(cmds[i])}) - 1)
          OBVIOUS
        <4>3. q \in Seq(Text) /\ \A i \in 1..Len(q) : ~Blank(q[i])
          BY <3>3, <4>1, <4>2, UpToBlank
        <4>4. executed' = done \o q
          BY <3>3, <4>2
        <4>5. QED
          BY <4>3, <4>4, <2>8, NoneBlank
      <3>4. QED
        BY <3>1, <3>2, <3>3, <2>7
    <2>13. QED
      BY <2>7, <2>8, <2>10, <2>11, <2>12 DEF TypeOK
  <1>3. QED
    BY <1>1, <1>2 DEF Next

(* Whatever a peer sends and however it is cut: what is buffered is text   *)
(* that has been received, without CR or LF if the peer is interactive,    *)
(* and no command that is executed is blank.                               *)
THEOREM FramingTypes == Spec => []TypeOK
  <1>1. Init => TypeOK
    BY TypeInit
  <1>2. TypeOK /\ [Next]_vars => TypeOK'
    BY TypeStep
  <1>3. QED
    BY <1>1, <1>2, PTL DEF Spec

-----------------------------------------------------------------------------
(***************************************************************************)
(* The lines of a stream.                                                  *)
(***************************************************************************)

(* LastEnd is the last line end up to a place.                             *)
LEMMA LastEndIs ==
  ASSUME NEW s, NEW n \in Nat
  PROVE  /\ LineEnds(s, n) \subseteq 1..n /\ IsFiniteSet(LineEnds(s, n))
         /\ LastEnd(s, n) \in 0..n
         /\ LastEnd(s, n) # 0 => s[LastEnd(s, n)] = LF
         /\ \A i \in 1..n : s[i] = LF => i <= LastEnd(s, n)
  <1>1. PICK E : E = LineEnds(s, n)
    OBVIOUS
  <1>2. E \subseteq 1..n /\ \A i \in 1..n : i \in E <=> s[i] = LF
    BY <1>1 DEF LineEnds
  <1>3. IsFiniteSet(E)
    <2>1. IsFiniteSet(1..n) /\ E \in SUBSET (1..n)
      BY <1>2, FS_Interval
    <2>2. QED
      BY <2>1, FS_Subset
  <1>4. PICK m : m = LastEnd(s, n)
    OBVIOUS
  <1>5. 0 \in Nat /\ m = Max({0} \cup E)
    BY <1>1, <1>4 DEF LastEnd
  <1>6. m \in Nat /\ (m = 0 \/ m \in E) /\ \A i \in E : i <= m
    BY <1>2, <1>5, LastOf
  <1>7. m \in 0..n /\ (m # 0 => s[m] = LF)
    BY <1>2, <1>6
  <1>8. QED
    BY <1>1, <1>2, <1>3, <1>4, <1>6, <1>7

(* Only one place is the last end of a line.                               *)
LEMMA LastEndUnique ==
  ASSUME NEW s, NEW n \in Nat, NEW m \in 0..n, m # 0 => s[m] = LF,
         \A i \in 1..n : s[i] = LF => i <= m
  PROVE  LastEnd(s, n) = m
  <1>1. PICK l : l = LastEnd(s, n)
    OBVIOUS
  <1>2. l \in 0..n /\ (l # 0 => s[l] = LF) /\ \A i \in 1..n : s[i] = LF => i <= l
    BY <1>1, LastEndIs
  <1>3. l # 0 => l \in 1..n /\ l <= m
    BY <1>2
  <1>4. m # 0 => m \in 1..n /\ m <= l
    BY <1>2
  <1>5. QED
    BY <1>1, <1>2, <1>3, <1>4

(* Text adds no line end.                                                  *)
LEMMA TextAddsNoEnd ==
  ASSUME NEW s, NEW n \in Nat, NEW k \in Nat, \A i \in 1..k : s[n + i] # LF
  PROVE  LineEnds(s, n + k) = LineEnds(s, n) /\ LastEnd(s, n + k) = LastEnd(s, n)
  <1>1. ASSUME NEW i \in 1..(n + k), s[i] = LF
        PROVE  i \in 1..n
    <2>1. CASE i > n
      <3>1. i - n \in 1..k /\ n + (i - n) = i
        BY <2>1
      <3>2. QED
        BY <3>1, <1>1
    <2>2. QED
      BY <2>1
  <1>2. 1..n \subseteq 1..(n + k)
    OBVIOUS
  <1>3. LineEnds(s, n + k) = LineEnds(s, n)
    BY <1>1, <1>2 DEF LineEnds
  <1>4. QED
    BY <1>3 DEF LastEnd

(* The line that ends at a place is a part of the stream.                  *)
LEMMA LineIs ==
  ASSUME NEW s \in Text, IsLines(s), NEW i \in 1..Len(s), s[i] = LF
  PROVE  /\ i > 2 /\ s[i - 1] = CR /\ s[i - 2] # LF /\ s[i - 2] # CR
         /\ LastEnd(s, i - 1) \in 0..(i - 3)
         /\ LineTo(s, i) \in Text
  <1>1. Len(s) \in Nat
    BY DEF Text
  <1>2. i > 2 /\ s[i - 1] = CR /\ s[i - 2] # LF
    BY DEF IsLines
  <1>3. i - 2 \in 1..Len(s) /\ i - 2 + 1 = i - 1 /\ i - 1 \in Nat
    BY <1>1, <1>2
  <1>4. s[i - 2] # CR
    <2>1. CR # LF
      BY DEF CR, LF
    <2>2. s[i - 2] = CR => s[i - 2 + 1] = LF
      BY <1>3 DEF IsLines
    <2>3. QED
      BY <1>2, <1>3, <2>1, <2>2
  <1>5. PICK m : m = LastEnd(s, i - 1)
    OBVIOUS
  <1>6. m \in 0..(i - 1) /\ (m # 0 => s[m] = LF)
    BY <1>3, <1>5, LastEndIs
  <1>7. m # i - 1 /\ m # i - 2
    <2>1. CR # LF
      BY DEF CR, LF
    <2>2. QED
      BY <1>2, <1>6, <2>1
  <1>8. m \in 0..(i - 3)
    BY <1>2, <1>6, <1>7
  <1>9. LineTo(s, i) \in Text
    <2>1. /\ m + 1 \in Nat /\ i - 2 \in Nat /\ 1 <= m + 1 /\ m + 1 <= i - 2 + 1 /\ i - 2 <= Len(s)
          /\ s \in Seq(Characters)
      BY <1>1, <1>2, <1>8 DEF Text
    <2>2. SubSeq(s, m + 1, i - 2) \in Seq(Characters)
      BY <2>1, Part
    <2>3. QED
      BY <1>5, <2>2 DEF LineTo, Text
  <1>10. QED
    BY <1>2, <1>4, <1>5, <1>8, <1>9

(* What a read of k characters after the first n makes of a stream: its    *)
(* commands are the lines that end at T, which are all that end in it, and *)
(* nothing is left over.                                                   *)
Frames(s, n, k, T, cmds) ==
  /\ IsFiniteSet(T) /\ T \subseteq Nat /\ \A i \in T : n < i
  /\ LineEnds(s, n + k) = LineEnds(s, n) \cup T
  /\ LastEnd(s, n + k) = n + k
  /\ cmds \in Seq(Text) /\ Len(cmds) = Len(InOrder(T))
  /\ \A j \in 1..Len(cmds) : Piece(cmds[j]) = Piece(LineTo(s, InOrder(T)[j]))

(* A terminator on its own has no pieces.                                  *)
LEMMA TerminatorSplit ==
  Terminator \in Text /\ Split(Terminator) = <<>> /\ Complete(Terminator)
  <1>1. Terminator \in Text /\ Len(Terminator) = 2 /\ Terminator[1] = CR /\ Terminator[2] = LF
    <2>1. CR \in Characters /\ LF \in Characters
      BY CharactersAssumption
    <2>2. \A x, y \in Characters :
            /\ <<x, y>> \in Seq(Characters) /\ Len(<<x, y>>) = 2
            /\ <<x, y>>[1] = x /\ <<x, y>>[2] = y
      OBVIOUS
    <2>3. QED
      BY <2>1, <2>2 DEF Terminator, Text
  <1>2. 1 \in Breaks(Terminator)
    BY <1>1 DEF Breaks
  <1>3. Lasts(Terminator) = {}
    <2>1. \A i \in 1..Len(Terminator) : i = 1 \/ i - 1 = 1
      BY <1>1
    <2>2. QED
      BY <1>2, <2>1 DEF Lasts
  <1>4. Len(Split(Terminator)) = 0
    <2>1. PICK q : q = InOrder(Lasts(Terminator))
      OBVIOUS
    <2>2. IsFiniteSet({}) /\ {} \subseteq Nat
      BY FS_EmptySet
    <2>3. q = <<>>
      BY <1>3, <2>1, <2>2, Listed
    <2>4. Len(q) = 0
      BY <2>3
    <2>5. QED
      BY <1>1, <2>1, <2>4, SplitIs
  <1>5. Split(Terminator) = <<>>
    BY <1>1, <1>4, SplitIs, EmptySeq
  <1>6. Complete(Terminator)
    BY <1>1 DEF Complete, Has
  <1>7. QED
    BY <1>1, <1>5, <1>6

(* The terminator of a line whose text is in the buffer.                   *)
LEMMA TerminatorFrames ==
  ASSUME NEW s \in Text, IsLines(s), NEW n \in Nat, n + 2 <= Len(s),
         SubSeq(s, n + 1, n + 2) = Terminator,
         buffer = SubSeq(s, LastEnd(s, n) + 1, n), buffer \in Text, ~Has(buffer, CR)
  PROVE  /\ ~Throws(Terminator) /\ Complete(Terminator)
         /\ Frames(s, n, 2, {n + 2}, Commands(Terminator))
  <1>1. s[n + 1] = CR /\ s[n + 2] = LF
    <2>1. PICK t : t = SubSeq(s, n + 1, n + 2)
      OBVIOUS
    <2>2. /\ s \in Seq(Characters) /\ n + 1 \in Nat /\ n + 2 \in Nat /\ 1 <= n + 1
          /\ n + 1 <= n + 2 + 1 /\ n + 2 - (n + 1) + 1 = 2
      BY DEF Text
    <2>3. \A i \in 1..2 : t[i] = s[n + 1 + i - 1]
      BY <2>1, <2>2, Part
    <2>4. n + 1 + 1 - 1 = n + 1 /\ n + 1 + 2 - 1 = n + 2
      OBVIOUS
    <2>5. t[1] = CR /\ t[2] = LF
      <3>1. t = <<CR, LF>>
        BY <2>1 DEF Terminator
      <3>2. <<CR, LF>>[1] = CR /\ <<CR, LF>>[2] = LF
        OBVIOUS
      <3>3. QED
        BY <3>1, <3>2
    <2>6. QED
      BY <2>3, <2>4, <2>5
  <1>2. Len(s) \in Nat /\ n + 2 \in 1..Len(s) /\ n + 2 - 2 = n /\ n + 2 - 1 = n + 1
    BY DEF Text
  <1>3. n > 0 /\ s[n] # LF /\ LastEnd(s, n + 1) \in 0..(n - 1) /\ LineTo(s, n + 2) \in Text
    <2>1. PICK i : i = n + 2
      OBVIOUS
    <2>2. i \in 1..Len(s) /\ s[i] = LF /\ i - 2 = n /\ i - 1 = n + 1 /\ i - 3 = n - 1
      BY <1>1, <1>2, <2>1
    <2>3. i > 2 /\ s[i - 2] # LF /\ LastEnd(s, i - 1) \in 0..(i - 3) /\ LineTo(s, i) \in Text
      BY <2>2, LineIs
    <2>4. i > 2 => n > 0
      BY <2>1
    <2>5. QED
      BY <2>1, <2>2, <2>3, <2>4
  <1>4. LastEnd(s, n + 1) = LastEnd(s, n) /\ LineEnds(s, n + 1) = LineEnds(s, n)
    <2>1. CR # LF
      BY DEF CR, LF
    <2>2. \A i \in 1..1 : s[n + i] # LF
      BY <1>1, <2>1
    <2>3. 1 \in Nat
      OBVIOUS
    <2>4. QED
      BY <2>2, <2>3, TextAddsNoEnd
  <1>5. LineTo(s, n + 2) = buffer
    <2>1. PICK i : i = n + 2
      OBVIOUS
    <2>2. i - 1 = n + 1 /\ i - 2 = n
      BY <2>1
    <2>3. LineTo(s, i) = SubSeq(s, LastEnd(s, n + 1) + 1, n)
      BY <2>2 DEF LineTo
    <2>4. QED
      BY <1>4, <2>1, <2>3
  <1>6. buffer # <<>>
    <2>1. PICK m : m = LastEnd(s, n)
      OBVIOUS
    <2>2. m \in 0..(n - 1)
      BY <1>3, <1>4, <2>1
    <2>3. m + 1 \in Nat /\ 1 <= m + 1 /\ m + 1 <= n + 1 /\ n <= Len(s) /\ s \in Seq(Characters)
      BY <1>2, <2>2 DEF Text
    <2>4. Len(SubSeq(s, m + 1, n)) = n - (m + 1) + 1
      BY <2>3, Part
    <2>5. Len(buffer) # 0
      BY <2>1, <2>2, <2>4
    <2>6. QED
      BY <2>5
  <1>7. LineEnds(s, n + 2) = LineEnds(s, n) \cup {n + 2}
    <2>1. \A i : i \in 1..(n + 2) <=> i \in 1..(n + 1) \/ i = n + 2
      OBVIOUS
    <2>2. LineEnds(s, n + 2) = LineEnds(s, n + 1) \cup {n + 2}
      BY <1>1, <2>1 DEF LineEnds
    <2>3. QED
      BY <1>4, <2>2
  <1>8. LastEnd(s, n + 2) = n + 2
    <2>1. n + 2 \in Nat /\ n + 2 \in 0..(n + 2) /\ \A i \in 1..(n + 2) : i <= n + 2
      OBVIOUS
    <2>2. QED
      BY <1>1, <2>1, LastEndUnique
  <1>9. PICK c : c = <<buffer>>
    OBVIOUS
  <1>10. c \in Seq(Text) /\ Len(c) = 1 /\ c[1] = buffer
    BY <1>9, Single
  <1>11. Commands(Terminator) = c
    <2>1. Commands(Terminator) = [i \in 1..Len(c) |-> CutAtCR(c[i])]
      BY <1>6, <1>9, TerminatorSplit DEF Commands
    <2>2. PICK d : d = Commands(Terminator)
      OBVIOUS
    <2>3. \A i \in 1..Len(c) : c[i] \in Text /\ CutAtCR(c[i]) = c[i]
      <3>1. TAKE i \in 1..Len(c)
      <3>2. i = 1
        BY <1>10
      <3>3. c[i] \in Text /\ ~Has(c[i], CR)
        BY <1>10, <3>2
      <3>4. QED
        BY <3>3, CutIs
    <2>4. d = [i \in 1..Len(c) |-> c[i]]
      BY <2>1, <2>2, <2>3
    <2>5. QED
      BY <1>10, <2>2, <2>4
  <1>12. ~Throws(Terminator)
    BY TerminatorSplit DEF Throws
  <1>13. Frames(s, n, 2, {n + 2}, c)
    <2>1. PICK m : m = n + 2
      OBVIOUS
    <2>2. PICK T : T = {m}
      OBVIOUS
    <2>3. IsFiniteSet(T)
      BY <2>2, FS_Singleton
    <2>4. m \in Nat /\ n < m
      BY <2>1
    <2>5. T \subseteq Nat /\ \A i \in T : n < i
      BY <2>2, <2>4
    <2>6. Len(InOrder(T)) = 1 /\ InOrder(T)[1] = m
      BY <2>2, <2>4, ListedOne
    <2>7. LineEnds(s, n + 2) = LineEnds(s, n) \cup T /\ LineTo(s, m) = buffer
      BY <1>5, <1>7, <2>1, <2>2
    <2>8. \A j \in 1..Len(c) : Piece(c[j]) = Piece(LineTo(s, InOrder(T)[j]))
      <3>1. \A j \in 1..Len(c) : j = 1
        BY <1>10
      <3>2. Piece(c[1]) = Piece(LineTo(s, InOrder(T)[1]))
        BY <1>10, <2>6, <2>7
      <3>3. QED
        BY <3>1, <3>2
    <2>9. Frames(s, n, 2, T, c)
      BY <1>8, <1>10, <2>3, <2>5, <2>6, <2>7, <2>8 DEF Frames
    <2>10. QED
      BY <2>1, <2>2, <2>9
  <1>14. QED
    BY <1>11, <1>12, <1>13, TerminatorSplit

(* A read of whole lines: it begins where a line begins and ends with a    *)
(* terminator.                                                             *)
IsWhole(s, n, k, req) ==
  /\ s \in Text /\ IsLines(s) /\ n \in Nat /\ k \in 1..RecvMax /\ n + k <= Len(s)
  /\ LastEnd(s, n) = n
  /\ req = SubSeq(s, n + 1, n + k) /\ EndsInTerminator(req)

(* Its terminators are those of the stream.                                *)
LEMMA WholeBreaks ==
  ASSUME NEW s, NEW n, NEW k, NEW req, IsWhole(s, n, k, req)
  PROVE  /\ req \in Text /\ Len(req) = k /\ k \in Nat
         /\ \A i \in 1..k : req[i] = s[n + i]
         /\ req[k] = LF
         /\ \A i \in 1..k : i \in Breaks(req) <=> req[i] = CR
         /\ \A i \in 1..k : req[i] = LF =>
              i > 2 /\ i - 1 \in Breaks(req) /\ i - 2 \notin Breaks(req) /\ req[i - 2] # LF
  <1>1. /\ s \in Text /\ IsLines(s) /\ n \in Nat /\ k \in 1..RecvMax /\ n + k <= Len(s)
        /\ LastEnd(s, n) = n
        /\ req = SubSeq(s, n + 1, n + k) /\ EndsInTerminator(req)
    BY DEF IsWhole
  <1>2. req \in Text /\ Len(req) = k /\ k \in Nat /\ \A i \in 1..k : req[i] = s[n + i]
    BY <1>1, ReadIs
  <1>3. k \in 1..k /\ k - 1 \in 1..k /\ req[k] = LF /\ Len(s) \in Nat /\ CR # LF
    <2>1. k \in 1..k /\ k - 1 \in 1..k /\ req[k] = LF
      BY <1>1, <1>2, EndsAre
    <2>2. Len(s) \in Nat
      BY <1>1 DEF Text
    <2>3. CR # LF
      BY DEF CR, LF
    <2>4. QED
      BY <2>1, <2>2, <2>3
  <1>4. ASSUME NEW i \in 1..k
        PROVE  i \in Breaks(req) <=> req[i] = CR
    <2>1. ASSUME req[i] = CR
          PROVE  i \in Breaks(req)
      <3>1. n + i \in 1..Len(s) /\ s[n + i] = CR
        BY <2>1, <1>1, <1>2
      <3>2. s[n + i + 1] = LF
        BY <3>1 DEF IsLines, IsWhole
      <3>3. i # k
        BY <2>1, <1>3
      <3>4. i \in 1..(k - 1) /\ i + 1 \in 1..k /\ n + (i + 1) = n + i + 1
        BY <3>3, <1>1, <1>2
      <3>5. req[i + 1] = LF
        BY <3>2, <3>4, <1>2
      <3>6. QED
        BY <2>1, <3>4, <3>5, <1>2 DEF Breaks
    <2>2. QED
      BY <2>1 DEF Breaks
  <1>5. ASSUME NEW i \in 1..k, req[i] = LF
        PROVE  i > 2 /\ i - 1 \in Breaks(req) /\ i - 2 \notin Breaks(req) /\ req[i - 2] # LF
    <2>1. PICK m : m = n + i
      OBVIOUS
    <2>2. m \in 1..Len(s) /\ s[m] = LF /\ m - 1 = n + i - 1 /\ m - 2 = n + i - 2
      BY <2>1, <1>1, <1>2, <1>5
    <2>3. m > 2 /\ s[m - 1] = CR /\ s[m - 2] # LF /\ s[m - 2] # CR
      BY <2>2, <1>1, LineIs
    <2>4. n # 0 => s[n] = LF
      BY <1>1, LastEndIs
    <2>5. i # 1
      <3>1. SUFFICES ASSUME i = 1 PROVE FALSE
        OBVIOUS
      <3>2. n # 0 /\ m - 1 = n
        BY <3>1, <2>1, <2>2, <2>3, <1>1
      <3>3. QED
        BY <3>2, <2>3, <2>4, <1>3
    <2>6. i # 2
      <3>1. SUFFICES ASSUME i = 2 PROVE FALSE
        OBVIOUS
      <3>2. n # 0 /\ m - 2 = n
        BY <3>1, <2>1, <2>2, <2>3, <1>1
      <3>3. QED
        BY <3>2, <2>3, <2>4
    <2>7. /\ i > 2 /\ i - 1 \in 1..k /\ i - 2 \in 1..k
          /\ n + (i - 1) = m - 1 /\ n + (i - 2) = m - 2
      BY <2>1, <2>5, <2>6, <1>1, <1>2
    <2>8. req[i - 1] = CR /\ req[i - 2] # LF /\ req[i - 2] # CR
      BY <2>3, <2>7, <1>2
    <2>9. QED
      BY <2>7, <2>8, <1>4
  <1>6. QED
    BY <1>2, <1>3, <1>4, <1>5

(* A line ends two characters after the last of its piece.                 *)
LEMMA WholeLasts ==
  ASSUME NEW s, NEW n, NEW k, NEW req, IsWhole(s, n, k, req)
  PROVE  \A e \in Nat : e \in Lasts(req) <=> e \in 1..k /\ e + 2 \in 1..k /\ req[e + 2] = LF
  <1>1. /\ req \in Text /\ Len(req) = k /\ k \in Nat
        /\ req[k] = LF
        /\ \A i \in 1..k : i \in Breaks(req) <=> req[i] = CR
        /\ \A i \in 1..k : req[i] = LF =>
             i > 2 /\ i - 1 \in Breaks(req) /\ i - 2 \notin Breaks(req) /\ req[i - 2] # LF
    BY WholeBreaks
  <1>2. k \in 1..k
    BY DEF IsWhole
  <1>3. ASSUME NEW e \in Lasts(req)
        PROVE  e \in 1..k /\ e + 2 \in 1..k /\ req[e + 2] = LF
    <2>1. e \in 1..k /\ e \notin Breaks(req) /\ e - 1 \notin Breaks(req)
          /\ (e = k \/ e + 1 \in Breaks(req))
      BY <1>1 DEF Lasts
    <2>2. e # k
      BY <2>1, <1>1, <1>2
    <2>3. e + 1 \in 1..(k - 1) /\ req[e + 1 + 1] = LF
      BY <2>1, <2>2, <1>1 DEF Breaks
    <2>4. e + 1 + 1 = e + 2
      BY <2>1
    <2>5. QED
      BY <2>1, <2>3, <2>4, <1>1
  <1>4. ASSUME NEW e \in 1..k, e + 2 \in 1..k, req[e + 2] = LF
        PROVE  e \in Lasts(req)
    <2>1. e + 2 - 1 = e + 1 /\ e + 2 - 2 = e
      BY <1>1
    <2>2. e + 1 \in Breaks(req) /\ e \notin Breaks(req) /\ req[e] # LF
      BY <2>1, <1>1, <1>4
    <2>3. e - 1 \notin Breaks(req)
      <3>1. e - 1 \in Breaks(req) => req[e - 1 + 1] = LF
        BY DEF Breaks
      <3>2. e - 1 + 1 = e
        BY <1>1
      <3>3. QED
        BY <3>1, <3>2, <2>2
    <2>4. QED
      BY <2>2, <2>3, <1>1 DEF Lasts
  <1>5. QED
    BY <1>3, <1>4

(* In a read of whole lines each piece ends a line, two characters behind  *)
(* its last.                                                               *)
LEMMA WholeEnds ==
  ASSUME NEW s, NEW n, NEW k, NEW req, IsWhole(s, n, k, req)
  PROVE  /\ LineEnds(s, n + k) = LineEnds(s, n) \cup {e + (n + 2) : e \in Lasts(req)}
         /\ LastEnd(s, n + k) = n + k
  <1> DEFINE T == {e + (n + 2) : e \in Lasts(req)}
  <1>1. /\ Len(req) = k /\ k \in Nat /\ n \in Nat /\ k \in 1..k
        /\ \A i \in 1..k : req[i] = s[n + i]
        /\ req[k] = LF
    <2>1. n \in Nat /\ k \in 1..RecvMax
      BY DEF IsWhole
    <2>2. /\ Len(req) = k /\ k \in Nat /\ req[k] = LF
          /\ \A i \in 1..k : req[i] = s[n + i]
      BY WholeBreaks
    <2>3. k \in 1..k
      BY <2>1, <2>2
    <2>4. QED
      BY <2>1, <2>2, <2>3
  <1>2. \A i \in 1..k : req[i] = LF => i > 2
    BY WholeBreaks
  <1>3. \A e \in Nat : e \in Lasts(req) <=> e \in 1..k /\ e + 2 \in 1..k /\ req[e + 2] = LF
    BY WholeLasts
  <1>4. ASSUME NEW i \in LineEnds(s, n + k)
        PROVE  i \in LineEnds(s, n) \cup T
    <2>1. i \in 1..(n + k) /\ s[i] = LF
      BY DEF LineEnds
    <2>2. CASE i <= n
      BY <2>1, <2>2, <1>1 DEF LineEnds
    <2>3. CASE i > n
      <3>1. PICK j : j = i - n
        OBVIOUS
      <3>2. j \in 1..k /\ n + j = i
        BY <3>1, <2>1, <2>3, <1>1
      <3>3. req[j] = LF /\ j > 2
        BY <3>2, <2>1, <1>1, <1>2
      <3>4. PICK e : e = j - 2
        OBVIOUS
      <3>5. e \in Nat /\ e \in 1..k /\ e + 2 = j /\ i = e + (n + 2)
        BY <3>2, <3>3, <3>4, <1>1
      <3>6. e \in Lasts(req)
        BY <3>2, <3>3, <3>5, <1>3
      <3>7. QED
        BY <3>5, <3>6
    <2>4. QED
      BY <2>1, <2>2, <2>3, <1>1
  <1>5. ASSUME NEW i \in LineEnds(s, n) \cup T
        PROVE  i \in LineEnds(s, n + k)
    <2>1. CASE i \in LineEnds(s, n)
      BY <2>1, <1>1 DEF LineEnds
    <2>2. CASE i \in T
      <3>1. PICK e \in Lasts(req) : i = e + (n + 2)
        BY <2>2
      <3>2. e \in Nat
        BY <1>1 DEF Lasts
      <3>3. e \in 1..k /\ e + 2 \in 1..k /\ req[e + 2] = LF
        BY <3>2, <1>3
      <3>4. n + (e + 2) = i /\ i \in 1..(n + k)
        BY <3>1, <3>3, <1>1
      <3>5. s[i] = LF
        BY <3>3, <3>4, <1>1
      <3>6. QED
        BY <3>4, <3>5 DEF LineEnds
    <2>3. QED
      BY <2>1, <2>2
  <1>6. LastEnd(s, n + k) = n + k
    <2>1. s[n + k] = LF /\ n + k \in Nat /\ n + k \in 0..(n + k) /\ \A i \in 1..(n + k) : i <= n + k
      BY <1>1
    <2>2. QED
      BY <2>1, LastEndUnique
  <1>7. QED
    BY <1>4, <1>5, <1>6

(* Its pieces are the lines.                                               *)
LEMMA WholeLine ==
  ASSUME NEW s, NEW n, NEW k, NEW req, IsWhole(s, n, k, req), NEW e \in Lasts(req)
  PROVE  /\ SubSeq(req, First(req, e), e) = LineTo(s, e + (n + 2))
         /\ LineTo(s, e + (n + 2)) \in Text
         /\ ~Has(LineTo(s, e + (n + 2)), CR)
  <1>1. /\ req \in Text /\ Len(req) = k /\ k \in Nat
        /\ \A i \in 1..k : req[i] = s[n + i]
        /\ \A i \in 1..k : i \in Breaks(req) <=> req[i] = CR
        /\ \A i \in 1..k : req[i] = LF =>
             i > 2 /\ i - 1 \in Breaks(req) /\ i - 2 \notin Breaks(req) /\ req[i - 2] # LF
    BY WholeBreaks
  <1>2. /\ s \in Text /\ IsLines(s) /\ n \in Nat /\ n + k <= Len(s) /\ Len(s) \in Nat
        /\ LastEnd(s, n) = n /\ req = SubSeq(s, n + 1, n + k)
    BY DEF IsWhole, Text
  <1>3. e \in Nat /\ e \in 1..k /\ e + 2 \in 1..k /\ req[e + 2] = LF
    <2>1. e \in Nat
      BY <1>1 DEF Lasts
    <2>2. QED
      BY <2>1, WholeLasts
  <1>4. e \notin Breaks(req) /\ e - 1 \notin Breaks(req)
    BY DEF Lasts
  <1>5. PICK f : f = First(req, e)
    OBVIOUS
  <1>6. /\ f \in 1..e
        /\ f = 1 \/ \E b \in Breaks(req) : b < e /\ f = b + 2
        /\ \A b \in Breaks(req) : b < e => b + 2 <= f
        /\ Breaks(req) \subseteq 1..k
    BY <1>1, <1>5, FirstIs
  <1>7. PICK l : l = n + f - 1
    OBVIOUS
  <1>8. PICK m : m = n + e + 1
    OBVIOUS
  <1>9. m \in Nat /\ m + 1 = e + (n + 2) /\ l \in 0..m /\ l \in Nat
    BY <1>2, <1>3, <1>6, <1>7, <1>8
  <1>10. l # 0 => s[l] = LF
    <2>1. SUFFICES ASSUME l # 0 PROVE s[l] = LF
      OBVIOUS
    <2>2. CASE f = 1
      <3>1. l = n /\ n # 0
        BY <2>1, <2>2, <1>2, <1>7
      <3>2. QED
        BY <3>1, <1>2, LastEndIs
    <2>3. CASE \E b \in Breaks(req) : b < e /\ f = b + 2
      <3>1. PICK b \in Breaks(req) : b < e /\ f = b + 2
        BY <2>3
      <3>2. b \in 1..(k - 1) /\ req[b + 1] = LF
        BY <1>1 DEF Breaks
      <3>3. b + 1 \in 1..k /\ n + (b + 1) = l
        BY <3>1, <3>2, <1>1, <1>2, <1>7
      <3>4. QED
        BY <3>2, <3>3, <1>1
    <2>4. QED
      BY <2>2, <2>3, <1>6
  <1>11. ASSUME NEW i \in 1..m, s[i] = LF
         PROVE  i <= l
    <2>1. CASE i <= n
      BY <2>1, <1>2, <1>6, <1>7
    <2>2. CASE i > n
      <3>1. PICK j : j = i - n
        OBVIOUS
      <3>2. j \in 1..k /\ n + j = i /\ j <= e + 1
        <4>1. i \in Nat /\ i <= n + e + 1 /\ e + 2 <= k /\ k \in Nat
          BY <1>1, <1>2, <1>3, <1>8, <1>9
        <4>2. QED
          BY <4>1, <3>1, <2>2, <1>2, <1>3
      <3>3. j > 2 /\ j - 1 \in Breaks(req)
        BY <3>2, <1>1, <1>11
      <3>4. j - 1 # e
        BY <3>3, <1>4
      <3>5. j - 1 < e
        BY <3>2, <3>3, <3>4, <1>3
      <3>6. j - 1 + 2 <= f
        BY <3>3, <3>5, <1>6
      <3>7. QED
        BY <3>1, <3>2, <3>6, <1>2, <1>6, <1>7
    <2>3. QED
      BY <2>1, <2>2, <1>2, <1>9
  <1>12. LastEnd(s, m) = l
    BY <1>9, <1>10, <1>11, LastEndUnique
  <1>13. PICK w : w = SubSeq(s, n + f, n + e)
    OBVIOUS
  <1>14. LineTo(s, e + (n + 2)) = w
    <2>1. PICK i : i = e + (n + 2)
      OBVIOUS
    <2>2. i - 1 = m /\ i - 2 = n + e /\ l + 1 = n + f
      BY <2>1, <1>2, <1>3, <1>6, <1>7, <1>8
    <2>3. LineTo(s, i) = SubSeq(s, l + 1, n + e)
      BY <2>2, <1>12 DEF LineTo
    <2>4. QED
      BY <2>1, <2>2, <2>3, <1>13
  <1>15. SubSeq(req, f, e) = w
    <2>1. f \in Nat /\ e \in Nat /\ 1 <= f /\ f <= e + 1 /\ e <= k /\ s \in Seq(Characters)
      BY <1>1, <1>2, <1>3, <1>6 DEF Text
    <2>2. QED
      BY <2>1, <1>1, <1>2, <1>13, PartOfPart
  <1>16. /\ w \in Text
         /\ Len(w) = e - f + 1
         /\ \A i \in 1..(e - f + 1) : w[i] = req[f + i - 1]
    <2>1. f \in Nat /\ e \in Nat /\ 1 <= f /\ f <= e + 1 /\ e <= Len(req) /\ req \in Seq(Characters)
      BY <1>1, <1>3, <1>6 DEF Text
    <2>2. QED
      BY <2>1, <1>15, Part DEF Text
  <1>17. ASSUME NEW i \in 1..Len(w)
         PROVE  w[i] # CR
    <2>1. PICK j : j = f + i - 1
      OBVIOUS
    <2>2. j \in f..e /\ j \in 1..k /\ w[i] = req[j]
      BY <2>1, <1>1, <1>3, <1>6, <1>16
    <2>3. j \notin Breaks(req)
      BY <2>2, <1>3, <1>4, <1>6
    <2>4. QED
      BY <2>2, <2>3, <1>1
  <1>18. QED
    BY <1>5, <1>14, <1>15, <1>16, <1>17 DEF Has

(* The commands of such a read are the lines without trailing spaces.      *)
LEMMA WholeFrames ==
  ASSUME NEW s, NEW n, NEW k, NEW req, IsWhole(s, n, k, req), buffer = <<>>
  PROVE  /\ ~Throws(req) /\ Complete(req)
         /\ Frames(s, n, k, {e + (n + 2) : e \in Lasts(req)}, Commands(req))
  <1>1. req \in Text /\ n \in Nat /\ n + 2 \in Nat
    <2>1. n \in Nat
      BY DEF IsWhole
    <2>2. QED
      BY <2>1, WholeBreaks
  <1>2. Complete(req)
    <2>1. EndsInTerminator(req)
      BY DEF IsWhole
    <2>2. /\ Len(req) - 1 \in 1..Len(req) /\ Len(req) \in 1..Len(req)
          /\ req[Len(req) - 1] = CR /\ req[Len(req)] = LF
      BY <1>1, <2>1, EndsAre
    <2>3. QED
      BY <2>2 DEF Complete, Has
  <1>3. PICK tmp : tmp = Split(req)
    OBVIOUS
  <1>4. PICK q : q = InOrder(Lasts(req))
    OBVIOUS
  <1>5. /\ IsFiniteSet(Lasts(req)) /\ Lasts(req) \subseteq Nat
        /\ tmp \in Seq(Text) /\ Len(tmp) \in Nat /\ Len(tmp) = Len(q)
        /\ \A j \in 1..Len(tmp) :
             q[j] \in Lasts(req) /\ tmp[j] = SubSeq(req, First(req, q[j]), q[j])
    BY <1>1, <1>3, <1>4, SplitIs
  <1>6. PICK T : T = {e + (n + 2) : e \in Lasts(req)}
    OBVIOUS
  <1>7. /\ IsFiniteSet(T)
        /\ Len(InOrder(T)) = Len(q)
        /\ \A j \in 1..Len(q) : InOrder(T)[j] = q[j] + (n + 2)
    <2>1. PICK d : d = n + 2
      OBVIOUS
    <2>2. PICK L : L = Lasts(req)
      OBVIOUS
    <2>3. d \in Nat /\ IsFiniteSet(L) /\ L \subseteq Nat /\ q = InOrder(L)
      BY <1>1, <1>4, <1>5, <2>1, <2>2
    <2>4. (\A i \in L : i + d \in T) /\ \A j \in T : \E i \in L : j = i + d
      BY <1>6, <2>1, <2>2
    <2>5. /\ IsFiniteSet(T) /\ Len(InOrder(T)) = Len(InOrder(L))
          /\ \A j \in 1..Len(InOrder(L)) : InOrder(T)[j] = InOrder(L)[j] + d
      BY <2>3, <2>4, ListedMoved
    <2>6. QED
      BY <2>1, <2>3, <2>5
  <1>8. T \subseteq Nat /\ \A i \in T : n < i
    <2>1. \A e \in Lasts(req) : e + (n + 2) \in Nat /\ n < e + (n + 2)
      BY <1>1, <1>5
    <2>2. QED
      BY <1>6, <2>1
  <1>9. ASSUME NEW j \in 1..Len(tmp)
        PROVE  /\ CutAtCR(Piece(tmp[j])) = Piece(tmp[j]) /\ Piece(tmp[j]) \in Text
               /\ Piece(Piece(tmp[j])) = Piece(LineTo(s, InOrder(T)[j]))
    <2>1. PICK e : e = q[j]
      OBVIOUS
    <2>2. e \in Lasts(req) /\ tmp[j] = SubSeq(req, First(req, e), e)
      BY <1>5, <2>1
    <2>3. PICK l : l = LineTo(s, e + (n + 2))
      OBVIOUS
    <2>4. tmp[j] = l /\ l \in Text /\ ~Has(l, CR)
      BY <2>2, <2>3, WholeLine
    <2>5. InOrder(T)[j] = e + (n + 2)
      BY <1>5, <1>7, <2>1
    <2>6. /\ Piece(l) \in Text /\ Len(Piece(l)) <= Len(l)
          /\ \A i \in 1..Len(Piece(l)) : Piece(l)[i] = l[i]
          /\ Piece(Piece(l)) = Piece(l)
      BY <2>4, PieceIs
    <2>7. ~Has(Piece(l), CR)
      <3>1. Len(l) \in Nat /\ Len(Piece(l)) \in Nat
        BY <2>4, <2>6 DEF Text
      <3>2. \A i \in 1..Len(Piece(l)) : i \in 1..Len(l) /\ Piece(l)[i] = l[i]
        BY <3>1, <2>6
      <3>3. QED
        BY <3>2, <2>4 DEF Has
    <2>8. CutAtCR(Piece(l)) = Piece(l)
      BY <2>6, <2>7, CutIs
    <2>9. QED
      BY <2>3, <2>4, <2>5, <2>6, <2>8
  <1>10. Commands(req) \in Seq(Text) /\ Len(Commands(req)) = Len(q)
         /\ \A j \in 1..Len(q) : Commands(req)[j] = Piece(tmp[j])
    <2>1. PICK raw : raw = [i \in 1..Len(tmp) |-> Piece(tmp[i])]
      OBVIOUS
    <2>2. Commands(req) = [i \in 1..Len(raw) |-> CutAtCR(raw[i])]
      BY <1>3, <2>1 DEF Commands
    <2>3. Len(raw) = Len(tmp) /\ \A i \in 1..Len(tmp) : raw[i] = Piece(tmp[i])
      BY <1>5, <2>1
    <2>4. PICK c : c = Commands(req)
      OBVIOUS
    <2>5. c = [i \in 1..Len(tmp) |-> Piece(tmp[i])]
      BY <1>9, <2>2, <2>3, <2>4
    <2>6. \A i \in 1..Len(tmp) : Piece(tmp[i]) \in Text
      BY <1>9
    <2>7. c \in Seq(Text) /\ Len(c) = Len(tmp) /\ \A i \in 1..Len(tmp) : c[i] = Piece(tmp[i])
      BY <1>5, <2>5, <2>6
    <2>8. QED
      BY <1>5, <2>4, <2>7
  <1>11. Len(Commands(req)) = Len(InOrder(T))
    BY <1>5, <1>7, <1>10
  <1>12. \A j \in 1..Len(Commands(req)) :
           Piece(Commands(req)[j]) = Piece(LineTo(s, InOrder(T)[j]))
    BY <1>5, <1>9, <1>10
  <1>13. /\ LineEnds(s, n + k) = LineEnds(s, n) \cup T
         /\ LastEnd(s, n + k) = n + k
    BY <1>6, WholeEnds
  <1>14. Frames(s, n, k, T, Commands(req))
    BY <1>7, <1>8, <1>10, <1>11, <1>12, <1>13 DEF Frames
  <1>15. ~Throws(req)
    BY DEF Throws
  <1>16. QED
    BY <1>2, <1>6, <1>14, <1>15

-----------------------------------------------------------------------------
(***************************************************************************)
(* An interactive peer.  Besides what has been executed, the buffer is     *)
(* known: it is what came after the last line end.                         *)
(***************************************************************************)

(* The commands done are the lines that end in the first n characters.     *)
Matches(done, s, n) ==
  LET ends == InOrder(LineEnds(s, n))
  IN  /\ Len(done) = Len(ends)
      /\ \A k \in 1..Len(ends) : Piece(done[k]) = Piece(LineTo(s, ends[k]))

(* The buffer holds what came after the last end of a line.                *)
Pending == ~crashed => buffer = SubSeq(stream, LastEnd(stream, pos) + 1, pos)

(* Every line the peer sends holds something but spaces.                   *)
NoBlankLines ==
  \A s \in Streams : \A i \in LineEnds(s, Len(s)) : ~Blank(LineTo(s, i))

(* Commands that match one after the other match together.                 *)
LEMMA MatchesMore ==
  ASSUME NEW s, NEW n \in Nat, NEW k, NEW T, NEW done \in Seq(Text), NEW cmds,
         Matches(done, s, n), Frames(s, n, k, T, cmds)
  PROVE  Matches(done \o cmds, s, n + k)
  <1>1. PICK p : p = InOrder(LineEnds(s, n))
    OBVIOUS
  <1>2. PICK q : q = InOrder(T)
    OBVIOUS
  <1>3. Len(done) = Len(p) /\ \A j \in 1..Len(p) : Piece(done[j]) = Piece(LineTo(s, p[j]))
    BY <1>1 DEF Matches
  <1>4. /\ IsFiniteSet(T) /\ T \subseteq Nat /\ \A i \in T : n < i
        /\ LineEnds(s, n + k) = LineEnds(s, n) \cup T
        /\ cmds \in Seq(Text) /\ Len(cmds) = Len(q)
        /\ \A j \in 1..Len(cmds) : Piece(cmds[j]) = Piece(LineTo(s, q[j]))
    BY <1>2 DEF Frames
  <1>5. /\ IsFiniteSet(LineEnds(s, n)) /\ LineEnds(s, n) \subseteq 1..n
    BY LastEndIs
  <1>6. LineEnds(s, n) \subseteq Nat /\ \A i \in LineEnds(s, n), j \in T : i < j
    <2>1. \A i \in LineEnds(s, n) : i \in Nat /\ i <= n
      BY <1>5
    <2>2. QED
      BY <1>4, <2>1
  <1>7. PICK r : r = p \o q
    OBVIOUS
  <1>8. InOrder(LineEnds(s, n + k)) = r
    BY <1>1, <1>2, <1>4, <1>5, <1>6, <1>7, ListedBeyond
  <1>9. p \in Seq(Nat) /\ q \in Seq(Nat) /\ Len(p) \in Nat /\ Len(q) \in Nat
    BY <1>1, <1>2, <1>4, <1>5, <1>6, Listed
  <1>10. /\ Len(r) = Len(p) + Len(q)
         /\ \A j \in 1 .. Len(p) + Len(q) : r[j] = IF j <= Len(p) THEN p[j] ELSE q[j - Len(p)]
    BY <1>7, <1>9, ConcatProperties
  <1>11. PICK all : all = done \o cmds
    OBVIOUS
  <1>12. /\ Len(all) = Len(p) + Len(q)
         /\ \A j \in 1 .. Len(p) + Len(q) :
              all[j] = IF j <= Len(p) THEN done[j] ELSE cmds[j - Len(p)]
    <2>1. /\ Len(all) = Len(done) + Len(cmds)
          /\ \A j \in 1 .. Len(done) + Len(cmds) :
               all[j] = IF j <= Len(done) THEN done[j] ELSE cmds[j - Len(done)]
      BY <1>4, <1>11, ConcatProperties
    <2>2. QED
      BY <1>3, <1>4, <2>1
  <1>13. ASSUME NEW j \in 1..Len(r)
         PROVE  Piece(all[j]) = Piece(LineTo(s, r[j]))
    <2>1. CASE j <= Len(p)
      <3>1. j \in 1..Len(p) /\ all[j] = done[j] /\ r[j] = p[j]
        BY <2>1, <1>9, <1>10, <1>12
      <3>2. QED
        BY <3>1, <1>3
    <2>2. CASE ~(j <= Len(p))
      <3>1. PICK i : i = j - Len(p)
        OBVIOUS
      <3>2. i \in 1..Len(cmds) /\ all[j] = cmds[i] /\ r[j] = q[i]
        BY <2>2, <3>1, <1>4, <1>9, <1>10, <1>12
      <3>3. QED
        BY <3>2, <1>4
    <2>3. QED
      BY <2>1, <2>2
  <1>14. QED
    BY <1>8, <1>10, <1>11, <1>12, <1>13 DEF Matches

(* Nothing is pending and nothing executed at the start.                   *)
LEMMA FramedInit == Init => Pending /\ FramedExactly
  <1> SUFFICES ASSUME Init PROVE Pending /\ FramedExactly
    OBVIOUS
  <1>1. PICK s : s = stream
    OBVIOUS
  <1>2. s \in Text /\ pos = 0 /\ buffer = <<>> /\ executed = <<>>
    BY <1>1, StreamsAssumption DEF Init
  <1>3. LineEnds(s, 0) = {}
    BY DEF LineEnds
  <1>4. LastEnd(s, 0) = 0
    <2>1. LastEnd(s, 0) \in 0..0
      BY LastEndIs
    <2>2. QED
      BY <2>1
  <1>5. SubSeq(s, 0 + 1, 0) = <<>>
    BY <1>2 DEF Text
  <1>6. InOrder({}) = <<>>
    <2>1. IsFiniteSet({}) /\ {} \subseteq Nat
      BY FS_EmptySet
    <2>2. QED
      BY <2>1, Listed
  <1>7. Pending
    BY <1>1, <1>2, <1>4, <1>5 DEF Pending
  <1>8. Len(<<>>) = 0 /\ 1..0 = {}
    OBVIOUS
  <1>9. FramedExactly
    BY <1>1, <1>2, <1>3, <1>6, <1>8 DEF FramedExactly
  <1>10. QED
    BY <1>7, <1>9

(* Text is kept for later and executes nothing.                            *)
LEMMA TextKept ==
  ASSUME NEW s \in Text, NEW n \in Nat, NEW k \in 1..RecvMax, n + k <= Len(s),
         NEW old, old = SubSeq(s, LastEnd(s, n) + 1, n),
         NEW req, req = SubSeq(s, n + 1, n + k), ~Has(req, LF)
  PROVE  /\ old \o req = SubSeq(s, LastEnd(s, n + k) + 1, n + k)
         /\ LineEnds(s, n + k) = LineEnds(s, n)
  <1>1. Len(req) = k /\ k \in Nat /\ \A i \in 1..k : req[i] = s[n + i]
    BY ReadIs
  <1>2. \A i \in 1..k : s[n + i] # LF
    BY <1>1 DEF Has
  <1>3. LineEnds(s, n + k) = LineEnds(s, n) /\ LastEnd(s, n + k) = LastEnd(s, n)
    BY <1>1, <1>2, TextAddsNoEnd
  <1>4. PICK l : l = LastEnd(s, n)
    OBVIOUS
  <1>5. l \in 0..n
    BY <1>4, LastEndIs
  <1>6. /\ l + 1 \in Nat /\ n + k \in Nat /\ 1 <= l + 1 /\ l + 1 <= n + 1 /\ n <= n + k
        /\ s \in Seq(Characters)
    BY <1>1, <1>5 DEF Text
  <1>7. SubSeq(s, l + 1, n) \o SubSeq(s, n + 1, n + k) = SubSeq(s, l + 1, n + k)
    BY <1>6, PartsJoin
  <1>8. QED
    BY <1>3, <1>4, <1>7

(* A read of an interactive peer is text, or it completes lines.           *)
LEMMA ReadFrames ==
  ASSUME Interactive, NEW s \in Text, IsLines(s), NEW n \in Nat, NEW k \in 1..RecvMax,
         n + k <= Len(s), buffer = SubSeq(s, LastEnd(s, n) + 1, n), buffer \in Text,
         ~Has(buffer, CR), NEW req, req = SubSeq(s, n + 1, n + k), Regular(req)
  PROVE  \/ ~Has(req, CR) /\ ~Has(req, LF)
         \/ /\ ~Throws(req) /\ Complete(req)
            /\ \E T : Frames(s, n, k, T, Commands(req))
  <1>1. req \in Text /\ Len(req) = k /\ k \in Nat
    BY ReadIs
  <1>2. CASE req = Terminator
    <2>1. k = 2
      <3>1. Len(<<CR, LF>>) = 2
        OBVIOUS
      <3>2. QED
        BY <1>1, <1>2, <3>1 DEF Terminator
    <2>2. n + 2 <= Len(s) /\ SubSeq(s, n + 1, n + 2) = Terminator
      BY <1>2, <2>1
    <2>3. /\ ~Throws(Terminator) /\ Complete(Terminator)
          /\ Frames(s, n, 2, {n + 2}, Commands(Terminator))
      BY <2>2, TerminatorFrames
    <2>4. PICK T : T = {n + 2}
      OBVIOUS
    <2>5. Frames(s, n, k, T, Commands(req))
      BY <1>2, <2>1, <2>3, <2>4
    <2>6. QED
      BY <1>2, <2>3, <2>5
  <1>3. CASE buffer = <<>> /\ EndsInTerminator(req)
    <2>1. LastEnd(s, n) = n
      <3>1. PICK l : l = LastEnd(s, n)
        OBVIOUS
      <3>2. l \in 0..n
        BY <3>1, LastEndIs
      <3>3. /\ l + 1 \in Nat /\ 1 <= l + 1 /\ l + 1 <= n + 1 /\ n <= Len(s) /\ Len(s) \in Nat
            /\ s \in Seq(Characters)
        BY <1>1, <3>2 DEF Text
      <3>4. Len(SubSeq(s, l + 1, n)) = n - (l + 1) + 1
        BY <3>3, Part
      <3>5. Len(SubSeq(s, l + 1, n)) = 0
        <4>1. SubSeq(s, l + 1, n) = <<>>
          BY <1>3, <3>1
        <4>2. Len(<<>>) = 0
          OBVIOUS
        <4>3. QED
          BY <4>1, <4>2
      <3>6. QED
        BY <3>1, <3>2, <3>4, <3>5
    <2>2. IsWhole(s, n, k, req)
      BY <1>3, <2>1 DEF IsWhole
    <2>3. /\ ~Throws(req) /\ Complete(req)
          /\ Frames(s, n, k, {e + (n + 2) : e \in Lasts(req)}, Commands(req))
      BY <1>3, <2>2, WholeFrames
    <2>4. QED
      BY <2>3
  <1>4. QED
    BY <1>2, <1>3 DEF Regular

(* What is pending and what is executed stay exact with every read, and no *)
(* read of lines that are not blank crashes.                               *)
LEMMA FramedStep ==
  ASSUME Interactive, TypeOK, Pending, FramedExactly, [Next]_vars
  PROVE  Pending' /\ FramedExactly' /\ (NoBlankLines /\ ~crashed => ~crashed')
  <1>1. CASE UNCHANGED vars
    BY <1>1 DEF vars, Pending, FramedExactly
  <1>2. ASSUME NEW k \in 1..RecvMax, Receive(k)
        PROVE  Pending' /\ FramedExactly' /\ (NoBlankLines /\ ~crashed => ~crashed')
    <2>1. PICK s : s = stream
      OBVIOUS
    <2>2. PICK n : n = pos
      OBVIOUS
    <2>3. PICK old : old = buffer
      OBVIOUS
    <2>4. PICK done : done = executed
      OBVIOUS
    <2>5. PICK req : req = SubSeq(s, n + 1, n + k)
      OBVIOUS
    <2>6. PICK cmds : cmds = Commands(req)
      OBVIOUS
    <2>7. /\ ~crashed /\ n + k <= Len(s) /\ Regular(req)
          /\ stream' = s /\ pos' = n + k
          /\ buffer' = BufferAfter(req)
          /\ ~Complete(req) => executed' = done /\ ~crashed'
          /\ Complete(req) /\ ~Throws(req) =>
               /\ crashed' => {i \in 1..Len(cmds) : Blank(cmds[i])} # {}
               /\ ~crashed' => executed' = done \o cmds
      BY <1>2, <2>1, <2>2, <2>4, <2>5, <2>6 DEF Receive
    <2>8. /\ s \in Streams /\ s \in Text /\ IsLines(s) /\ n \in Nat
          /\ buffer \in Text /\ ~Has(buffer, CR) /\ done \in Seq(Text)
      BY <2>1, <2>2, <2>4, StreamsAssumption DEF TypeOK
    <2>9. buffer = SubSeq(s, LastEnd(s, n) + 1, n) /\ Matches(done, s, n)
      BY <2>1, <2>2, <2>4, <2>7 DEF Pending, FramedExactly, Matches
    <2>10. Len(s) \in Nat /\ k \in Nat
      BY <2>8, BoundsAssumption DEF Text
    <2>11. CASE ~Has(req, CR) /\ ~Has(req, LF)
      <3>1. ~Complete(req)
        BY <2>11 DEF Complete
      <3>2. buffer' = old \o req /\ executed' = done /\ ~crashed'
        BY <2>3, <2>7, <3>1 DEF BufferAfter
      <3>3. /\ old \o req = SubSeq(s, LastEnd(s, n + k) + 1, n + k)
            /\ LineEnds(s, n + k) = LineEnds(s, n)
        <4>1. old = SubSeq(s, LastEnd(s, n) + 1, n) /\ ~Has(req, LF) /\ n + k <= Len(s)
          BY <2>3, <2>7, <2>9, <2>11
        <4>2. s \in Text /\ n \in Nat
          BY <2>8
        <4>3. QED
          BY <4>1, <4>2, <2>5, TextKept, ZenonT(60)
      <3>4. Matches(done, s, n + k)
        BY <2>9, <3>3 DEF Matches
      <3>5. Pending'
        BY <2>7, <3>2, <3>3 DEF Pending
      <3>6. FramedExactly'
        BY <2>7, <3>2, <3>4 DEF FramedExactly, Matches
      <3>7. QED
        BY <3>2, <3>5, <3>6
    <2>12. CASE /\ ~Throws(req) /\ Complete(req)
                /\ \E T : Frames(s, n, k, T, cmds)
      <3>1. PICK T : Frames(s, n, k, T, cmds)
        BY <2>12
      <3>2. buffer' = <<>>
        BY <2>7, <2>12 DEF BufferAfter
      <3>3. Pending'
        <4>1. LastEnd(s, n + k) = n + k
          BY <3>1 DEF Frames
        <4>2. SubSeq(s, n + k + 1, n + k) = <<>>
          BY <2>8, <2>10, <2>7 DEF Text
        <4>3. QED
          BY <2>7, <3>2, <4>1, <4>2 DEF Pending
      <3>4. FramedExactly'
        <4>1. Matches(done \o cmds, s, n + k)
          BY <2>8, <2>9, <3>1, MatchesMore
        <4>2. ~crashed' => executed' = done \o cmds
          BY <2>7, <2>12
        <4>3. QED
          BY <2>7, <4>1, <4>2 DEF FramedExactly, Matches
      <3>5. ASSUME NoBlankLines PROVE ~crashed'
        <4>1. SUFFICES ASSUME crashed' PROVE FALSE
          OBVIOUS
        <4>2. PICK j \in 1..Len(cmds) : Blank(cmds[j])
          BY <2>7, <2>12, <4>1
        <4>3. PICK q : q = InOrder(T)
          OBVIOUS
        <4>4. /\ IsFiniteSet(T) /\ T \subseteq Nat /\ cmds \in Seq(Text) /\ Len(cmds) = Len(q)
              /\ LineEnds(s, n + k) = LineEnds(s, n) \cup T
              /\ Piece(cmds[j]) = Piece(LineTo(s, q[j]))
          BY <3>1, <4>3 DEF Frames
        <4>5. q[j] \in T
          BY <4>3, <4>4, Listed
        <4>6. q[j] \in 1..(n + k) /\ s[q[j]] = LF
          BY <4>4, <4>5 DEF LineEnds
        <4>7. PICK i : i = q[j]
          OBVIOUS
        <4>8. i \in 1..Len(s) /\ s[i] = LF
          BY <2>7, <2>8, <2>10, <4>6, <4>7
        <4>9. LineTo(s, i) \in Text
          BY <2>8, <4>8, LineIs
        <4>10. cmds[j] \in Text
          BY <4>2, <4>4
        <4>11. Blank(LineTo(s, i))
          BY <4>2, <4>4, <4>7, <4>9, <4>10, PieceIs
        <4>12. i \in LineEnds(s, Len(s))
          BY <4>8 DEF LineEnds
        <4>13. QED
          BY <2>8, <3>5, <4>11, <4>12 DEF NoBlankLines
      <3>6. QED
        BY <3>3, <3>4, <3>5
    <2>13. QED
      BY <2>5, <2>6, <2>7, <2>8, <2>9, <2>11, <2>12, ReadFrames
  <1>3. QED
    BY <1>1, <1>2 DEF Next

(* Whatever an interactive peer sends, for any lines and any sizes of      *)
(* reads: the commands executed are the lines received whole, in order,    *)
(* each once, up to trailing spaces.                                       *)
THEOREM LinesFramed ==
  ASSUME Interactive
  PROVE  Spec => []FramedExactly
  <1>1. Init => TypeOK /\ Pending /\ FramedExactly
    BY TypeInit, FramedInit
  <1>2. TypeOK /\ Pending /\ FramedExactly /\ [Next]_vars
          => (TypeOK /\ Pending /\ FramedExactly)'
    BY TypeStep, FramedStep
  <1>3. QED
    BY <1>1, <1>2, PTL DEF Spec

(* An interactive peer whose lines all hold something but spaces does not  *)
(* end the server.                                                         *)
THEOREM LinesDoNotCrash ==
  ASSUME Interactive, NoBlankLines
  PROVE  Spec => []NeverCrashes
  <1>1. Init => TypeOK /\ Pending /\ FramedExactly /\ NeverCrashes
    <2>1. Init => NeverCrashes
      BY DEF Init, NeverCrashes
    <2>2. QED
      BY <2>1, TypeInit, FramedInit
  <1>2. TypeOK /\ Pending /\ FramedExactly /\ NeverCrashes /\ [Next]_vars
          => (TypeOK /\ Pending /\ FramedExactly /\ NeverCrashes)'
    BY TypeStep, FramedStep DEF NeverCrashes
  <1>3. QED
    BY <1>1, <1>2, PTL DEF Spec
=============================================================================
