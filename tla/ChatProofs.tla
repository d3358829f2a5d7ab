----------------------------- MODULE ChatProofs -----------------------------
(***************************************************************************)
(* What holds of Chat for any number of descriptors, nicknames and         *)
(* channels: its types, and that the copies of clients in the member       *)
(* vectors stay in step with the clients.                                  *)
(***************************************************************************)
EXTENDS Chat, WellFoundedInduction, TLAPS

(* The least index that SelectInSeq chooses is one of the indices.         *)
LEMMA MinOK ==
  ASSUME NEW I \in SUBSET Nat, I # {}
  PROVE  Min(I) \in I
  <1>1. PICK x \in I : \A y \in I : ~(<<y, x>> \in OpToRel(<, Nat))
    BY NatLessThanWellFounded, WFMin
  <1>2. \A y \in I : ~(y < x)
    BY <1>1 DEF OpToRel
  <1>3. \A y \in I : x =< y
    BY <1>2
  <1> QED
    BY <1>3 DEF Min

(* erase of one element of a vector: the others stay, in their order, and  *)
(* if no descriptor was there twice the erased one is gone.                *)
LEMMA RemoveAtOK ==
  ASSUME NEW v \in Seq(Member), NEW k \in 1..Len(v)
  PROVE  /\ RemoveAt(v, k) \in Seq(Member)
         /\ Len(RemoveAt(v, k)) = Len(v) - 1
         /\ \A j \in 1..Len(RemoveAt(v, k)) : \E i \in 1..Len(v) :
              RemoveAt(v, k)[j] = v[i]
         /\ \A i \in 1..Len(v) : i # k =>
              \E j \in 1..Len(RemoveAt(v, k)) : RemoveAt(v, k)[j] = v[i]
         /\ EachSocketOnce(v) => /\ EachSocketOnce(RemoveAt(v, k))
                                 /\ ~HasSocket(RemoveAt(v, k), v[k].sock)
  <1> DEFINE a == SubSeq(v, 1, k - 1)
             b == SubSeq(v, k + 1, Len(v))
             w == RemoveAt(v, k)
  <1>1. /\ a \in Seq(Member) /\ Len(a) = k - 1
        /\ \A j \in 1..(k - 1) : a[j] = v[j]
    OBVIOUS
  <1>2. /\ b \in Seq(Member) /\ Len(b) = Len(v) - k
        /\ \A j \in 1..(Len(v) - k) : b[j] = v[k + j]
    OBVIOUS
  <1>3. w = a \o b
    BY DEF RemoveAt
  <1> HIDE DEF a, b, w
  <1>4. a \o b \in Seq(Member) /\ Len(a \o b) = Len(v) - 1
    <2>1. \A S : \A p, q \in Seq(S) :
            p \o q \in Seq(S) /\ Len(p \o q) = Len(p) + Len(q)
      OBVIOUS
    <2>2. a \o b \in Seq(Member) /\ Len(a \o b) = Len(a) + Len(b)
      BY <1>1, <1>2, <2>1
    <2> QED
      BY <1>1, <1>2, <2>2
  <1>5. /\ \A j \in 1..(k - 1) : (a \o b)[j] = v[j]
        /\ \A j \in k..(Len(v) - 1) : (a \o b)[j] = v[j + 1]
    <2>1. \A j \in 1..(k - 1) : (a \o b)[j] = a[j]
      BY <1>1, <1>2
    <2>2. \A j \in k..(Len(v) - 1) : (a \o b)[j] = b[j + 1 - k]
      BY <1>1, <1>2
    <2>3. \A j \in k..(Len(v) - 1) :
            j + 1 - k \in 1..(Len(v) - k) /\ k + (j + 1 - k) = j + 1
      OBVIOUS
    <2> QED
      BY <1>1, <1>2, <2>1, <2>2, <2>3
  <1>6. /\ w \in Seq(Member) /\ Len(w) = Len(v) - 1
        /\ \A j \in 1..(k - 1) : w[j] = v[j]
        /\ \A j \in k..(Len(v) - 1) : w[j] = v[j + 1]
    <2>1. w \in Seq(Member)
      BY <1>3, <1>4
    <2>2. Len(w) = Len(v) - 1
      BY <1>3, <1>4
    <2>3. \A j \in 1..(k - 1) : w[j] = v[j]
      BY <1>3, <1>5
    <2>4. \A j \in k..(Len(v) - 1) : w[j] = v[j + 1]
      BY <1>3, <1>5
    <2> QED
      BY <2>1, <2>2, <2>3, <2>4
  <1>7. \A j \in 1..Len(w) : \E i \in 1..Len(v) : i # k /\ w[j] = v[i]
    <2> SUFFICES ASSUME NEW j \in 1..Len(w)
                 PROVE  \E i \in 1..Len(v) : i # k /\ w[j] = v[i]
      OBVIOUS
    <2>1. CASE j < k
      <3>1. j \in 1..Len(v) /\ j # k /\ w[j] = v[j]
        BY <1>6, <2>1
      <3> QED
        BY <3>1
    <2>2. CASE ~(j < k)
      <3>1. j + 1 \in 1..Len(v) /\ j + 1 # k /\ w[j] = v[j + 1]
        BY <1>6, <2>2
      <3> QED
        BY <3>1
    <2> QED
      BY <2>1, <2>2
  <1>8. ASSUME NEW i \in 1..Len(v), i # k
        PROVE  \E j \in 1..Len(w) : w[j] = v[i]
    <2>1. CASE i < k
      <3>1. i \in 1..Len(w) /\ w[i] = v[i]
        BY <1>6, <2>1
      <3> QED
        BY <3>1
    <2>2. CASE i > k
      <3>1. i - 1 \in 1..Len(w) /\ w[i - 1] = v[i]
        BY <1>6, <2>2
      <3> QED
        BY <3>1
    <2> QED
      BY <1>8, <2>1, <2>2
  <1>9. ASSUME EachSocketOnce(v)
        PROVE  EachSocketOnce(w) /\ ~HasSocket(w, v[k].sock)
    <2>1. EachSocketOnce(w)
      <3> SUFFICES ASSUME NEW i \in 1..Len(w), NEW j \in 1..Len(w),
                          w[i].sock = w[j].sock
                   PROVE  i = j
        BY DEF EachSocketOnce
      <3> DEFINE old(x) == IF x < k THEN x ELSE x + 1
      <3>1. /\ old(i) \in 1..Len(v) /\ w[i] = v[old(i)]
            /\ old(j) \in 1..Len(v) /\ w[j] = v[old(j)]
        BY <1>6
      <3>2. old(i) = old(j)
        BY <1>9, <3>1 DEF EachSocketOnce
      <3> QED
        BY <1>6, <3>2
    <2>2. ~HasSocket(w, v[k].sock)
      BY <1>7, <1>9 DEF EachSocketOnce, HasSocket
    <2> QED
      BY <2>1, <2>2
  <1> QED
    BY <1>6, <1>7, <1>8, <1>9 DEF w

(* removeClient by descriptor: nothing, or the erase of an entry of s.     *)
LEMMA WithoutSocketCases ==
  ASSUME NEW v \in Seq(Member), NEW s
  PROVE  \/ ~HasSocket(v, s) /\ WithoutSocket(v, s) = v
         \/ \E k \in 1..Len(v) : /\ v[k].sock = s
                                 /\ WithoutSocket(v, s) = RemoveAt(v, k)
  <1> DEFINE I == {i \in 1..Len(v) : v[i].sock = s}
  <1>1. CASE HasSocket(v, s)
    <2>1. I \in SUBSET Nat /\ I # {}
      BY <1>1 DEF HasSocket
    <2>2. Min(I) \in I
      BY <2>1, MinOK
    <2>3. WithoutSocket(v, s) = RemoveAt(v, Min(I))
      BY <1>1, <2>1 DEF WithoutSocket, HasSocket, RemoveFirstMatch, SelectInSeq
    <2> QED
      BY <2>2, <2>3
  <1>2. CASE ~HasSocket(v, s)
    BY <1>2 DEF WithoutSocket, HasSocket, RemoveFirstMatch
  <1> QED
    BY <1>1, <1>2

(* removeClient, removeOperator and removeInvited by nickname: nothing, or *)
(* the erase of an entry of n.                                             *)
LEMMA WithoutNickCases ==
  ASSUME NEW v \in Seq(Member), NEW n
  PROVE  \/ ~HasNick(v, n) /\ WithoutNick(v, n) = v
         \/ \E k \in 1..Len(v) : /\ v[k].nick = n
                                 /\ WithoutNick(v, n) = RemoveAt(v, k)
  <1> DEFINE I == {i \in 1..Len(v) : v[i].nick = n}
  <1>1. CASE HasNick(v, n)
    <2>1. I \in SUBSET Nat /\ I # {}
      BY <1>1 DEF HasNick
    <2>2. Min(I) \in I
      BY <2>1, MinOK
    <2>3. WithoutNick(v, n) = RemoveAt(v, Min(I))
      BY <1>1, <2>1 DEF WithoutNick, HasNick, RemoveFirstMatch, SelectInSeq
    <2> QED
      BY <2>2, <2>3
  <1>2. CASE ~HasNick(v, n)
    BY <1>2 DEF WithoutNick, HasNick, RemoveFirstMatch
  <1> QED
    BY <1>1, <1>2

(* What removing the entry of a descriptor does to a vector.               *)
LEMMA WithoutSocketOK ==
  ASSUME NEW v \in Seq(Member), NEW s
  PROVE  /\ WithoutSocket(v, s) \in Seq(Member)
         /\ \A j \in 1..Len(WithoutSocket(v, s)) :
              \E i \in 1..Len(v) : WithoutSocket(v, s)[j] = v[i]
         /\ \A i \in 1..Len(v) : v[i].sock # s =>
              \E j \in 1..Len(WithoutSocket(v, s)) :
                WithoutSocket(v, s)[j] = v[i]
         /\ EachSocketOnce(v) => /\ EachSocketOnce(WithoutSocket(v, s))
                                 /\ ~HasSocket(WithoutSocket(v, s), s)
  <1>1. CASE ~HasSocket(v, s) /\ WithoutSocket(v, s) = v
    BY <1>1
  <1>2. CASE \E k \in 1..Len(v) : /\ v[k].sock = s
                                  /\ WithoutSocket(v, s) = RemoveAt(v, k)
    <2>1. PICK k \in 1..Len(v) : /\ v[k].sock = s
                                 /\ WithoutSocket(v, s) = RemoveAt(v, k)
      BY <1>2
    <2> DEFINE w == RemoveAt(v, k)
    <2>2. /\ w \in Seq(Member)
          /\ \A j \in 1..Len(w) : \E i \in 1..Len(v) : w[j] = v[i]
          /\ \A i \in 1..Len(v) : i # k => \E j \in 1..Len(w) : w[j] = v[i]
          /\ EachSocketOnce(v) => EachSocketOnce(w) /\ ~HasSocket(w, v[k].sock)
      BY RemoveAtOK
    <2>3. WithoutSocket(v, s) = w
      BY <2>1
    <2> HIDE DEF w
    <2> QED
      BY <2>1, <2>2, <2>3
  <1> QED
    BY <1>1, <1>2, WithoutSocketCases

(* What removing an entry of a nickname does to a vector.                  *)
LEMMA WithoutNickOK ==
  ASSUME NEW v \in Seq(Member), NEW n
  PROVE  /\ WithoutNick(v, n) \in Seq(Member)
         /\ \A j \in 1..Len(WithoutNick(v, n)) :
              \E i \in 1..Len(v) : WithoutNick(v, n)[j] = v[i]
         /\ \A i \in 1..Len(v) : v[i].nick # n =>
              \E j \in 1..Len(WithoutNick(v, n)) : WithoutNick(v, n)[j] = v[i]
         /\ EachSocketOnce(v) => EachSocketOnce(WithoutNick(v, n))
         /\ EachSocketOnce(v) /\ HasNick(v, n) =>
              \E k \in 1..Len(v) : /\ v[k].nick = n
                                   /\ ~HasSocket(WithoutNick(v, n), v[k].sock)
  <1>1. CASE ~HasNick(v, n) /\ WithoutNick(v, n) = v
    BY <1>1
  <1>2. CASE \E k \in 1..Len(v) : /\ v[k].nick = n
                                  /\ WithoutNick(v, n) = RemoveAt(v, k)
    <2>1. PICK k \in 1..Len(v) : /\ v[k].nick = n
                                 /\ WithoutNick(v, n) = RemoveAt(v, k)
      BY <1>2
    <2> DEFINE w == RemoveAt(v, k)
    <2>2. /\ w \in Seq(Member)
          /\ \A j \in 1..Len(w) : \E i \in 1..Len(v) : w[j] = v[i]
          /\ \A i \in 1..Len(v) : i # k => \E j \in 1..Len(w) : w[j] = v[i]
          /\ EachSocketOnce(v) => EachSocketOnce(w) /\ ~HasSocket(w, v[k].sock)
      BY RemoveAtOK
    <2>3. WithoutNick(v, n) = w
      BY <2>1
    <2> HIDE DEF w
    <2> QED
      BY <2>1, <2>2, <2>3
  <1> QED
    BY <1>1, <1>2, WithoutNickCases
-----------------------------------------------------------------------------
(* A channel operator changes a vector or a mode and leaves a channel.     *)
LEMMA NewChannelOK ==
  ASSUME NEW m \in Member, NEW key \in Keys \cup {NoKey}
  PROVE  NewChannel(m, key) \in Channel /\ NewChannel(m, key).clients = <<m>>
  <1>1. <<m>> \in Seq(Member) /\ <<>> \in Seq(Member)
    OBVIOUS
  <1> QED
    BY <1>1 DEF NewChannel, Channel

LEMMA JoinedOK ==
  ASSUME NEW ch \in Channel, NEW m \in Member
  PROVE  /\ Joined(ch, m) \in Channel
         /\ Joined(ch, m).clients = Append(ch.clients, m)
  <1>1. ch.clients \in Seq(Member)
    BY DEF Channel
  <1>2. Append(ch.clients, m) \in Seq(Member)
    BY <1>1
  <1> QED
    BY <1>2 DEF Joined, Channel

LEMMA InvitedToOK ==
  ASSUME NEW ch \in Channel, NEW m \in Member
  PROVE  InvitedTo(ch, m) \in Channel /\ InvitedTo(ch, m).clients = ch.clients
  <1>1. ch.invited \in Seq(Member)
    BY DEF Channel
  <1>2. Append(ch.invited, m) \in Seq(Member)
    BY <1>1
  <1> QED
    BY <1>2 DEF InvitedTo, Channel

LEMMA PartedOK ==
  ASSUME NEW ch \in Channel, NEW s, NEW n
  PROVE  /\ Parted(ch, s, n) \in Channel
         /\ Parted(ch, s, n).clients = WithoutSocket(ch.clients, s)
  <1>1. ch.clients \in Seq(Member) /\ ch.operators \in Seq(Member)
    BY DEF Channel
  <1>2. /\ WithoutSocket(ch.clients, s) \in Seq(Member)
        /\ WithoutNick(ch.operators, n) \in Seq(Member)
    BY <1>1, WithoutSocketOK, WithoutNickOK
  <1> QED
    BY <1>2 DEF Parted, Channel

LEMMA ErasedOK ==
  ASSUME NEW ch \in Channel, NEW n
  PROVE  /\ Erased(ch, n) \in Channel
         /\ Erased(ch, n).clients = WithoutNick(ch.clients, n)
  <1>1. /\ ch.clients \in Seq(Member) /\ ch.operators \in Seq(Member)
        /\ ch.invited \in Seq(Member)
    BY DEF Channel
  <1>2. /\ WithoutNick(ch.clients, n) \in Seq(Member)
        /\ WithoutNick(ch.operators, n) \in Seq(Member)
        /\ WithoutNick(ch.invited, n) \in Seq(Member)
    BY <1>1, WithoutNickOK
  <1> QED
    BY <1>2 DEF Erased, Channel

LEMMA DemotedOK ==
  ASSUME NEW ch \in Channel, NEW n
  PROVE  /\ Demoted(ch, n) \in Channel
         /\ Demoted(ch, n).clients = ch.clients
         /\ Demoted(ch, n).invited = ch.invited
  <1>1. ch.operators \in Seq(Member)
    BY DEF Channel
  <1>2. WithoutNick(ch.operators, n) \in Seq(Member)
    BY <1>1, WithoutNickOK
  <1> QED
    BY <1>2 DEF Demoted, Channel

LEMMA PromotedOK ==
  ASSUME NEW ch \in Channel, NEW n, HasNick(ch.clients, n)
  PROVE  /\ Promoted(ch, n) \in Channel
         /\ Promoted(ch, n).clients = ch.clients
         /\ Promoted(ch, n).invited = ch.invited
  <1> DEFINE I == {i \in 1..Len(ch.clients) : ch.clients[i].nick = n}
             first == SelectInSeq(ch.clients, LAMBDA m : m.nick = n)
  <1>1. ch.clients \in Seq(Member) /\ ch.operators \in Seq(Member)
    BY DEF Channel
  <1>2. I \in SUBSET Nat /\ I # {}
    BY <1>1 DEF HasNick
  <1>3. Min(I) \in I
    BY <1>2, MinOK
  <1>4. first = Min(I)
    BY <1>2 DEF SelectInSeq
  <1>5. first \in 1..Len(ch.clients)
    BY <1>3, <1>4
  <1>6. ch.clients[first] \in Member
    <2> HIDE DEF first
    <2> QED
      BY <1>1, <1>5
  <1>7. Promoted(ch, n) =
          [ch EXCEPT !.operators = Append(@, ch.clients[first])]
    BY DEF Promoted
  <1> HIDE DEF first
  <1>8. Append(ch.operators, ch.clients[first]) \in Seq(Member)
    BY <1>1, <1>6
  <1> QED
    BY <1>7, <1>8 DEF Channel

(* setNickInChannels renames in place: nobody moves, enters or leaves.     *)
LEMMA RenamedOK ==
  ASSUME NEW ch \in Channel, NEW s \in Fds, NEW n \in Nicks
  PROVE  /\ Renamed(ch, s, n) \in Channel
         /\ Len(Renamed(ch, s, n).clients) = Len(ch.clients)
         /\ \A i \in 1..Len(ch.clients) : Renamed(ch, s, n).clients[i] =
              IF ch.clients[i].sock = s THEN [sock |-> s, nick |-> n]
                                        ELSE ch.clients[i]
  <1> DEFINE new(m) == IF m.sock = s THEN [sock |-> s, nick |-> n] ELSE m
             all(v) == [i \in 1..Len(v) |-> new(v[i])]
  <1>1. \A m \in Member : new(m) \in Member
    BY DEF Member
  <1>2. ASSUME NEW v \in Seq(Member)
        PROVE  all(v) \in Seq(Member) /\ Len(all(v)) = Len(v)
    <2>1. \A i \in 1..Len(v) : new(v[i]) \in Member
      BY <1>1
    <2> HIDE DEF new
    <2>2. all(v) \in [1..Len(v) -> Member] /\ Len(v) \in Nat
      BY <2>1
    <2> QED
      BY <2>2
  <1>3. /\ ch.clients \in Seq(Member) /\ ch.operators \in Seq(Member)
        /\ ch.invited \in Seq(Member)
    BY DEF Channel
  <1>4. Renamed(ch, s, n) = [ch EXCEPT !.clients   = all(ch.clients),
                                       !.operators = all(ch.operators),
                                       !.invited   = all(ch.invited)]
    BY DEF Renamed, Channel
  <1>5. /\ all(ch.clients) \in Seq(Member) /\ all(ch.operators) \in Seq(Member)
        /\ all(ch.invited) \in Seq(Member)
        /\ Len(all(ch.clients)) = Len(ch.clients)
        /\ \A i \in 1..Len(ch.clients) : all(ch.clients)[i] = new(ch.clients[i])
    BY <1>2, <1>3
  <1> HIDE DEF all
  <1>6. Renamed(ch, s, n) \in Channel
    BY <1>4, <1>5 DEF Channel
  <1>7. Renamed(ch, s, n).clients = all(ch.clients)
    BY <1>4 DEF Channel
  <1> QED
    BY <1>5, <1>6, <1>7
-----------------------------------------------------------------------------
(***************************************************************************)
(* The invariant.                                                          *)
(***************************************************************************)

(* A nickname has one client: nickCmd and the handshake refuse others.     *)
ClientsDistinct ==
  \A s, t \in Fds : Present(s) /\ client[s] = client[t] => s = t

(* The entries of a channel are clients under their present nickname.      *)
Live(ch, cl) ==
  \A i \in 1..Len(ch.clients) : cl[ch.clients[i].sock] = ch.clients[i].nick

Good(ch, cl, sw) ==
  /\ ch \in Channel
  /\ EachSocketOnce(ch.clients)
  /\ ~sw => Live(ch, cl) /\ ch.clients # <<>>

Typed ==
  /\ client \in [Fds -> Nicks \cup {NoNick}]
  /\ command \in Command \cup {NoCommand}
  /\ swept \in BOOLEAN

Clean(chs, cl, sw) ==
  /\ chs = [c \in ChannelNames |-> chs[c]]
  /\ \A c \in ChannelNames : chs[c] = NoChannel \/ Good(chs[c], cl, sw)

IInv == Typed /\ ClientsDistinct /\ Clean(channels, client, swept)

(* The invariant contains the checked ones.                                *)
LEMMA ImpliesChecked ==
  ASSUME IInv
  PROVE  TypeOK /\ MemberOnce /\ MembersLive /\ ChannelsNonEmpty
  <1>1. \A c \in ChannelNames :
          channels[c] = NoChannel \/ Good(channels[c], client, swept)
    BY DEF IInv, Clean
  <1>2. channels \in [ChannelNames -> Channel \cup {NoChannel}]
    BY <1>1 DEF IInv, Clean, Good
  <1>3. TypeOK
    BY <1>2 DEF IInv, Typed, TypeOK
  <1>4. \A c \in Existing : Good(channels[c], client, swept)
    BY <1>1 DEF Existing, Exists
  <1>5. MemberOnce
    BY <1>4 DEF MemberOnce, Good
  <1>6. MembersLive /\ ChannelsNonEmpty
    BY <1>4 DEF MembersLive, ChannelsNonEmpty, Good, Live
  <1> QED
    BY <1>3, <1>5, <1>6

LEMMA InitOK == Init => IInv
  BY DEF Init, IInv, Typed, ClientsDistinct, Clean, Present

(* A step that puts one good channel, or none, in a place.                 *)
LEMMA OneChannelOK ==
  ASSUME IInv, NEW c \in ChannelNames, NEW ch,
         ch = NoChannel \/ Good(ch, client, swept),
         channels' = [channels EXCEPT ![c] = ch],
         UNCHANGED <<client, swept>>, command' \in Command \cup {NoCommand}
  PROVE  IInv'
  <1>1. Typed' /\ ClientsDistinct'
    BY DEF IInv, Typed, ClientsDistinct, Present
  <1>2. channels' = [d \in ChannelNames |-> IF d = c THEN ch ELSE channels[d]]
    BY DEF IInv, Clean
  <1>3. \A d \in ChannelNames :
          channels'[d] = NoChannel \/ Good(channels'[d], client, swept)
    BY <1>2 DEF IInv, Clean
  <1>4. Clean(channels', client, swept)
    BY <1>2, <1>3 DEF Clean
  <1> QED
    BY <1>1, <1>4 DEF IInv

(* Changes of a channel that leave its members alone.                      *)
LEMMA SameMembersOK ==
  ASSUME NEW ch, NEW new \in Channel, NEW cl, NEW sw,
         Good(ch, cl, sw), new.clients = ch.clients
  PROVE  Good(new, cl, sw)
  BY DEF Good, Live

-----------------------------------------------------------------------------
(* A member vector is without s if it had s once under the nickname that   *)
(* is removed: the copies in step make removal by nickname remove s.       *)
LEMMA ErasedIsGone ==
  ASSUME NEW ch, Good(ch, client, FALSE), Typed, ClientsDistinct,
         NEW s \in Fds, Present(s), HasClient(ch, s)
  PROVE  ~HasClient(Erased(ch, client[s]), s)
  <1> DEFINE v == ch.clients
             w == WithoutNick(v, client[s])
  <1>1. ch \in Channel /\ v \in Seq(Member) /\ EachSocketOnce(v)
    BY DEF Good, Channel
  <1>2. \A i \in 1..Len(v) : client[v[i].sock] = v[i].nick
    BY DEF Good, Live
  <1>3. HasNick(v, client[s])
    BY <1>2 DEF HasClient, HasSocket, HasNick
  <1>4. PICK k \in 1..Len(v) : /\ v[k].nick = client[s]
                               /\ ~HasSocket(w, v[k].sock)
    BY <1>1, <1>3, WithoutNickOK
  <1>5. v[k].sock \in Fds /\ client[v[k].sock] = client[s]
    <2>1. v[k] \in Member
      BY <1>1
    <2>2. v[k].sock \in Fds
      BY <2>1 DEF Member
    <2> QED
      BY <1>2, <1>4, <2>2
  <1>6. v[k].sock = s
    BY <1>5 DEF ClientsDistinct
  <1>7. Erased(ch, client[s]).clients = w
    BY <1>1, ErasedOK
  <1> QED
    BY <1>4, <1>6, <1>7 DEF HasClient

(* Fewer members of a good channel: the same but for being empty.          *)
LEMMA FewerOK ==
  ASSUME NEW ch, NEW new \in Channel, NEW cl, NEW sw, Good(ch, cl, sw),
         EachSocketOnce(new.clients),
         \A j \in 1..Len(new.clients) :
           \E i \in 1..Len(ch.clients) : new.clients[j] = ch.clients[i],
         new.clients # <<>>
  PROVE  Good(new, cl, sw)
  BY DEF Good, Live

LEMMA ErasedGood ==
  ASSUME NEW ch, NEW n, NEW cl, NEW sw, Good(ch, cl, sw),
         Erased(ch, n).clients # <<>>
  PROVE  Good(Erased(ch, n), cl, sw)
  <1>1. ch \in Channel /\ ch.clients \in Seq(Member) /\ EachSocketOnce(ch.clients)
    BY DEF Good, Channel
  <1>2. Erased(ch, n) \in Channel
        /\ Erased(ch, n).clients = WithoutNick(ch.clients, n)
    BY <1>1, ErasedOK
  <1>3. /\ EachSocketOnce(Erased(ch, n).clients)
        /\ \A j \in 1..Len(Erased(ch, n).clients) :
             \E i \in 1..Len(ch.clients) :
               Erased(ch, n).clients[j] = ch.clients[i]
    BY <1>1, <1>2, WithoutNickOK
  <1> QED
    BY <1>2, <1>3, FewerOK

(* The members of a channel do not notice a client that is not in it.      *)
LEMMA OtherClientOK ==
  ASSUME NEW ch, NEW cl, NEW nc, NEW s, Good(ch, cl, FALSE), ~HasClient(ch, s),
         \A t \in Fds \ {s} : nc[t] = cl[t]
  PROVE  Good(ch, nc, FALSE)
  <1>1. ch.clients \in Seq(Member)
    BY DEF Good, Channel
  <1>2. \A i \in 1..Len(ch.clients) : ch.clients[i].sock \in Fds \ {s}
    <2> SUFFICES ASSUME NEW i \in 1..Len(ch.clients)
                 PROVE  ch.clients[i].sock \in Fds \ {s}
      OBVIOUS
    <2>1. ch.clients[i] \in Member
      BY <1>1
    <2> QED
      BY <2>1 DEF HasClient, HasSocket, Member
  <1> QED
    BY <1>2 DEF Good, Live

(* A descriptor without a client is no member of a channel in step.        *)
LEMMA AbsentIsNoMember ==
  ASSUME NEW ch, Good(ch, client, FALSE), NEW s, ~Present(s)
  PROVE  ~HasClient(ch, s)
  <1>1. ch.clients \in Seq(Member) /\ Live(ch, client)
    BY DEF Good, Channel
  <1> SUFFICES ASSUME NEW i \in 1..Len(ch.clients), ch.clients[i].sock = s
               PROVE  FALSE
    BY DEF HasClient, HasSocket
  <1>2. ch.clients[i] \in Member
    BY <1>1
  <1>3. client[s] \in Nicks
    BY <1>1, <1>2 DEF Live, Member
  <1> QED
    BY <1>3, NoNickAssumption DEF Present

(* After a sweep nothing is asked of the clients of a channel.             *)
LEMMA SweptOK ==
  ASSUME NEW ch, NEW cl, NEW nc, NEW sw, Good(ch, cl, sw)
  PROVE  Good(ch, nc, TRUE)
  BY DEF Good
-----------------------------------------------------------------------------
(***************************************************************************)
(* The steps.                                                              *)
(***************************************************************************)
LEMMA SignOnOK ==
  ASSUME IInv, NEW s \in Fds, NEW n \in Nicks, SignOn(s, n)
  PROVE  IInv'
  <1>1. Typed' /\ UNCHANGED <<channels, swept>>
    BY DEF SignOn, IInv, Typed
  <1>2. ClientsDistinct'
    BY NoNickAssumption
       DEF SignOn, IInv, Typed, ClientsDistinct, Present, NickTaken
  <1>3. ASSUME NEW c \in ChannelNames, channels[c] # NoChannel
        PROVE  Good(channels[c], client', swept)
    <2>1. Good(channels[c], client, swept)
      BY <1>3 DEF IInv, Clean
    <2>2. CASE swept = TRUE
      BY <2>1, <2>2, SweptOK
    <2>3. CASE swept = FALSE
      <3>1. ~HasClient(channels[c], s)
        BY <2>1, <2>3, AbsentIsNoMember DEF SignOn
      <3>2. \A t \in Fds \ {s} : client'[t] = client[t]
        BY DEF SignOn, IInv, Typed
      <3> QED
        BY <2>1, <2>3, <3>1, <3>2, OtherClientOK
    <2> QED
      BY <2>2, <2>3 DEF IInv, Typed
  <1> QED
    BY <1>1, <1>2, <1>3 DEF IInv, Clean

LEMMA EvictOK ==
  ASSUME IInv, NEW s \in Fds, Evict(s)
  PROVE  IInv'
  <1>1. Typed' /\ ClientsDistinct'
    BY DEF Evict, IInv, Typed, ClientsDistinct, Present
  <1>2. UNCHANGED channels /\ swept' = TRUE
    BY DEF Evict
  <1>3. \A c \in ChannelNames :
          channels[c] = NoChannel \/ Good(channels[c], client', TRUE)
    BY SweptOK DEF IInv, Clean
  <1> QED
    BY <1>1, <1>2, <1>3 DEF IInv, Clean

(* nickCmd: the members of the client are renamed with it.                 *)
LEMMA ChangeNickOK ==
  ASSUME IInv, NEW s \in Fds, NEW n \in Nicks, ChangeNick(s, n)
  PROVE  IInv'
  <1>1. Typed' /\ UNCHANGED swept /\ client' = [client EXCEPT ![s] = n]
    BY DEF ChangeNick, IInv, Typed
  <1>2. ClientsDistinct'
    BY NoNickAssumption
       DEF ChangeNick, IInv, Typed, ClientsDistinct, Present, NickTaken
  <1>3. ASSUME NEW c \in ChannelNames, channels[c] # NoChannel,
               HasClient(channels[c], s)
        PROVE  Good(Renamed(channels[c], s, n), client', swept)
    <2> DEFINE ch == channels[c]
               new == Renamed(ch, s, n)
    <2>1. Good(ch, client, swept)
      BY <1>3 DEF IInv, Clean
    <2>2. /\ ch \in Channel /\ ch.clients \in Seq(Member)
          /\ EachSocketOnce(ch.clients)
      BY <2>1 DEF Good, Channel
    <2>3. /\ new \in Channel /\ Len(new.clients) = Len(ch.clients)
          /\ \A i \in 1..Len(ch.clients) : new.clients[i] =
               IF ch.clients[i].sock = s THEN [sock |-> s, nick |-> n]
                                         ELSE ch.clients[i]
      BY <2>2, RenamedOK
    <2> HIDE DEF new
    <2>4. EachSocketOnce(new.clients)
      BY <2>2, <2>3 DEF EachSocketOnce
    <2>5. ASSUME ~swept
          PROVE  Live(new, client') /\ new.clients # <<>>
      <3>1. Live(ch, client) /\ ch.clients # <<>>
        BY <2>1, <2>5 DEF Good
      <3>2. Len(ch.clients) # 0
        BY <2>2, <3>1
      <3>3. new.clients # <<>>
        BY <2>3, <3>2
      <3>4. Live(new, client')
        <4> SUFFICES ASSUME NEW i \in 1..Len(ch.clients)
                     PROVE  client'[new.clients[i].sock] = new.clients[i].nick
          BY <2>3 DEF Live
        <4>1. ch.clients[i] \in Member
          BY <2>2
        <4>2. CASE ch.clients[i].sock = s
          BY <1>1, <2>3, <4>2 DEF IInv, Typed
        <4>3. CASE ch.clients[i].sock # s
          <5>1. new.clients[i] = ch.clients[i] /\ ch.clients[i].sock \in Fds
            BY <2>3, <4>1, <4>3 DEF Member
          <5> QED
            BY <1>1, <3>1, <4>3, <5>1 DEF Live, IInv, Typed
        <4> QED
          BY <4>2, <4>3
      <3> QED
        BY <3>3, <3>4
    <2> QED
      BY <2>3, <2>4, <2>5 DEF Good, new
  <1>4. ASSUME NEW c \in ChannelNames, channels[c] # NoChannel,
               ~HasClient(channels[c], s)
        PROVE  Good(channels[c], client', swept)
    <2>1. Good(channels[c], client, swept)
      BY <1>4 DEF IInv, Clean
    <2>2. \A t \in Fds \ {s} : client'[t] = client[t]
      BY <1>1 DEF IInv, Typed
    <2>3. swept = TRUE \/ swept = FALSE
      BY DEF IInv, Typed
    <2> QED
      BY <1>4, <2>1, <2>2, <2>3, SweptOK, OtherClientOK
  <1>5. channels' = [c \in ChannelNames |->
                       IF channels[c] # NoChannel /\ HasClient(channels[c], s)
                         THEN Renamed(channels[c], s, n) ELSE channels[c]]
    BY DEF ChangeNick, AfterNick, Exists
  <1>6. \A c \in ChannelNames :
          channels'[c] = NoChannel \/ Good(channels'[c], client', swept)
    BY <1>3, <1>4, <1>5
  <1>7. Clean(channels', client', swept)
    BY <1>5, <1>6 DEF Clean
  <1> QED
    BY <1>1, <1>2, <1>7 DEF IInv

(* quiteCmd: the member removed by nickname is the client that leaves.     *)
LEMMA QuitOK ==
  ASSUME IInv, NEW s \in Fds, Quit(s)
  PROVE  IInv'
  <1>1. /\ Typed' /\ ClientsDistinct' /\ UNCHANGED swept
        /\ client' = [client EXCEPT ![s] = NoNick] /\ Present(s)
        /\ \A t \in Fds \ {s} : client'[t] = client[t]
    BY DEF Quit, Serves, IInv, Typed, ClientsDistinct, Present
  <1>2. ASSUME NEW c \in ChannelNames, channels[c] # NoChannel,
               HasClient(channels[c], s)
        PROVE  \/ IfUsed(Erased(channels[c], client[s])) = NoChannel
               \/ Good(IfUsed(Erased(channels[c], client[s])), client', swept)
    <2> DEFINE ch == channels[c]
               new == Erased(ch, client[s])
    <2>1. Good(ch, client, swept)
      BY <1>2 DEF IInv, Clean
    <2>2. CASE new.clients = <<>>
      BY <2>2 DEF IfUsed
    <2>3. CASE new.clients # <<>>
      <3>1. Good(new, client, swept) /\ IfUsed(new) = new
        BY <2>1, <2>3, ErasedGood DEF IfUsed
      <3>2. CASE swept = TRUE
        BY <3>1, <3>2, SweptOK
      <3>3. CASE swept = FALSE
        <4>1. ~HasClient(new, s)
          BY <1>1, <1>2, <2>1, <3>3, ErasedIsGone DEF IInv
        <4>2. Good(new, client', FALSE)
          BY <1>1, <3>1, <3>3, <4>1, OtherClientOK
        <4> QED
          BY <3>1, <3>3, <4>2
      <3> QED
        BY <3>2, <3>3 DEF IInv, Typed
    <2> QED
      BY <2>2, <2>3
  <1>3. ASSUME NEW c \in ChannelNames, channels[c] # NoChannel,
               ~HasClient(channels[c], s)
        PROVE  Good(channels[c], client', swept)
    <2>1. Good(channels[c], client, swept)
      BY <1>3 DEF IInv, Clean
    <2>2. swept = TRUE \/ swept = FALSE
      BY DEF IInv, Typed
    <2> QED
      BY <1>1, <1>3, <2>1, <2>2, SweptOK, OtherClientOK
  <1>4. channels' = [c \in ChannelNames |->
                       IF channels[c] # NoChannel /\ HasClient(channels[c], s)
                         THEN IfUsed(Erased(channels[c], client[s]))
                         ELSE channels[c]]
    BY DEF Quit, AfterQuit, Exists
  <1>5. \A c \in ChannelNames :
          channels'[c] = NoChannel \/ Good(channels'[c], client', swept)
    BY <1>2, <1>3, <1>4
  <1>6. Clean(channels', client', swept)
    BY <1>4, <1>5 DEF Clean
  <1> QED
    BY <1>1, <1>6 DEF IInv

(* quiteCmd before USER: until a sweep no channel knows the descriptor.    *)
LEMMA QuitHandshakeOK ==
  ASSUME IInv, NEW s \in Fds, NEW n, QuitHandshake(s, n)
  PROVE  IInv'
  <1>1. /\ UNCHANGED <<client, command, swept>> /\ ~Present(s)
        /\ channels' = [c \in ChannelNames |->
                          IF channels[c] # NoChannel /\ HasClient(channels[c], s)
                            THEN IfUsed(Erased(channels[c], n))
                            ELSE channels[c]]
    BY DEF QuitHandshake, AfterQuit, Exists
  <1>2. Typed' /\ ClientsDistinct'
    BY <1>1 DEF IInv, Typed, ClientsDistinct, Present
  <1>3. ASSUME NEW c \in ChannelNames, channels[c] # NoChannel,
               HasClient(channels[c], s)
        PROVE  \/ IfUsed(Erased(channels[c], n)) = NoChannel
               \/ Good(IfUsed(Erased(channels[c], n)), client, swept)
    <2>1. Good(channels[c], client, swept)
      BY <1>3 DEF IInv, Clean
    <2>2. swept = TRUE
      BY <1>1, <1>3, <2>1, AbsentIsNoMember DEF IInv, Typed
    <2> QED
      BY <2>1, ErasedGood DEF IfUsed
  <1>4. \A c \in ChannelNames :
          channels'[c] = NoChannel \/ Good(channels'[c], client, swept)
    BY <1>1, <1>3 DEF IInv, Clean
  <1>5. Clean(channels', client, swept)
    BY <1>1, <1>4 DEF Clean
  <1> QED
    BY <1>1, <1>2, <1>5 DEF IInv

(* The client that gives a command, as a member.                           *)
LEMMA MeOK ==
  ASSUME IInv, NEW s \in Fds, Present(s)
  PROVE  Me(s) \in Member /\ Me(s).sock = s /\ Me(s).nick = client[s]
  BY DEF Me, Member, IInv, Typed, Present

LEMMA CreateChannelOK ==
  ASSUME IInv, NEW s \in Fds, NEW c \in ChannelNames,
         NEW key \in Keys \cup {NoKey}, CreateChannel(s, c, key)
  PROVE  IInv'
  <1> DEFINE new == NewChannel(Me(s), key)
  <1>1. Present(s) /\ command = NoCommand
    BY DEF CreateChannel, Serves
  <1>2. Me(s) \in Member /\ client[Me(s).sock] = Me(s).nick
    BY <1>1, MeOK
  <1>3. new \in Channel /\ new.clients = <<Me(s)>>
    BY <1>2, NewChannelOK
  <1> HIDE DEF new
  <1>4. Good(new, client, swept)
    <2> DEFINE m == Me(s)
    <2> HIDE DEF m
    <2>1. Len(<<m>>) = 1 /\ <<m>>[1] = m /\ <<m>> # <<>>
      OBVIOUS
    <2>2. EachSocketOnce(<<m>>)
      BY <2>1 DEF EachSocketOnce
    <2>3. new.clients = <<m>> /\ client[m.sock] = m.nick
      BY <1>2, <1>3 DEF m
    <2> QED
      BY <1>3, <2>1, <2>2, <2>3 DEF Good, Live
  <1>5. /\ channels' = [channels EXCEPT ![c] = new]
        /\ UNCHANGED <<client, swept>> /\ command' \in Command \cup {NoCommand}
    BY <1>1 DEF CreateChannel, new
  <1> QED
    BY <1>4, <1>5, OneChannelOK

LEMMA JoinChannelOK ==
  ASSUME IInv, NEW s \in Fds, NEW c \in ChannelNames, NEW key,
         JoinChannel(s, c, key)
  PROVE  IInv'
  <1> DEFINE ch == channels[c]
             new == Joined(ch, Me(s))
             v == ch.clients
             m == Me(s)
  <1>1. /\ Present(s) /\ command = NoCommand /\ ch # NoChannel
        /\ ~HasSocket(v, s)
    BY DEF JoinChannel, Serves, NewTo, Exists, HasClient
  <1>2. Good(ch, client, swept)
    BY <1>1 DEF IInv, Clean
  <1>3. ch \in Channel /\ v \in Seq(Member) /\ EachSocketOnce(v)
    BY <1>2 DEF Good, Channel
  <1>4. m \in Member /\ m.sock = s /\ client[m.sock] = m.nick
    BY <1>1, MeOK
  <1>5. new \in Channel /\ new.clients = Append(v, m)
    BY <1>3, <1>4, JoinedOK
  <1>6. /\ Len(Append(v, m)) = Len(v) + 1 /\ Len(v) \in Nat
        /\ \A i \in 1..Len(v) : Append(v, m)[i] = v[i]
        /\ Append(v, m)[Len(v) + 1] = m
        /\ Append(v, m) # <<>>
    BY <1>3, <1>4
  <1> HIDE DEF new, m
  <1>7. EachSocketOnce(Append(v, m))
    <2>1. \A i \in 1..Len(v) : Append(v, m)[i].sock # m.sock
      BY <1>1, <1>4, <1>6 DEF HasSocket
    <2>2. ASSUME NEW i \in 1..(Len(v) + 1), NEW j \in 1..(Len(v) + 1),
                 Append(v, m)[i].sock = Append(v, m)[j].sock
          PROVE  i = j
      <3>1. CASE i \in 1..Len(v) /\ j \in 1..Len(v)
        BY <1>3, <1>6, <2>2, <3>1 DEF EachSocketOnce
      <3>2. CASE i = Len(v) + 1 \/ j = Len(v) + 1
        <4>1. i \in 1..Len(v) \/ i = Len(v) + 1
          BY <1>6
        <4>2. j \in 1..Len(v) \/ j = Len(v) + 1
          BY <1>6
        <4> QED
          BY <1>6, <2>1, <2>2, <3>2, <4>1, <4>2
      <3> QED
        BY <1>6, <3>1, <3>2
    <2> QED
      BY <1>6, <2>2 DEF EachSocketOnce
  <1>8. Good(new, client, swept)
    <2>1. ASSUME ~swept, NEW i \in 1..(Len(v) + 1)
          PROVE  client[Append(v, m)[i].sock] = Append(v, m)[i].nick
      <3>1. CASE i \in 1..Len(v)
        BY <1>2, <1>6, <2>1, <3>1 DEF Good, Live
      <3>2. CASE i = Len(v) + 1
        BY <1>4, <1>6, <3>2
      <3> QED
        BY <1>6, <3>1, <3>2
    <2> QED
      BY <1>5, <1>6, <1>7, <2>1 DEF Good, Live
  <1>9. /\ channels' = [channels EXCEPT ![c] = new]
        /\ UNCHANGED <<client, swept>> /\ command' \in Command \cup {NoCommand}
    BY <1>1 DEF JoinChannel, new, m
  <1> QED
    BY <1>8, <1>9, OneChannelOK

LEMMA PartChannelOK ==
  ASSUME IInv, NEW s \in Fds, NEW c \in ChannelNames, PartChannel(s, c)
  PROVE  IInv'
  <1> DEFINE ch == channels[c]
             new == Parted(ch, s, client[s])
  <1>1. command = NoCommand /\ ch # NoChannel
    BY DEF PartChannel, Serves, Exists
  <1>2. Good(ch, client, swept)
    BY <1>1 DEF IInv, Clean
  <1>3. /\ ch \in Channel /\ ch.clients \in Seq(Member)
        /\ EachSocketOnce(ch.clients)
    BY <1>2 DEF Good, Channel
  <1>4. new \in Channel /\ new.clients = WithoutSocket(ch.clients, s)
    BY <1>3, PartedOK
  <1>5. /\ EachSocketOnce(new.clients)
        /\ \A j \in 1..Len(new.clients) :
             \E i \in 1..Len(ch.clients) : new.clients[j] = ch.clients[i]
    BY <1>3, <1>4, WithoutSocketOK
  <1>6. channels' = [channels EXCEPT ![c] = IfUsed(new)]
    BY DEF PartChannel, IInv, Clean
  <1> HIDE DEF new
  <1>7. IfUsed(new) = NoChannel \/ Good(IfUsed(new), client, swept)
    BY <1>2, <1>4, <1>5, FewerOK DEF IfUsed
  <1>8. UNCHANGED <<client, swept>> /\ command' \in Command \cup {NoCommand}
    BY <1>1 DEF PartChannel
  <1> QED
    BY <1>6, <1>7, <1>8, OneChannelOK

LEMMA InviteOK ==
  ASSUME IInv, NEW s \in Fds, NEW m \in Member, NEW c \in ChannelNames,
         Invite(s, m, c)
  PROVE  IInv'
  <1> DEFINE ch == channels[c]
             new == InvitedTo(ch, m)
  <1>1. command = NoCommand /\ ch # NoChannel
    BY DEF Invite, Serves, Exists
  <1>2. Good(ch, client, swept) /\ ch \in Channel
    BY <1>1 DEF IInv, Clean, Good
  <1>3. new \in Channel /\ new.clients = ch.clients
    BY <1>2, InvitedToOK
  <1>4. channels' = [channels EXCEPT ![c] = new]
    BY DEF Invite, IInv, Clean
  <1> HIDE DEF new
  <1>5. Good(new, client, swept)
    BY <1>2, <1>3, SameMembersOK
  <1>6. UNCHANGED <<client, swept>> /\ command' \in Command \cup {NoCommand}
    BY <1>1 DEF Invite
  <1> QED
    BY <1>4, <1>5, <1>6, OneChannelOK

LEMMA SetTopicOK ==
  ASSUME IInv, NEW s \in Fds, NEW c \in ChannelNames, NEW text \in Topics,
         SetTopic(s, c, text)
  PROVE  IInv'
  <1> DEFINE ch == channels[c]
             new == [ch EXCEPT !.topic = text]
  <1>1. command = NoCommand /\ ch # NoChannel
    BY DEF SetTopic, Serves, Exists
  <1>2. Good(ch, client, swept) /\ ch \in Channel
    BY <1>1 DEF IInv, Clean, Good
  <1>3. new \in Channel /\ new.clients = ch.clients
    BY <1>2 DEF Channel
  <1>4. channels' = [channels EXCEPT ![c] = new]
    BY DEF SetTopic, IInv, Clean
  <1> HIDE DEF new
  <1>5. Good(new, client, swept)
    BY <1>2, <1>3, SameMembersOK
  <1>6. UNCHANGED <<client, swept>> /\ command' \in Command \cup {NoCommand}
    BY <1>1 DEF SetTopic
  <1> QED
    BY <1>4, <1>5, <1>6, OneChannelOK
-----------------------------------------------------------------------------
(* The channel of a MODE or KICK exists as long as the command runs, and   *)
(* until a sweep the one who kicks remains a client and a member of it,    *)
(* operator or not.  Both are part of the invariant below.                 *)
CommandOnChannel == command # NoCommand => On \in Channel

KickerStays ==
  ~swept /\ InKick => Present(command.by) /\ HasClient(On, command.by)

Inv == IInv /\ CommandOnChannel /\ KickerStays

(* Between two commands, the invariant is that of the channels.            *)
LEMMA IdleInv ==
  ASSUME IInv', command' = NoCommand
  PROVE  Inv'
  BY DEF Inv, CommandOnChannel, KickerStays, InKick

(* A step of a command that leaves its channel as a good one.              *)
LEMMA CommandOnOK ==
  ASSUME Inv, command # NoCommand, NEW new,
         Good(On, client, swept) => Good(new, client, swept),
         channels' = [channels EXCEPT ![command.on] = new],
         UNCHANGED <<client, command, swept>>
  PROVE  IInv' /\ CommandOnChannel' /\ On' = new
  <1>1. command.on \in ChannelNames /\ command \in Command
    BY DEF Inv, IInv, Typed, Command
  <1>2. Good(On, client, swept)
    BY <1>1, NoChannelAssumption DEF Inv, IInv, Clean, CommandOnChannel, On
  <1>3. IInv'
    BY <1>1, <1>2, OneChannelOK DEF Inv
  <1>4. On' = new
    BY <1>1 DEF On, Inv, IInv, Clean
  <1> QED
    BY <1>2, <1>3, <1>4 DEF CommandOnChannel, Good

(* kickClient: who kicks has another nickname and stays a member.          *)
LEMMA KickClientOK ==
  ASSUME Inv, NEW n \in Nicks, KickClient(n)
  PROVE  Inv'
  <1> DEFINE new == Erased(On, n)
  <1>1. /\ InKick /\ command # NoCommand /\ On \in Channel
        /\ client[command.by] # n
        /\ channels' = [channels EXCEPT ![command.on] = new]
        /\ UNCHANGED <<client, command, swept>>
    BY DEF KickClient, InKick, Inv, IInv, Clean, CommandOnChannel, On
  <1>2. On.clients \in Seq(Member)
    BY <1>1 DEF Channel
  <1>3. new \in Channel /\ new.clients = WithoutNick(On.clients, n)
    BY <1>1, ErasedOK
  <1>4. /\ EachSocketOnce(On.clients) => EachSocketOnce(new.clients)
        /\ new.clients \in Seq(Member)
        /\ \A j \in 1..Len(new.clients) :
             \E i \in 1..Len(On.clients) : new.clients[j] = On.clients[i]
        /\ \A i \in 1..Len(On.clients) : On.clients[i].nick # n =>
             \E j \in 1..Len(new.clients) : new.clients[j] = On.clients[i]
    BY <1>2, <1>3, WithoutNickOK
  <1> HIDE DEF new
  <1>5. ASSUME ~swept, Good(On, client, swept)
        PROVE  HasClient(new, command.by) /\ new.clients # <<>>
    <2>1. PICK i \in 1..Len(On.clients) : On.clients[i].sock = command.by
      BY <1>1, <1>5 DEF Inv, KickerStays, HasClient, HasSocket
    <2>2. On.clients[i].nick # n
      BY <1>1, <1>5, <2>1 DEF Good, Live
    <2>3. PICK j \in 1..Len(new.clients) : new.clients[j] = On.clients[i]
      BY <1>4, <2>2
    <2> QED
      BY <1>4, <2>1, <2>3 DEF HasClient, HasSocket
  <1>6. Good(On, client, swept) => Good(new, client, swept)
    BY <1>3, <1>4, <1>5 DEF Good, Live
  <1>7. IInv' /\ CommandOnChannel' /\ On' = new
    BY <1>1, <1>6, CommandOnOK
  <1>8. Good(On, client, swept)
    <2>1. command.on \in ChannelNames
      BY <1>1 DEF Inv, IInv, Typed, Command
    <2> QED
      BY <1>1, <2>1, NoChannelAssumption DEF Inv, IInv, Clean, On
  <1>9. KickerStays'
    BY <1>1, <1>5, <1>7, <1>8 DEF Inv, KickerStays, InKick, Present
  <1> QED
    BY <1>7, <1>9 DEF Inv

(* A letter of MODE changes no member.                                     *)
LEMMA LetterOK ==
  ASSUME Inv, InMode, NEW l, NEW new \in Channel,
         new.clients = On.clients, Applies(l, new)
  PROVE  Inv'
  <1>1. /\ channels' = [channels EXCEPT ![command.on] = new]
        /\ UNCHANGED <<client, command, swept>>
    BY DEF Applies
  <1>2. Good(On, client, swept) => Good(new, client, swept)
    BY SameMembersOK
  <1>3. command # NoCommand /\ ~InKick
    BY DEF InMode, InKick, Signs
  <1>4. IInv' /\ CommandOnChannel'
    BY <1>1, <1>2, <1>3, CommandOnOK
  <1>5. KickerStays'
    BY <1>1, <1>3 DEF KickerStays, InKick
  <1> QED
    BY <1>4, <1>5 DEF Inv

(* What a step of a command is: its end, a kick, or a letter of MODE that  *)
(* leaves the channel with the members and invitations it had.             *)
LetterStep ==
  /\ InMode
  /\ \E l \in Letters, new \in Channel :
       /\ new.clients = On.clients /\ new.invited = On.invited
       /\ Applies(l, new)

KickStep == \E n \in Nicks : KickClient(n)

LEMMA CommandLoopCases ==
  ASSUME Inv, CommandLoop
  PROVE  EndCommand \/ KickStep \/ LetterStep
  <1>1. ASSUME InMode
        PROVE  On \in Channel /\ Adds \in BOOLEAN
    BY <1>1 DEF Inv, CommandOnChannel, InMode, Adds
  <1>2. CASE ModeInvite /\ InMode
    <2>1. LET new == [On EXCEPT !.inviteChannel = Adds]
          IN  /\ new \in Channel /\ new.clients = On.clients
              /\ new.invited = On.invited /\ Applies("i", new)
      BY <1>1, <1>2 DEF ModeInvite, Channel
    <2> QED
      BY <1>1, <1>2, <2>1 DEF LetterStep, Applies
  <1>3. CASE ModeTopic /\ InMode
    <2>1. LET new == [On EXCEPT !.topicProtected = Adds]
          IN  /\ new \in Channel /\ new.clients = On.clients
              /\ new.invited = On.invited /\ Applies("t", new)
      BY <1>1, <1>3 DEF ModeTopic, Channel
    <2> QED
      BY <1>1, <1>3, <2>1 DEF LetterStep, Applies
  <1>4. ASSUME NEW n \in Nicks, ModeOperator(n), InMode
        PROVE  LetterStep
    <2> DEFINE new == IF Adds THEN Promoted(On, n) ELSE Demoted(On, n)
    <2>1. Applies("o", new) /\ HasNick(On.clients, n)
      BY <1>4 DEF ModeOperator
    <2>2. /\ new \in Channel /\ new.clients = On.clients
          /\ new.invited = On.invited
      BY <1>1, <1>4, <2>1, PromotedOK, DemotedOK
    <2> HIDE DEF new
    <2> QED
      BY <1>1, <1>4, <2>1, <2>2 DEF LetterStep, Applies
  <1>5. ASSUME NEW v \in Limits, ModeLimit(v), InMode
        PROVE  LetterStep
    <2> DEFINE new == IF Adds THEN Limited(On, Atoi(v)) ELSE Unlimited(On)
    <2>1. Applies("l", new) /\ (Adds => Atoi(v) >= 0)
      BY <1>5 DEF ModeLimit
    <2>2. Atoi(v) \in Int
      <3>1. v \in Nat /\ IntMax \in Nat
        BY LimitsAssumption, IntMaxAssumption
      <3>2. /\ v + IntMax + 1 \in Int
            /\ 2 * (IntMax + 1) \in Nat /\ 2 * (IntMax + 1) > 0
        BY <3>1
      <3>3. (v + IntMax + 1) % (2 * (IntMax + 1)) \in Int
        BY <3>2
      <3> QED
        BY <3>1, <3>3 DEF Atoi
    <2>3. /\ new \in Channel /\ new.clients = On.clients
          /\ new.invited = On.invited
      <3> HIDE DEF Atoi
      <3>1. CASE Adds
        <4>1. Atoi(v) \in Nat
          BY <2>1, <2>2, <3>1
        <4> QED
          BY <1>1, <1>5, <3>1, <4>1 DEF Limited, Channel
      <3>2. CASE ~Adds
        BY <1>1, <1>5, <3>2 DEF Unlimited, Channel
      <3> QED
        BY <3>1, <3>2
    <2> HIDE DEF new
    <2> QED
      BY <1>1, <1>5, <2>1, <2>3 DEF LetterStep, Applies
  <1>6. ASSUME NEW key \in Keys, ModeKey(key), InMode
        PROVE  LetterStep
    <2> DEFINE new == [On EXCEPT !.isProtected = Adds,
                                 !.pass = IF Adds THEN key ELSE NoKey]
    <2>1. Applies("k", new)
      BY <1>6 DEF ModeKey
    <2>2. /\ new \in Channel /\ new.clients = On.clients
          /\ new.invited = On.invited
      BY <1>1, <1>6 DEF Channel
    <2> HIDE DEF new
    <2> QED
      BY <1>1, <1>6, <2>1, <2>2 DEF LetterStep, Applies
  <1>7. /\ ModeInvite \/ ModeTopic => InMode
        /\ \A n : ModeOperator(n) => InMode
        /\ \A v : ModeLimit(v) => InMode
        /\ \A key : ModeKey(key) => InMode
    BY DEF ModeInvite, ModeTopic, ModeOperator, ModeLimit, ModeKey
  <1> QED
    BY <1>2, <1>3, <1>4, <1>5, <1>6, <1>7
    DEF CommandLoop, KickStep

LEMMA CommandLoopOK ==
  ASSUME Inv, CommandLoop
  PROVE  Inv'
  <1>1. CASE EndCommand
    <2>1. IInv' /\ command' = NoCommand
      BY <1>1 DEF EndCommand, Inv, IInv, Typed, ClientsDistinct, Present
    <2> QED
      BY <2>1, IdleInv
  <1>2. CASE KickStep
    BY <1>2, KickClientOK DEF KickStep
  <1>3. CASE LetterStep
    BY <1>3, LetterOK DEF LetterStep
  <1> QED
    BY <1>1, <1>2, <1>3, CommandLoopCases
-----------------------------------------------------------------------------
(* MODE and KICK look at a channel; nothing else runs until EndCommand.    *)
LEMMA BeginOK ==
  ASSUME IInv, NEW s \in Fds, NEW c \in ChannelNames,
         NEW kind \in Signs \cup {"kick"}, Begin(s, c, kind),
         kind = "kick" => HasClient(channels[c], s)
  PROVE  Inv'
  <1>1. /\ command' = [by |-> s, on |-> c, kind |-> kind]
        /\ UNCHANGED <<client, channels, swept>> /\ channels[c] # NoChannel
        /\ Present(s)
    BY DEF Begin, Exists, Serves
  <1>2. command' \in Command /\ command'.on = c /\ command'.by = s
        /\ command'.kind = kind
    BY <1>1 DEF Command
  <1>3. IInv'
    BY <1>1, <1>2 DEF IInv, Typed, ClientsDistinct, Present
  <1>4. On' = channels[c] /\ On' \in Channel
    BY <1>1, <1>2 DEF On, IInv, Clean, Good
  <1>5. KickerStays'
    BY <1>1, <1>2, <1>4 DEF KickerStays, InKick, Present
  <1> QED
    BY <1>3, <1>4, <1>5 DEF Inv, CommandOnChannel

LEMMA NextOK ==
  ASSUME Inv, [Next]_vars
  PROVE  Inv'
  <1>0. IInv
    BY DEF Inv
  <1>1. CASE UNCHANGED vars
    BY <1>1 DEF vars, Inv, IInv, Typed, ClientsDistinct, Present, CommandOnChannel,
                On, KickerStays, InKick
  <1>2. CASE CommandLoop
    BY <1>2, CommandLoopOK
  <1>3. ASSUME NEW s \in Fds, Quit(s)
        PROVE  Inv'
    BY <1>0, <1>3, QuitOK, IdleInv DEF Quit, Serves
  <1>4. ASSUME NEW s \in Fds, Evict(s)
        PROVE  Inv'
    BY <1>0, <1>4, EvictOK, IdleInv DEF Evict, Serves
  <1>5. ASSUME NEW s \in Fds, NEW n \in Nicks, SignOn(s, n)
        PROVE  Inv'
    BY <1>0, <1>5, SignOnOK, IdleInv DEF SignOn
  <1>6. ASSUME NEW s \in Fds, NEW n \in Nicks, ChangeNick(s, n)
        PROVE  Inv'
    BY <1>0, <1>6, ChangeNickOK, IdleInv DEF ChangeNick, Serves
  <1>7. ASSUME NEW s \in Fds, NEW c \in ChannelNames, PartChannel(s, c)
        PROVE  Inv'
    BY <1>0, <1>7, PartChannelOK, IdleInv DEF PartChannel, Serves
  <1>8. ASSUME NEW s \in Fds, NEW c \in ChannelNames,
               NEW key \in Keys \cup {NoKey}, CreateChannel(s, c, key)
        PROVE  Inv'
    BY <1>0, <1>8, CreateChannelOK, IdleInv DEF CreateChannel, Serves
  <1>9. ASSUME NEW s \in Fds, NEW c \in ChannelNames,
               NEW key \in Keys \cup {NoKey}, JoinChannel(s, c, key)
        PROVE  Inv'
    BY <1>0, <1>9, JoinChannelOK, IdleInv DEF JoinChannel, Serves
  <1>10. ASSUME NEW s \in Fds, NEW c \in ChannelNames, BeginKick(s, c)
         PROVE  Inv'
    BY <1>0, <1>10, BeginOK DEF BeginKick
  <1>11. ASSUME NEW s \in Fds, NEW c \in ChannelNames, NEW m \in Member,
                Invite(s, m, c)
         PROVE  Inv'
    BY <1>0, <1>11, InviteOK, IdleInv DEF Invite, Serves
  <1>12. ASSUME NEW s \in Fds, NEW c \in ChannelNames, NEW sign \in Signs,
                BeginMode(s, c, sign)
         PROVE  Inv'
    BY <1>0, <1>12, BeginOK DEF BeginMode, Signs
  <1>13. ASSUME NEW s \in Fds, NEW n \in Nicks \cup {NoNick},
                QuitHandshake(s, n)
         PROVE  Inv'
    BY <1>0, <1>13, QuitHandshakeOK, IdleInv DEF QuitHandshake
  <1>14. ASSUME NEW s \in Fds, NEW c \in ChannelNames, NEW text \in Topics,
                SetTopic(s, c, text)
         PROVE  Inv'
    BY <1>0, <1>14, SetTopicOK, IdleInv DEF SetTopic, Serves
  <1> QED
    BY <1>1, <1>2, <1>3, <1>4, <1>5, <1>6, <1>7, <1>8, <1>9, <1>10, <1>11,
       <1>12, <1>13, <1>14 DEF Next, ChannelCommand

LEMMA Inductive == Spec => []Inv
  <1>1. Init => Inv
    BY InitOK DEF Init, Inv, CommandOnChannel, KickerStays, InKick
  <1>2. Inv /\ [Next]_vars => Inv'
    BY NextOK
  <1> QED
    BY <1>1, <1>2, PTL DEF Spec

(* The state of the channel commands has its type: whatever atoi makes of  *)
(* a number, a limit is never negative.                                    *)
THEOREM TypeCorrect == Spec => []TypeOK
  <1>1. Inv => TypeOK
    BY ImpliesChecked DEF Inv
  <1> QED
    BY <1>1, Inductive, PTL

(* No descriptor is a member of a channel twice, sweeps included.          *)
THEOREM MembersOnce == Spec => []MemberOnce
  <1>1. Inv => MemberOnce
    BY ImpliesChecked DEF Inv
  <1> QED
    BY <1>1, Inductive, PTL

(* QUIT, KICK, PART and NICK keep the members of all channels in step with *)
(* the clients, as long as no sweep has removed one.                       *)
THEOREM MembersAlwaysLive == Spec => []MembersLive
  <1>1. Inv => MembersLive
    BY ImpliesChecked DEF Inv
  <1> QED
    BY <1>1, Inductive, PTL

(* Until a sweep removes a client, no channel that exists is empty.        *)
THEOREM ChannelsNeverEmpty == Spec => []ChannelsNonEmpty
  <1>1. Inv => ChannelsNonEmpty
    BY ImpliesChecked DEF Inv
  <1> QED
    BY <1>1, Inductive, PTL
=============================================================================
