---------------------------- MODULE RosterProofs ----------------------------
(***************************************************************************)
(* Chat implements Roster, for any number of clients and channels: until a *)
(* sweep removes a client, every step of the channel commands is one of    *)
(* the roster on the descriptors that are told what is said in a channel,  *)
(* or none.                                                                *)
(***************************************************************************)
EXTENDS ChatProofs

Online == {s \in Fds : Present(s)}

(* The descriptors in a member vector. *)
Socks(v) == {v[i].sock : i \in 1..Len(v)}

(* A broadcast that leaves nobody out goes to the members.                 *)
LEMMA RecipientsOK ==
  ASSUME NEW ch \in Channel
  PROVE  /\ Recipients(ch, Nobody) = Socks(ch.clients)
         /\ Socks(ch.clients) \subseteq Fds
         /\ \A s : s \in Socks(ch.clients) <=> HasClient(ch, s)
         /\ Socks(ch.clients) = {} <=> ch.clients = <<>>
  <1> DEFINE v == ch.clients
  <1>1. v \in Seq(Member)
    BY DEF Channel
  <1>2. Socks(v) \subseteq Fds
    <2> SUFFICES ASSUME NEW i \in 1..Len(v)
                 PROVE  v[i].sock \in Fds
      BY DEF Socks
    <2>1. v[i] \in Member
      BY <1>1
    <2> QED
      BY <2>1 DEF Member
  <1>3. Recipients(ch, Nobody) = Socks(v)
    BY <1>2, NobodyAssumption DEF Recipients, Socks
  <1>4. \A s : s \in Socks(v) <=> HasClient(ch, s)
    BY DEF Socks, HasClient, HasSocket
  <1>5. Socks(v) = {} <=> v = <<>>
    <2>1. v = <<>> <=> Len(v) = 0
      BY <1>1
    <2>2. Len(v) # 0 => v[1].sock \in Socks(v)
      BY <1>1 DEF Socks
    <2>3. Len(v) = 0 => Socks(v) = {}
      BY DEF Socks
    <2> QED
      BY <2>1, <2>2, <2>3
  <1> QED
    BY <1>2, <1>3, <1>4, <1>5

LEMMA ToldIsMembers ==
  ASSUME NEW c, Exists(c), channels[c] \in Channel
  PROVE  /\ Told(c) = Socks(channels[c].clients)
         /\ Told(c) \subseteq Fds
         /\ \A s : s \in Told(c) <=> HasClient(channels[c], s)
         /\ Told(c) = {} <=> channels[c].clients = <<>>
  BY RecipientsOK DEF Told

(* The invariant, channel by channel.                                      *)
LEMMA GoodChannel ==
  ASSUME IInv, NEW c \in ChannelNames, Exists(c)
  PROVE  /\ Good(channels[c], client, swept)
         /\ channels[c] \in Channel
         /\ channels[c].clients \in Seq(Member)
         /\ EachSocketOnce(channels[c].clients)
  BY DEF IInv, Clean, Exists, Good, Channel

(* Until a sweep, a channel that exists has members.                       *)
LEMMA ToldNonEmpty ==
  ASSUME IInv, ~swept, NEW c \in ChannelNames, Exists(c)
  PROVE  Told(c) # {}
  BY GoodChannel, ToldIsMembers DEF Good

(* One channel is replaced: what becomes of the roster.                    *)
LEMMA OneChannelTold ==
  ASSUME IInv, NEW c \in ChannelNames, NEW ch,
         ch = NoChannel \/ ch \in Channel,
         channels' = [channels EXCEPT ![c] = ch]
  PROVE  /\ Told(c)' = IF ch = NoChannel THEN {} ELSE Socks(ch.clients)
         /\ c \in Existing' <=> ch # NoChannel
         /\ \A d \in ChannelNames \ {c} :
              Told(d)' = Told(d) /\ (d \in Existing' <=> d \in Existing)
  <1>1. /\ channels'[c] = ch
        /\ \A d \in ChannelNames \ {c} : channels'[d] = channels[d]
    BY DEF IInv, Clean
  <1>2. Told(c)' = IF ch = NoChannel THEN {} ELSE Socks(ch.clients)
    BY <1>1, RecipientsOK DEF Told, Exists
  <1> QED
    BY <1>1, <1>2 DEF Told, Exists, Existing

(* Removing a descriptor from a vector that has it once removes it and     *)
(* nothing else.                                                           *)
LEMMA SocksWithout ==
  ASSUME NEW v \in Seq(Member), EachSocketOnce(v), NEW s
  PROVE  Socks(WithoutSocket(v, s)) = Socks(v) \ {s}
  <1> DEFINE w == WithoutSocket(v, s)
  <1>1. /\ \A j \in 1..Len(w) : \E i \in 1..Len(v) : w[j] = v[i]
        /\ \A i \in 1..Len(v) : v[i].sock # s =>
             \E j \in 1..Len(w) : w[j] = v[i]
        /\ ~HasSocket(w, s)
    BY WithoutSocketOK
  <1> HIDE DEF w
  <1>2. Socks(w) = Socks(v) \ {s}
    BY <1>1 DEF Socks, HasSocket
  <1> QED
    BY <1>2 DEF w

(* So does removing a nickname, where nicknames and descriptors go         *)
(* together.                                                               *)
LEMMA SocksErased ==
  ASSUME IInv, ~swept, NEW c \in ChannelNames, Exists(c),
         NEW s \in Fds, HasClient(channels[c], s)
  PROVE  LET new == Erased(channels[c], client[s])
         IN  new \in Channel /\ Socks(new.clients) = Told(c) \ {s}
  <1> DEFINE v == channels[c].clients
             n == client[s]
             w == WithoutNick(v, n)
  <1>1. /\ channels[c] \in Channel /\ v \in Seq(Member)
        /\ Good(channels[c], client, FALSE)
    BY GoodChannel DEF IInv, Typed
  <1>2. Present(s)
    BY <1>1, AbsentIsNoMember
  <1>3. /\ Erased(channels[c], n) \in Channel
        /\ Erased(channels[c], n).clients = w
    BY <1>1, ErasedOK
  <1>4. ~HasSocket(w, s)
    BY <1>1, <1>2, <1>3, ErasedIsGone DEF IInv, HasClient
  <1>5. /\ \A j \in 1..Len(w) : \E i \in 1..Len(v) : w[j] = v[i]
        /\ \A i \in 1..Len(v) : v[i].nick # n =>
             \E j \in 1..Len(w) : w[j] = v[i]
    BY <1>1, WithoutNickOK
  <1> HIDE DEF w
  <1>6. \A i \in 1..Len(v) : v[i].sock # s => v[i].nick # n
    <2> SUFFICES ASSUME NEW i \in 1..Len(v), v[i].sock # s
                 PROVE  v[i].nick # n
      OBVIOUS
    <2>1. v[i] \in Member
      BY <1>1
    <2>2. v[i].sock \in Fds /\ client[v[i].sock] = v[i].nick
      BY <1>1, <2>1 DEF Good, Live, Member
    <2> QED
      BY <1>2, <2>2 DEF IInv, ClientsDistinct
  <1>7. Socks(w) = Socks(v) \ {s}
    <2> HIDE DEF v, n
    <2>1. ASSUME NEW j \in 1..Len(w)
          PROVE  w[j].sock \in Socks(v) /\ w[j].sock # s
      BY <1>4, <1>5 DEF Socks, HasSocket
    <2>2. ASSUME NEW i \in 1..Len(v), v[i].sock # s
          PROVE  v[i].sock \in Socks(w)
      <3>1. v[i].nick # n
        BY <1>6, <2>2
      <3>2. PICK j \in 1..Len(w) : w[j] = v[i]
        BY <1>5, <3>1
      <3> QED
        BY <3>2 DEF Socks
    <2> QED
      BY <2>1, <2>2 DEF Socks
  <1>8. Told(c) = Socks(v)
    <2>1. channels[c] \in Channel
      BY GoodChannel
    <2> QED
      BY <2>1, ToldIsMembers
  <1> QED
    BY <1>3, <1>7, <1>8
-----------------------------------------------------------------------------
(***************************************************************************)
(* What a step of Chat has to do to be a step of the roster.               *)
(***************************************************************************)

(* Nothing that the roster knows of.                                       *)
LEMMA StutterOK ==
  ASSUME UNCHANGED <<Online, Existing, swept>>,
         \A c \in ChannelNames : Told(c)' = Told(c)
  PROVE  UNCHANGED Promise!vars
  BY DEF Promise!vars, Online

LEMMA EnterOK ==
  ASSUME NEW s \in Fds, s \notin Online, Online' = Online \cup {s},
         UNCHANGED <<Existing, swept>>,
         \A c \in ChannelNames : Told(c)' = Told(c)
  PROVE  Promise!Next
  BY DEF Promise!Next, Promise!Kept, Promise!Step, Promise!Enter, Online

LEMMA DepartOK ==
  ASSUME NEW s \in Online, Online' = Online \ {s}, UNCHANGED swept,
         \A c \in ChannelNames : Told(c)' = Told(c) \ {s},
         Existing' = {c \in Existing : Told(c)' # {}}
  PROVE  Promise!Next
  BY DEF Promise!Next, Promise!Kept, Promise!Step, Promise!Depart, Online,
         Existing

LEMMA RosterJoinOK ==
  ASSUME NEW s \in Online, NEW c \in ChannelNames, s \notin Told(c),
         UNCHANGED <<Online, swept>>,
         Told(c)' = Told(c) \cup {s},
         \A d \in ChannelNames \ {c} : Told(d)' = Told(d),
         Existing' = Existing \cup {c}
  PROVE  Promise!Next
  BY DEF Promise!Next, Promise!Kept, Promise!Step, Promise!Join, Online

LEMMA RosterLeaveOK ==
  ASSUME NEW s \in Fds, NEW c \in ChannelNames, s \in Told(c),
         UNCHANGED <<Online, swept>>,
         Told(c)' = Told(c) \ {s},
         \A d \in ChannelNames \ {c} : Told(d)' = Told(d),
         Existing' = {d \in Existing : Told(d)' # {}}
  PROVE  Promise!Next
  BY DEF Promise!Next, Promise!Kept, Promise!Step, Promise!Leave, Online,
         Existing
-----------------------------------------------------------------------------
(***************************************************************************)
(* The steps of Chat.                                                      *)
(***************************************************************************)

(* A command that leaves the members of its channel alone.                 *)
LEMMA SameMembersStutters ==
  ASSUME IInv, NEW c \in ChannelNames, Exists(c), NEW ch \in Channel,
         ch.clients = channels[c].clients,
         channels' = [channels EXCEPT ![c] = ch], UNCHANGED <<client, swept>>
  PROVE  UNCHANGED Promise!vars
  <1>1. ch # NoChannel
    BY NoChannelAssumption
  <1>2. Told(c)' = Told(c)
    BY <1>1, OneChannelTold, GoodChannel, ToldIsMembers
  <1>3. \A d \in ChannelNames : Told(d)' = Told(d)
    BY <1>2, OneChannelTold
  <1>4. Existing' = Existing
    BY <1>1, OneChannelTold DEF Existing
  <1>5. UNCHANGED Online
    BY DEF Online, Present
  <1> QED
    BY <1>3, <1>4, <1>5, StutterOK

LEMMA InviteStutters ==
  ASSUME IInv, NEW s \in Fds, NEW m \in Member, NEW c \in ChannelNames,
         Invite(s, m, c)
  PROVE  UNCHANGED Promise!vars
  <1> DEFINE new == InvitedTo(channels[c], m)
  <1>1. Exists(c) /\ channels[c] \in Channel
    BY GoodChannel DEF Invite
  <1>2. new \in Channel /\ new.clients = channels[c].clients
    BY <1>1, InvitedToOK
  <1>3. channels' = [channels EXCEPT ![c] = new] /\ UNCHANGED <<client, swept>>
    BY DEF Invite, IInv, Clean
  <1> HIDE DEF new
  <1> QED
    BY <1>1, <1>2, <1>3, SameMembersStutters

LEMMA SetTopicStutters ==
  ASSUME IInv, NEW s \in Fds, NEW c \in ChannelNames, NEW text \in Topics,
         SetTopic(s, c, text)
  PROVE  UNCHANGED Promise!vars
  <1> DEFINE new == [channels[c] EXCEPT !.topic = text]
  <1>1. Exists(c) /\ channels[c] \in Channel
    BY GoodChannel DEF SetTopic
  <1>2. new \in Channel /\ new.clients = channels[c].clients
    BY <1>1 DEF Channel
  <1>3. channels' = [channels EXCEPT ![c] = new] /\ UNCHANGED <<client, swept>>
    BY DEF SetTopic, IInv, Clean
  <1> HIDE DEF new
  <1> QED
    BY <1>1, <1>2, <1>3, SameMembersStutters

LEMMA LetterStutters ==
  ASSUME Inv, EndCommand \/ LetterStep
  PROVE  UNCHANGED Promise!vars
  <1>1. CASE EndCommand
    BY <1>1, StutterOK
       DEF EndCommand, Online, Present, Existing, Exists, Told
  <1>2. CASE LetterStep
    <2>1. PICK l \in Letters, new \in Channel :
            new.clients = On.clients /\ Applies(l, new)
      BY <1>2 DEF LetterStep
    <2>2. command.on \in ChannelNames /\ Exists(command.on)
      BY <1>2, NoChannelAssumption
         DEF LetterStep, InMode, Inv, IInv, Typed, Command, CommandOnChannel, On,
             Exists
    <2> QED
      BY <2>1, <2>2, SameMembersStutters DEF Applies, On, Inv
  <1> QED
    BY <1>1, <1>2

LEMMA BeginStutters ==
  ASSUME NEW s, NEW c, NEW kind, Begin(s, c, kind)
  PROVE  UNCHANGED Promise!vars
  BY StutterOK DEF Begin, Online, Present, Existing, Exists, Told

(* The end of a handshake.                                                 *)
LEMMA SignOnEnters ==
  ASSUME IInv, NEW s \in Fds, NEW n \in Nicks, SignOn(s, n)
  PROVE  Promise!Next
  <1>1. UNCHANGED <<channels, swept>> /\ s \notin Online
    BY DEF SignOn, Online
  <1>2. Online' = Online \cup {s}
    BY NoNickAssumption DEF SignOn, Online, Present, IInv, Typed
  <1>3. UNCHANGED Existing /\ \A c \in ChannelNames : Told(c)' = Told(c)
    BY <1>1 DEF Existing, Exists, Told
  <1> QED
    BY <1>1, <1>2, <1>3, EnterOK

(* NICK renames members in place.                                          *)
LEMMA ChangeNickStutters ==
  ASSUME IInv, NEW s \in Fds, NEW n \in Nicks, ChangeNick(s, n)
  PROVE  UNCHANGED Promise!vars
  <1>1. /\ UNCHANGED swept /\ Present(s) /\ client' = [client EXCEPT ![s] = n]
        /\ channels' = AfterNick(s, n)
    BY DEF ChangeNick, Serves
  <1>2. UNCHANGED Online
    BY <1>1, NoNickAssumption DEF Online, Present, IInv, Typed
  <1>3. ASSUME NEW c \in ChannelNames
        PROVE  Told(c)' = Told(c) /\ (Exists(c)' <=> Exists(c))
    <2> DEFINE ch == channels[c]
               new == Renamed(ch, s, n)
    <2>1. CASE Exists(c) /\ HasClient(ch, s)
      <3>1. ch \in Channel /\ ch.clients \in Seq(Member)
        BY <2>1, GoodChannel
      <3>2. /\ new \in Channel /\ Len(new.clients) = Len(ch.clients)
            /\ \A i \in 1..Len(ch.clients) : new.clients[i] =
                 IF ch.clients[i].sock = s THEN [sock |-> s, nick |-> n]
                                           ELSE ch.clients[i]
        BY <3>1, RenamedOK
      <3>3. channels'[c] = new
        BY <1>1, <2>1 DEF AfterNick
      <3> HIDE DEF new
      <3>4. \A i \in 1..Len(ch.clients) :
              new.clients[i].sock = ch.clients[i].sock
        BY <3>2
      <3>5. Socks(new.clients) = Socks(ch.clients)
        BY <3>2, <3>4 DEF Socks
      <3>6. new # NoChannel
        BY <3>2, NoChannelAssumption
      <3> QED
        BY <2>1, <3>1, <3>2, <3>3, <3>5, <3>6, RecipientsOK DEF Told, Exists
    <2>2. CASE ~(Exists(c) /\ HasClient(ch, s))
      <3>1. channels'[c] = ch
        BY <1>1, <2>2 DEF AfterNick
      <3> QED
        BY <3>1 DEF Told, Exists
    <2> QED
      BY <2>1, <2>2
  <1>4. UNCHANGED Existing
    BY <1>3 DEF Existing
  <1> QED
    BY <1>1, <1>2, <1>3, <1>4, StutterOK

(* QUIT removes the client from every channel, and no other.               *)
LEMMA QuitDeparts ==
  ASSUME IInv, ~swept, NEW s \in Fds, Quit(s)
  PROVE  Promise!Next
  <1>1. /\ UNCHANGED swept /\ Present(s)
        /\ client' = [client EXCEPT ![s] = NoNick]
        /\ channels' = AfterQuit(s, client[s])
    BY DEF Quit, Serves
  <1>2. s \in Online /\ Online' = Online \ {s}
    BY <1>1 DEF Online, Present, IInv, Typed
  <1>3. ASSUME NEW c \in ChannelNames
        PROVE  /\ Told(c)' = Told(c) \ {s}
               /\ Exists(c)' <=> Exists(c) /\ Told(c)' # {}
    <2> DEFINE ch == channels[c]
               new == Erased(ch, client[s])
    <2>1. CASE Exists(c) /\ HasClient(ch, s)
      <3>1. new \in Channel /\ Socks(new.clients) = Told(c) \ {s}
        BY <2>1, SocksErased
      <3>2. channels'[c] = IfUsed(new)
        BY <1>1, <2>1 DEF AfterQuit
      <3> HIDE DEF new
      <3>3. /\ Recipients(new, Nobody) = Socks(new.clients)
            /\ Socks(new.clients) = {} <=> new.clients = <<>>
            /\ new # NoChannel
        BY <3>1, RecipientsOK, NoChannelAssumption
      <3> QED
        BY <2>1, <3>1, <3>2, <3>3 DEF IfUsed, Told, Exists
    <2>2. CASE ~(Exists(c) /\ HasClient(ch, s))
      <3>1. channels'[c] = ch
        BY <1>1, <2>2 DEF AfterQuit
      <3>2. Told(c)' = Told(c) /\ (Exists(c)' <=> Exists(c))
        BY <3>1 DEF Told, Exists
      <3>3. s \notin Told(c)
        BY <2>2, GoodChannel, ToldIsMembers DEF Told
      <3>4. Exists(c) => Told(c) # {}
        BY ToldNonEmpty
      <3> QED
        BY <3>2, <3>3, <3>4
    <2> QED
      BY <2>1, <2>2
  <1>4. Existing' = {c \in Existing : Told(c)' # {}}
    BY <1>3 DEF Existing
  <1> QED
    BY <1>1, <1>2, <1>3, <1>4, DepartOK

(* Until a sweep, no channel knows the descriptor of a broken handshake.   *)
LEMMA QuitHandshakeStutters ==
  ASSUME IInv, ~swept, NEW s \in Fds, NEW n, QuitHandshake(s, n)
  PROVE  UNCHANGED Promise!vars
  <1>1. /\ UNCHANGED <<client, swept>> /\ ~Present(s)
        /\ channels' = AfterQuit(s, n)
    BY DEF QuitHandshake
  <1>2. ASSUME NEW c \in ChannelNames
        PROVE  channels'[c] = channels[c]
    <2>1. Exists(c) => ~HasClient(channels[c], s)
      BY <1>1, GoodChannel, AbsentIsNoMember DEF IInv, Typed
    <2> QED
      BY <1>1, <2>1 DEF AfterQuit
  <1>3. UNCHANGED <<Online, Existing>>
        /\ \A c \in ChannelNames : Told(c)' = Told(c)
    BY <1>1, <1>2 DEF Online, Present, Existing, Exists, Told
  <1> QED
    BY <1>1, <1>3, StutterOK

LEMMA CreateChannelJoins ==
  ASSUME IInv, NEW s \in Fds, NEW c \in ChannelNames,
         NEW key \in Keys \cup {NoKey}, CreateChannel(s, c, key)
  PROVE  Promise!Next
  <1> DEFINE new == NewChannel(Me(s), key)
  <1>1. /\ s \in Online /\ Me(s) \in Member /\ Me(s).sock = s
        /\ ~Exists(c) /\ Told(c) = {}
    BY MeOK DEF CreateChannel, Serves, Online, Told
  <1>2. new \in Channel /\ new.clients = <<Me(s)>>
    BY <1>1, NewChannelOK
  <1>3. channels' = [channels EXCEPT ![c] = new] /\ UNCHANGED <<client, swept>>
    BY DEF CreateChannel
  <1> HIDE DEF new
  <1>4. Socks(new.clients) = {s} /\ new # NoChannel
    BY <1>1, <1>2, NoChannelAssumption DEF Socks
  <1>5. Told(c)' = Told(c) \cup {s}
    BY <1>1, <1>2, <1>3, <1>4, OneChannelTold
  <1>6. Existing' = Existing \cup {c}
    BY <1>2, <1>3, <1>4, OneChannelTold DEF Existing
  <1>7. \A d \in ChannelNames \ {c} : Told(d)' = Told(d)
    BY <1>2, <1>3, OneChannelTold
  <1>8. UNCHANGED Online
    BY <1>3 DEF Online, Present
  <1> QED
    BY <1>1, <1>3, <1>5, <1>6, <1>7, <1>8, RosterJoinOK

LEMMA JoinChannelJoins ==
  ASSUME IInv, NEW s \in Fds, NEW c \in ChannelNames, NEW key,
         JoinChannel(s, c, key)
  PROVE  Promise!Next
  <1> DEFINE ch == channels[c]
             m == Me(s)
             new == Joined(ch, m)
  <1>1. /\ s \in Online /\ m \in Member /\ m.sock = s
        /\ Exists(c) /\ ~HasClient(ch, s)
    BY MeOK DEF JoinChannel, Serves, NewTo, Online
  <1>2. ch \in Channel /\ ch.clients \in Seq(Member)
    BY <1>1, GoodChannel
  <1>3. new \in Channel /\ new.clients = Append(ch.clients, m)
    BY <1>1, <1>2, JoinedOK
  <1>4. channels' = [channels EXCEPT ![c] = new] /\ UNCHANGED <<client, swept>>
    BY DEF JoinChannel, IInv, Clean
  <1> HIDE DEF new, m
  <1>5. Socks(new.clients) = Socks(ch.clients) \cup {s} /\ new # NoChannel
    <2> DEFINE v == ch.clients
    <2>1. /\ Len(Append(v, m)) = Len(v) + 1 /\ Len(v) \in Nat
          /\ \A i \in 1..Len(v) : Append(v, m)[i] = v[i]
          /\ Append(v, m)[Len(v) + 1] = m
      BY <1>1, <1>2
    <2>2. \A i : i \in 1..(Len(v) + 1) <=> i \in 1..Len(v) \/ i = Len(v) + 1
      BY <2>1
    <2>3. Socks(Append(v, m)) = Socks(v) \cup {s}
      BY <1>1, <2>1, <2>2 DEF Socks
    <2> QED
      BY <1>3, <2>3, NoChannelAssumption
  <1>6. Told(c)' = Told(c) \cup {s} /\ s \notin Told(c)
    BY <1>1, <1>2, <1>3, <1>4, <1>5, OneChannelTold, ToldIsMembers
  <1>7. Existing' = Existing \cup {c}
    BY <1>1, <1>3, <1>4, <1>5, OneChannelTold DEF Existing
  <1>8. \A d \in ChannelNames \ {c} : Told(d)' = Told(d)
    BY <1>3, <1>4, OneChannelTold
  <1>9. UNCHANGED Online
    BY <1>4 DEF Online, Present
  <1> QED
    BY <1>1, <1>4, <1>6, <1>7, <1>8, <1>9, RosterJoinOK

(* One member is removed from one channel, which is deleted if that leaves *)
(* it empty.                                                               *)
LEMMA RemovalLeaves ==
  ASSUME IInv, ~swept, NEW s \in Fds, NEW c \in ChannelNames, Exists(c),
         s \in Told(c), NEW new \in Channel,
         Socks(new.clients) = Told(c) \ {s},
         channels' = [channels EXCEPT ![c] = IfUsed(new)],
         UNCHANGED <<client, swept>>
  PROVE  Promise!Next
  <1>1. /\ new # NoChannel
        /\ Socks(new.clients) = {} <=> new.clients = <<>>
    BY RecipientsOK, NoChannelAssumption
  <1>2. IfUsed(new) = NoChannel \/ IfUsed(new) \in Channel
    BY DEF IfUsed
  <1>3. /\ Told(c)' = IF IfUsed(new) = NoChannel THEN {}
                                                ELSE Socks(IfUsed(new).clients)
        /\ c \in Existing' <=> IfUsed(new) # NoChannel
        /\ \A d \in ChannelNames \ {c} :
             Told(d)' = Told(d) /\ (d \in Existing' <=> d \in Existing)
    BY <1>2, OneChannelTold
  <1>4. Told(c)' = Told(c) \ {s} /\ (c \in Existing' <=> Told(c)' # {})
    BY <1>1, <1>3 DEF IfUsed
  <1>5. \A d \in ChannelNames \ {c} : d \in Existing => Told(d)' # {}
    BY <1>3, ToldNonEmpty DEF Existing
  <1>6. Existing' = {d \in Existing : Told(d)' # {}}
    BY <1>3, <1>4, <1>5 DEF Existing
  <1>7. UNCHANGED Online
    BY DEF Online, Present
  <1> QED
    BY <1>3, <1>4, <1>6, <1>7, RosterLeaveOK

LEMMA PartChannelLeaves ==
  ASSUME IInv, ~swept, NEW s \in Fds, NEW c \in ChannelNames,
         PartChannel(s, c)
  PROVE  Promise!Next
  <1> DEFINE ch == channels[c]
             new == Parted(ch, s, client[s])
  <1>1. Exists(c) /\ HasClient(ch, s)
    BY DEF PartChannel
  <1>2. /\ ch \in Channel /\ ch.clients \in Seq(Member)
        /\ EachSocketOnce(ch.clients)
    BY <1>1, GoodChannel
  <1>3. new \in Channel /\ new.clients = WithoutSocket(ch.clients, s)
    BY <1>2, PartedOK
  <1>4. Socks(new.clients) = Told(c) \ {s} /\ s \in Told(c)
    BY <1>1, <1>2, <1>3, SocksWithout, ToldIsMembers
  <1>5. /\ channels' = [channels EXCEPT ![c] = IfUsed(new)]
        /\ UNCHANGED <<client, swept>>
    BY DEF PartChannel, IInv, Clean
  <1> HIDE DEF new
  <1> QED
    BY <1>1, <1>3, <1>4, <1>5, RemovalLeaves

(* KICK removes the client of the nickname; who kicks stays.               *)
LEMMA KickClientLeaves ==
  ASSUME Inv, ~swept, NEW n \in Nicks, KickClient(n)
  PROVE  Promise!Next
  <1> USE DEF Inv
  <1> DEFINE c == command.on
             s == command.by
             ch == channels[c]
             new == Erased(ch, n)
  <1>1. /\ c \in ChannelNames /\ s \in Fds /\ Exists(c)
        /\ HasClient(ch, s) /\ HasNick(ch.clients, n) /\ client[s] # n
    BY NoChannelAssumption
       DEF KickClient, InKick, KickerStays, CommandOnChannel, On, Exists, IInv,
           Typed, Command
  <1> HIDE DEF c, s
  <1>2. /\ ch \in Channel /\ ch.clients \in Seq(Member)
        /\ Good(ch, client, FALSE)
    BY <1>1, GoodChannel DEF IInv, Typed
  <1>3. PICK i \in 1..Len(ch.clients) : ch.clients[i].nick = n
    BY <1>1 DEF HasNick
  <1> DEFINE k == ch.clients[i].sock
  <1>4. k \in Fds /\ client[k] = n /\ HasClient(ch, k)
    <2>1. ch.clients[i] \in Member
      BY <1>2
    <2> QED
      BY <1>2, <1>3, <2>1 DEF Good, Live, Member, HasClient, HasSocket
  <1> HIDE DEF k
  <1>5. new \in Channel /\ Socks(new.clients) = Told(c) \ {k}
    BY <1>1, <1>4, SocksErased
  <1>6. k \in Told(c) /\ s \in Told(c) /\ k # s
    BY <1>1, <1>2, <1>4, ToldIsMembers
  <1>7. channels' = [channels EXCEPT ![c] = new] /\ UNCHANGED <<client, swept>>
    BY DEF KickClient, IInv, Clean, On, c
  <1> HIDE DEF new
  <1>8. IfUsed(new) = new
    BY <1>5, <1>6, RecipientsOK DEF IfUsed
  <1> QED
    BY <1>1, <1>4, <1>5, <1>6, <1>7, <1>8, RemovalLeaves
-----------------------------------------------------------------------------
(* Until a sweep, who is told what is said in a channel is on the server.  *)
LEMMA ToldOnline ==
  ASSUME IInv, ~swept, NEW c \in ChannelNames
  PROVE  Told(c) \subseteq Online
  <1> SUFFICES ASSUME NEW s \in Told(c)
               PROVE  s \in Online
    OBVIOUS
  <1>1. Exists(c)
    BY DEF Told
  <1>2. s \in Fds /\ HasClient(channels[c], s)
    BY <1>1, GoodChannel, ToldIsMembers
  <1>3. PICK i \in 1..Len(channels[c].clients) :
          channels[c].clients[i].sock = s
    BY <1>2 DEF HasClient, HasSocket
  <1>4. channels[c].clients[i].nick \in Nicks
    <2>1. channels[c].clients[i] \in Member
      BY <1>1, GoodChannel
    <2> QED
      BY <2>1 DEF Member
  <1>5. client[s] = channels[c].clients[i].nick
    BY <1>1, <1>3, GoodChannel DEF Good, Live
  <1> QED
    BY <1>2, <1>4, <1>5, NoNickAssumption DEF Online, Present
(* Init maps to the roster's Init.                                         *)
LEMMA RosterInit == Init => Promise!Init
  BY DEF Init, Promise!Init, Present, Existing, Exists, Told

(* Once something was swept, anything goes.                                *)
LEMMA SweptBreaks ==
  ASSUME swept' = TRUE
  PROVE  Promise!Next
  BY DEF Promise!Next, Promise!Broken

(* Every step maps to a step of the roster or to none.                     *)
LEMMA RosterStep ==
  ASSUME Inv, [Next]_vars
  PROVE  [Promise!Next]_(Promise!vars)
  <1> USE DEF Inv
  <1>1. CASE UNCHANGED vars
    BY <1>1, StutterOK DEF vars, Online, Present, Existing, Exists, Told
  <1>2. CASE EndCommand \/ LetterStep
    BY <1>2, LetterStutters
  <1>3. ASSUME NEW s \in Fds, Evict(s)
        PROVE  Promise!Next
    BY <1>3, SweptBreaks DEF Evict
  <1>4. ASSUME NEW s \in Fds, NEW n \in Nicks, SignOn(s, n)
        PROVE  Promise!Next
    BY <1>4, SignOnEnters
  <1>5. ASSUME NEW s \in Fds, NEW n \in Nicks, ChangeNick(s, n)
        PROVE  UNCHANGED Promise!vars
    BY <1>5, ChangeNickStutters
  <1>6. ASSUME NEW s \in Fds, NEW c \in ChannelNames,
               NEW key \in Keys \cup {NoKey},
               CreateChannel(s, c, key) \/ JoinChannel(s, c, key)
        PROVE  Promise!Next
    BY <1>6, CreateChannelJoins, JoinChannelJoins
  <1>7. ASSUME NEW s \in Fds, NEW c \in ChannelNames,
               \/ \E m \in Member : Invite(s, m, c)
               \/ \E text \in Topics : SetTopic(s, c, text)
               \/ BeginKick(s, c) \/ \E sign \in Signs : BeginMode(s, c, sign)
        PROVE  UNCHANGED Promise!vars
    BY <1>7, InviteStutters, SetTopicStutters, BeginStutters
       DEF BeginKick, BeginMode
  <1>8. CASE swept
    <2>1. Next => swept' = TRUE
      BY <1>8
         DEF Next, ChannelCommand, CommandLoop, EndCommand, KickClient,
             ModeInvite, ModeTopic, ModeOperator, ModeLimit, ModeKey, Applies,
             Quit, Evict, QuitHandshake, SignOn, ChangeNick, PartChannel,
             CreateChannel, JoinChannel, Invite, SetTopic, Begin, BeginMode,
             BeginKick, IInv, Typed
    <2> QED
      BY <1>1, <2>1, SweptBreaks
  <1>9. CASE ~swept
    <2>1. ASSUME NEW s \in Fds, Quit(s)
          PROVE  Promise!Next
      BY <1>9, <2>1, QuitDeparts
    <2>2. ASSUME NEW s \in Fds, NEW n, QuitHandshake(s, n)
          PROVE  UNCHANGED Promise!vars
      BY <1>9, <2>2, QuitHandshakeStutters
    <2>3. ASSUME NEW s \in Fds, NEW c \in ChannelNames, PartChannel(s, c)
          PROVE  Promise!Next
      BY <1>9, <2>3, PartChannelLeaves
    <2>4. CASE KickStep
      BY <1>9, <2>4, KickClientLeaves DEF KickStep
    <2>5. CommandLoop => EndCommand \/ KickStep \/ LetterStep
      BY CommandLoopCases
    <2> QED
      BY <1>1, <1>2, <1>3, <1>4, <1>5, <1>6, <1>7, <2>1, <2>2, <2>3, <2>4,
         <2>5
         DEF Next, ChannelCommand
  <1> QED
    BY <1>8, <1>9

(* Chat implements Roster: QUIT, NICK, KICK, PART and broken connections   *)
(* keep the channels in step with the clients until a sweep.               *)
THEOREM ChatIsRoster == Spec => IsRoster
  <1>1. Inv /\ [Next]_vars => [Promise!Next]_(Promise!vars)
    BY RosterStep
  <1> QED
    BY <1>1, RosterInit, Inductive, PTL DEF Spec, IsRoster, Promise!Spec
=============================================================================
