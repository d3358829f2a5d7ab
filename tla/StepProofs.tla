----------------------------- MODULE StepProofs -----------------------------
(***************************************************************************)
(* What a step of Chat can do to one channel, its limit, its invitations   *)
(* and its members.  From this: a limit shown is enforced, an invitation   *)
(* is not lost by what others do, and who leaves has left or was kicked.   *)
(***************************************************************************)
EXTENDS ChatProofs

SameLimit(ch, new) == new.limit = ch.limit /\ new.limited = ch.limited

Enforces(ch) == ShowsLimit(ch) => ch.limited

(* What a step does to a channel that exists after it. *)
Creates(ch, new) == ch = NoChannel /\ ~ShowsLimit(new)
Changes(ch, new) == ch \in Channel /\ (SameLimit(ch, new) \/ Enforces(new))
ChannelStep(ch, new) ==
  new = NoChannel \/ Creates(ch, new) \/ Changes(ch, new) \/ ch = new
-----------------------------------------------------------------------------
(* The operations of Channel that leave the limit alone. *)
LEMMA LimitKept ==
  ASSUME NEW ch \in Channel, NEW s, NEW n, NEW m
  PROVE  /\ SameLimit(ch, Parted(ch, s, n)) /\ SameLimit(ch, Erased(ch, n))
         /\ SameLimit(ch, Renamed(ch, s, n)) /\ SameLimit(ch, Joined(ch, m))
         /\ SameLimit(ch, InvitedTo(ch, m)) /\ SameLimit(ch, Promoted(ch, n))
         /\ SameLimit(ch, Demoted(ch, n))
  <1>1. SameLimit(ch, Parted(ch, s, n)) /\ SameLimit(ch, Erased(ch, n))
    BY DEF SameLimit, Parted, Erased, Channel
  <1>2. SameLimit(ch, Renamed(ch, s, n)) /\ SameLimit(ch, Joined(ch, m))
    BY DEF SameLimit, Renamed, Joined, Channel
  <1>3. SameLimit(ch, InvitedTo(ch, m)) /\ SameLimit(ch, Promoted(ch, n))
    BY DEF SameLimit, InvitedTo, Promoted, Channel
  <1>4. SameLimit(ch, Demoted(ch, n))
    BY DEF SameLimit, Demoted, Channel
  <1> QED
    BY <1>1, <1>2, <1>3, <1>4

(* NICK keeps the members.                                                 *)
LEMMA RenamedKeeps ==
  ASSUME NEW ch \in Channel, NEW s \in Fds, NEW n \in Nicks
  PROVE  \A t : HasClient(ch, t) => HasClient(Renamed(ch, s, n), t)
  <1> DEFINE new == Renamed(ch, s, n)
  <1>1. /\ Len(new.clients) = Len(ch.clients)
        /\ \A i \in 1..Len(ch.clients) : new.clients[i] =
             IF ch.clients[i].sock = s THEN [sock |-> s, nick |-> n]
                                       ELSE ch.clients[i]
    BY RenamedOK
  <1> HIDE DEF new
  <1>2. \A i \in 1..Len(ch.clients) : new.clients[i].sock = ch.clients[i].sock
    BY <1>1
  <1> QED
    BY <1>1, <1>2 DEF HasClient, HasSocket, new
-----------------------------------------------------------------------------
(* The steps.  A channel that is not the one of the command stays as it is. *)
LEMMA OneChannelStep ==
  ASSUME IInv, NEW c \in ChannelNames, NEW new,
         channels' = [channels EXCEPT ![c] = new],
         ChannelStep(channels[c], new)
  PROVE  \A d \in ChannelNames : ChannelStep(channels[d], channels'[d])
  <1>1. channels'[c] = new
    BY DEF IInv, Clean
  <1>2. \A d \in ChannelNames \ {c} : channels'[d] = channels[d]
    BY DEF IInv, Clean
  <1> QED
    BY <1>1, <1>2 DEF ChannelStep

LEMMA InChannel ==
  ASSUME IInv, NEW c \in ChannelNames, Exists(c)
  PROVE  channels[c] \in Channel /\ Good(channels[c], client, swept)
  BY DEF IInv, Clean, Exists, Good

LEMMA QuitStep ==
  ASSUME IInv, NEW s \in Fds, NEW n, channels' = AfterQuit(s, n)
  PROVE  \A d \in ChannelNames : ChannelStep(channels[d], channels'[d])
  <1> SUFFICES ASSUME NEW d \in ChannelNames
               PROVE  ChannelStep(channels[d], channels'[d])
    OBVIOUS
  <1>1. CASE Exists(d) /\ HasClient(channels[d], s)
    <2>1. channels'[d] = IfUsed(Erased(channels[d], n))
      BY <1>1 DEF AfterQuit
    <2>2. channels[d] \in Channel /\ SameLimit(channels[d], Erased(channels[d], n))
      BY <1>1, InChannel, LimitKept
    <2> QED
      BY <2>1, <2>2 DEF IfUsed, ChannelStep, Changes
  <1>2. CASE ~(Exists(d) /\ HasClient(channels[d], s))
    BY <1>2 DEF AfterQuit, ChannelStep
  <1> QED
    BY <1>1, <1>2

LEMMA ChangeNickStep ==
  ASSUME IInv, NEW s \in Fds, NEW n \in Nicks, channels' = AfterNick(s, n)
  PROVE  \A d \in ChannelNames : ChannelStep(channels[d], channels'[d])
  <1> SUFFICES ASSUME NEW d \in ChannelNames
               PROVE  ChannelStep(channels[d], channels'[d])
    OBVIOUS
  <1>1. CASE Exists(d) /\ HasClient(channels[d], s)
    <2>1. channels'[d] = Renamed(channels[d], s, n)
      BY <1>1 DEF AfterNick
    <2>2. /\ channels[d] \in Channel
          /\ SameLimit(channels[d], Renamed(channels[d], s, n))
      BY <1>1, InChannel, LimitKept
    <2> QED
      BY <2>1, <2>2 DEF ChannelStep, Changes
  <1>2. CASE ~(Exists(d) /\ HasClient(channels[d], s))
    BY <1>2 DEF AfterNick, ChannelStep
  <1> QED
    BY <1>1, <1>2

(* JOIN, PART, INVITE, TOPIC, and the operator check of MODE and KICK.     *)
LEMMA CommandStep ==
  ASSUME IInv, NEW s \in Fds, ChannelCommand(s)
  PROVE  \A d \in ChannelNames : ChannelStep(channels[d], channels'[d])
  <1> PICK c \in ChannelNames :
        \/ PartChannel(s, c)
        \/ \E key \in Keys \cup {NoKey} :
             CreateChannel(s, c, key) \/ JoinChannel(s, c, key)
        \/ BeginKick(s, c)
        \/ \E m \in Member : Invite(s, m, c)
        \/ \E text \in Topics : SetTopic(s, c, text)
        \/ \E sign \in Signs : BeginMode(s, c, sign)
    BY DEF ChannelCommand
  <1> DEFINE ch == channels[c]
  <1>1. CASE PartChannel(s, c)
    <2> DEFINE new == IfUsed(Parted(ch, s, client[s]))
    <2>1. Exists(c) /\ channels' = [channels EXCEPT ![c] = new]
      BY <1>1 DEF PartChannel, IInv, Clean
    <2>2. ChannelStep(ch, new)
      BY <2>1, InChannel, LimitKept DEF IfUsed, ChannelStep, Changes
    <2> HIDE DEF new
    <2> QED
      BY <2>1, <2>2, OneChannelStep
  <1>2. ASSUME NEW key \in Keys \cup {NoKey}, CreateChannel(s, c, key)
        PROVE  \A d \in ChannelNames : ChannelStep(channels[d], channels'[d])
    <2> DEFINE new == NewChannel(Me(s), key)
    <2>1. ch = NoChannel /\ channels' = [channels EXCEPT ![c] = new]
      BY <1>2 DEF CreateChannel, Exists
    <2>2. ChannelStep(ch, new)
      BY <2>1 DEF ChannelStep, Creates, NewChannel, ShowsLimit
    <2> HIDE DEF new
    <2> QED
      BY <2>1, <2>2, OneChannelStep
  <1>3. ASSUME NEW key \in Keys \cup {NoKey}, JoinChannel(s, c, key)
        PROVE  \A d \in ChannelNames : ChannelStep(channels[d], channels'[d])
    <2> DEFINE new == Joined(ch, Me(s))
    <2>1. Exists(c) /\ channels' = [channels EXCEPT ![c] = new]
      BY <1>3 DEF JoinChannel, NewTo, IInv, Clean
    <2>2. ChannelStep(ch, new)
      BY <2>1, InChannel, LimitKept DEF ChannelStep, Changes
    <2> HIDE DEF new
    <2> QED
      BY <2>1, <2>2, OneChannelStep
  <1>4. CASE BeginKick(s, c)
    BY <1>4 DEF BeginKick, Begin, ChannelStep
  <1>5. ASSUME NEW m \in Member, Invite(s, m, c)
        PROVE  \A d \in ChannelNames : ChannelStep(channels[d], channels'[d])
    <2> DEFINE new == InvitedTo(ch, m)
    <2>1. Exists(c) /\ channels' = [channels EXCEPT ![c] = new]
      BY <1>5 DEF Invite, IInv, Clean
    <2>2. ChannelStep(ch, new)
      BY <2>1, InChannel, LimitKept DEF ChannelStep, Changes
    <2> HIDE DEF new
    <2> QED
      BY <2>1, <2>2, OneChannelStep
  <1>6. ASSUME NEW text \in Topics, SetTopic(s, c, text)
        PROVE  \A d \in ChannelNames : ChannelStep(channels[d], channels'[d])
    <2> DEFINE new == [ch EXCEPT !.topic = text]
    <2>1. Exists(c) /\ channels' = [channels EXCEPT ![c] = new]
      BY <1>6 DEF SetTopic, IInv, Clean
    <2>2. ch \in Channel
      BY <2>1, InChannel
    <2>3. SameLimit(ch, new)
      BY <2>2 DEF SameLimit, Channel
    <2> HIDE DEF new
    <2>4. ChannelStep(ch, new)
      BY <2>2, <2>3 DEF ChannelStep, Changes
    <2> QED
      BY <2>1, <2>4, OneChannelStep
  <1>7. ASSUME NEW sign \in Signs, BeginMode(s, c, sign)
        PROVE  \A d \in ChannelNames : ChannelStep(channels[d], channels'[d])
    BY <1>7 DEF BeginMode, Begin, ChannelStep
  <1> QED
    BY <1>1, <1>2, <1>3, <1>4, <1>5, <1>6, <1>7

(* A step of a command on its channel that leaves the limit alone, or, by  *)
(* the letter l, sets the flag with a number and takes the number with the *)
(* flag.                                                                   *)
LEMMA OnStep ==
  ASSUME Inv, command # NoCommand, NEW new,
         On \in Channel => SameLimit(On, new) \/ Enforces(new),
         channels' = [channels EXCEPT ![command.on] = new]
  PROVE  \A d \in ChannelNames : ChannelStep(channels[d], channels'[d])
  <1>1. command.on \in ChannelNames /\ On = channels[command.on]
    BY DEF Inv, IInv, Typed, Command, On
  <1>2. ChannelStep(channels[command.on], new)
    BY <1>1 DEF Inv, CommandOnChannel, ChannelStep, Changes
  <1> QED
    BY <1>1, <1>2, OneChannelStep DEF Inv

LEMMA CommandLoopStep ==
  ASSUME Inv, CommandLoop
  PROVE  \A d \in ChannelNames : ChannelStep(channels[d], channels'[d])
  <1> DEFINE Goal ==
        \A d \in ChannelNames : ChannelStep(channels[d], channels'[d])
  <1>1. CASE EndCommand
    BY <1>1 DEF EndCommand, ChannelStep
  <1>2. CASE ModeInvite
    <2> DEFINE new == [On EXCEPT !.inviteChannel = Adds]
    <2>1. On \in Channel => SameLimit(On, new)
      BY DEF Channel, SameLimit
    <2>2. command # NoCommand /\ Applies("i", new)
      BY <1>2 DEF ModeInvite, InMode
    <2> HIDE DEF new
    <2> QED
      BY <2>1, <2>2, OnStep DEF Applies
  <1>3. CASE ModeTopic
    <2> DEFINE new == [On EXCEPT !.topicProtected = Adds]
    <2>1. On \in Channel => SameLimit(On, new)
      BY DEF Channel, SameLimit
    <2>2. command # NoCommand /\ Applies("t", new)
      BY <1>3 DEF ModeTopic, InMode
    <2> HIDE DEF new
    <2> QED
      BY <2>1, <2>2, OnStep DEF Applies
  <1>4. ASSUME NEW n \in Nicks, ModeOperator(n)
        PROVE  Goal
    <2> DEFINE new == IF Adds THEN Promoted(On, n) ELSE Demoted(On, n)
    <2>1. command # NoCommand /\ Applies("o", new)
      BY <1>4 DEF ModeOperator, InMode
    <2>2. On \in Channel => SameLimit(On, new)
      BY LimitKept
    <2> HIDE DEF new
    <2> QED
      BY <2>1, <2>2, OnStep DEF Applies
  <1>5. ASSUME NEW v \in Limits, ModeLimit(v)
        PROVE  Goal
    <2> DEFINE new == IF Adds THEN Limited(On, Atoi(v)) ELSE Unlimited(On)
    <2>1. command # NoCommand /\ Applies("l", new)
      BY <1>5 DEF ModeLimit, InMode
    <2>2. On \in Channel => Enforces(new)
      <3> HIDE DEF Atoi
      <3> QED
        BY DEF Channel, Enforces, Limited, Unlimited, ShowsLimit
    <2> HIDE DEF new
    <2> QED
      BY <2>1, <2>2, OnStep DEF Applies
  <1>6. ASSUME NEW key \in Keys, ModeKey(key)
        PROVE  Goal
    <2> DEFINE new == [On EXCEPT !.isProtected = Adds,
                                 !.pass = IF Adds THEN key ELSE NoKey]
    <2>1. On \in Channel => SameLimit(On, new)
      BY DEF Channel, SameLimit
    <2>2. command # NoCommand /\ Applies("k", new)
      BY <1>6 DEF ModeKey, InMode
    <2> HIDE DEF new
    <2> QED
      BY <2>1, <2>2, OnStep DEF Applies
  <1>7. ASSUME NEW n \in Nicks, KickClient(n)
        PROVE  Goal
    <2> DEFINE new == Erased(On, n)
    <2>1. command # NoCommand /\ channels' = [channels EXCEPT ![command.on] = new]
      BY <1>7 DEF KickClient, InKick, On, Inv, IInv, Clean
    <2>2. On \in Channel => SameLimit(On, new)
      BY LimitKept
    <2> HIDE DEF new
    <2> QED
      BY <2>1, <2>2, OnStep
  <1> QED
    BY <1>1, <1>2, <1>3, <1>4, <1>5, <1>6, <1>7 DEF CommandLoop

LEMMA AllSteps ==
  ASSUME Inv, [Next]_vars
  PROVE  \A d \in ChannelNames : ChannelStep(channels[d], channels'[d])
  <1> USE DEF Inv
  <1>1. CASE UNCHANGED channels
    BY <1>1 DEF ChannelStep
  <1>2. CASE CommandLoop
    BY <1>2, CommandLoopStep
  <1>3. ASSUME NEW s \in Fds, Quit(s)
        PROVE  \A d \in ChannelNames : ChannelStep(channels[d], channels'[d])
    BY <1>3, QuitStep DEF Quit
  <1>4. ASSUME NEW s \in Fds, NEW n, QuitHandshake(s, n)
        PROVE  \A d \in ChannelNames : ChannelStep(channels[d], channels'[d])
    BY <1>4, QuitStep DEF QuitHandshake
  <1>5. ASSUME NEW s \in Fds, NEW n \in Nicks, ChangeNick(s, n)
        PROVE  \A d \in ChannelNames : ChannelStep(channels[d], channels'[d])
    BY <1>5, ChangeNickStep DEF ChangeNick
  <1>6. ASSUME NEW s \in Fds, ChannelCommand(s)
        PROVE  \A d \in ChannelNames : ChannelStep(channels[d], channels'[d])
    BY <1>6, CommandStep
  <1>7. ASSUME NEW s \in Fds, Evict(s) \/ \E n \in Nicks : SignOn(s, n)
        PROVE  UNCHANGED channels
    BY <1>7 DEF Evict, SignOn
  <1> QED
    BY <1>1, <1>2, <1>3, <1>4, <1>5, <1>6, <1>7 DEF Next, vars
-----------------------------------------------------------------------------
(* A step of a channel cannot make it show a limit without the flag.       *)
LEMMA StillEnforced ==
  ASSUME NEW ch, NEW new, ChannelStep(ch, new), new # NoChannel,
         ch # NoChannel => (ShowsLimit(ch) => ch.limited)
  PROVE  ShowsLimit(new) => new.limited
  <1>1. CASE Changes(ch, new)
    <2>1. ch # NoChannel
      BY <1>1, NoChannelAssumption DEF Changes
    <2>2. CASE SameLimit(ch, new)
      <3>1. ShowsLimit(ch) <=> ShowsLimit(new)
        BY <2>2 DEF SameLimit, ShowsLimit
      <3> QED
        BY <2>1, <2>2, <3>1, Zenon DEF SameLimit
    <2>3. CASE Enforces(new)
      BY <2>3, Zenon DEF Enforces
    <2> QED
      BY <1>1, <2>2, <2>3 DEF Changes
  <1>2. CASE ~Changes(ch, new)
    BY <1>2, Zenon DEF ChannelStep, Creates
  <1> QED
    BY <1>1, <1>2

(* A limit that MODE shows is one that joinChannel enforces, for every     *)
(* number and whatever atoi makes of it.                                   *)
THEOREM LimitsEnforced == Spec => []ShownLimitEnforced
  <1> DEFINE Enforced(chs, c) ==
        chs[c] # NoChannel => (ShowsLimit(chs[c]) => chs[c].limited)
  <1>1. Init => \A c \in ChannelNames : Enforced(channels, c)
    BY DEF Init
  <1>2. ASSUME Inv, [Next]_vars, \A c \in ChannelNames : Enforced(channels, c)
        PROVE  \A c \in ChannelNames : Enforced(channels', c)
    BY <1>2, AllSteps, StillEnforced, Zenon
  <1>3. ShownLimitEnforced <=> \A c \in ChannelNames : Enforced(channels, c)
    BY Zenon DEF ShownLimitEnforced, Existing, Exists
  <1>4. Init => ShownLimitEnforced
    BY <1>1, <1>3
  <1>5. Inv /\ ShownLimitEnforced /\ [Next]_vars => ShownLimitEnforced'
    <2>1. ShownLimitEnforced' <=> \A c \in ChannelNames : Enforced(channels', c)
      BY Zenon DEF ShownLimitEnforced, Existing, Exists, ShowsLimit
    <2> QED
      BY <1>2, <1>3, <2>1
  <1> QED
    BY <1>4, <1>5, Inductive, PTL DEF Spec
-----------------------------------------------------------------------------
(* An entry of a vector, and the invitations that remain after a step. *)
Has(v, e) == \E i \in 1..Len(v) : v[i] = e
Keeps(ch, new, e) ==
  Has(ch.invited, e) => new = NoChannel \/ Has(new.invited, e)

(* QUIT and KICK take invitations away by nickname.                        *)
LEMMA ErasedInvited ==
  ASSUME NEW ch \in Channel, NEW n, NEW e, e.nick # n
  PROVE  Keeps(ch, Erased(ch, n), e)
  <1>1. ch.invited \in Seq(Member)
    BY DEF Channel
  <1>2. Erased(ch, n).invited = WithoutNick(ch.invited, n)
    BY DEF Erased, Channel
  <1>3. \A i \in 1..Len(ch.invited) : ch.invited[i].nick # n =>
          \E j \in 1..Len(WithoutNick(ch.invited, n)) :
            WithoutNick(ch.invited, n)[j] = ch.invited[i]
    BY <1>1, WithoutNickOK
  <1> QED
    BY <1>2, <1>3 DEF Keeps, Has

(* NICK renames those of its client by descriptor.                         *)
LEMMA RenamedInvited ==
  ASSUME NEW ch \in Channel, NEW s, NEW n, NEW e, e.sock # s
  PROVE  Keeps(ch, Renamed(ch, s, n), e)
  <1> DEFINE new(m) == IF m.sock = s THEN [sock |-> s, nick |-> n] ELSE m
             v == [i \in 1..Len(ch.invited) |-> new(ch.invited[i])]
  <1>1. Renamed(ch, s, n).invited = v
    BY DEF Renamed, Channel
  <1>2. Len(ch.invited) \in Nat
    BY DEF Channel
  <1>3. Len(v) = Len(ch.invited)
    <2> HIDE DEF new
    <2> QED
      BY <1>2
  <1>4. ASSUME NEW i \in 1..Len(ch.invited), ch.invited[i] = e
        PROVE  v[i] = e
    BY <1>4
  <1> HIDE DEF v
  <1> QED
    BY <1>1, <1>3, <1>4 DEF Keeps, Has

(* INVITE adds one.                                                        *)
LEMMA InvitedToInvited ==
  ASSUME NEW ch \in Channel, NEW m \in Member, NEW e
  PROVE  Keeps(ch, InvitedTo(ch, m), e)
  <1> DEFINE v == ch.invited
             w == Append(v, m)
  <1>1. v \in Seq(Member) /\ InvitedTo(ch, m).invited = w
    BY DEF InvitedTo, Channel
  <1>2. /\ Len(w) = Len(v) + 1 /\ Len(v) \in Nat
        /\ \A i \in 1..Len(v) : w[i] = v[i]
    BY <1>1
  <1> HIDE DEF w
  <1>3. \A i \in 1..Len(v) : i \in 1..Len(w) /\ w[i] = v[i]
    BY <1>2
  <1> QED
    BY <1>1, <1>3 DEF Keeps, Has

(* A command for one channel.                                              *)
LEMMA OneChannelKeeps ==
  ASSUME IInv, NEW d \in ChannelNames, NEW new, NEW e,
         channels' = [channels EXCEPT ![d] = new],
         Exists(d) => Keeps(channels[d], new, e)
  PROVE  \A c \in ChannelNames : Exists(c) => Keeps(channels[c], channels'[c], e)
  <1>1. channels'[d] = new
    BY DEF IInv, Clean
  <1>2. \A c \in ChannelNames \ {d} : channels'[c] = channels[c]
    BY DEF IInv, Clean
  <1> QED
    BY <1>1, <1>2 DEF Keeps

(* A command that leaves the invitations alone.                            *)
LEMMA SameInvited ==
  ASSUME NEW ch, NEW new, NEW e, new.invited = ch.invited
  PROVE  Keeps(ch, IfUsed(new), e)
  BY DEF Keeps, IfUsed

(* The channel commands and MODE take no invitation away.                  *)
LEMMA CommandKeepsInvited ==
  ASSUME IInv, NEW k \in Fds, ChannelCommand(k), NEW e
  PROVE  \A c \in ChannelNames : Exists(c) => Keeps(channels[c], channels'[c], e)
  <1> DEFINE Goal ==
        \A c \in ChannelNames : Exists(c) => Keeps(channels[c], channels'[c], e)
  <1> PICK d \in ChannelNames :
        \/ PartChannel(k, d)
        \/ \E key \in Keys \cup {NoKey} :
             CreateChannel(k, d, key) \/ JoinChannel(k, d, key)
        \/ BeginKick(k, d)
        \/ \E m \in Member : Invite(k, m, d)
        \/ \E text \in Topics : SetTopic(k, d, text)
        \/ \E sign \in Signs : BeginMode(k, d, sign)
    BY DEF ChannelCommand
  <1> DEFINE ch == channels[d]
  <1>1. CASE PartChannel(k, d)
    <2> DEFINE new == Parted(ch, k, client[k])
    <2>1. Exists(d) /\ channels' = [channels EXCEPT ![d] = IfUsed(new)]
      BY <1>1 DEF PartChannel, IInv, Clean
    <2>2. new.invited = ch.invited
      BY <2>1, InChannel DEF Parted, Channel
    <2> HIDE DEF new
    <2> QED
      BY <2>1, <2>2, SameInvited, OneChannelKeeps
  <1>2. ASSUME NEW key \in Keys \cup {NoKey}, CreateChannel(k, d, key)
        PROVE  Goal
    <2> DEFINE new == NewChannel(Me(k), key)
    <2>1. ~Exists(d) /\ channels' = [channels EXCEPT ![d] = new]
      BY <1>2 DEF CreateChannel
    <2> HIDE DEF new
    <2> QED
      BY <2>1, OneChannelKeeps
  <1>3. ASSUME NEW key \in Keys \cup {NoKey}, JoinChannel(k, d, key)
        PROVE  Goal
    <2> DEFINE new == Joined(ch, Me(k))
    <2>1. Exists(d) /\ channels' = [channels EXCEPT ![d] = new]
      BY <1>3 DEF JoinChannel, NewTo, IInv, Clean
    <2>2. new.invited = ch.invited
      BY <2>1, InChannel DEF Joined, Channel
    <2> HIDE DEF new
    <2> QED
      BY <2>1, <2>2, OneChannelKeeps DEF Keeps
  <1>4. ASSUME NEW m \in Member, Invite(k, m, d)
        PROVE  Goal
    <2> DEFINE new == InvitedTo(ch, m)
    <2>1. Exists(d) /\ channels' = [channels EXCEPT ![d] = new]
      BY <1>4 DEF Invite, IInv, Clean
    <2>2. Keeps(ch, new, e)
      BY <2>1, InChannel, InvitedToInvited
    <2> HIDE DEF new
    <2> QED
      BY <2>1, <2>2, OneChannelKeeps
  <1>5. ASSUME NEW text \in Topics, SetTopic(k, d, text)
        PROVE  Goal
    <2> DEFINE new == [ch EXCEPT !.topic = text]
    <2>1. Exists(d) /\ channels' = [channels EXCEPT ![d] = new]
      BY <1>5 DEF SetTopic, IInv, Clean
    <2>2. new.invited = ch.invited
      BY <2>1, InChannel DEF Channel
    <2> HIDE DEF new
    <2> QED
      BY <2>1, <2>2, OneChannelKeeps DEF Keeps
  <1>6. BeginKick(k, d) \/ (\E sign \in Signs : BeginMode(k, d, sign)) => Goal
    BY DEF BeginKick, BeginMode, Begin, Keeps
  <1> QED
    BY <1>1, <1>2, <1>3, <1>4, <1>5, <1>6

(* A client that keeps its nickname keeps its invitations, but for a KICK  *)
(* that names it and the end of the channel, sweeps included: no other has *)
(* its nickname or its descriptor.                                         *)
THEOREM InvitationsLast == Spec => InvitationsKept
  <1> DEFINE Kept(s, c) == \/ Invited(s, c)' \/ ~Exists(c)'
                           \/ KickClient(client[s]) /\ command.on = c
  <1>1. ASSUME Inv, [Next]_vars, NEW c \in ChannelNames, NEW s \in Fds,
               Invited(s, c), client'[s] = client[s]
        PROVE  Kept(s, c)
    <2> DEFINE e == Me(s)
               ch == channels[c]
               new == channels'[c]
    <2>1. /\ e.sock = s /\ e.nick = client[s] /\ Me(s)' = e
          /\ Present(s) /\ Present(s)' /\ Exists(c) /\ Has(ch.invited, e)
          /\ ch \in Channel /\ IInv
      BY <1>1, InChannel DEF Me, Invited, Has, Inv, Present
    <2> SUFFICES ASSUME ~(KickClient(client[s]) /\ command.on = c)
                 PROVE  Keeps(ch, new, e)
      BY <2>1 DEF Keeps, Has, Invited, Exists
    <2> HIDE DEF e
    <2>2. CASE UNCHANGED channels
      BY <2>2 DEF Keeps
    <2>3. CASE EndCommand
      BY <2>3 DEF EndCommand, Keeps
    <2>4. CASE LetterStep
      <3>1. PICK l \in Letters, to \in Channel :
              to.invited = On.invited /\ Applies(l, to)
        BY <2>4 DEF LetterStep
      <3>2. /\ channels' = [channels EXCEPT ![command.on] = to]
            /\ command.on \in ChannelNames
        BY <2>1, <2>4, <3>1 DEF LetterStep, InMode, Applies, IInv, Typed, Command
      <3> QED
        BY <2>1, <3>1, <3>2, OneChannelKeeps DEF Keeps, On
    <2>5. ASSUME NEW n \in Nicks, KickClient(n)
          PROVE  Keeps(ch, new, e)
      <3>1. /\ channels' = [channels EXCEPT ![command.on] = Erased(On, n)]
            /\ command.on \in ChannelNames
        BY <2>1, <2>5 DEF KickClient, InKick, IInv, Clean, Typed, Command, On
      <3>2. CASE command.on # c
        BY <2>1, <3>1, <3>2 DEF Keeps, IInv, Clean
      <3>3. CASE command.on = c
        <4>1. n # client[s]
          BY <2>5, <3>3
        <4>2. new = Erased(ch, n)
          BY <2>1, <3>1, <3>3 DEF On, IInv, Clean
        <4> QED
          BY <2>1, <4>1, <4>2, ErasedInvited
      <3> QED
        BY <3>2, <3>3
    <2>6. ASSUME NEW k, NEW n, n # client[s], channels' = AfterQuit(k, n)
          PROVE  Keeps(ch, new, e)
      <3>1. new = IfUsed(Erased(ch, n)) \/ new = ch
        BY <2>6 DEF AfterQuit
      <3>2. Keeps(ch, Erased(ch, n), e)
        BY <2>1, <2>6, ErasedInvited
      <3> QED
        BY <3>1, <3>2 DEF Keeps, IfUsed
    <2>7. ASSUME NEW k \in Fds, Quit(k)
          PROVE  Keeps(ch, new, e)
      <3>1. k # s
        BY <1>1, <2>1, <2>7 DEF Quit, Present, IInv, Typed
      <3>2. client[k] # client[s]
        BY <2>1, <3>1 DEF IInv, ClientsDistinct
      <3> QED
        BY <2>6, <2>7, <3>2 DEF Quit
    <2>8. ASSUME NEW k \in Fds, NEW n \in Nicks \cup {NoNick},
                 QuitHandshake(k, n)
          PROVE  Keeps(ch, new, e)
      <3>1. n # client[s]
        BY <2>1, <2>8 DEF QuitHandshake, NickTaken, Present
      <3> QED
        BY <2>6, <2>8, <3>1 DEF QuitHandshake
    <2>9. ASSUME NEW k \in Fds, NEW n \in Nicks, ChangeNick(k, n)
          PROVE  Keeps(ch, new, e)
      <3>1. k # s
        BY <1>1, <2>1, <2>9 DEF ChangeNick, NickTaken, IInv, Typed
      <3>2. new = Renamed(ch, k, n) \/ new = ch
        BY <2>9 DEF ChangeNick, AfterNick
      <3>3. Keeps(ch, Renamed(ch, k, n), e)
        BY <2>1, <3>1, RenamedInvited
      <3> QED
        BY <3>2, <3>3 DEF Keeps
    <2>10. ASSUME NEW k \in Fds, ChannelCommand(k)
           PROVE  Keeps(ch, new, e)
      BY <2>1, <2>10, CommandKeepsInvited
    <2>11. ASSUME NEW k \in Fds, Evict(k) \/ \E n \in Nicks : SignOn(k, n)
           PROVE  UNCHANGED channels
      BY <2>11 DEF Evict, SignOn
    <2>12. CommandLoop => EndCommand \/ KickStep \/ LetterStep
      BY <1>1, CommandLoopCases
    <2> QED
      BY <1>1, <2>2, <2>3, <2>4, <2>5, <2>7, <2>8, <2>9, <2>10, <2>11, <2>12
         DEF Next, vars, KickStep
  <1>2. Inv /\ [Next]_vars =>
          [\A c \in ChannelNames, s \in Fds :
             Invited(s, c) /\ client'[s] = client[s] => Kept(s, c)]_vars
    BY <1>1
  <1> QED
    BY <1>2, Inductive, PTL DEF Spec, InvitationsKept
-----------------------------------------------------------------------------
(* A member that a step removes.                                           *)
Gone(ch, new, s) == HasClient(ch, s) /\ ~(new # NoChannel /\ HasClient(new, s))

(* QUIT and a broken handshake remove a client by its nickname, and, until *)
(* a sweep, no other has that nickname.                                    *)
LEMMA ErasedOnly ==
  ASSUME IInv, ~swept, NEW c \in ChannelNames, Exists(c), NEW n, NEW s \in Fds,
         HasClient(channels[c], s), ~HasClient(Erased(channels[c], n), s)
  PROVE  client[s] = n
  <1> DEFINE ch == channels[c]
             v == ch.clients
             w == WithoutNick(v, n)
  <1>1. /\ ch \in Channel /\ v \in Seq(Member) /\ Live(ch, client)
    BY InChannel DEF Good, Channel
  <1>2. Erased(ch, n).clients = w
    BY <1>1, ErasedOK
  <1>3. PICK i \in 1..Len(v) : v[i].sock = s
    BY DEF HasClient, HasSocket
  <1>4. \A k \in 1..Len(v) : v[k].nick # n =>
          \E j \in 1..Len(w) : w[j] = v[k]
    BY <1>1, WithoutNickOK
  <1>5. ~HasSocket(w, s)
    BY <1>2 DEF HasClient
  <1> HIDE DEF w
  <1>6. v[i].nick = n
    BY <1>3, <1>4, <1>5 DEF HasSocket
  <1> QED
    BY <1>1, <1>3, <1>6 DEF Live

(* PART removes a client by its descriptor.                                *)
LEMMA PartedOnly ==
  ASSUME NEW ch \in Channel, NEW t, NEW n, NEW s,
         Gone(ch, IfUsed(Parted(ch, t, n)), s)
  PROVE  s = t
  <1> DEFINE v == ch.clients
             w == WithoutSocket(v, t)
             new == Parted(ch, t, n)
  <1>1. /\ v \in Seq(Member) /\ new \in Channel /\ new.clients = w
    BY PartedOK DEF Channel
  <1>2. PICK i \in 1..Len(v) : v[i].sock = s
    BY DEF Gone, HasClient, HasSocket
  <1>3. /\ w \in Seq(Member)
        /\ \A k \in 1..Len(v) : v[k].sock # t =>
             \E j \in 1..Len(w) : w[j] = v[k]
    BY <1>1, WithoutSocketOK
  <1> HIDE DEF w, new
  <1>4. CASE s # t
    <2>1. PICK j \in 1..Len(w) : w[j] = v[i]
      BY <1>2, <1>3, <1>4
    <2>2. HasClient(new, s) /\ new.clients # <<>>
      BY <1>1, <1>2, <1>3, <2>1 DEF HasClient, HasSocket
    <2>3. IfUsed(new) = new /\ new # NoChannel
      BY <1>1, <2>2, NoChannelAssumption DEF IfUsed
    <2> QED
      BY <2>2, <2>3 DEF Gone, new
  <1> QED
    BY <1>4

(* A command for one channel that removes nobody.                          *)
LEMMA NobodyGone ==
  ASSUME IInv, NEW c \in ChannelNames, NEW new,
         channels' = [channels EXCEPT ![c] = new],
         Exists(c) => /\ new # NoChannel
                      /\ \A s : HasClient(channels[c], s) => HasClient(new, s)
  PROVE  \A d \in ChannelNames, s \in Fds :
           Exists(d) => ~Gone(channels[d], channels'[d], s)
  <1>1. channels'[c] = new
    BY DEF IInv, Clean
  <1>2. \A d \in ChannelNames \ {c} : channels'[d] = channels[d]
    BY DEF IInv, Clean
  <1> QED
    BY <1>1, <1>2 DEF Gone, Exists

LEMMA SameClientsNobodyGone ==
  ASSUME IInv, NEW c \in ChannelNames, NEW new \in Channel,
         channels' = [channels EXCEPT ![c] = new],
         new.clients = channels[c].clients
  PROVE  \A d \in ChannelNames, s \in Fds :
           Exists(d) => ~Gone(channels[d], channels'[d], s)
  BY NobodyGone, NoChannelAssumption DEF HasClient

LEMMA JoinKeepsAll ==
  ASSUME IInv, NEW k \in Fds, NEW c \in ChannelNames, NEW key,
         JoinChannel(k, c, key)
  PROVE  \A d \in ChannelNames, s \in Fds :
           Exists(d) => ~Gone(channels[d], channels'[d], s)
  <1> DEFINE ch == channels[c]
             v == ch.clients
             m == Me(k)
             new == Joined(ch, m)
  <1>1. /\ Exists(c) /\ Present(k)
        /\ channels' = [channels EXCEPT ![c] = new]
    BY DEF JoinChannel, Serves, NewTo, IInv, Clean
  <1>2. ch \in Channel /\ v \in Seq(Member) /\ m \in Member
    BY <1>1, InChannel, MeOK DEF Channel
  <1>3. new \in Channel /\ new.clients = Append(v, m)
    BY <1>2, JoinedOK
  <1> HIDE DEF new, m
  <1>4. /\ Len(Append(v, m)) = Len(v) + 1 /\ Len(v) \in Nat
        /\ \A i \in 1..Len(v) : Append(v, m)[i] = v[i]
    BY <1>2
  <1>5. ASSUME NEW s, HasClient(ch, s)
        PROVE  HasClient(new, s)
    <2>1. PICK i \in 1..Len(v) : v[i].sock = s
      BY <1>5 DEF HasClient, HasSocket
    <2>2. i \in 1..Len(Append(v, m)) /\ Append(v, m)[i].sock = s
      BY <1>4, <2>1
    <2> QED
      BY <1>3, <2>2 DEF HasClient, HasSocket
  <1> QED
    BY <1>1, <1>3, <1>5, NobodyGone, NoChannelAssumption

(* Every command for one channel but PART, and a KICK that begins.         *)
LEMMA CommandKeepsAll ==
  ASSUME IInv, NEW k \in Fds, NEW c \in ChannelNames,
         \/ \E key \in Keys \cup {NoKey} :
              CreateChannel(k, c, key) \/ JoinChannel(k, c, key)
         \/ \E m \in Member : Invite(k, m, c)
         \/ \E text \in Topics : SetTopic(k, c, text)
         \/ BeginKick(k, c) \/ \E sign \in Signs : BeginMode(k, c, sign)
  PROVE  \A d \in ChannelNames, s \in Fds :
           Exists(d) => ~Gone(channels[d], channels'[d], s)
  <1> DEFINE ch == channels[c]
  <1>1. ASSUME NEW key \in Keys \cup {NoKey}, CreateChannel(k, c, key)
        PROVE  \A d \in ChannelNames, s \in Fds :
                 Exists(d) => ~Gone(channels[d], channels'[d], s)
    <2>1. ~Exists(c)
          /\ channels' = [channels EXCEPT ![c] = NewChannel(Me(k), key)]
      BY <1>1 DEF CreateChannel
    <2> QED
      BY <2>1, NobodyGone
  <1>2. ASSUME NEW m \in Member, Invite(k, m, c)
        PROVE  \A d \in ChannelNames, s \in Fds :
                 Exists(d) => ~Gone(channels[d], channels'[d], s)
    <2> DEFINE new == InvitedTo(ch, m)
    <2>1. Exists(c) /\ channels' = [channels EXCEPT ![c] = new]
      BY <1>2 DEF Invite, IInv, Clean
    <2>2. new \in Channel /\ new.clients = ch.clients
      BY <2>1, InChannel, InvitedToOK
    <2> HIDE DEF new
    <2> QED
      BY <2>1, <2>2, SameClientsNobodyGone
  <1>3. ASSUME NEW text \in Topics, SetTopic(k, c, text)
        PROVE  \A d \in ChannelNames, s \in Fds :
                 Exists(d) => ~Gone(channels[d], channels'[d], s)
    <2> DEFINE new == [ch EXCEPT !.topic = text]
    <2>1. Exists(c) /\ channels' = [channels EXCEPT ![c] = new]
      BY <1>3 DEF SetTopic, IInv, Clean
    <2>2. ch \in Channel
      BY <2>1, InChannel
    <2>3. new \in Channel /\ new.clients = ch.clients
      BY <2>2 DEF Channel
    <2> HIDE DEF new
    <2> QED
      BY <2>1, <2>3, SameClientsNobodyGone
  <1>4. ASSUME BeginKick(k, c) \/ \E sign \in Signs : BeginMode(k, c, sign)
        PROVE  \A d \in ChannelNames, s \in Fds :
                 Exists(d) => ~Gone(channels[d], channels'[d], s)
    BY <1>4 DEF BeginKick, BeginMode, Begin, Gone, Exists
  <1> QED
    BY <1>1, <1>2, <1>3, <1>4, JoinKeepsAll

LEMMA LetterKeepsAll ==
  ASSUME Inv, EndCommand \/ LetterStep
  PROVE  \A d \in ChannelNames, s \in Fds :
           Exists(d) => ~Gone(channels[d], channels'[d], s)
  <1>1. CASE EndCommand
    BY <1>1 DEF EndCommand, Gone, Exists
  <1>2. CASE LetterStep
    <2>1. PICK l \in Letters, new \in Channel :
            new.clients = On.clients /\ Applies(l, new)
      BY <1>2 DEF LetterStep
    <2>2. command.on \in ChannelNames
      BY <1>2 DEF LetterStep, InMode, Inv, IInv, Typed, Command
    <2> QED
      BY <2>1, <2>2, SameClientsNobodyGone DEF Applies, On, Inv
  <1> QED
    BY <1>1, <1>2

(* QUIT: only the client itself.                                           *)
LEMMA QuitOnly ==
  ASSUME IInv, ~swept, NEW k \in Fds, Quit(k),
         NEW c \in ChannelNames, NEW s \in Fds, Exists(c),
         Gone(channels[c], channels'[c], s)
  PROVE  ~Present(s)'
  <1> DEFINE ch == channels[c]
             new == Erased(ch, client[k])
  <1>1. /\ Present(k) /\ client' = [client EXCEPT ![k] = NoNick]
        /\ channels' = AfterQuit(k, client[k])
    BY DEF Quit, Serves
  <1>2. HasClient(ch, k) /\ channels'[c] = IfUsed(new)
    BY <1>1 DEF AfterQuit, Gone, Exists
  <1>3. new \in Channel /\ new # NoChannel /\ HasClient(ch, s)
    BY InChannel, ErasedOK, NoChannelAssumption DEF Gone
  <1>4. ~HasClient(new, s)
    <2> HIDE DEF new
    <2>1. CASE IfUsed(new) = new
      BY <1>2, <1>3, <2>1 DEF Gone
    <2>2. CASE new.clients = <<>>
      BY <2>2 DEF HasClient, HasSocket
    <2> QED
      BY <2>1, <2>2 DEF IfUsed
  <1>5. client[s] = client[k]
    BY <1>3, <1>4, ErasedOnly
  <1>6. s = k
    BY <1>1, <1>5 DEF IInv, ClientsDistinct
  <1> QED
    BY <1>1, <1>6 DEF Present, IInv, Typed

(* A broken handshake: nobody, until a sweep.                              *)
LEMMA QuitHandshakeKeepsAll ==
  ASSUME IInv, ~swept, NEW k \in Fds, NEW n, QuitHandshake(k, n)
  PROVE  \A d \in ChannelNames, s \in Fds :
           Exists(d) => ~Gone(channels[d], channels'[d], s)
  <1>1. ~Present(k) /\ channels' = AfterQuit(k, n)
    BY DEF QuitHandshake
  <1>2. \A d \in ChannelNames : Exists(d) => ~HasClient(channels[d], k)
    BY <1>1, InChannel, AbsentIsNoMember DEF IInv, Typed
  <1> QED
    BY <1>1, <1>2 DEF AfterQuit, Gone, Exists

(* NICK: nobody.                                                           *)
LEMMA ChangeNickKeepsAll ==
  ASSUME IInv, NEW k \in Fds, NEW n \in Nicks, ChangeNick(k, n)
  PROVE  \A d \in ChannelNames, s \in Fds :
           Exists(d) => ~Gone(channels[d], channels'[d], s)
  <1> SUFFICES ASSUME NEW d \in ChannelNames, NEW s \in Fds, Exists(d)
               PROVE  ~Gone(channels[d], channels'[d], s)
    OBVIOUS
  <1>1. channels' = AfterNick(k, n)
    BY DEF ChangeNick
  <1>2. CASE HasClient(channels[d], k)
    <2>1. channels'[d] = Renamed(channels[d], k, n)
      BY <1>1, <1>2 DEF AfterNick
    <2>2. channels[d] \in Channel
      BY InChannel
    <2>3. Renamed(channels[d], k, n) # NoChannel
      <3>1. Renamed(channels[d], k, n) \in Channel
        BY <2>2, RenamedOK
      <3> QED
        BY <3>1, NoChannelAssumption
    <2> QED
      BY <2>1, <2>2, <2>3, RenamedKeeps DEF Gone
  <1>3. CASE ~HasClient(channels[d], k)
    BY <1>1, <1>3 DEF AfterNick, Gone, Exists
  <1> QED
    BY <1>2, <1>3

(* PART: who parts, from the channel named.                                *)
LEMMA PartOnly ==
  ASSUME IInv, NEW k \in Fds, NEW d \in ChannelNames, PartChannel(k, d),
         NEW c \in ChannelNames, NEW s \in Fds, Exists(c),
         Gone(channels[c], channels'[c], s)
  PROVE  PartChannel(s, c)
  <1>1. channels' = [channels EXCEPT
                       ![d] = IfUsed(Parted(channels[d], k, client[k]))]
    BY DEF PartChannel, IInv, Clean
  <1>2. c = d
    BY <1>1 DEF Gone, Exists, IInv, Clean
  <1>3. channels'[c] = IfUsed(Parted(channels[c], k, client[k]))
    BY <1>1, <1>2 DEF IInv, Clean
  <1>4. s = k
    BY <1>3, InChannel, PartedOnly
  <1> QED
    BY <1>2, <1>4

(* KICK: the client of the nickname, from the channel of the command, and  *)
(* not the one who kicks.                                                  *)
LEMMA KickOnly ==
  ASSUME Inv, ~swept, NEW n \in Nicks, KickClient(n),
         NEW c \in ChannelNames, NEW s \in Fds, Exists(c),
         Gone(channels[c], channels'[c], s)
  PROVE  /\ KickClient(client[s]) /\ command.on = c
         /\ command.by # s /\ HasClient(channels[c], command.by)
  <1>1. /\ channels' = [channels EXCEPT ![command.on] = Erased(On, n)]
        /\ HasClient(On, command.by) /\ client[command.by] # n
    BY DEF KickClient, Inv, KickerStays, IInv, Clean, On
  <1>2. command.on = c
    BY <1>1 DEF Gone, Exists, Inv, IInv, Clean
  <1>3. channels'[c] = Erased(channels[c], n) /\ HasClient(channels[c], s)
    BY <1>1, <1>2 DEF Inv, IInv, Clean, Gone, On
  <1>4. Erased(channels[c], n) # NoChannel
    BY InChannel, ErasedOK, NoChannelAssumption DEF Inv
  <1>5. ~HasClient(Erased(channels[c], n), s)
    BY <1>3, <1>4 DEF Gone
  <1>6. client[s] = n
    BY <1>3, <1>5, ErasedOnly DEF Inv
  <1> QED
    BY <1>1, <1>2, <1>6 DEF On

(* Until a sweep, a client that stays connected leaves a channel by its    *)
(* own PART or by a KICK that names it, of somebody else who is still a    *)
(* member, whoever he has kicked before.                                   *)
THEOREM NobodyElseRemoves == Spec => StaysUnlessKicked
  <1> DEFINE Allowed(s, c) ==
        \/ PartChannel(s, c)
        \/ /\ KickClient(client[s]) /\ command.on = c
           /\ command.by # s /\ HasClient(channels[c], command.by)
  <1>1. ASSUME Inv, [Next]_vars, NEW c \in ChannelNames, NEW s \in Fds,
               Leaves(s, c), Present(s)', ~swept
        PROVE  Allowed(s, c)
    <2>1. Exists(c) /\ Gone(channels[c], channels'[c], s)
      BY <1>1 DEF Leaves, Gone, Exists, HasClient, HasSocket
    <2> HIDE DEF Allowed
    <2>2. CASE UNCHANGED channels
      BY <2>1, <2>2 DEF Gone, Exists
    <2>3. CASE CommandLoop
      <3>1. ASSUME NEW n \in Nicks, KickClient(n)
            PROVE  Allowed(s, c)
        BY <1>1, <2>1, <3>1, KickOnly DEF Allowed
      <3>2. EndCommand \/ LetterStep => FALSE
        BY <1>1, <2>1, LetterKeepsAll
      <3> QED
        BY <1>1, <2>3, <3>1, <3>2, CommandLoopCases DEF KickStep
    <2>4. ASSUME NEW k \in Fds, Quit(k)
          PROVE  FALSE
      BY <1>1, <2>1, <2>4, QuitOnly DEF Inv
    <2>5. ASSUME NEW k \in Fds, NEW n, QuitHandshake(k, n)
          PROVE  FALSE
      BY <1>1, <2>1, <2>5, QuitHandshakeKeepsAll DEF Inv
    <2>6. ASSUME NEW k \in Fds, NEW n \in Nicks, ChangeNick(k, n)
          PROVE  FALSE
      BY <1>1, <2>1, <2>6, ChangeNickKeepsAll DEF Inv
    <2>7. ASSUME NEW k \in Fds, Evict(k) \/ \E n \in Nicks : SignOn(k, n)
          PROVE  UNCHANGED channels
      BY <2>7 DEF Evict, SignOn
    <2>8. ASSUME NEW k \in Fds, ChannelCommand(k)
          PROVE  Allowed(s, c)
      <3>1. PICK d \in ChannelNames :
              \/ PartChannel(k, d)
              \/ \E key \in Keys \cup {NoKey} :
                   CreateChannel(k, d, key) \/ JoinChannel(k, d, key)
              \/ \E m \in Member : Invite(k, m, d)
              \/ \E text \in Topics : SetTopic(k, d, text)
              \/ BeginKick(k, d) \/ \E sign \in Signs : BeginMode(k, d, sign)
        BY <2>8 DEF ChannelCommand
      <3>2. CASE PartChannel(k, d)
        BY <1>1, <2>1, <3>2, PartOnly DEF Inv, Allowed
      <3> QED
        BY <1>1, <2>1, <3>1, <3>2, CommandKeepsAll DEF Inv
    <2> QED
      BY <1>1, <2>2, <2>3, <2>4, <2>5, <2>6, <2>7, <2>8 DEF Next, vars
  <1>2. Inv /\ [Next]_vars =>
          [\A c \in ChannelNames, s \in Fds :
             Leaves(s, c) /\ Present(s)' /\ ~swept => Allowed(s, c)]_vars
    BY <1>1
  <1> QED
    BY <1>2, Inductive, PTL DEF Spec, StaysUnlessKicked
=============================================================================
