---------------------------- MODULE ServerProofs ----------------------------
(***************************************************************************)
(* The whole server for any number of descriptors, slots, nicknames,       *)
(* connections and channels: it runs its channels as Chat has them, and    *)
(* keeps what Roster promises to the connections.                          *)
(*                                                                         *)
(* The first is a refinement shown step by step.  With it everything that  *)
(* is proved of Chat holds in the server; the second theorem uses that,    *)
(* and carries Chat's roster of descriptors over to connections.           *)
(***************************************************************************)
EXTENDS Server, SessionsProofs

(* The facts of RosterProofs, about the server's channels. *)
R == INSTANCE RosterProofs WITH
  client <- [s \in Fds |-> RegisteredNick(s)],
  Evictable <- Fds

(* The nickname Chat sees on each descriptor. *)
Nicknames == [s \in Fds |-> RegisteredNick(s)]
-----------------------------------------------------------------------------
(***************************************************************************)
(* Chat as the server instantiates it, and as RosterProofs does.           *)
(***************************************************************************)

(* The server's constants are as Chat and Channel want them.               *)
LEMMA Constants ==
  /\ R!KeysAssumption /\ R!TopicsAssumption /\ R!NobodyAssumption
  /\ R!NoChannelAssumption /\ R!NoNickAssumption /\ R!LimitsAssumption
  /\ R!IntMaxAssumption /\ R!EvictableAssumption /\ R!LettersAssumption
  /\ R!BoundsAssumption /\ R!NoCommandAssumption
  <1>1. R!Channel = C!Channel /\ R!Command = C!Command
    BY DEF R!Channel, C!Channel, R!Command, C!Command, R!Signs, C!Signs,
           R!Member, C!Member
  <1>2. R!NobodyAssumption
    BY FdsAssumption DEF R!NobodyAssumption, R!Nobody
  <1> QED
    BY <1>1, <1>2, KeysAssumption, TopicsAssumption, NoChannelAssumption,
       NicksAssumption, LimitsAssumption, IntMaxAssumption, LettersAssumption,
       BoundsAssumption, NoCommandAssumption
       DEF R!KeysAssumption, R!TopicsAssumption, R!NoChannelAssumption,
           R!NoNickAssumption, R!LimitsAssumption, R!IntMaxAssumption,
           R!EvictableAssumption, R!LettersAssumption, R!BoundsAssumption,
           R!NoCommandAssumption

(* The operators of Channel.                                               *)
LEMMA SameErasing ==
  ASSUME NEW v, NEW n
  PROVE  /\ C!WithoutNick(v, n) = R!WithoutNick(v, n)
         /\ C!WithoutSocket(v, n) = R!WithoutSocket(v, n)
  BY DEF C!WithoutNick, R!WithoutNick, C!WithoutSocket, R!WithoutSocket,
         C!RemoveFirstMatch, R!RemoveFirstMatch, C!RemoveAt, R!RemoveAt,
         C!SelectInSeq, R!SelectInSeq, C!Min, R!Min

(* The operations on a channel are the same in both instances.             *)
LEMMA SameChannelOps ==
  ASSUME NEW ch, NEW s, NEW n
  PROVE  /\ C!Parted(ch, s, n) = R!Parted(ch, s, n)
         /\ C!Erased(ch, n) = R!Erased(ch, n)
         /\ C!Demoted(ch, n) = R!Demoted(ch, n)
         /\ C!Renamed(ch, s, n) = R!Renamed(ch, s, n)
         /\ C!Promoted(ch, n) = R!Promoted(ch, n)
  <1>1. C!Parted(ch, s, n) = R!Parted(ch, s, n)
    BY SameErasing DEF C!Parted, R!Parted
  <1>2. C!Erased(ch, n) = R!Erased(ch, n)
    BY SameErasing DEF C!Erased, R!Erased
  <1>3. C!Demoted(ch, n) = R!Demoted(ch, n)
    BY SameErasing DEF C!Demoted, R!Demoted
  <1>4. C!Renamed(ch, s, n) = R!Renamed(ch, s, n)
    BY DEF C!Renamed, R!Renamed
  <1>5. C!Promoted(ch, n) = R!Promoted(ch, n)
    BY DEF C!Promoted, R!Promoted, C!SelectInSeq, R!SelectInSeq, C!Min, R!Min
  <1> QED
    BY <1>1, <1>2, <1>3, <1>4, <1>5

(* The actions of Chat.                                                    *)
LEMMA SameCommandLoop == C!CommandLoop <=> R!CommandLoop
  <1>1. \A l, ch : C!Applies(l, ch) <=> R!Applies(l, ch)
    BY DEF C!Applies, R!Applies
  <1>2. /\ C!On = R!On /\ \A v, n : C!HasNick(v, n) <=> R!HasNick(v, n)
        /\ (C!InMode <=> R!InMode) /\ (C!InKick <=> R!InKick)
        /\ (C!Adds <=> R!Adds)
    BY DEF C!On, R!On, C!HasNick, R!HasNick, C!InMode, R!InMode, C!InKick,
       R!InKick, C!Signs, R!Signs, C!Adds, R!Adds
  <1>3. /\ C!EndCommand <=> R!EndCommand
        /\ C!ModeInvite <=> R!ModeInvite
        /\ C!ModeTopic <=> R!ModeTopic
    BY <1>1, <1>2 DEF C!EndCommand, R!EndCommand, C!ModeInvite, R!ModeInvite,
       C!ModeTopic, R!ModeTopic, C!On, R!On, C!Adds, R!Adds
  <1>4. \A n : C!ModeOperator(n) <=> R!ModeOperator(n)
    BY <1>1, <1>2, SameChannelOps DEF C!ModeOperator, R!ModeOperator
  <1>5. \A v : C!ModeLimit(v) <=> R!ModeLimit(v)
    BY <1>1, <1>2 DEF C!ModeLimit, R!ModeLimit, C!Atoi, R!Atoi, C!Limited,
       R!Limited, C!Unlimited, R!Unlimited
  <1>6. \A key : C!ModeKey(key) <=> R!ModeKey(key)
    BY <1>1, <1>2 DEF C!ModeKey, R!ModeKey, C!On, R!On, C!Adds, R!Adds
  <1>7. \A n : C!KickClient(n) <=> R!KickClient(n)
    BY <1>2, SameChannelOps DEF C!KickClient, R!KickClient
  <1> QED
    BY <1>3, <1>4, <1>5, <1>6, <1>7 DEF C!CommandLoop, R!CommandLoop

(* So are the commands that work on channels...                            *)
LEMMA SameChannelCommand ==
  ASSUME NEW s
  PROVE  C!ChannelCommand(s) <=> R!ChannelCommand(s)
  <1>1. /\ C!Serves(s) <=> R!Serves(s)
        /\ \A c : C!Exists(c) <=> R!Exists(c)
        /\ C!Me(s) = R!Me(s) /\ C!Member = R!Member
    BY DEF C!Serves, R!Serves, C!Present, R!Present, C!Exists, R!Exists,
           C!Me, R!Me, C!Member, R!Member
  <1>2. \A ch, t, n : /\ C!HasClient(ch, t) <=> R!HasClient(ch, t)
                      /\ C!HasOperator(ch, t) <=> R!HasOperator(ch, t)
                      /\ C!HasNick(ch, t) <=> R!HasNick(ch, t)
                      /\ C!IfUsed(ch) = R!IfUsed(ch)
                      /\ C!Admits(ch, n, t) <=> R!Admits(ch, n, t)
    BY DEF C!HasClient, R!HasClient, C!HasOperator, R!HasOperator,
           C!HasSocket, R!HasSocket, C!HasNick, R!HasNick, C!IfUsed, R!IfUsed,
           C!Admits, R!Admits, C!HasRoom, R!HasRoom, C!LetsIn, R!LetsIn,
           C!HasInvited, R!HasInvited
  <1>3. \A c : C!PartChannel(s, c) <=> R!PartChannel(s, c)
    BY <1>1, <1>2, SameChannelOps DEF C!PartChannel, R!PartChannel
  <1>4. \A c, key : C!CreateChannel(s, c, key) <=> R!CreateChannel(s, c, key)
    BY <1>1 DEF C!CreateChannel, R!CreateChannel, C!NewChannel, R!NewChannel
  <1>5. \A c, key : C!JoinChannel(s, c, key) <=> R!JoinChannel(s, c, key)
    BY <1>1, <1>2 DEF C!JoinChannel, R!JoinChannel, C!NewTo, R!NewTo,
       C!Joined, R!Joined
  <1>6. \A c, kind : C!Begin(s, c, kind) <=> R!Begin(s, c, kind)
    BY <1>1, <1>2 DEF C!Begin, R!Begin
  <1>7. \A c, m : C!Invite(s, m, c) <=> R!Invite(s, m, c)
    BY <1>1, <1>2 DEF C!Invite, R!Invite, C!Findable, R!Findable, C!Present,
       R!Present, C!NickTaken, R!NickTaken, C!InvitedTo, R!InvitedTo
  <1>8. \A c, text : C!SetTopic(s, c, text) <=> R!SetTopic(s, c, text)
    BY <1>1, <1>2 DEF C!SetTopic, R!SetTopic
  <1>9. \A c, sign : /\ C!BeginMode(s, c, sign) <=> R!BeginMode(s, c, sign)
                     /\ C!BeginKick(s, c) <=> R!BeginKick(s, c)
                     /\ C!Signs = R!Signs
    BY <1>2, <1>6 DEF C!BeginMode, R!BeginMode, C!BeginKick, R!BeginKick,
       C!Signs, R!Signs
  <1> QED
    BY <1>1, <1>3, <1>4, <1>5, <1>7, <1>8, <1>9
       DEF C!ChannelCommand, R!ChannelCommand

(* ...and what clients that come, go or change their nickname do to them.  *)
LEMMA SameClientSteps ==
  ASSUME NEW s, NEW n
  PROVE  /\ C!Quit(s) <=> R!Quit(s)
         /\ C!Evict(s) <=> R!Evict(s)
         /\ C!QuitHandshake(s, n) <=> R!QuitHandshake(s, n)
         /\ C!SignOn(s, n) <=> R!SignOn(s, n)
         /\ C!ChangeNick(s, n) <=> R!ChangeNick(s, n)
  <1>1. \A t, m : C!AfterQuit(t, m) = R!AfterQuit(t, m)
    BY SameChannelOps DEF C!AfterQuit, R!AfterQuit, C!IfUsed, R!IfUsed,
       C!Exists, R!Exists, C!HasClient, R!HasClient, C!HasSocket, R!HasSocket
  <1>2. C!AfterNick(s, n) = R!AfterNick(s, n)
    BY SameChannelOps DEF C!AfterNick, R!AfterNick, C!Exists, R!Exists,
       C!HasClient, R!HasClient, C!HasSocket, R!HasSocket
  <1>3. C!Serves(s) <=> R!Serves(s)
    BY DEF C!Serves, R!Serves, C!Present, R!Present
  <1>4. (C!Present(s) <=> R!Present(s)) /\ (C!NickTaken(n) <=> R!NickTaken(n))
    BY DEF C!Present, R!Present, C!NickTaken, R!NickTaken
  <1>5. C!Quit(s) <=> R!Quit(s)
    BY <1>1, <1>3 DEF C!Quit, R!Quit
  <1>6. C!Evict(s) <=> R!Evict(s)
    BY <1>3 DEF C!Evict, R!Evict
  <1>7. C!QuitHandshake(s, n) <=> R!QuitHandshake(s, n)
    BY <1>1, <1>4 DEF C!QuitHandshake, R!QuitHandshake
  <1>8. C!SignOn(s, n) <=> R!SignOn(s, n)
    BY <1>4 DEF C!SignOn, R!SignOn
  <1>9. C!ChangeNick(s, n) <=> R!ChangeNick(s, n)
    BY <1>2, <1>3, <1>4 DEF C!ChangeNick, R!ChangeNick
  <1> QED
    BY <1>5, <1>6, <1>7, <1>8, <1>9

(* The two instances of Chat have the same behaviours.                     *)
LEMMA SameChat ==
  /\ C!Init <=> R!Init
  /\ [C!Next]_(C!vars) <=> [R!Next]_(R!vars)
  <1>1. C!Next <=> R!Next
    BY SameCommandLoop, SameChannelCommand, SameClientSteps DEF C!Next, R!Next
  <1>2. C!Init <=> R!Init
    BY DEF C!Init, R!Init
  <1>3. UNCHANGED C!vars <=> UNCHANGED R!vars
    BY DEF C!vars, R!vars
  <1> QED
    BY <1>1, <1>2, <1>3
-----------------------------------------------------------------------------
(***************************************************************************)
(* The nicknames that Chat sees.                                           *)
(***************************************************************************)

(* What the refinement needs to know of the connections, and what the      *)
(* roster of connections needs in addition.                                *)
ServerInv ==
  /\ IInv
  /\ Handshakes
  /\ ConnNumbers
  /\ swept \in BOOLEAN

(* A registered client is seen under its nickname, every other descriptor  *)
(* as having none.                                                         *)
LEMMA SeenNick ==
  ASSUME IInv, Handshakes
  PROVE  /\ \A c \in clients :
              c.registered => RegisteredNick(c.sock) = c.nick /\ c.nick \in Nicks
         /\ \A s : ~(\E c \in clients : c.sock = s /\ c.registered)
                     => RegisteredNick(s) = NoNick
         /\ Nicknames \in [Fds -> Nicks \cup {NoNick}]
  <1>1. ASSUME NEW c \in clients, c.registered
        PROVE  RegisteredNick(c.sock) = c.nick /\ c.nick \in Nicks
    <2>1. ClientOf(c.sock) = c
      BY ClientOfOK DEF HasClient, IInv, OneClientPerSocket
    <2>2. c.nick # NoNick /\ c.nick \in Nicks \cup {NoNick}
      BY <1>1 DEF Handshakes, NamedInOrder, IInv, TypeOK, Client
    <2> QED
      BY <1>1, <2>1, <2>2 DEF RegisteredNick
  <1>2. \A s : ~(\E c \in clients : c.sock = s /\ c.registered)
                 => RegisteredNick(s) = NoNick
    BY DEF RegisteredNick
  <1>3. \A s : RegisteredNick(s) \in Nicks \cup {NoNick}
    BY <1>1, <1>2
  <1> QED
    BY <1>1, <1>2, <1>3 DEF Nicknames

(* While no Client changes, what is seen does not either.                  *)
LEMMA SameClientsSeen ==
  ASSUME UNCHANGED clients
  PROVE  UNCHANGED Nicknames
  BY DEF Nicknames, RegisteredNick, ClientOf

(* What is seen of a descriptor depends on its registered clients only.    *)
LEMMA SeenElsewhere ==
  ASSUME IInv, Handshakes, IInv', Handshakes', NEW t,
         \A c : c.sock = t /\ c.registered =>
                  (c \in clients' <=> c \in clients)
  PROVE  RegisteredNick(t)' = RegisteredNick(t)
  <1>1. CASE \E c \in clients : c.sock = t /\ c.registered
    <2>1. PICK c \in clients : c.sock = t /\ c.registered
      BY <1>1
    <2>2. c \in clients'
      BY <2>1
    <2>3. RegisteredNick(t) = c.nick
      BY <2>1, SeenNick
    <2>4. RegisteredNick(t)' = c.nick
      BY <2>1, <2>2, ClientOfOK DEF RegisteredNick, ClientOf, IInv,
         OneClientPerSocket
    <2> QED
      BY <2>3, <2>4
  <1>2. CASE ~(\E c \in clients : c.sock = t /\ c.registered)
    BY <1>2 DEF RegisteredNick
  <1> QED
    BY <1>1, <1>2

(* One descriptor is seen differently.                                     *)
LEMMA OneSeen ==
  ASSUME IInv, Handshakes, IInv', Handshakes', NEW s \in Fds, NEW n,
         RegisteredNick(s)' = n,
         \A c : c.sock # s => (c \in clients' <=> c \in clients)
  PROVE  Nicknames' = [Nicknames EXCEPT ![s] = n]
  <1>1. \A t \in Fds \ {s} : RegisteredNick(t)' = RegisteredNick(t)
    BY SeenElsewhere
  <1> QED
    BY <1>1 DEF Nicknames

(* removeClient takes a client out of sight.                               *)
LEMMA RemovedSeen ==
  ASSUME IInv, Handshakes, IInv', Handshakes', NEW s \in Fds, RemoveClient(s)
  PROVE  Nicknames' = [Nicknames EXCEPT ![s] = NoNick]
  <1>1. clients' = {c \in clients : c.sock # s}
    BY DEF RemoveClient
  <1>2. RegisteredNick(s)' = NoNick
    BY <1>1 DEF RegisteredNick
  <1> QED
    BY <1>1, <1>2, OneSeen

(* A client that was not seen and is removed is not missed.                *)
LEMMA RemovedUnseen ==
  ASSUME IInv, Handshakes, IInv', Handshakes', NEW s \in Fds, RemoveClient(s),
         RegisteredNick(s) = NoNick
  PROVE  UNCHANGED Nicknames
  BY RemovedSeen DEF Nicknames

(* A handler that replaces the Client of s.                                *)
LEMMA UpdatedSeen ==
  ASSUME IInv, Handshakes, IInv', Handshakes', NEW s \in Fds, HasClient(s),
         NEW d, d.sock = s, clients' = Update(s, d)
  PROVE  Nicknames' = [Nicknames EXCEPT ![s] = IF d.registered THEN d.nick
                                                              ELSE NoNick]
  <1>1. /\ d \in clients'
        /\ \A e \in clients' : e = d \/ (e \in clients /\ e.sock # s)
        /\ \A c \in clients : c.sock # s => c \in clients'
    BY DEF Update, HasClient
  <1>2. CASE d.registered
    <2>1. ClientOf(s)' = d
      BY <1>1 DEF ClientOf
    <2>2. RegisteredNick(s)' = d.nick
      BY <1>1, <1>2, <2>1 DEF RegisteredNick
    <2> QED
      BY <1>1, <1>2, <2>2, OneSeen
  <1>3. CASE ~d.registered
    <2>1. RegisteredNick(s)' = NoNick
      BY <1>1, <1>3 DEF RegisteredNick
    <2> QED
      BY <1>1, <1>3, <2>1, OneSeen
  <1> QED
    BY <1>2, <1>3

(* A nickname no Client has is not seen.                                   *)
LEMMA FreeUnseen ==
  ASSUME IInv, Handshakes, NEW n, n # NoNick,
         NEW s, \A c \in clients : c.nick = n => c.sock = s /\ ~c.registered
  PROVE  ~C!NickTaken(n)
  <1> SUFFICES ASSUME NEW t \in Fds, RegisteredNick(t) = n
               PROVE  FALSE
    BY DEF C!NickTaken
  <1>1. PICK c \in clients : c.sock = t /\ c.registered
    BY SeenNick
  <1>2. c.nick = n
    BY <1>1, SeenNick
  <1> QED
    BY <1>1, <1>2
-----------------------------------------------------------------------------
(***************************************************************************)
(* Every step of the server is one of Chat or none.                        *)
(***************************************************************************)
Stutters == UNCHANGED C!vars

(* What changes neither nicknames nor channels is a stutter of Chat.       *)
LEMMA SeenStutters ==
  ASSUME UNCHANGED Nicknames, UNCHANGED chatVars
  PROVE  Stutters
  BY DEF Stutters, C!vars, Nicknames, chatVars

(* PASS and the NICK of a handshake are not seen.                          *)
LEMMA PassStutters ==
  ASSUME IInv, Handshakes, IInv', Handshakes', NEW s \in Fds, PassAccepted(s)
  PROVE  UNCHANGED Nicknames
  <1>1. /\ clients' = clients \cup {NewClient(s)} /\ s \notin fds.registered
        /\ ~NewClient(s).registered
    BY DEF PassAccepted, Unregistered, Find, NewClient
  <1>2. \A c : c.registered => (c \in clients' <=> c \in clients)
    BY <1>1
  <1>3. \A t \in Fds : RegisteredNick(t)' = RegisteredNick(t)
    BY <1>2, SeenElsewhere
  <1> QED
    BY <1>3 DEF Nicknames

(* The NICK of a handshake is not seen either: its client is not           *)
(* registered.                                                             *)
LEMMA AuthNickStutters ==
  ASSUME IInv, Handshakes, IInv', Handshakes', NEW s \in Fds, NEW n \in Nicks,
         AuthNick(s, n)
  PROVE  UNCHANGED Nicknames
  <1> DEFINE d == [ClientOf(s) EXCEPT !.nick = n, !.nicknameCheck = TRUE]
  <1>1. HasClient(s) /\ clients' = Update(s, d) /\ s \notin fds.registered
    BY DEF AuthNick, Unregistered, Find
  <1>2. d.sock = s /\ ~d.registered /\ ~ClientOf(s).registered
    BY <1>1, ServedClient DEF Client
  <1> HIDE DEF d
  <1>3. Nicknames' = [Nicknames EXCEPT ![s] = NoNick]
    BY <1>1, <1>2, UpdatedSeen
  <1>4. RegisteredNick(s) = NoNick
    BY <1>1, <1>2, ClientOfOK, SeenNick DEF IInv, OneClientPerSocket
  <1> QED
    BY <1>3, <1>4 DEF Nicknames

(* USER signs the client on.                                               *)
LEMMA AuthUserSignsOn ==
  ASSUME IInv, Handshakes, IInv', Handshakes', NEW s \in Fds, AuthUser(s),
         command = NoCommand, UNCHANGED chatVars
  PROVE  C!Next
  <1> DEFINE me == ClientOf(s)
             d == [me EXCEPT !.registered = TRUE]
  <1>1. /\ HasClient(s) /\ clients' = Update(s, d) /\ s \notin fds.registered
        /\ me.nicknameCheck
    BY DEF AuthUser, Unregistered, Find
  <1>2. /\ d.sock = s /\ d.registered /\ d.nick = me.nick
        /\ me \in clients /\ me.sock = s /\ ~me.registered
        /\ me.nick # NoNick /\ me.nick \in Nicks
    BY <1>1, ServedClient, ClientOfOK DEF Client
  <1> HIDE DEF d, me
  <1>3. Nicknames' = [Nicknames EXCEPT ![s] = me.nick]
    BY <1>1, <1>2, UpdatedSeen
  <1>4. Nicknames[s] = NoNick
    BY <1>2, SeenNick DEF Nicknames, IInv, OneClientPerSocket
  <1>5. ~C!NickTaken(me.nick)
    BY <1>2, FreeUnseen DEF IInv, NickUnique
  <1>6. C!SignOn(s, me.nick)
    BY <1>3, <1>4, <1>5 DEF C!SignOn, C!Present, Nicknames, chatVars
  <1> QED
    BY <1>2, <1>6 DEF C!Next

(* NICK renames a client that is seen.                                     *)
LEMMA NickRenames ==
  ASSUME IInv, Handshakes, IInv', Handshakes', NEW s \in Fds, NEW n \in Nicks,
         NickCommand(s, n), command = NoCommand
  PROVE  C!Next
  <1> DEFINE me == ClientOf(s)
             d == [me EXCEPT !.nick = n]
  <1>1. /\ HasClient(s) /\ clients' = Update(s, d) /\ s \in fds.registered
        /\ ~NickTaken(n)
    BY DEF NickCommand, ChangeNick, Registered, Find
  <1>2. /\ d.sock = s /\ d.registered /\ d.nick = n
        /\ me \in clients /\ me.sock = s /\ me.registered
    BY <1>1, ServedClient, ClientOfOK DEF Client
  <1> HIDE DEF d, me
  <1>3. Nicknames' = [Nicknames EXCEPT ![s] = n]
    BY <1>1, <1>2, UpdatedSeen
  <1>4. Nicknames[s] # NoNick
    BY <1>2, SeenNick, NicksAssumption DEF Nicknames
  <1>5. ~C!NickTaken(n)
    BY <1>1, NicksAssumption, FreeUnseen DEF NickTaken
  <1>6. C!ChangeNick(s, n)
    BY <1>3, <1>4, <1>5
       DEF C!ChangeNick, C!Serves, C!Present, Nicknames, NickCommand
  <1> QED
    BY <1>6 DEF C!Next

(* A client that goes, from QUIT or because its connection broke: a client *)
(* that is seen quits, one in its handshake quits unseen, and where there  *)
(* is no client nothing happens.                                           *)
LEMMA GoneQuits ==
  ASSUME IInv, Handshakes, IInv', Handshakes', NEW s \in Fds, RemoveClient(s),
         command = NoCommand, channels' = ChannelsWithout(s),
         UNCHANGED <<command, swept>>
  PROVE  C!Next \/ Stutters
  <1>1. Nicknames' = [Nicknames EXCEPT ![s] = NoNick]
    BY RemovedSeen
  <1>2. CASE ~HasClient(s)
    <2>1. UNCHANGED channels /\ RegisteredNick(s) = NoNick
      BY <1>2, SeenNick DEF ChannelsWithout, HasClient
    <2>2. UNCHANGED Nicknames
      BY <2>1, RemovedUnseen
    <2> QED
      BY <2>1, <2>2, SeenStutters DEF chatVars
  <1> DEFINE me == ClientOf(s)
  <1>3. ASSUME HasClient(s)
        PROVE  /\ me \in clients /\ me.sock = s
               /\ me.nick \in Nicks \cup {NoNick}
               /\ channels' = C!AfterQuit(s, me.nick)
    BY <1>3, ClientOfOK DEF IInv, TypeOK, Client, ChannelsWithout
  <1> HIDE DEF me
  <1>4. CASE HasClient(s) /\ me.registered
    <2>1. Nicknames[s] = me.nick /\ me.nick \in Nicks
      BY <1>3, <1>4, SeenNick DEF Nicknames
    <2>2. C!Quit(s)
      BY <1>1, <1>3, <1>4, <2>1, NicksAssumption
         DEF C!Quit, C!Serves, C!Present, Nicknames
    <2> QED
      BY <2>2 DEF C!Next
  <1>5. CASE HasClient(s) /\ ~me.registered
    <2>1. RegisteredNick(s) = NoNick
      BY <1>3, <1>5, SeenNick DEF IInv, OneClientPerSocket
    <2>2. UNCHANGED Nicknames
      BY <2>1, RemovedUnseen
    <2>3. me.nick # NoNick => ~C!NickTaken(me.nick)
      BY <1>3, <1>5, FreeUnseen DEF IInv, NickUnique
    <2>4. C!QuitHandshake(s, me.nick)
      BY <1>3, <1>5, <2>1, <2>2, <2>3
         DEF C!QuitHandshake, C!Present, Nicknames
    <2> QED
      BY <1>3, <1>5, <2>4 DEF C!Next
  <1> QED
    BY <1>2, <1>4, <1>5

(* A sweep evicts the client of the last slot, if it is seen.              *)
LEMMA SweepEvicts ==
  ASSUME IInv, Handshakes, IInv', Handshakes', swept \in BOOLEAN, command = NoCommand,
         SweepClients
  PROVE  C!Next \/ Stutters
  <1> DEFINE s == LastSlot(fds).fd
  <1>1. s \in Fds /\ RemoveClient(s)
    <2>1. fds.slots[Len(fds.slots)] \in Slot
      BY DEF SweepClients, Sweep, IInv, TypeOK, Table
    <2> QED
      BY <2>1 DEF Slot, LastSlot, SweepClients, Sweep
  <1>2. /\ swept' = (swept \/ RegisteredNick(s) # NoNick)
        /\ UNCHANGED <<channels, command>>
    BY DEF SweepClients
  <1> HIDE DEF s
  <1>3. CASE RegisteredNick(s) = NoNick
    <2>1. UNCHANGED swept
      BY <1>2, <1>3
    <2> QED
      BY <1>1, <1>2, <1>3, <2>1, RemovedUnseen, SeenStutters DEF chatVars
  <1>4. CASE RegisteredNick(s) # NoNick
    <2>1. Nicknames' = [Nicknames EXCEPT ![s] = NoNick]
      BY <1>1, RemovedSeen
    <2>2. swept' = TRUE
      BY <1>2, <1>4
    <2>3. C!Evict(s)
      BY <1>1, <1>2, <1>4, <2>1, <2>2
         DEF C!Evict, C!Serves, C!Present, Nicknames
    <2> QED
      BY <1>1, <2>3 DEF C!Next
  <1> QED
    BY <1>3, <1>4

(* The connections go on as in Sessions, whatever the channels do.         *)
LEMMA ConnectionStep == [ServerNext]_allVars => [Next]_vars
  <1> SUFFICES ASSUME ServerNext
               PROVE  [Next]_vars
    BY DEF allVars
  <1>1. CommandLoop \/ (\E s \in Fds : ChannelCommand(s)) => UNCHANGED vars
    BY DEF CommandLoop, ChannelCommand
  <1>2. LoopOnly => LoopStep
    BY DEF LoopOnly, LoopStep
  <1>3. Handshake => CommandStep
    BY DEF Handshake, CommandStep
  <1>4. SweepClients => LoopStep
    BY DEF SweepClients, LoopStep
  <1>5. \A s \in Fds : /\ BrokenConnection(s) => LoopStep
                       /\ QuitCommand(s) => CommandStep
                       /\ \A n \in Nicks : NickCommand(s, n) => CommandStep
    BY DEF BrokenConnection, QuitCommand, NickCommand, LoopStep, CommandStep
  <1> QED
    BY <1>1, <1>2, <1>3, <1>4, <1>5 DEF ServerNext, Quiet, Next

(* History is not forgotten.                                               *)
LEMMA SweptStays ==
  ASSUME swept \in BOOLEAN, [ServerNext]_allVars
  PROVE  swept' = swept \/ swept' = TRUE
  <1>1. CommandLoop => UNCHANGED swept
    BY DEF CommandLoop, C!CommandLoop, C!EndCommand, C!ModeInvite, C!ModeTopic,
           C!ModeOperator, C!ModeLimit, C!ModeKey, C!KickClient, C!Applies
  <1>2. ASSUME NEW s \in Fds, ChannelCommand(s)
        PROVE  UNCHANGED swept
    BY <1>2 DEF ChannelCommand, C!ChannelCommand, C!PartChannel,
       C!CreateChannel, C!JoinChannel, C!Invite, C!SetTopic, C!Begin,
       C!BeginMode, C!BeginKick
  <1>3. SweepClients => swept' = swept \/ swept' = TRUE
    BY DEF SweepClients
  <1> QED
    BY <1>1, <1>2, <1>3
       DEF ServerNext, allVars, chatVars, Quiet, BrokenConnection,
           QuitCommand, NickCommand

(* The invariant of the connections, of the handshakes and of the          *)
(* connection numbers holds in the whole.                                  *)
LEMMA ServerStepInv == ServerInv /\ [ServerNext]_allVars => ServerInv'
  <1> SUFFICES ASSUME ServerInv, [ServerNext]_allVars
               PROVE  ServerInv'
    OBVIOUS
  <1>1. [Next]_vars
    BY ConnectionStep
  <1>2. IInv' /\ Handshakes' /\ ConnNumbers'
    BY <1>1, NextOK, HandshakesStep, ConnNumbersStep DEF ServerInv, IInv
  <1>3. swept' = swept \/ swept' = TRUE
    BY SweptStays DEF ServerInv
  <1> QED
    BY <1>2, <1>3 DEF ServerInv

(* The invariant holds in every behaviour of the server.                   *)
LEMMA ServerInductive == ServerSpec => []ServerInv
  <1>1. ServerInit => ServerInv
    <2>1. Init => Handshakes
      BY DEF Init, Handshakes, MarkedIsRegistered, NamedInOrder
    <2>2. Init => ConnNumbers
      BY MaxConnsAssumption DEF Init, ConnNumbers
    <2> QED
      BY <2>1, <2>2, InitOK DEF ServerInit, ServerInv
  <1> QED
    BY <1>1, ServerStepInv, PTL DEF ServerSpec

(* Every step of the server is a step of Chat or a stutter.                *)
LEMMA ChatStep ==
  ASSUME ServerInv, [ServerNext]_allVars
  PROVE  [C!Next]_(C!vars)
  <1>1. IInv /\ Handshakes /\ IInv' /\ Handshakes' /\ swept \in BOOLEAN
    BY ServerStepInv DEF ServerInv
  <1>2. ASSUME UNCHANGED clients, UNCHANGED chatVars
        PROVE  Stutters
    BY <1>2, SameClientsSeen, SeenStutters
  <1>3. CASE UNCHANGED allVars
    BY <1>2, <1>3 DEF allVars, vars, Stutters
  <1>4. CASE CommandLoop
    BY <1>4 DEF CommandLoop, C!Next
  <1>5. ASSUME NEW s \in Fds, ChannelCommand(s)
        PROVE  C!Next
    BY <1>5 DEF ChannelCommand, C!Next
  <1>6. CASE LoopOnly /\ UNCHANGED chatVars
    BY <1>2, <1>6 DEF LoopOnly, Poll, RefuseClient, NoConnection, EndPass,
       EndBatch, AcceptClient, SkipSlot, StartBatch, Stutters
  <1>7. CASE Handshake /\ UNCHANGED chatVars /\ command = NoCommand
    <2>1. ASSUME NEW s \in Fds, PassAccepted(s)
          PROVE  Stutters
      BY <1>1, <1>7, <2>1, PassStutters, SeenStutters
    <2>2. ASSUME NEW s \in Fds, PassRejected(s)
          PROVE  Stutters
      BY <1>2, <1>7, <2>2 DEF PassRejected
    <2>3. ASSUME NEW s \in Fds, AuthUser(s)
          PROVE  C!Next
      BY <1>1, <1>7, <2>3, AuthUserSignsOn
    <2>4. ASSUME NEW s \in Fds, LostClient(s)
          PROVE  Stutters
      <3>1. RegisteredNick(s) = NoNick
        BY <1>1, <2>4, SeenNick DEF LostClient, HasClient
      <3> QED
        BY <1>1, <1>7, <2>4, <3>1, RemovedUnseen, SeenStutters DEF LostClient
    <2>5. ASSUME NEW s \in Fds, NEW n \in Nicks, AuthNick(s, n)
          PROVE  Stutters
      BY <1>1, <1>7, <2>5, AuthNickStutters, SeenStutters
    <2> QED
      BY <1>7, <2>1, <2>2, <2>3, <2>4, <2>5 DEF Handshake, Stutters
  <1>8. CASE SweepClients /\ command = NoCommand
    BY <1>1, <1>8, SweepEvicts DEF Stutters
  <1>9. ASSUME NEW s \in Fds, BrokenConnection(s) \/ QuitCommand(s),
               command = NoCommand
        PROVE  C!Next \/ Stutters
    BY <1>1, <1>9, GoneQuits DEF BrokenConnection, QuitCommand, PeerGone, Quit
  <1>10. ASSUME NEW s \in Fds, NEW n \in Nicks, NickCommand(s, n),
                command = NoCommand
         PROVE  C!Next
    BY <1>1, <1>10, NickRenames
  <1> QED
    BY <1>3, <1>4, <1>5, <1>6, <1>7, <1>8, <1>9, <1>10
       DEF ServerNext, Quiet, Stutters

(* The server starts as Chat does.                                         *)
LEMMA ChatInit == ServerInit => C!Init
  BY DEF ServerInit, Init, C!Init, RegisteredNick

(* The server runs its channels as Chat has them, so that what is proved   *)
(* of Chat is true in the server: at every stage of a handshake, for       *)
(* connections that break in it, in batches that go on after their         *)
(* connection was closed, and for clients that another connection left.    *)
THEOREM ServerRunsChat == ServerSpec => RunsChat
  <1>1. ServerInv /\ [ServerNext]_allVars => [C!Next]_(C!vars)
    BY ChatStep
  <1> QED
    BY <1>1, ChatInit, ServerInductive, PTL DEF ServerSpec, RunsChat, C!Spec
-----------------------------------------------------------------------------
(***************************************************************************)
(* Descriptors and the connections on them.                                *)
(***************************************************************************)
Image(S) == {conn[s] : s \in S}

(* Where conn is one to one, as it is on open descriptors, numbers do not  *)
(* mix up what the descriptors keep apart.                                 *)
OneToOne(D) == \A s, t \in D : conn[s] = conn[t] => s = t

LEMMA ImageOK ==
  ASSUME NEW D, OneToOne(D), NEW S, S \subseteq D, NEW p, p \in D, NEW T
  PROVE  /\ T = S \ {p} => Image(T) = Image(S) \ {conn[p]}
         /\ T = S \cup {p} => Image(T) = Image(S) \cup {conn[p]}
         /\ conn[p] \in Image(S) <=> p \in S
  BY DEF Image, OneToOne

(* Open descriptors have connections of their own.                         *)
LEMMA OpenNumbers ==
  ASSUME ConnNumbers
  PROVE  OneToOne(open) /\ \A s \in open : conn[s] \in 1..MaxConns
  BY MaxConnsAssumption DEF ConnNumbers, OneToOne

(* The image of a set is empty if the set is.                              *)
LEMMA ImageEmpty ==
  ASSUME NEW S
  PROVE  Image(S) = {} <=> S = {}
  BY DEF Image

(* The descriptors that are seen, who is told, and what exists.            *)
Seen == {s \in Fds : RegisteredNick(s) # NoNick}

(* Both instances see the same members and channels.                       *)
LEMMA SameTold ==
  /\ \A c : C!Told(c) = R!Told(c)
  /\ C!Existing = R!Existing
  /\ R!Online = Seen
  BY DEF C!Told, R!Told, C!Existing, R!Existing, C!Exists, R!Exists,
         C!Recipients, R!Recipients, C!Nobody, R!Nobody, R!Online, R!Present,
         Seen

(* Until a sweep or a ghost, who is told is seen, and who is seen is on an *)
(* open descriptor.                                                        *)
LEMMA ToldSeen ==
  ASSUME ServerInv, R!Inv, ~swept
  PROVE  \A c \in ChannelNames : C!Told(c) \subseteq Seen
  <1>1. R!IInv
    BY DEF R!Inv
  <1>2. \A c \in ChannelNames : R!Told(c) \subseteq R!Online
    BY <1>1, R!ToldOnline, Constants
  <1> QED
    BY <1>2, SameTold

(* Until there is a ghost, who is seen is on an open descriptor.           *)
LEMMA SeenOpen ==
  ASSUME ServerInv, ~ghost
  PROVE  Seen \subseteq open
  BY SeenNick DEF Seen, ServerInv, IInv, Identity

(* A step of the server changes the number of a connection only when it    *)
(* accepts one, on a descriptor that was closed.                           *)
LEMMA ConnChanges ==
  ASSUME ServerInv, [ServerNext]_allVars
  PROVE  /\ ghost => ghost'
         /\ \/ UNCHANGED conn
            \/ /\ UNCHANGED <<Nicknames, chatVars>>
               /\ \A s \in open : conn'[s] = conn[s]
  <1>1. [Next]_vars
    BY ConnectionStep
  <1>2. ghost => ghost'
    <2>1. LoopStep => UNCHANGED ghost
      BY DEF LoopStep, Sweep, RemoveClient, Poll, NoConnection, EndPass,
             EndBatch, SkipSlot, PeerGone, StartBatch, RefuseClient,
             AcceptClient
    <2>2. CommandStep => (ghost => ghost')
      BY DEF CommandStep, PassAccepted, PassRejected, AuthUser, LostClient,
             Quit, RemoveClient, AuthNick, ChangeNick
    <2> QED
      BY <1>1, <2>1, <2>2 DEF Next, vars
  <1>3. ASSUME NEW s \in Fds, AcceptClient(s), UNCHANGED chatVars
        PROVE  /\ UNCHANGED <<Nicknames, chatVars>>
               /\ \A t \in open : conn'[t] = conn[t]
    <2>1. /\ UNCHANGED clients /\ s \notin open
          /\ conn' = [conn EXCEPT ![s] = nextConn]
      BY <1>3 DEF AcceptClient, LowestFree
    <2> QED
      BY <1>3, <2>1, SameClientsSeen DEF ServerInv, IInv, TypeOK
  <1>4. CASE LoopOnly /\ UNCHANGED chatVars
    BY <1>2, <1>3, <1>4 DEF LoopOnly, Poll, NoConnection, EndPass, EndBatch,
       SkipSlot, StartBatch, RefuseClient, connVars
  <1>5. Handshake => UNCHANGED conn
    BY DEF Handshake, PassAccepted, PassRejected, AuthUser, LostClient,
           RemoveClient, AuthNick, connVars
  <1>6. SweepClients => UNCHANGED conn
    BY DEF SweepClients, Sweep, RemoveClient, connVars
  <1>7. ASSUME NEW s \in Fds, BrokenConnection(s) \/ QuitCommand(s)
        PROVE  UNCHANGED conn
    BY <1>7 DEF BrokenConnection, QuitCommand, PeerGone, Quit, RemoveClient,
       connVars
  <1>8. ASSUME NEW s \in Fds, NEW n \in Nicks, NickCommand(s, n)
        PROVE  UNCHANGED conn
    BY <1>8 DEF NickCommand, ChangeNick, connVars
  <1>9. CommandLoop \/ (\E s \in Fds : ChannelCommand(s)) => UNCHANGED conn
    BY DEF CommandLoop, ChannelCommand, vars, connVars
  <1>10. UNCHANGED allVars => UNCHANGED conn
    BY DEF allVars, vars, connVars
  <1> QED
    BY <1>2, <1>4, <1>5, <1>6, <1>7, <1>8, <1>9, <1>10 DEF ServerNext, Quiet
-----------------------------------------------------------------------------
(***************************************************************************)
(* The roster of connections.                                              *)
(***************************************************************************)

(* Who is online in the roster, as Server has it. *)
OnlineConns == {conn[s] : s \in {t \in Fds : RegisteredNick(t) # NoNick}}

(* While no number changes, the roster of connections is the image of that *)
(* of descriptors before and after a step.                                 *)
LEMMA RosterIsImage ==
  ASSUME UNCHANGED conn
  PROVE  /\ OnlineConns = Image(Seen)
         /\ \A c : Audience(c) = Image(C!Told(c))
         /\ \A S : S = Seen' => OnlineConns' = Image(S)
         /\ \A c, S : S = C!Told(c)' => Audience(c)' = Image(S)
  BY DEF OnlineConns, Audience, Image, Seen

(* Steps of the roster of descriptors are steps of that of connections.    *)
(* The descriptors concerned are among the open ones before or after the   *)
(* step.                                                                   *)
LEMMA EnterMaps ==
  ASSUME ServerInv', Seen' \subseteq open', UNCHANGED conn,
         NEW p \in Fds, p \notin Seen, Seen' = Seen \cup {p},
         UNCHANGED C!Existing,
         \A c \in ChannelNames : C!Told(c)' = C!Told(c)
  PROVE  Promise!Step
  <1>1. /\ p \in open' /\ Seen \subseteq open' /\ OneToOne(open')
        /\ \A s \in open' : conn[s] \in 1..MaxConns
    BY MaxConnsAssumption DEF ServerInv, ConnNumbers, OneToOne
  <1>2. PICK q \in 1..MaxConns : q = conn[p]
    BY <1>1
  <1>3. q \notin Image(Seen) /\ Image(Seen \cup {p}) = Image(Seen) \cup {q}
    BY <1>1, <1>2, ImageOK
  <1>4. q \notin OnlineConns /\ OnlineConns' = OnlineConns \cup {q}
    BY <1>3, RosterIsImage
  <1>5. \A c \in ChannelNames : Audience(c)' = Audience(c)
    BY RosterIsImage
  <1>6. Promise!Enter(q)
    BY <1>4, <1>5 DEF Promise!Enter, OnlineConns
  <1> QED
    BY <1>6 DEF Promise!Step

(* The departure of a descriptor is that of its connection.                *)
LEMMA DepartMaps ==
  ASSUME ServerInv, Seen \subseteq open, UNCHANGED conn,
         \A c \in ChannelNames : C!Told(c) \subseteq Seen,
         NEW p \in Seen, Seen' = Seen \ {p},
         \A c \in ChannelNames : C!Told(c)' = C!Told(c) \ {p},
         C!Existing' = {c \in C!Existing : C!Told(c)' # {}}
  PROVE  Promise!Step
  <1>1. /\ p \in open /\ OneToOne(open)
        /\ \A s \in open : conn[s] \in 1..MaxConns
    BY OpenNumbers DEF ServerInv
  <1>2. PICK q \in 1..MaxConns : q = conn[p]
    BY <1>1
  <1>3. q \in OnlineConns /\ OnlineConns' = OnlineConns \ {q}
    BY <1>1, <1>2, ImageOK, RosterIsImage
  <1>4. \A c \in ChannelNames : Image(C!Told(c) \ {p}) = Image(C!Told(c)) \ {q}
    BY <1>1, <1>2, ImageOK
  <1>5. \A c \in ChannelNames : Audience(c)' = Audience(c) \ {q}
    BY <1>4, RosterIsImage
  <1>6. \A c \in ChannelNames : Audience(c)' = {} <=> C!Told(c)' = {}
    BY ImageEmpty, RosterIsImage
  <1>7. C!Existing \subseteq ChannelNames
    BY DEF C!Existing
  <1>8. Promise!Depart(q)
    BY <1>3, <1>5, <1>6, <1>7 DEF Promise!Depart, OnlineConns
  <1> QED
    BY <1>8 DEF Promise!Step

(* JOIN of a descriptor is that of its connection.                         *)
LEMMA JoinMaps ==
  ASSUME ServerInv, Seen \subseteq open, UNCHANGED conn,
         \A c \in ChannelNames : C!Told(c) \subseteq Seen,
         NEW p \in Seen, NEW c \in ChannelNames, p \notin C!Told(c),
         C!Told(c)' = C!Told(c) \cup {p},
         \A d \in ChannelNames \ {c} : C!Told(d)' = C!Told(d),
         C!Existing' = C!Existing \cup {c}, UNCHANGED Seen
  PROVE  Promise!Step
  <1>1. /\ p \in open /\ OneToOne(open)
        /\ \A s \in open : conn[s] \in 1..MaxConns
    BY OpenNumbers DEF ServerInv
  <1>2. PICK q \in 1..MaxConns : q = conn[p]
    BY <1>1
  <1>3. q \in OnlineConns /\ OnlineConns' = OnlineConns
    BY <1>1, <1>2, ImageOK, RosterIsImage
  <1>4. /\ Image(C!Told(c) \cup {p}) = Image(C!Told(c)) \cup {q}
        /\ q \notin Image(C!Told(c))
    BY <1>1, <1>2, ImageOK
  <1>5. q \notin Audience(c) /\ Audience(c)' = Audience(c) \cup {q}
    BY <1>4, RosterIsImage
  <1>6. \A d \in ChannelNames \ {c} : Audience(d)' = Audience(d)
    BY RosterIsImage
  <1>7. Promise!Join(q, c)
    BY <1>3, <1>5, <1>6 DEF Promise!Join, OnlineConns
  <1> QED
    BY <1>7 DEF Promise!Step

(* PART and KICK of a descriptor are those of its connection.              *)
LEMMA LeaveMaps ==
  ASSUME ServerInv, Seen \subseteq open, UNCHANGED conn,
         \A c \in ChannelNames : C!Told(c) \subseteq Seen,
         NEW c \in ChannelNames, NEW p \in C!Told(c),
         C!Told(c)' = C!Told(c) \ {p},
         \A d \in ChannelNames \ {c} : C!Told(d)' = C!Told(d),
         C!Existing' = {d \in C!Existing : C!Told(d)' # {}}, UNCHANGED Seen
  PROVE  Promise!Step
  <1>1. /\ p \in open /\ OneToOne(open)
        /\ \A s \in open : conn[s] \in 1..MaxConns
    BY OpenNumbers DEF ServerInv
  <1>2. PICK q \in 1..MaxConns : q = conn[p]
    BY <1>1
  <1>3. OnlineConns' = OnlineConns
    BY RosterIsImage
  <1>4. /\ Image(C!Told(c) \ {p}) = Image(C!Told(c)) \ {q}
        /\ q \in Image(C!Told(c))
    BY <1>1, <1>2, ImageOK
  <1>5. q \in Audience(c) /\ Audience(c)' = Audience(c) \ {q}
    BY <1>4, RosterIsImage
  <1>6. \A d \in ChannelNames \ {c} : Audience(d)' = Audience(d)
    BY RosterIsImage
  <1>7. \A d \in ChannelNames : Audience(d)' = {} <=> C!Told(d)' = {}
    BY ImageEmpty, RosterIsImage
  <1>8. C!Existing \subseteq ChannelNames
    BY DEF C!Existing
  <1>9. Promise!Leave(q, c)
    BY <1>3, <1>5, <1>6, <1>7, <1>8 DEF Promise!Leave, OnlineConns
  <1> QED
    BY <1>9 DEF Promise!Step

(* What RosterProofs shows of a step of the server, in the terms of the    *)
(* lemmas above: one of the four, or nothing.                              *)
Entered(p) ==
  /\ p \notin Seen /\ Seen' = Seen \cup {p}
  /\ UNCHANGED C!Existing
  /\ \A c \in ChannelNames : C!Told(c)' = C!Told(c)

Departed(p) ==
  /\ p \in Seen /\ Seen' = Seen \ {p}
  /\ C!Existing' = {c \in C!Existing : C!Told(c)' # {}}
  /\ \A c \in ChannelNames : C!Told(c)' = C!Told(c) \ {p}

Joined(p, c) ==
  /\ p \in Seen /\ p \notin C!Told(c) /\ UNCHANGED Seen
  /\ C!Existing' = C!Existing \cup {c}
  /\ C!Told(c)' = C!Told(c) \cup {p}
  /\ \A d \in ChannelNames \ {c} : C!Told(d)' = C!Told(d)

Left(p, c) ==
  /\ p \in C!Told(c) /\ UNCHANGED Seen
  /\ C!Existing' = {d \in C!Existing : C!Told(d)' # {}}
  /\ C!Told(c)' = C!Told(c) \ {p}
  /\ \A d \in ChannelNames \ {c} : C!Told(d)' = C!Told(d)

Unmoved ==
  /\ UNCHANGED <<Seen, C!Existing>>
  /\ \A c \in ChannelNames : C!Told(c)' = C!Told(c)

(* What ChatIsRoster says of a step, in the server's words.                *)
LEMMA DescriptorStep ==
  ASSUME R!Inv, [R!Next]_(R!vars), ~swept'
  PROVE  \/ Unmoved
         \/ \E p \in Fds : \/ Entered(p) \/ Departed(p)
                           \/ \E c \in ChannelNames : Joined(p, c) \/ Left(p, c)
  <1> DEFINE roster == [c \in ChannelNames |-> R!Told(c)]
  <1>1. [R!Promise!Next]_(R!Promise!vars)
    BY R!RosterStep, Constants
  <1>2. /\ {s \in Fds : R!Present(s)} = Seen
        /\ {s \in Fds : R!Present(s)}' = Seen'
        /\ R!Existing = C!Existing /\ R!Existing' = C!Existing'
        /\ \A c \in ChannelNames : roster[c] = C!Told(c)
        /\ \A c \in ChannelNames : roster'[c] = C!Told(c)'
    <2>1. R!Existing' = C!Existing' /\ \A c : R!Told(c)' = C!Told(c)'
      BY DEF C!Told, R!Told, C!Existing, R!Existing, C!Exists, R!Exists,
             C!Recipients, R!Recipients, C!Nobody, R!Nobody
    <2> QED
      BY <2>1, SameTold DEF R!Present, Seen
  <1>3. CASE UNCHANGED R!Promise!vars
    BY <1>2, <1>3 DEF R!Promise!vars, Unmoved
  <1>4. ASSUME NEW p \in Fds, R!Promise!Enter(p)
        PROVE  Entered(p)
    BY <1>2, <1>4 DEF R!Promise!Enter, Entered
  <1>5. ASSUME NEW p \in Fds, R!Promise!Depart(p)
        PROVE  Departed(p)
    BY <1>2, <1>5 DEF R!Promise!Depart, Departed, C!Existing
  <1>6. ASSUME NEW p \in Fds, NEW c \in ChannelNames, R!Promise!Join(p, c)
        PROVE  Joined(p, c)
    BY <1>2, <1>6 DEF R!Promise!Join, Joined
  <1>7. ASSUME NEW p \in Fds, NEW c \in ChannelNames, R!Promise!Leave(p, c)
        PROVE  Left(p, c)
    BY <1>2, <1>7 DEF R!Promise!Leave, Left, C!Existing
  <1>8. R!Promise!Next => R!Promise!Step
    BY DEF R!Promise!Next, R!Promise!Kept, R!Promise!Broken
  <1> QED
    BY <1>1, <1>3, <1>4, <1>5, <1>6, <1>7, <1>8 DEF R!Promise!Step

(* While the promise is kept, every step of the server is a step of the    *)
(* roster of connections or none.                                          *)
LEMMA RosterStep ==
  ASSUME ServerInv, R!Inv, R!Inv', [ServerNext]_allVars
  PROVE  [Promise!Next]_(Promise!vars)
  <1>1. CASE swept' \/ ghost'
    BY <1>1 DEF Promise!Next, Promise!Broken
  <1>2. CASE ~swept' /\ ~ghost'
    <2>1. ~swept /\ ~ghost /\ swept' = FALSE /\ swept = FALSE
      BY <1>2, SweptStays, ConnChanges DEF ServerInv
    <2>2. ServerInv'
      BY ServerStepInv
    <2>3. /\ Seen \subseteq open
          /\ \A c \in ChannelNames : C!Told(c) \subseteq Seen
      BY <2>1, SeenOpen, ToldSeen
    <2>4. Seen' \subseteq open'
      BY <1>2, <2>2 DEF Seen, RegisteredNick, ServerInv, IInv, Identity
    <2>5. UNCHANGED <<swept, ghost>>
      BY <1>2, <2>1, <2>2 DEF ServerInv, IInv, TypeOK
    <2>6. Promise!Step => Promise!Next
      BY <2>5 DEF Promise!Next, Promise!Kept
    <2>7. ASSUME UNCHANGED <<OnlineConns, C!Existing>>,
                 \A c \in ChannelNames : Audience(c)' = Audience(c)
          PROVE  UNCHANGED Promise!vars
      BY <2>5, <2>7 DEF Promise!vars, OnlineConns
    <2>8. CASE UNCHANGED conn
      <3>1. \/ Unmoved
            \/ \E p \in Fds :
                 \/ Entered(p) \/ Departed(p)
                 \/ \E c \in ChannelNames : Joined(p, c) \/ Left(p, c)
        <4>1. [R!Next]_(R!vars)
          BY ChatStep, SameChat
        <4> QED
          BY <1>2, <4>1, DescriptorStep
      <3>2. CASE Unmoved
        BY <2>7, <2>8, <3>2, RosterIsImage DEF Unmoved
      <3>3. ASSUME NEW p \in Fds, Entered(p)
            PROVE  Promise!Next
        BY <2>2, <2>4, <2>6, <2>8, <3>3, EnterMaps DEF Entered
      <3>4. ASSUME NEW p \in Fds, Departed(p)
            PROVE  Promise!Next
        BY <2>3, <2>6, <2>8, <3>4, DepartMaps DEF Departed
      <3>5. ASSUME NEW p \in Fds, NEW c \in ChannelNames, Joined(p, c)
            PROVE  Promise!Next
        BY <2>3, <2>6, <2>8, <3>5, JoinMaps DEF Joined
      <3>6. ASSUME NEW p \in Fds, NEW c \in ChannelNames, Left(p, c)
            PROVE  Promise!Next
        BY <2>3, <2>6, <2>8, <3>6, LeaveMaps DEF Left
      <3> QED
        BY <3>1, <3>2, <3>3, <3>4, <3>5, <3>6
    <2>9. CASE /\ UNCHANGED <<Nicknames, chatVars>>
               /\ \A s \in open : conn'[s] = conn[s]
      <3>1. UNCHANGED Seen /\ UNCHANGED C!Existing
            /\ \A c : C!Told(c)' = C!Told(c)
        BY <2>9 DEF Nicknames, chatVars, Seen, C!Told, C!Existing, C!Exists,
           C!Recipients
      <3>2. \A s \in Seen : conn'[s] = conn[s]
        BY <2>3, <2>9
      <3>3. OnlineConns' = OnlineConns
        BY <3>1, <3>2 DEF OnlineConns, Seen
      <3>4. \A c \in ChannelNames : Audience(c)' = Audience(c)
        BY <2>3, <3>1, <3>2 DEF Audience
      <3> QED
        BY <2>7, <3>1, <3>3, <3>4
    <2> QED
      BY <2>8, <2>9, ConnChanges
  <1> QED
    BY <1>1, <1>2

(* What is proved of Chat holds of the server's channels.                  *)
LEMMA ChatInvariant == ServerSpec => []R!Inv
  <1>1. C!Spec <=> R!Spec
    BY SameChat, PTL DEF C!Spec, R!Spec
  <1>2. R!Spec => []R!Inv
    BY R!Inductive, Constants
  <1> QED
    BY <1>1, <1>2, ServerRunsChat DEF RunsChat

(* In the whole server, too, the members of a channel are its clients      *)
(* under their present nicknames, once each, as long as no sweep has       *)
(* removed a registered client; the second holds in any case.              *)
THEOREM ServerMembersLive == ServerSpec => [](C!MembersLive /\ C!MemberOnce)
  <1>1. R!Inv => C!MembersLive /\ C!MemberOnce
    <2>1. R!Inv => R!MembersLive /\ R!MemberOnce
      BY R!ImpliesChecked, Constants DEF R!Inv
    <2>2. /\ C!MembersLive <=> R!MembersLive
          /\ C!MemberOnce <=> R!MemberOnce
      BY DEF C!MembersLive, R!MembersLive, C!MemberOnce, R!MemberOnce,
             C!Existing, R!Existing, C!Exists, R!Exists, C!EachSocketOnce,
             R!EachSocketOnce
    <2> QED
      BY <2>1, <2>2
  <1> QED
    BY <1>1, ChatInvariant, PTL

(* The server starts as the roster does.                                   *)
LEMMA RosterInit == ServerInit => Promise!Init
  BY DEF ServerInit, Init, Promise!Init, RegisteredNick, Audience, C!Told,
         C!Existing, C!Exists

(* The connections that are told what is said in a channel change as the   *)
(* roster promises, as long as no sweep has removed a client and PASS has  *)
(* not succeeded on a closed descriptor: although channels hold numbers    *)
(* that are closed and given out again, a connection is told from its JOIN *)
(* to its PART, KICK, QUIT or end and no longer.                           *)
THEOREM ServerIsRoster == ServerSpec => IsRoster
  <1>1. ServerInv /\ R!Inv /\ R!Inv' /\ [ServerNext]_allVars
          => [Promise!Next]_(Promise!vars)
    BY RosterStep
  <1> QED
    BY <1>1, RosterInit, ServerInductive, ChatInvariant, PTL
       DEF ServerSpec, IsRoster, Promise!Spec
=============================================================================
