--------------------------- MODULE SessionsProofs ---------------------------
(***************************************************************************)
(* Sessions for every number of descriptors, slots, nicknames and          *)
(* connections.  The inductive invariant is the conjunction of the         *)
(* properties TLC checks and of AllChecked.                                *)
(***************************************************************************)
EXTENDS Sessions, TLAPS

-----------------------------------------------------------------------------
(***************************************************************************)
(* What the operations of the poll table preserve, for any number of       *)
(* descriptors and slots, duplicated slots and stale bits included.        *)
(***************************************************************************)

(* A function over 1..n with values in S is a sequence of length n.  The   *)
(* tables are rebuilt with such functions by erase and by poll().          *)
LEMMA FunctionIsSeq ==
  ASSUME NEW S, NEW n \in Nat, NEW f \in [1..n -> S]
  PROVE  f \in Seq(S) /\ Len(f) = n
  OBVIOUS

(* The empty table of the constructor is well-formed.                      *)
LEMMA EmptyTableOK == EmptyTable \in Table /\ ValidIndex(EmptyTable)
  BY DEF EmptyTable, Table, ValidIndex, CanErase, NONE, Slot

(* push_back keeps the table well-formed even if s already has a slot.     *)
LEMMA PushBackOK ==
  ASSUME NEW t \in Table, NEW s \in Fds, NEW b \in BOOLEAN, ValidIndex(t)
  PROVE  /\ PushBack(t, s, b) \in Table /\ ValidIndex(PushBack(t, s, b))
         /\ PushBack(t, s, b).registered = t.registered
         /\ \A u \in Fds : u = s \/ CanErase(t, u) =>
              CanErase(PushBack(t, s, b), u)
         /\ Len(PushBack(t, s, b).slots) = Len(t.slots) + 1
         /\ \A i \in 1..Len(t.slots) :
              PushBack(t, s, b).slots[i] = t.slots[i]
  <1> DEFINE p == PushBack(t, s, b)
             e == [fd |-> s, pollin |-> b]
  <1>1. e \in Slot /\ t.slots \in Seq(Slot)
    BY DEF Slot, Table
  <1>2. /\ Append(t.slots, e) \in Seq(Slot)
        /\ Len(Append(t.slots, e)) = Len(t.slots) + 1
        /\ \A i \in 1..Len(t.slots) : Append(t.slots, e)[i] = t.slots[i]
        /\ Append(t.slots, e)[Len(t.slots) + 1] = e
    BY <1>1
  <1>3. p = [slots |-> Append(t.slots, e),
             cash |-> [t.cash EXCEPT ![s] = Len(t.slots) + 1],
             registered |-> t.registered]
    BY DEF PushBack, Table
  <1>4. p \in Table
    BY <1>1, <1>2, <1>3 DEF Table
  <1>5. ValidIndex(p)
    <2> SUFFICES ASSUME NEW u \in Fds, CanErase(p, u)
                 PROVE  /\ p.cash[u] \in 1..Len(p.slots)
                        /\ p.slots[p.cash[u]].fd = u
      BY DEF ValidIndex
    <2>1. CASE u = s
      BY <2>1, <1>1, <1>2, <1>3 DEF Table
    <2>2. CASE u # s
      <3>1. p.cash[u] = t.cash[u]
        BY <2>2, <1>3 DEF Table
      <3>2. CanErase(t, u)
        BY <3>1 DEF CanErase
      <3>3. t.cash[u] \in 1..Len(t.slots) /\ t.slots[t.cash[u]].fd = u
        BY <3>2 DEF ValidIndex
      <3> QED
        BY <1>1, <1>2, <1>3, <3>1, <3>3
    <2> QED
      BY <2>1, <2>2
  <1>6. \A u \in Fds : u = s \/ CanErase(t, u) => CanErase(p, u)
    <2>1. t.cash \in [Fds -> Nat \cup {NONE}] /\ Len(t.slots) \in Nat
      BY DEF Table
    <2> QED
      BY <1>3, <2>1 DEF CanErase, NONE
  <1>7. p.slots = Append(t.slots, e) /\ p.registered = t.registered
    BY <1>3
  <1>8. /\ Len(p.slots) = Len(t.slots) + 1
        /\ \A i \in 1..Len(t.slots) : p.slots[i] = t.slots[i]
    BY <1>2, <1>7
  <1> HIDE DEF p
  <1> QED
    BY <1>4, <1>5, <1>6, <1>7, <1>8 DEF p

(* erase keeps the table well-formed whether or not the slot it moves      *)
(* belongs to a descriptor that has another slot.                          *)
LEMMA EraseOK ==
  ASSUME NEW t \in Table, NEW s \in Fds, ValidIndex(t)
  PROVE  Erase(t, s) \in Table /\ ValidIndex(Erase(t, s))
  <1> SUFFICES ASSUME CanErase(t, s)
               PROVE  Erase(t, s) \in Table /\ ValidIndex(Erase(t, s))
    BY DEF Erase
  <1> DEFINE n == Len(t.slots)
             k == t.cash[s]
             e == Erase(t, s)
  <1>1. /\ n \in Nat /\ k \in 1..n /\ t.slots[k].fd = s
        /\ t.slots \in [1..n -> Slot]
        /\ t.cash \in [Fds -> Nat \cup {NONE}]
        /\ LastSlot(t) = t.slots[n] /\ LastSlot(t) \in Slot
        /\ LastSlot(t).fd \in Fds
    <2>1. /\ t.slots \in Seq(Slot) /\ n \in Nat
          /\ t.slots \in [1..n -> Slot]
          /\ t.cash \in [Fds -> Nat \cup {NONE}]
      BY DEF Table
    <2>2. k \in 1..n /\ t.slots[k].fd = s
      BY DEF ValidIndex
    <2>3. LastSlot(t) = t.slots[n] /\ LastSlot(t) \in Slot
      BY <2>1, <2>2 DEF LastSlot
    <2> QED
      BY <2>1, <2>2, <2>3 DEF Slot
  <1>2. Compacted(t, s) \in [1..(n - 1) -> Slot]
    BY <1>1 DEF Compacted
  <1>3. Compacted(t, s) \in Seq(Slot) /\ Len(Compacted(t, s)) = n - 1
    BY <1>1, <1>2, FunctionIsSeq
  <1>4. e = [slots |-> Compacted(t, s), cash |-> Reindexed(t, s),
             registered |-> Unmarked(t, s)]
    BY DEF Erase
  <1>5. Reindexed(t, s) \in [Fds -> Nat \cup {NONE}]
    BY <1>1 DEF Reindexed
  <1>6. e \in Table
    BY <1>3, <1>4, <1>5 DEF Table, Unmarked
  <1>7. ValidIndex(e)
    <2> SUFFICES ASSUME NEW u \in Fds, e.cash[u] # NONE
                 PROVE  /\ e.cash[u] \in 1..(n - 1)
                        /\ Compacted(t, s)[e.cash[u]].fd = u
      BY <1>3, <1>4 DEF ValidIndex, CanErase
    <2>1. u # s
      BY <1>1, <1>4 DEF Reindexed
    <2>2. CASE u = LastSlot(t).fd
      <3>1. e.cash[u] = k /\ k # n
        BY <2>1, <2>2, <1>1, <1>4 DEF Reindexed
      <3> QED
        BY <2>2, <3>1, <1>1 DEF Compacted
    <2>3. CASE u # LastSlot(t).fd
      <3>1. e.cash[u] = t.cash[u]
        BY <2>1, <2>3, <1>1, <1>4 DEF Reindexed
      <3>2. t.cash[u] \in 1..n /\ t.slots[t.cash[u]].fd = u
        BY <3>1 DEF ValidIndex, CanErase
      <3>3. t.cash[u] # k /\ t.cash[u] # n
        BY <2>1, <2>3, <3>2, <1>1
      <3> QED
        BY <3>1, <3>2, <3>3, <1>1 DEF Compacted
    <2> QED
      BY <2>2, <2>3
  <1> QED
    BY <1>6, <1>7

(* erase keeps every other descriptor indexed, and a slot of another       *)
(* descriptor stays where it is or moves down into the freed slot.         *)
LEMMA EraseKeeps ==
  ASSUME NEW t \in Table, NEW s \in Fds, ValidIndex(t), CanErase(t, s)
  PROVE  /\ \A u \in Fds \ {s} : CanErase(t, u) => CanErase(Erase(t, s), u)
         /\ \A i \in 1..Len(t.slots) : t.slots[i].fd # s =>
              \E j \in 1..i : /\ j <= Len(Erase(t, s).slots)
                             /\ Erase(t, s).slots[j].fd = t.slots[i].fd
  <1> DEFINE n == Len(t.slots)
             k == t.cash[s]
             e == Erase(t, s)
  <1>1. /\ n \in Nat /\ t.slots \in [1..n -> Slot] /\ t.slots \in Seq(Slot)
        /\ t.cash \in [Fds -> Nat \cup {NONE}]
    BY DEF Table
  <1>2. k \in 1..n /\ t.slots[k].fd = s
    BY DEF ValidIndex
  <1>3. LastSlot(t) = t.slots[n] /\ LastSlot(t) \in Slot
    BY <1>1, <1>2 DEF LastSlot
  <1>4. e.slots = Compacted(t, s) /\ e.cash = Reindexed(t, s)
    BY DEF Erase
  <1>5. ASSUME NEW u \in Fds \ {s}, CanErase(t, u)
        PROVE  CanErase(e, u)
    BY <1>1, <1>2, <1>4, <1>5 DEF Reindexed, CanErase, NONE
  <1>6. Compacted(t, s) \in [1..(n - 1) -> Slot]
    BY <1>1, <1>2, <1>3 DEF Compacted
  <1>7. Len(e.slots) = n - 1
    BY <1>1, <1>2, <1>4, <1>6, FunctionIsSeq
  <1>8. ASSUME NEW i \in 1..n, t.slots[i].fd # s
        PROVE  \E j \in 1..i : /\ j <= Len(e.slots)
                              /\ e.slots[j].fd = t.slots[i].fd
    <2>1. CASE i = n
      <3>1. k \in 1..(n - 1) /\ Compacted(t, s)[k] = t.slots[n]
        BY <2>1, <1>1, <1>2, <1>3, <1>8 DEF Compacted
      <3> QED
        BY <2>1, <3>1, <1>1, <1>4, <1>7
    <2>2. CASE i # n
      <3>1. i \in 1..(n - 1) /\ i # k
        BY <2>2, <1>1, <1>2, <1>8
      <3>2. Compacted(t, s)[i] = t.slots[i]
        BY <3>1 DEF Compacted
      <3> QED
        BY <3>1, <3>2, <1>1, <1>4, <1>7
    <2> QED
      BY <2>1, <2>2
  <1> QED
    BY <1>5, <1>8

(* poll() rewrites the POLLIN bits and nothing else.                       *)
LEMMA PolledOK ==
  ASSUME NEW t \in Table, NEW R, ValidIndex(t)
  PROVE  /\ Polled(t, R) \in Table /\ ValidIndex(Polled(t, R))
         /\ Polled(t, R).cash = t.cash
         /\ Polled(t, R).registered = t.registered
         /\ Len(Polled(t, R).slots) = Len(t.slots)
         /\ \A i \in 1..Len(t.slots) :
              Polled(t, R).slots[i].fd = t.slots[i].fd
  <1> DEFINE n == Len(t.slots)
             f == [i \in 1..n |->
                     [fd |-> t.slots[i].fd, pollin |-> t.slots[i].fd \in R]]
  <1>1. n \in Nat /\ t.slots \in [1..n -> Slot]
    BY DEF Table
  <1>2. f \in [1..n -> Slot]
    BY <1>1 DEF Slot
  <1>3. f \in Seq(Slot) /\ Len(f) = n
    BY <1>1, <1>2, FunctionIsSeq
  <1>4. \A i \in 1..n : f[i].fd = t.slots[i].fd
    BY <1>1 DEF Slot
  <1>5. Polled(t, R) = [slots |-> f, cash |-> t.cash,
                        registered |-> t.registered]
    BY DEF Polled, Table
  <1>6. Polled(t, R) \in Table
    BY <1>3, <1>5 DEF Table
  <1>7. ValidIndex(Polled(t, R))
    BY <1>3, <1>4, <1>5 DEF ValidIndex, CanErase
  <1> QED
    BY <1>3, <1>4, <1>5, <1>6, <1>7

(* Marking a descriptor as registered does not touch the slots.            *)
LEMMA RegisterOK ==
  ASSUME NEW t \in Table, NEW s \in Fds, ValidIndex(t)
  PROVE  Register(t, s) \in Table /\ ValidIndex(Register(t, s))
  <1>1. Register(t, s) = [slots |-> t.slots, cash |-> t.cash,
                          registered |-> t.registered \cup {s}]
    BY DEF Register, Table
  <1> QED
    BY <1>1 DEF Table, ValidIndex, CanErase

-----------------------------------------------------------------------------
(***************************************************************************)
(* The connections.                                                        *)
(***************************************************************************)

(* A Client object exists only after a correct PASS; so authPass, which    *)
(* returns at once when the client of the descriptor has passed, closes a  *)
(* descriptor only if it has no client at all.                             *)
AllChecked == \A c \in clients : c.passwordCheck

IInv ==
  /\ TypeOK
  /\ CashValid
  /\ OpenIsServed
  /\ AllChecked
  /\ OneClientPerSocket
  /\ NickUnique
  /\ GeminiIsClient
  /\ Identity

-----------------------------------------------------------------------------
(* getClient returns a client of the server with that socket.              *)
LEMMA ClientOfOK ==
  ASSUME NEW s, HasClient(s)
  PROVE  ClientOf(s) \in clients /\ ClientOf(s).sock = s
  BY DEF HasClient, ClientOf

(* The initial state satisfies the invariant.                              *)
LEMMA InitOK == Init => IInv
  <1> SUFFICES ASSUME Init PROVE IInv
    OBVIOUS
  <1>1. TypeOK /\ CashValid
    BY EmptyTableOK DEF Init, TypeOK, CashValid, NONE
  <1> QED
    BY <1>1 DEF Init, IInv, OpenIsServed, AllChecked, OneClientPerSocket,
                NickUnique, GeminiIsClient, Identity, EmptyTable

(* removeClient, whoever calls it, preserves every part: in particular     *)
(* when erase returns early, because then the descriptor is not open.      *)
LEMMA RemoveClientOK ==
  ASSUME IInv, NEW s \in Fds, RemoveClient(s),
         loop' \in {"top", "accept", "scan", "batch"}, pos' \in Nat,
         serving' \in Fds \cup {NONE}
  PROVE  IInv'
  <1>1. fds' \in Table /\ ValidIndex(fds')
    BY EraseOK DEF IInv, TypeOK, CashValid, RemoveClient
  <1>2. TypeOK'
    BY <1>1 DEF IInv, TypeOK, RemoveClient, GeminiWithout, connVars
  <1>3. CashValid'
    BY <1>1 DEF CashValid
  <1>4. s \notin open'
    BY DEF IInv, OpenIsServed, RemoveClient
  <1>5. OpenIsServed'
    <2> SUFFICES ASSUME NEW u \in open'
                 PROVE  CanErase(fds', u) /\ u \in ipAddresses'
      BY DEF OpenIsServed
    <2>1. u \in open /\ u # s /\ u \in Fds /\ CanErase(fds, u)
      BY <1>4 DEF RemoveClient, IInv, OpenIsServed, TypeOK
    <2>2. u \in ipAddresses'
      BY <2>1 DEF RemoveClient, IInv, OpenIsServed
    <2>3. CanErase(fds', u)
      <3>1. CASE CanErase(fds, s)
        BY <2>1, <3>1, EraseKeeps DEF IInv, TypeOK, CashValid, RemoveClient
      <3>2. CASE ~CanErase(fds, s)
        BY <2>1, <3>2 DEF RemoveClient, Erase
      <3> QED
        BY <3>1, <3>2
    <2> QED
      BY <2>2, <2>3
  <1>6. clients' = {c \in clients : c.sock # s}
    BY DEF RemoveClient
  <1>7. AllChecked' /\ OneClientPerSocket' /\ NickUnique'
    BY <1>6 DEF IInv, AllChecked, OneClientPerSocket, NickUnique
  <1>8. GeminiIsClient'
    BY <1>6 DEF IInv, GeminiIsClient, RemoveClient, GeminiWithout
  <1>9. Identity'
    <2> SUFFICES ASSUME ~ghost'
                 PROVE  /\ \A c \in clients' : /\ c.sock \in open'
                                               /\ c.conn = conn'[c.sock]
                        /\ \A u \in fds'.registered :
                             \E c \in clients' : c.sock = u /\ c.registered
      BY DEF Identity
    <2>1. /\ ~ghost /\ conn' = conn
          /\ \A c \in clients : c.sock \in open /\ c.conn = conn[c.sock]
          /\ \A u \in fds.registered :
               \E c \in clients : c.sock = u /\ c.registered
      BY DEF RemoveClient, connVars, IInv, Identity
    <2>2. fds'.registered \subseteq fds.registered \ {s}
      <3>1. CASE CanErase(fds, s)
        BY <3>1 DEF RemoveClient, Erase, Unmarked
      <3>2. CASE ~CanErase(fds, s)
        BY <3>2, <2>1 DEF RemoveClient, Erase, IInv, OpenIsServed
      <3> QED
        BY <3>1, <3>2
    <2>3. \A u \in open : u # s => u \in open'
      BY DEF RemoveClient
    <2> QED
      BY <2>1, <2>2, <2>3, <1>6
  <1> QED
    BY <1>2, <1>3, <1>5, <1>7, <1>8, <1>9 DEF IInv

(* A step that leaves table, descriptors, clients and history alone, as    *)
(* the moves of the scan do, preserves the invariant.                      *)
LEMMA ControlOK ==
  ASSUME IInv,
         UNCHANGED <<fds, open, ipAddresses, clients, geminiSocket, conn, ghost>>,
         nextConn' \in Nat,
         loop' \in {"top", "accept", "scan", "batch"}, pos' \in Nat,
         serving' \in Fds \cup {NONE}
  PROVE  IInv'
  <1>1. TypeOK'
    BY DEF IInv, TypeOK
  <1> QED
    BY <1>1 DEF IInv, CashValid, OpenIsServed, AllChecked, OneClientPerSocket,
                NickUnique, GeminiIsClient, Identity

(* The targets of the scan's control moves are well-typed.                 *)
LEMMA MovesOK ==
  ASSUME TypeOK
  PROVE  /\ NextSlot => /\ loop' \in {"top", "accept", "scan", "batch"}
                        /\ pos' \in Nat /\ serving' \in Fds \cup {NONE}
         /\ StartScan => /\ loop' \in {"top", "accept", "scan", "batch"}
                         /\ pos' \in Nat /\ serving' \in Fds \cup {NONE}
         /\ UNCHANGED loopVars => /\ loop' \in {"top", "accept", "scan", "batch"}
                                  /\ pos' \in Nat
                                  /\ serving' \in Fds \cup {NONE}
  BY DEF TypeOK, NextSlot, StartScan, loopVars
-----------------------------------------------------------------------------
(* A sweep removes the client of the last slot, whoever it is.             *)
LEMMA SweepOK == ASSUME IInv, Sweep PROVE IInv'
  <1> DEFINE n == Len(fds.slots)
  <1>1. n \in Nat /\ n \in 1..n /\ fds.slots \in Seq(Slot)
    BY DEF Sweep, IInv, TypeOK, Table
  <1>2. fds.slots[n].fd \in Fds
    <2>1. fds.slots[n] \in Slot
      BY <1>1
    <2> QED
      BY <2>1 DEF Slot
  <1>3. RemoveClient(fds.slots[n].fd) /\ UNCHANGED loopVars
    BY DEF Sweep
  <1> QED
    BY <1>2, <1>3, RemoveClientOK, MovesOK DEF IInv

(* poll() writes the POLLIN bits of the table.                             *)
LEMMA PollOK == ASSUME IInv, Poll PROVE IInv'
  <1>1. PICK ready \in SUBSET open : fds' = Polled(fds, ready)
    BY DEF Poll
  <1>2. /\ fds' \in Table /\ ValidIndex(fds')
        /\ fds'.cash = fds.cash /\ fds'.registered = fds.registered
    BY <1>1, PolledOK DEF IInv, TypeOK, CashValid
  <1>3. TypeOK'
    BY <1>2 DEF Poll, IInv, TypeOK, connVars
  <1> QED
    BY <1>2, <1>3 DEF Poll, connVars, IInv, CashValid, OpenIsServed, CanErase,
       AllChecked, OneClientPerSocket, NickUnique, GeminiIsClient, Identity

(* acceptClient pushes a descriptor that was free, hence without a Client  *)
(* as long as there is no ghost.                                           *)
LEMMA AcceptOK == ASSUME IInv, NEW s \in Fds, AcceptClient(s) PROVE IInv'
  <1>1. PICK stale \in BOOLEAN : fds' = PushBack(fds, s, stale)
    BY DEF AcceptClient
  <1>2. /\ fds' \in Table /\ ValidIndex(fds')
        /\ fds'.registered = fds.registered
        /\ \A u \in Fds : u = s \/ CanErase(fds, u) => CanErase(fds', u)
    BY <1>1, PushBackOK DEF IInv, TypeOK, CashValid
  <1>3. /\ s \notin open /\ open' = open \cup {s}
        /\ ipAddresses' = ipAddresses \cup {s}
        /\ conn' = [conn EXCEPT ![s] = nextConn] /\ nextConn' = nextConn + 1
        /\ UNCHANGED <<clients, geminiSocket, ghost>> /\ StartScan
    BY DEF AcceptClient, LowestFree
  <1>4. TypeOK'
    BY <1>2, <1>3, MovesOK DEF IInv, TypeOK
  <1>5. CashValid' /\ OpenIsServed'
    BY <1>2, <1>3, <1>4 DEF CashValid, OpenIsServed, IInv, TypeOK
  <1>6. AllChecked' /\ OneClientPerSocket' /\ NickUnique' /\ GeminiIsClient'
    BY <1>3 DEF IInv, AllChecked, OneClientPerSocket, NickUnique,
                GeminiIsClient
  <1>7. Identity'
    <2>1. \A c \in clients : c.sock # s => conn'[c.sock] = conn[c.sock]
      BY <1>3 DEF IInv, TypeOK, Client
    <2> QED
      BY <1>2, <1>3, <2>1 DEF IInv, Identity
  <1> QED
    BY <1>4, <1>5, <1>6, <1>7 DEF IInv
-----------------------------------------------------------------------------
(* A correct PASS creates the Client of a descriptor that has none.        *)
LEMMA PassAcceptedOK ==
  ASSUME IInv, NEW s \in Fds, PassAccepted(s) PROVE IInv'
  <1>1. ~HasClient(s)
    BY ClientOfOK DEF PassAccepted, IInv, AllChecked
  <1>2. /\ NewClient(s) \in Client
        /\ NewClient(s).sock = s /\ NewClient(s).passwordCheck
        /\ NewClient(s).nick = NoNick /\ NewClient(s).conn = conn[s]
    BY DEF NewClient, Client, IInv, TypeOK
  <1>3. /\ clients' = clients \cup {NewClient(s)}
        /\ ghost' = (ghost \/ s \notin open)
        /\ UNCHANGED <<fds, open, ipAddresses, geminiSocket, loopVars, connVars>>
    BY DEF PassAccepted
  <1>4. TypeOK'
    <2>1. ghost' \in BOOLEAN /\ clients' \subseteq Client
      BY <1>2, <1>3 DEF IInv, TypeOK
    <2> QED
      BY <2>1, <1>3 DEF IInv, TypeOK, loopVars, connVars
  <1>5. CashValid' /\ OpenIsServed' /\ AllChecked'
    BY <1>2, <1>3 DEF IInv, CashValid, OpenIsServed, AllChecked
  <1>6. OneClientPerSocket'
    BY <1>1, <1>2, <1>3 DEF IInv, OneClientPerSocket, HasClient
  <1>7. NickUnique'
    BY <1>2, <1>3 DEF IInv, NickUnique
  <1>8. GeminiIsClient'
    BY <1>3 DEF IInv, GeminiIsClient
  <1>9. Identity'
    BY <1>2, <1>3 DEF IInv, Identity, connVars
  <1> QED
    BY <1>4, <1>5, <1>6, <1>7, <1>8, <1>9 DEF IInv

(* A rejected PASS closes a descriptor without Client.                     *)
LEMMA PassRejectedOK ==
  ASSUME IInv, NEW s \in Fds, PassRejected(s) PROVE IInv'
  <1>1. \A c \in clients : c.sock # s
    BY ClientOfOK DEF PassRejected, IInv, AllChecked, HasClient
  <1>2. /\ open' = open \ {s}
        /\ UNCHANGED <<fds, ipAddresses, clients, geminiSocket, loopVars,
                       connVars, ghost>>
    BY DEF PassRejected
  <1>3. TypeOK'
    BY <1>2 DEF IInv, TypeOK, loopVars, connVars
  <1>4. Identity'
    BY <1>1, <1>2 DEF IInv, Identity, connVars
  <1> QED
    BY <1>2, <1>3, <1>4 DEF IInv, CashValid, OpenIsServed, AllChecked,
       OneClientPerSocket, NickUnique, GeminiIsClient

(* A handler that replaces the Client of s by d, of the same connection,   *)
(* registered if it was, and with a nickname that is its own or free.      *)
LEMMA UpdateOK ==
  ASSUME IInv, NEW s \in Fds, HasClient(s), NEW d \in Client,
         d.sock = s, d.conn = ClientOf(s).conn, d.passwordCheck,
         ClientOf(s).registered => d.registered,
         d.nick = ClientOf(s).nick \/ ~NickTaken(d.nick),
         clients' = Update(s, d)
  PROVE  /\ clients' \subseteq Client
         /\ AllChecked' /\ OneClientPerSocket' /\ NickUnique'
         /\ \A c \in clients : \E e \in clients' :
              e.sock = c.sock /\ (c.registered => e.registered)
         /\ \A e \in clients' : \E c \in clients :
              e.sock = c.sock /\ e.conn = c.conn
         /\ d \in clients'
  <1>1. ClientOf(s) \in clients /\ ClientOf(s).sock = s
    BY ClientOfOK
  <1>2. \A c \in clients : c.sock = s => c = ClientOf(s)
    BY <1>1 DEF IInv, OneClientPerSocket
  <1>3. \A e \in clients' : e = d \/ (e \in clients /\ e.sock # s)
    BY DEF Update
  <1>4. /\ d \in clients'
        /\ \A c \in clients : c.sock # s => c \in clients'
    BY <1>1 DEF Update
  <1>5. clients' \subseteq Client /\ AllChecked'
    BY <1>3 DEF IInv, TypeOK, AllChecked
  <1>6. OneClientPerSocket'
    BY <1>3 DEF IInv, OneClientPerSocket
  <1>7. \A e \in clients : e.sock # s /\ e.nick # NoNick => e.nick # d.nick
    BY <1>1 DEF IInv, NickUnique, NickTaken
  <1>8. NickUnique'
    BY <1>3, <1>7 DEF IInv, NickUnique
  <1> QED
    BY <1>1, <1>2, <1>3, <1>4, <1>5, <1>6, <1>8

(* The handlers of UpdateOK that leave the table and the bot alone.        *)
LEMMA UpdateKeepsInv ==
  ASSUME IInv, NEW s \in Fds, HasClient(s), NEW d \in Client,
         d.sock = s, d.conn = ClientOf(s).conn, d.passwordCheck,
         ClientOf(s).registered => d.registered,
         d.nick = ClientOf(s).nick \/ ~NickTaken(d.nick),
         clients' = Update(s, d),
         UNCHANGED <<fds, open, ipAddresses, geminiSocket, loopVars, connVars,
                     ghost>>
  PROVE  IInv'
  <1>1. /\ clients' \subseteq Client
        /\ AllChecked' /\ OneClientPerSocket' /\ NickUnique'
        /\ \A c \in clients : \E e \in clients' :
             e.sock = c.sock /\ (c.registered => e.registered)
        /\ \A e \in clients' : \E c \in clients :
             e.sock = c.sock /\ e.conn = c.conn
    BY UpdateOK
  <1>2. TypeOK' /\ CashValid' /\ OpenIsServed'
    BY <1>1 DEF IInv, TypeOK, CashValid, OpenIsServed, loopVars, connVars
  <1>3. GeminiIsClient'
    BY <1>1 DEF IInv, GeminiIsClient
  <1>4. Identity'
    BY <1>1 DEF IInv, Identity, connVars
  <1> QED
    BY <1>1, <1>2, <1>3, <1>4 DEF IInv

(* NICK during the handshake.                                              *)
LEMMA AuthNickOK ==
  ASSUME IInv, NEW s \in Fds, NEW n \in Nicks, AuthNick(s, n) PROVE IInv'
  <1> DEFINE d == [ClientOf(s) EXCEPT !.nick = n, !.nicknameCheck = TRUE]
  <1>1. /\ HasClient(s) /\ ~NickTaken(n) /\ clients' = Update(s, d)
        /\ UNCHANGED <<fds, open, ipAddresses, geminiSocket, loopVars, connVars,
                       ghost>>
    BY DEF AuthNick
  <1>2. /\ ClientOf(s) \in Client /\ ClientOf(s).sock = s
        /\ ClientOf(s).passwordCheck
    BY <1>1, ClientOfOK DEF IInv, TypeOK, AllChecked
  <1>3. /\ d \in Client /\ d.sock = s /\ d.conn = ClientOf(s).conn
        /\ d.passwordCheck /\ (ClientOf(s).registered => d.registered)
        /\ d.nick = n
    BY <1>2 DEF Client
  <1> HIDE DEF d
  <1> QED
    BY <1>1, <1>3, UpdateKeepsInv

(* NICK of a registered client.                                            *)
LEMMA ChangeNickOK ==
  ASSUME IInv, NEW s \in Fds, NEW n \in Nicks, ChangeNick(s, n) PROVE IInv'
  <1> DEFINE d == [ClientOf(s) EXCEPT !.nick = n]
  <1>1. /\ HasClient(s) /\ ~NickTaken(n) /\ clients' = Update(s, d)
        /\ UNCHANGED <<fds, open, ipAddresses, geminiSocket, loopVars, connVars,
                       ghost>>
    BY DEF ChangeNick
  <1>2. /\ ClientOf(s) \in Client /\ ClientOf(s).sock = s
        /\ ClientOf(s).passwordCheck
    BY <1>1, ClientOfOK DEF IInv, TypeOK, AllChecked
  <1>3. /\ d \in Client /\ d.sock = s /\ d.conn = ClientOf(s).conn
        /\ d.passwordCheck /\ (ClientOf(s).registered => d.registered)
        /\ d.nick = n
    BY <1>2 DEF Client
  <1> HIDE DEF d
  <1> QED
    BY <1>1, <1>3, UpdateKeepsInv

(* USER completes the handshake: the descriptor is marked registered, the  *)
(* Client is there, and it may become the bot.                             *)
LEMMA AuthUserOK ==
  ASSUME IInv, NEW s \in Fds, AuthUser(s) PROVE IInv'
  <1> DEFINE d == [ClientOf(s) EXCEPT !.registered = TRUE]
  <1>1. /\ HasClient(s) /\ clients' = Update(s, d)
        /\ geminiSocket' \in {s, geminiSocket}
        /\ fds' = Register(fds, s)
        /\ UNCHANGED <<open, ipAddresses, loopVars, connVars, ghost>>
    BY DEF AuthUser
  <1>2. /\ ClientOf(s) \in Client /\ ClientOf(s).sock = s
        /\ ClientOf(s).passwordCheck
    BY <1>1, ClientOfOK DEF IInv, TypeOK, AllChecked
  <1>3. /\ d \in Client /\ d.sock = s /\ d.conn = ClientOf(s).conn
        /\ d.passwordCheck /\ d.registered /\ d.nick = ClientOf(s).nick
    BY <1>2 DEF Client
  <1> HIDE DEF d
  <1>4. /\ clients' \subseteq Client
        /\ AllChecked' /\ OneClientPerSocket' /\ NickUnique'
        /\ \A c \in clients : \E e \in clients' :
             e.sock = c.sock /\ (c.registered => e.registered)
        /\ \A e \in clients' : \E c \in clients :
             e.sock = c.sock /\ e.conn = c.conn
        /\ d \in clients'
    BY <1>1, <1>3, UpdateOK
  <1>5. /\ fds' \in Table /\ ValidIndex(fds') /\ fds'.cash = fds.cash
        /\ fds'.registered = fds.registered \cup {s}
    BY <1>1, RegisterOK DEF IInv, TypeOK, CashValid, Register
  <1>6. TypeOK'
    BY <1>1, <1>4, <1>5 DEF IInv, TypeOK, loopVars, connVars
  <1>7. CashValid' /\ OpenIsServed'
    BY <1>1, <1>5 DEF IInv, CashValid, OpenIsServed, CanErase
  <1>8. GeminiIsClient'
    BY <1>1, <1>3, <1>4 DEF IInv, GeminiIsClient
  <1>9. Identity'
    BY <1>1, <1>3, <1>4, <1>5 DEF IInv, Identity, connVars
  <1> QED
    BY <1>4, <1>6, <1>7, <1>8, <1>9 DEF IInv
-----------------------------------------------------------------------------
(* Every step of the loop and every command preserves the invariant.       *)
LEMMA NextOK == IInv /\ [Next]_vars => IInv'
  <1> SUFFICES ASSUME IInv, [Next]_vars PROVE IInv'
    OBVIOUS
  <1>0. TypeOK
    BY DEF IInv
  <1>1. CASE Sweep
    BY <1>1, SweepOK
  <1>2. CASE Poll
    BY <1>2, PollOK
  <1>3. CASE RefuseClient
    BY <1>0, <1>3, ControlOK, MovesOK DEF RefuseClient, TypeOK
  <1>4. CASE NoConnection
    BY <1>0, <1>4, ControlOK, MovesOK DEF NoConnection, TypeOK, connVars
  <1>5. CASE EndPass
    BY <1>0, <1>5, ControlOK DEF EndPass, TypeOK, connVars
  <1>6. CASE EndBatch
    BY <1>0, <1>6, ControlOK, MovesOK DEF EndBatch, TypeOK, connVars
  <1>7. ASSUME NEW s \in Fds, AcceptClient(s) PROVE IInv'
    BY <1>7, AcceptOK
  <1>8. ASSUME NEW s \in Fds, SkipSlot(s) PROVE IInv'
    BY <1>0, <1>8, ControlOK, MovesOK DEF SkipSlot, TypeOK, connVars
  <1>9. ASSUME NEW s \in Fds, PeerGone(s) PROVE IInv'
    BY <1>0, <1>9, RemoveClientOK, MovesOK DEF PeerGone
  <1>10. ASSUME NEW s \in Fds, StartBatch(s) PROVE IInv'
    BY <1>0, <1>10, ControlOK DEF StartBatch, TypeOK, connVars
  <1>11. ASSUME NEW s \in Fds, PassAccepted(s) PROVE IInv'
    BY <1>11, PassAcceptedOK
  <1>12. ASSUME NEW s \in Fds, PassRejected(s) PROVE IInv'
    BY <1>12, PassRejectedOK
  <1>13. ASSUME NEW s \in Fds, AuthUser(s) PROVE IInv'
    BY <1>13, AuthUserOK
  <1>14. ASSUME NEW s \in Fds, LostClient(s) PROVE IInv'
    BY <1>0, <1>14, RemoveClientOK, MovesOK DEF LostClient
  <1>15. ASSUME NEW s \in Fds, Quit(s) PROVE IInv'
    BY <1>0, <1>15, RemoveClientOK, MovesOK DEF Quit
  <1>16. ASSUME NEW s \in Fds, NEW n \in Nicks, AuthNick(s, n) PROVE IInv'
    BY <1>16, AuthNickOK
  <1>17. ASSUME NEW s \in Fds, NEW n \in Nicks, ChangeNick(s, n) PROVE IInv'
    BY <1>17, ChangeNickOK
  <1>18. CASE UNCHANGED vars
    BY <1>0, <1>18, ControlOK DEF vars, loopVars, connVars, TypeOK
  <1>19. CASE LoopStep
    BY <1>1, <1>2, <1>3, <1>4, <1>5, <1>6, <1>7, <1>8, <1>9, <1>10, <1>19
       DEF LoopStep
  <1>20. CASE CommandStep
    BY <1>11, <1>12, <1>13, <1>14, <1>15, <1>16, <1>17, <1>20 DEF CommandStep
  <1> QED
    BY <1>18, <1>19, <1>20 DEF Next

(* The inductive invariant holds in every behaviour.                       *)
LEMMA Inductive == Spec => []IInv
  BY InitOK, NextOK, PTL DEF Spec
-----------------------------------------------------------------------------
(* The state always has its type.                                          *)
THEOREM TypeCorrect == Spec => []TypeOK
  <1>1. IInv => TypeOK
    BY DEF IInv
  <1> QED
    BY <1>1, Inductive, PTL

(* The reverse index of the poll table is right in every reachable state,  *)
(* slots of closed and reused descriptors included.                        *)
THEOREM IndexCorrect == Spec => []CashValid
  <1>1. IInv => CashValid
    BY DEF IInv
  <1> QED
    BY <1>1, Inductive, PTL

(* No handler and no sweep ever leaves an open connection without a slot   *)
(* to be polled by or without its host.                                    *)
THEOREM OpenAlwaysServed == Spec => []OpenIsServed
  <1>1. IInv => OpenIsServed
    BY DEF IInv
  <1> QED
    BY <1>1, Inductive, PTL

(* getClient and findClient are unambiguous.                               *)
THEOREM SocketsUnique == Spec => []OneClientPerSocket
  <1>1. IInv => OneClientPerSocket
    BY DEF IInv
  <1> QED
    BY <1>1, Inductive, PTL

(* Nobody has a nickname somebody else has, not even in a handshake, so    *)
(* that what is searched by nickname finds the client that is meant.       *)
THEOREM NicknamesUnique == Spec => []NickUnique
  <1>1. IInv => NickUnique
    BY DEF IInv
  <1> QED
    BY <1>1, Inductive, PTL

(* The bot's descriptor always belongs to a registered client.             *)
THEOREM GeminiAlwaysClient == Spec => []GeminiIsClient
  <1>1. IInv => GeminiIsClient
    BY DEF IInv
  <1> QED
    BY <1>1, Inductive, PTL

(* Clients belong to the connection on their descriptor, unless PASS has   *)
(* succeeded on a closed descriptor.                                       *)
THEOREM IdentityKept == Spec => []Identity
  <1>1. IInv => Identity
    BY DEF IInv
  <1> QED
    BY <1>1, Inductive, PTL

(* The step form of SlotsOnlyMoveDown.                                     *)
SlotsMoveDown ==
  \A i \in 1..Len(fds.slots) : Stays(fds.slots[i].fd) =>
    \E j \in 1..i : /\ j <= Len(fds'.slots)
                    /\ fds'.slots[j].fd = fds.slots[i].fd

(* removeClient moves the slots of the connections that stay only down.    *)
LEMMA RemoveMovesDown ==
  ASSUME IInv, NEW s \in Fds, RemoveClient(s)
  PROVE  SlotsMoveDown
  <1> SUFFICES ASSUME NEW i \in 1..Len(fds.slots), Stays(fds.slots[i].fd)
               PROVE  \E j \in 1..i : /\ j <= Len(fds'.slots)
                                      /\ fds'.slots[j].fd = fds.slots[i].fd
    BY DEF SlotsMoveDown
  <1>1. Len(fds.slots) \in Nat
    BY DEF IInv, TypeOK, Table
  <1>2. CASE CanErase(fds, s)
    <2>1. fds.slots[i].fd # s
      BY <1>2 DEF Stays, RemoveClient
    <2> QED
      BY <1>2, <2>1, EraseKeeps DEF IInv, TypeOK, CashValid, RemoveClient
  <1>3. CASE ~CanErase(fds, s)
    BY <1>1, <1>3 DEF RemoveClient, Erase
  <1> QED
    BY <1>2, <1>3

(* A step that keeps the descriptors of the slots, new slots at the end    *)
(* apart, moves nothing.                                                   *)
LEMMA KeptMovesDown ==
  ASSUME IInv, Len(fds'.slots) \in Nat, Len(fds'.slots) >= Len(fds.slots),
         \A i \in 1..Len(fds.slots) : fds'.slots[i].fd = fds.slots[i].fd
  PROVE  SlotsMoveDown
  <1>1. Len(fds.slots) \in Nat
    BY DEF IInv, TypeOK, Table
  <1>2. \A i \in 1..Len(fds.slots) : i \in 1..i /\ i <= Len(fds'.slots)
    BY <1>1
  <1> QED
    BY <1>2 DEF SlotsMoveDown

(* A connection's slot never moves up, so no later slot of a pass is       *)
(* visited twice and a skipped connection is nearer to the front.          *)
THEOREM NeverMovesUp == Spec => SlotsOnlyMoveDown
  <1>1. ASSUME IInv, [Next]_vars PROVE [SlotsMoveDown]_vars
    <2> SUFFICES ASSUME Next PROVE SlotsMoveDown
      BY <1>1
    <2>0. Len(fds.slots) \in Nat /\ fds.slots \in Seq(Slot) /\ fds \in Table
      BY <1>1 DEF IInv, TypeOK, Table
    <2>1. ASSUME UNCHANGED fds PROVE SlotsMoveDown
      BY <1>1, <2>0, <2>1, KeptMovesDown
    <2>2. CASE Sweep
      <3>1. fds.slots[Len(fds.slots)] \in Slot
        BY <2>0, <2>2 DEF Sweep
      <3>2. fds.slots[Len(fds.slots)].fd \in Fds
        BY <3>1 DEF Slot
      <3> QED
        BY <1>1, <2>2, <3>2, RemoveMovesDown DEF Sweep
    <2>3. CASE Poll
      <3>1. PICK ready \in SUBSET open : fds' = Polled(fds, ready)
        BY <2>3 DEF Poll
      <3>2. /\ Len(fds'.slots) = Len(fds.slots)
            /\ \A i \in 1..Len(fds.slots) :
                 fds'.slots[i].fd = fds.slots[i].fd
        BY <1>1, <2>0, <3>1, PolledOK DEF IInv, CashValid
      <3> QED
        BY <1>1, <2>0, <3>2, KeptMovesDown
    <2>4. ASSUME NEW s \in Fds, AcceptClient(s) PROVE SlotsMoveDown
      <3>1. PICK stale \in BOOLEAN : fds' = PushBack(fds, s, stale)
        BY <2>4 DEF AcceptClient
      <3>2. /\ Len(fds'.slots) = Len(fds.slots) + 1
            /\ \A i \in 1..Len(fds.slots) :
                 fds'.slots[i].fd = fds.slots[i].fd
        BY <1>1, <2>0, <3>1, PushBackOK DEF IInv, CashValid
      <3> QED
        BY <1>1, <2>0, <3>2, KeptMovesDown
    <2>5. ASSUME NEW s \in Fds, AuthUser(s) PROVE SlotsMoveDown
      <3>1. fds'.slots = fds.slots
        BY <2>5 DEF AuthUser, Register
      <3> QED
        BY <1>1, <2>0, <3>1, KeptMovesDown
    <2>6. ASSUME NEW s \in Fds, PeerGone(s) \/ LostClient(s) \/ Quit(s)
          PROVE  SlotsMoveDown
      BY <1>1, <2>6, RemoveMovesDown DEF PeerGone, LostClient, Quit
    <2>7. CASE LoopStep
      BY <2>1, <2>2, <2>3, <2>4, <2>6, <2>7 DEF LoopStep, RefuseClient,
         NoConnection, EndPass, EndBatch, SkipSlot, StartBatch
    <2>8. CASE CommandStep
      BY <2>1, <2>5, <2>6, <2>8 DEF CommandStep, PassAccepted, PassRejected,
         AuthNick, ChangeNick
    <2> QED
      BY <2>7, <2>8 DEF Next
  <1> QED
    BY <1>1, Inductive, PTL DEF Spec, SlotsOnlyMoveDown, SlotsMoveDown
-----------------------------------------------------------------------------
(***************************************************************************)
(* The handshake, and the numbers that tell connections apart.             *)
(***************************************************************************)

(* A client has a nickname exactly after its NICK, and registers later.    *)
NamedInOrder ==
  \A c \in clients : /\ c.nicknameCheck <=> c.nick # NoNick
                     /\ c.registered => c.nicknameCheck

Handshakes == MarkedIsRegistered /\ NamedInOrder

(* removeClient takes the client and no other mark than his.               *)
LEMMA RemoveKeepsHandshakes ==
  ASSUME IInv, Handshakes, NEW s \in Fds, RemoveClient(s)
  PROVE  Handshakes'
  <1>1. clients' = {c \in clients : c.sock # s}
    BY DEF RemoveClient
  <1>2. \A u \in Fds \ {s} : u \in fds'.registered <=> u \in fds.registered
    BY DEF RemoveClient, Erase, Unmarked
  <1>3. \A c \in clients' : c \in clients /\ c.sock \in Fds \ {s}
    BY <1>1 DEF IInv, TypeOK, Client
  <1> QED
    BY <1>2, <1>3 DEF Handshakes, MarkedIsRegistered, NamedInOrder

(* A handler that replaces the Client of s by one that is in order.        *)
LEMMA UpdateKeepsHandshakes ==
  ASSUME IInv, Handshakes, NEW s \in Fds, NEW d, d.sock = s,
         d.nicknameCheck <=> d.nick # NoNick, d.registered => d.nicknameCheck,
         d.registered <=> s \in fds'.registered,
         \A u \in Fds \ {s} : u \in fds'.registered <=> u \in fds.registered,
         clients' = Update(s, d)
  PROVE  Handshakes'
  <1>1. \A e \in clients' : e = d \/ (e \in clients /\ e.sock \in Fds \ {s})
    BY DEF Update, IInv, TypeOK, Client
  <1> QED
    BY <1>1 DEF Handshakes, MarkedIsRegistered, NamedInOrder

(* The Client of a batch: it has registered if the batch is executed.      *)
LEMMA ServedClient ==
  ASSUME IInv, Handshakes, NEW s \in Fds, HasClient(s)
  PROVE  /\ ClientOf(s) \in Client /\ ClientOf(s).sock = s
         /\ ClientOf(s).registered <=> s \in fds.registered
         /\ ClientOf(s).nicknameCheck <=> ClientOf(s).nick # NoNick
         /\ ClientOf(s).registered => ClientOf(s).nicknameCheck
  BY ClientOfOK DEF IInv, TypeOK, Handshakes, MarkedIsRegistered, NamedInOrder

(* A new Client is unregistered, and so is the mark of its descriptor.     *)
LEMMA PassKeepsHandshakes ==
  ASSUME IInv, Handshakes, NEW s \in Fds, PassAccepted(s)
  PROVE  Handshakes'
  <1>1. /\ s \notin fds.registered /\ fds' = fds
        /\ clients' = clients \cup {NewClient(s)}
    BY DEF PassAccepted, Unregistered, Find
  <1>2. /\ NewClient(s).sock = s /\ NewClient(s).nick = NoNick
        /\ ~NewClient(s).nicknameCheck /\ ~NewClient(s).registered
    BY DEF NewClient
  <1> QED
    BY <1>1, <1>2 DEF Handshakes, MarkedIsRegistered, NamedInOrder

(* The NICK of a handshake leaves flag and mark alone.                     *)
LEMMA NickKeepsHandshakes ==
  ASSUME IInv, Handshakes, NEW s \in Fds, NEW n \in Nicks,
         AuthNick(s, n) \/ ChangeNick(s, n)
  PROVE  Handshakes'
  <1>1. HasClient(s) /\ fds' = fds /\ n # NoNick
    BY NicksAssumption DEF AuthNick, ChangeNick
  <1>2. CASE AuthNick(s, n)
    <2> DEFINE d == [ClientOf(s) EXCEPT !.nick = n, !.nicknameCheck = TRUE]
    <2>1. /\ d.sock = s /\ d.nick = n /\ d.nicknameCheck
          /\ d.registered <=> s \in fds.registered
      BY <1>1, ServedClient DEF Client
    <2>2. clients' = Update(s, d)
      BY <1>2 DEF AuthNick
    <2> HIDE DEF d
    <2> QED
      BY <1>1, <2>1, <2>2, UpdateKeepsHandshakes
  <1>3. CASE ChangeNick(s, n)
    <2> DEFINE d == [ClientOf(s) EXCEPT !.nick = n]
    <2>1. ClientOf(s).registered
      BY <1>1, <1>3, ServedClient DEF ChangeNick, Registered, Find
    <2>2. /\ d.sock = s /\ d.nick = n /\ d.nicknameCheck
          /\ d.registered <=> s \in fds.registered
      BY <1>1, <2>1, ServedClient DEF Client
    <2>3. clients' = Update(s, d)
      BY <1>3 DEF ChangeNick
    <2> HIDE DEF d
    <2> QED
      BY <1>1, <2>2, <2>3, UpdateKeepsHandshakes
  <1> QED
    BY <1>2, <1>3

(* USER sets both.                                                         *)
LEMMA UserKeepsHandshakes ==
  ASSUME IInv, Handshakes, NEW s \in Fds, AuthUser(s)
  PROVE  Handshakes'
  <1> DEFINE d == [ClientOf(s) EXCEPT !.registered = TRUE]
  <1>1. /\ HasClient(s) /\ ClientOf(s).nicknameCheck
        /\ clients' = Update(s, d) /\ fds' = Register(fds, s)
    BY DEF AuthUser
  <1>2. /\ d.sock = s /\ d.registered /\ d.nicknameCheck /\ d.nick # NoNick
    BY <1>1, ServedClient DEF Client
  <1>3. fds'.registered = fds.registered \cup {s}
    BY <1>1 DEF Register
  <1> HIDE DEF d
  <1> QED
    BY <1>1, <1>2, <1>3, UpdateKeepsHandshakes

(* Every step keeps flags and marks together.                              *)
LEMMA HandshakesStep ==
  ASSUME IInv, Handshakes, [Next]_vars
  PROVE  Handshakes'
  <1>1. ASSUME UNCHANGED clients, fds'.registered = fds.registered
        PROVE  Handshakes'
    BY <1>1 DEF Handshakes, MarkedIsRegistered, NamedInOrder
  <1>2. CASE Sweep
    <2>1. /\ fds.slots[Len(fds.slots)] \in Slot
          /\ RemoveClient(fds.slots[Len(fds.slots)].fd)
      BY <1>2 DEF Sweep, IInv, TypeOK, Table
    <2>2. fds.slots[Len(fds.slots)].fd \in Fds
      BY <2>1 DEF Slot
    <2> QED
      BY <2>1, <2>2, RemoveKeepsHandshakes
  <1>3. ASSUME NEW s \in Fds, PeerGone(s) \/ LostClient(s) \/ Quit(s)
        PROVE  Handshakes'
    BY <1>3, RemoveKeepsHandshakes DEF PeerGone, LostClient, Quit
  <1>4. CASE Poll
    <2>1. UNCHANGED clients /\ fds'.registered = fds.registered
      BY <1>4 DEF Poll, Polled
    <2> QED
      BY <1>1, <2>1
  <1>5. ASSUME NEW s \in Fds, AcceptClient(s)
        PROVE  Handshakes'
    <2>1. UNCHANGED clients /\ fds'.registered = fds.registered
      BY <1>5 DEF AcceptClient, PushBack
    <2> QED
      BY <1>1, <2>1
  <1>6. CASE LoopStep
    BY <1>1, <1>2, <1>3, <1>4, <1>5, <1>6
       DEF LoopStep, RefuseClient, NoConnection, EndPass, EndBatch, SkipSlot,
           StartBatch
  <1>7. CASE CommandStep
    BY <1>1, <1>3, <1>7, PassKeepsHandshakes, NickKeepsHandshakes,
       UserKeepsHandshakes DEF CommandStep, PassRejected
  <1>8. CASE UNCHANGED vars
    BY <1>1, <1>8 DEF vars
  <1> QED
    BY <1>6, <1>7, <1>8 DEF Next

(* The mark of a descriptor and the flag of its Client agree.              *)
THEOREM MarksAgree == Spec => []MarkedIsRegistered
  <1>1. Init => Handshakes
    BY DEF Init, Handshakes, MarkedIsRegistered, NamedInOrder
  <1>2. IInv /\ Handshakes /\ [Next]_vars => Handshakes'
    BY HandshakesStep
  <1>3. Handshakes => MarkedIsRegistered
    BY DEF Handshakes
  <1> QED
    BY <1>1, <1>2, <1>3, Inductive, PTL DEF Spec

(* The open descriptors belong to different connections.                   *)
ConnNumbers ==
  /\ nextConn \in 1..(MaxConns + 1)
  /\ \A s \in open : conn[s] \in 1..(nextConn - 1)
  /\ \A s, t \in open : conn[s] = conn[t] => s = t

(* Every step keeps the numbers of connections apart.                      *)
LEMMA ConnNumbersStep ==
  ASSUME TypeOK, ConnNumbers, [Next]_vars
  PROVE  ConnNumbers'
  <1>1. ASSUME UNCHANGED connVars, open' \subseteq open
        PROVE  ConnNumbers'
    BY <1>1 DEF ConnNumbers, connVars
  <1>2. ASSUME NEW s \in Fds, AcceptClient(s)
        PROVE  ConnNumbers'
    <2>1. /\ s \notin open /\ open' = open \cup {s} /\ nextConn <= MaxConns
          /\ conn' = [conn EXCEPT ![s] = nextConn]
          /\ nextConn' = nextConn + 1
      BY <1>2 DEF AcceptClient, LowestFree
    <2>2. conn'[s] = nextConn /\ \A t \in open : conn'[t] = conn[t]
      BY <2>1 DEF TypeOK
    <2>3. nextConn' \in 1..(MaxConns + 1)
      BY <2>1, MaxConnsAssumption DEF ConnNumbers
    <2>4. \A t \in open' : conn'[t] \in 1..(nextConn' - 1)
      BY <2>1, <2>2, MaxConnsAssumption DEF ConnNumbers
    <2>5. \A t \in open : conn'[t] # nextConn
      BY <2>2, MaxConnsAssumption DEF ConnNumbers
    <2>6. \A t, u \in open' : conn'[t] = conn'[u] => t = u
      BY <2>1, <2>2, <2>5 DEF ConnNumbers
    <2> QED
      BY <2>3, <2>4, <2>6 DEF ConnNumbers
  <1>3. CASE RefuseClient
    <2>1. /\ UNCHANGED <<open, conn>> /\ nextConn <= MaxConns
          /\ nextConn' = nextConn + 1
      BY <1>3 DEF RefuseClient
    <2>2. nextConn' \in 1..(MaxConns + 1)
      BY <2>1, MaxConnsAssumption DEF ConnNumbers
    <2>3. \A t \in open : conn[t] \in 1..(nextConn' - 1)
      BY <2>1, MaxConnsAssumption DEF ConnNumbers
    <2> QED
      BY <2>1, <2>2, <2>3 DEF ConnNumbers
  <1>4. CASE LoopStep
    BY <1>1, <1>2, <1>3, <1>4
       DEF LoopStep, Sweep, RemoveClient, Poll, NoConnection, EndPass,
           EndBatch, SkipSlot, PeerGone, StartBatch
  <1>5. CASE CommandStep
    BY <1>1, <1>5
       DEF CommandStep, PassAccepted, PassRejected, AuthUser, LostClient, Quit,
           RemoveClient, AuthNick, ChangeNick
  <1>6. CASE UNCHANGED vars
    BY <1>1, <1>6 DEF vars
  <1> QED
    BY <1>4, <1>5, <1>6 DEF Next
=============================================================================
