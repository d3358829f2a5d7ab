SPECIFICATION FairSpec
CONSTANTS
  Fds = {1, 2}
  MaxSlots = 3
  MaxConns = 4
  Flaky = {1, 2}
  alice = alice
  longname = longname
  gemini = gemini
  GeminiNick = gemini
  NoNick = noNick
  Nicks <- MCNicks
  LongNicks <- MCLongNicks
INVARIANTS
  TypeOK
  CashValid
  OpenIsServed
  OneClientPerSocket
  NickUnique
  GeminiIsClient
  Identity
  MarkedIsRegistered
PROPERTIES
  SlotsOnlyMoveDown
  BackToPoll
