SPECIFICATION Spec
CONSTANTS
  Fds = {1, 2}
  MaxSlots = 3
  MaxConns = 3
  Flaky = {}
  alice = alice
  longname = longname
  gemini = gemini
  GeminiNick = gemini
  NoNick = noNick
  Nicks <- MCNicks
  LongNicks <- MCLongNicks
INVARIANTS
  RegisteredFirst
