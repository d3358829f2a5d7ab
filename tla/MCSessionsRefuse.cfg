SPECIFICATION Spec
CONSTANTS
  Fds = {1, 2}
  MaxSlots = 2
  MaxConns = 4
  Flaky = {}
  alice = alice
  longname = longname
  gemini = gemini
  GeminiNick = gemini
  NoNick = noNick
  Nicks <- MCNicks
  LongNicks <- MCLongNicks
PROPERTIES
  RefusedOnlyWhenFull
