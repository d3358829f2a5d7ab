SPECIFICATION ServerSpec
CONSTANTS
  Fds = {1, 2}
  MaxSlots = 3
  MaxConns = 3
  Flaky = {2}
  alice = alice
  bob = bob
  gemini = gemini
  red = red
  GeminiNick = gemini
  NoNick = noNick
  Nicks <- MCNicks
  LongNicks <- None
  ChannelNames <- OneChannel
  NoChannel = noChannel
  Keys <- None
  NoKey = noKey
  Topics <- None
  NoTopic = noTopic
  NoCommand = noCommand
  Limits <- None
  IntMax = 3
  Letters = {"o"}
  MaxOps = 1
  MaxInvited = 0
SYMMETRY AliceAndBob
PROPERTIES
  RunsChat
  IsRoster
