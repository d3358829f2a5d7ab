SPECIFICATION Spec
CONSTANTS
  s1 = s1
  s2 = s2
  s3 = s3
  alice = alice
  bob = bob
  carol = carol
  red = red
  key1 = key1
  Fds <- ThreeSockets
  Nicks <- ThreeNicks
  ChannelNames <- OneChannel
  Keys <- OneKey
  NoKey = noKey
  topic1 = topic1
  Topics <- OneTopic
  NoTopic = noTopic
  NoChannel = noChannel
  NoNick = noNick
  NoCommand = noCommand
  Limits = {0, 2, 5, 9}
  IntMax = 3
  Evictable = {}
  Letters = {"i", "t", "l", "k"}
  MaxOps = 1
  MaxInvited = 1
SYMMETRY SocketsAndNicks
INVARIANTS
  TypeOK
  ShownLimitEnforced
PROPERTIES
  InvitationsKept
