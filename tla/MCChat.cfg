SPECIFICATION Spec
CONSTANTS
  s1 = s1
  s2 = s2
  s3 = s3
  alice = alice
  bob = bob
  carol = carol
  red = red
  key1 = key1
  Fds <- ThreeSockets
  Nicks <- ThreeNicks
  ChannelNames <- OneChannel
  Keys <- NoKeys
  NoKey = noKey
  topic1 = topic1
  Topics <- NoTopics
  NoTopic = noTopic
  NoChannel = noChannel
  NoNick = noNick
  NoCommand = noCommand
  Limits = {}
  IntMax = 3
  Evictable = {s3}
  Letters = {"o"}
  MaxOps = 2
  MaxInvited = 0
SYMMETRY AllButS3AndNicks
INVARIANTS
  MembersLive
  ChannelsNonEmpty
  MemberOnce
PROPERTIES
  StaysUnlessKicked
  IsRoster
