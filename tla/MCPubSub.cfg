SPECIFICATION FairSpec
CONSTANTS
  Fds <- MCFds
  Names <- MCNames
  Talk <- MCTalk
  KeyspaceChannel = "space"
  KeyeventChannel = "event"
  Matches <- MCMatches
  NotifyFlags = {"K", "E", "$"}
  Room = 1
  MaxQueue = 1
  MaxUnread = 1
  MaxOut = 2
INVARIANTS
  RegistryExact
  StreamIntact
  OwnMessageBehindReply
  NeverRestrictedInMulti
PROPERTIES
  OutputMoves

