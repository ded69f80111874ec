CONSTANTS
  h1 = h1
  h2 = h2
  NoHost = NoHost
  Hosts <- MCHosts
  Replies <- MCReplies
  NParams = 3
  MaxCmds = 3
SPECIFICATION FairSpec
INVARIANTS
  Inv
  NoTornCommand
  ResponseIsOwn
  StatusReadsAgree
  ExecutedOnce
PROPERTIES
  PortalHandedOver
  ImplementsMcRpc
  CallReturns
