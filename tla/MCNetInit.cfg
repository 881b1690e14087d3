\* Both threads, three failing calls of IOS.
SPECIFICATION FairSpec
CONSTANTS
  EAGAIN = 11
  EALREADY = 120
  EINVAL = 22
  EINPROGRESS = 119
  EISCONN = 127
  ENETDOWN = 115
  ETIMEDOUT = 116
  Beyond = 0
  MaxInitRetries = 2
  MaxIpRetries = 2
  Handles <- MCHandles
  IosErrors <- MCErrors
  MaxFaults = 3
INVARIANTS TypeOK HandlesBalanced UpIsUsable
PROPERTIES InitEnds AddressShown
