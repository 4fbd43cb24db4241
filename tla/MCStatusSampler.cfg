SPECIFICATION FairSpec
CONSTANTS
  Requests <- MCRequests
  Statuses = {204, 404}
  Latencies = {1, 2}
  LatWindow = 2
  FeedSize = 2
  DiskSizes = {0, 1}
  MaxTenants = 1
  MaxOps = 3
  None = None
INVARIANTS
  TypeOK
  ViewOfOneMoment
PROPERTY ShownInTheEnd
