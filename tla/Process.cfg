SPECIFICATION FairSpec
CONSTANTS
  MaxTid = 3
  Statuses = {0, 1}
CHECK_DEADLOCK FALSE
INVARIANT TypeOK
 
INVARIANT ExecReports
INVARIANT LoadOwnsRecord
 
 
