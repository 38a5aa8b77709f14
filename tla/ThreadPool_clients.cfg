SPECIFICATION FairSpec
CONSTANTS
  Workers = {w1}
  Clients = {c1, c2}
  Owner = c1
  MaxJobs = 3
  Nobody = Nobody
CHECK_DEADLOCK FALSE
INVARIANTS DestroyedIdle
PROPERTIES AllEnd
