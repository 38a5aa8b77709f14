SPECIFICATION FairSpec
CONSTANTS
  Workers = {w1, w2}
  Clients = {c1}
  Owner = c1
  MaxJobs = 3
  Nobody = Nobody
CHECK_DEADLOCK FALSE
INVARIANTS EnoughAwake SleepersWaitRightly
PROPERTIES IsTaskPool AllEnd
