\* The comment on the owner of a failed settlement, against a start_run that waits for it.
CONSTANTS
  t1 = t1
  Threads = {t1}
  Runs = {r1, r2}
  ThreadOf <- OneThread
  Ops = {o1}
  MaxRounds = 1
  NoOp = NoOp
  NoRun = NoRun
SPECIFICATION FairSpec
PROPERTIES ShutdownStopsRetry
