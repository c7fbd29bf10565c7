\* One Run of two invocations with two operations, and two Runs of one invocation with
\* one operation at a time: what must eventually happen.
CONSTANTS
  t1 = t1
  o1 = o1
  r1 = r1
  r2 = r2
  Threads = {t1}
  Runs = {r1, r2}
  ThreadOf <- OneThread
  Ops = {o1, o2}
  MaxRounds = 2
  NoOp = NoOp
  NoRun = NoRun
SPECIFICATION LiveSpec
PROPERTIES ExecutionsEnd OperationsEnd
