SPECIFICATION FairSpec
CONSTANTS
  t1 = t1
  t2 = t2
  t3 = t3
  c1 = c1
  c2 = c2
  NoTask = NoTask
  NoConsumer = NoConsumer
  Task <- MCTask
  Priority <- MCPriority
  PriorityOf <- MCPriorityOf
  MaxWorkers = 1
  Consumer <- MCConsumer
  Stopping = TRUE
INVARIANTS
  TaskIsSomewhere
  PermitsMatchWorkers
PROPERTIES
  ImplementsJobQueue
  StartsInOrder
  EventuallySettled
CHECK_DEADLOCK FALSE
