---------------------------- MODULE MCTaskQueue ----------------------------
EXTENDS TaskQueue, TLC

CONSTANTS t1, t2, t3, c1, c2

MCTask == {t1, t2, t3}
MCConsumer == {c1, c2}
MCPriority == {0, 1}
MCPriorityOf == [t \in Task |-> IF t = t1 THEN 0 ELSE 1]
=============================================================================
