SPECIFICATION FairSpec
CONSTANTS
    Tasks = {t1}
    Agents = {g1, g2}
    Nobody = Nobody
    Leaf = Leaf
    MaxPlans = 2
    MaxInvocations = 1
    MaxQueue = 2
CONSTRAINT QueueBounded
INVARIANTS
  
  TasksShown
PROPERTIES
  StartedTasksSettle
CHECK_DEADLOCK FALSE
