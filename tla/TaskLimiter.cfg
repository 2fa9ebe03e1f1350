SPECIFICATION Spec
CONSTANTS
    t1 = t1  t2 = t2  t3 = t3  t4 = t4
    Tasks = {t1, t2, t3, t4}
    MaxTasks = 2
    MaxTaskTime = 1
    CleaningInterval = 2
    NaN = NaN
    ConsoleArgs = {0, 1, 2, NaN}
INVARIANTS SlotAccounting HoldBound StartedOnce
PROPERTIES LimitIsUsed StrictPriority HeldTaskStarts
CHECK_DEADLOCK FALSE
