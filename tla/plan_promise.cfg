CONSTANT MaxCount = 2
SPECIFICATION ReconfigureSpec
CHECK_DEADLOCK FALSE
INVARIANT PlanHolds
