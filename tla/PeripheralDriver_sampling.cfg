SPECIFICATION FairSpec
CONSTANT Driver = {"TIM"}
INVARIANT SuccessMeansDone
CHECK_DEADLOCK FALSE
