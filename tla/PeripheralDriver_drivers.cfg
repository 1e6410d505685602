SPECIFICATION FairSpec
CONSTANT Driver = {"UART", "SPI", "I2C", "ADC", "TIM"}
INVARIANTS TypeOK SuccessIsEarned CallsLeaveNothingBehind AbortRecovers TimersStopped
PROPERTY EveryCallReturns
CHECK_DEADLOCK FALSE
