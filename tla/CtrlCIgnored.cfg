SPECIFICATION LifeFairSpec
CONSTANTS LMaxWrites = 2
 LMaxLives = 2
PROPERTY CtrlCStops
CHECK_DEADLOCK FALSE
