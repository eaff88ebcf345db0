SPECIFICATION FairSpec
CONSTANT MaxKeys = 1
PROPERTY TimerTicksOn
