SPECIFICATION FairObserverSpec
CONSTANTS
    MaxClicks = 2
    MaxTrouble = 2
INVARIANTS ObserverIInv ClickInOnePlace OneWayOn
PROPERTIES ClickAnswered
CHECK_DEADLOCK FALSE
