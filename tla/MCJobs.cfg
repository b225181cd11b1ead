SPECIFICATION JobSpec
CHECK_DEADLOCK FALSE
CONSTANTS
    Words = {"x"}
    TxWorkers = {"u", "v"}
    TxLoads <- MCTxLoads
    MaxDbFaults = 2
    MaxRestarts = 1
    MaxGens = 2
    DayTicks = 4
    Change = 2
    LastDay = 3
    Calendars <- MCCalendars
    MaxWall = 9
INVARIANTS
    FinishedHasResult
    DoneGenIsOwn
PROPERTIES
    TablesAreWriteOnce
    EveryJobFinishes
    PeriodicRunsUntil
    DailySlotsInOrder
