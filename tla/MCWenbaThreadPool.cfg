SPECIFICATION FairSpec
CONSTANTS
    Callers = {main, c1}
    Main = main
    Tasks = {r1, r2, r3}
    None = None
INVARIANTS TypeOK MadeOnce SerialOrder RunsOnce
PROPERTY TaskRuns
CHECK_DEADLOCK FALSE
