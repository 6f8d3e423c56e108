SPECIFICATION DemoSpec
CONSTANTS
    MaxRuns = 2
INVARIANTS DemoTodoCloses
CHECK_DEADLOCK FALSE
