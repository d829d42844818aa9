CONSTANTS
    One = One
    Two = Two
    Threads = {One, Two}
    Calls <- MCCalls
    Items <- MCItems
    Capacity = 1
    Habits = {"copy", "sort", "head", "ignore"}

SPECIFICATION FairSpec

CHECK_DEADLOCK FALSE

INVARIANTS
    PassedOn

PROPERTIES
    Terminates
