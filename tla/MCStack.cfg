CONSTANTS
    Size = 6
    Entry = 1
    Slack = 1
SPECIFICATION StackSpec
INVARIANTS
    NeverTooLow
    NeverTooHigh
