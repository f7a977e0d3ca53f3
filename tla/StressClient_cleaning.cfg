CONSTANTS
    Slots = {1, 2}
    Users = {u1, u2}
    Null = null
    Cleaning = cleaning
    MaxSends = 2
    Gap = TRUE
SPECIFICATION Spec
INVARIANT CleaningIsSafe
CHECK_DEADLOCK FALSE
