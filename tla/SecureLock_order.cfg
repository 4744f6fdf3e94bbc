\* One order of any kind; two commits of the payload that may overlap.
SPECIFICATION FairSpec
CONSTANTS
    Calls = {c1, c2}
    None = None
INVARIANTS
    SettledIsAttested
    OrderAnswered
PROPERTIES
    OrderEnds
\* The process ends.
CHECK_DEADLOCK FALSE
