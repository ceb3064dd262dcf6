\* One platform; any number of requests, two at a time.  Three percentages: a progression
\* to the second may be overtaken by one to the third.  Three ids: an update, a rollout
\* over it with other content, and what a revert puts above.
CONSTANTS
    Platforms = {1}
    Requests = {q1, q2}
    Percentages = {10, 20, 30}
    Contents = {a, b}
    Embedded = Embedded
    MaxNow = 3
SPECIFICATION Spec
SYMMETRY Symmetry
VIEW View
INVARIANTS
    OneActiveRollout
    
    RevertRestores
PROPERTIES
    PercentageOnlyIncreases
CHECK_DEADLOCK FALSE
