\* An active rollout that is not what the branch serves.
CONSTANTS
    Platforms = {1}
    Requests = {q1, q2}
    Percentages = {10}
    Contents = {a}
    Embedded = Embedded
    MaxNow = 2
SPECIFICATION Spec
SYMMETRY Symmetry
VIEW View
INVARIANTS
    ActiveRolloutIsServed
CHECK_DEADLOCK FALSE
