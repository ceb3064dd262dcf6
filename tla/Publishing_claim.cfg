\* A revert whose claim takes another rollout than the one it read.
CONSTANTS
    Platforms = {1}
    Requests = {q1, q2}
    Percentages = {10}
    Contents = {a}
    Embedded = Embedded
    MaxNow = 3
SPECIFICATION Spec
SYMMETRY Symmetry
VIEW View
INVARIANTS
    RevertPublishesOnlyItsClaim
CHECK_DEADLOCK FALSE
