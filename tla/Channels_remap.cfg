\* A mapping and a rollout that overlap.
CONSTANTS
    Names = {b1, b2}
    Percentages = {10}
    Requests = {q1, q2}
    NoOne = NoOne
    MaxIds = 2
SPECIFICATION Spec
PROPERTIES
    MappingLocked
CHECK_DEADLOCK FALSE
