SPECIFICATION Spec
CONSTANTS
    Payloads <- AllPayloads
    MaxRows = 3
    MaxDamage = 0
INVARIANTS
    StoredReadsBack
CHECK_DEADLOCK FALSE
