SPECIFICATION Spec
CONSTANTS
    Payloads <- PlainPayloads
    MaxRows = 3
    MaxDamage = 1
INVARIANTS
    WholeLogProved
CHECK_DEADLOCK FALSE
