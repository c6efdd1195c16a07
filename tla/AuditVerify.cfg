SPECIFICATION Spec
CONSTANTS
    Payloads <- PlainPayloads
    MaxRows = 4
    MaxDamage = 3
INVARIANTS
    NoFalseAlarm
    LastRowVouches
    BrokenAtIsFirst
CHECK_DEADLOCK FALSE
