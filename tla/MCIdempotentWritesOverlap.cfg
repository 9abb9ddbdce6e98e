\* One key: a write, its retry, and another body.
CONSTANTS
    a = a
    b = b
    c = c
    order = order
    refund = refund
    Requests <- MCRequests
    Keys = {k1}
    Bodies = {order, refund}
    KeyOf <- MCKeyOf
    BodyOf <- MCBodyOf
    MaxAttempts = 2
    MaxRecords = 4
    MaxFaults = 0
    None = None
SPECIFICATION Spec
INVARIANTS OneRecordPerKey
CHECK_DEADLOCK FALSE
