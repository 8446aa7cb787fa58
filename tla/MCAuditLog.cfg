SPECIFICATION AuditSpec
CONSTANTS
    Loggers = {l1, l2}
    BufferSize = 1
    FlushSize = 2
    MaxEntries = 4
INVARIANT AuditInOrder
PROPERTY AuditDrained
CHECK_DEADLOCK FALSE
