SPECIFICATION Spec
CONSTANTS
    a = a
    b = b
    c = c
    d = d
    p = p
    q = q
    None = None
    Commands = {a, b, c, d}
    Procs = {p, q}
    Budget = 2
    KeyOf <- MCKeyOf
SYMMETRY ProcSymmetry
INVARIANTS AlwaysRecoverable AcknowledgedSurvives MemoryIsDisk
PROPERTY KeepsPromise
