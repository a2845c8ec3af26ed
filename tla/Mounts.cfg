SPECIFICATION Spec
CONSTANTS
    Procs = {p1, p2}
    Contents = {c1}
    KBs = {k1, k2, k3}
    FirstKBs = {k1, k2}
    MaxDocs = 2
    MaxMounts = 3
    MaxRequests = 3
INVARIANTS UnlinkedOnRequest MountKeepsFile TablesAgree
PROPERTIES GapsClose
CHECK_DEADLOCK FALSE
