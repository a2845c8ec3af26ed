SPECIFICATION Spec
CONSTANTS
    Procs = {p1, p2}
    Readers = {r1}
    Ids = {m1, m2}
    NoModel = none
    Types <- MCTypes
    Reranker = "reranker"
    Legacy = "rerank"
    Versions = {v1, v2}
    Asked = v1
    KBs = {k1}
    Tenant = tenant
    FirstModels <- MCFirstModels
    FirstSettings <- MCFirstSettings
    Absent = absent
    m1 = m1  m2 = m2  k1 = k1  tenant = tenant  absent = absent
    MaxRequests = 3
INVARIANTS OneDefault DefaultsServed ReferenceServed
CHECK_DEADLOCK FALSE
