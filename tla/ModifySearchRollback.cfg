CONSTANTS
    Conns = {k1, k2}
    Cols = {c1, c2}
    Resources = {r1, r2}
    Values = {v1, v2, v3}
    MimeTypes = {m1}
    AttrTypes = {attrA}
    Items = {i1}
    Subscribers = {s1}
    k1 = k1  k2 = k2  c1 = c1  c2 = c2  c3 = c3  r1 = r1  r2 = r2
    v1 = v1  v2 = v2  v3 = v3  m1 = m1  attrA = attrA  i1 = i1  s1 = s1
    NoValue = NoValue
    BadNumber = BadNumber
    InitCol <- MCInitCol
    InitItemCol <- MCInitItemCol
    InitAttrs <- MCNoAttrSet
    ConnResource <- MCConnResource
    Commands <- MCSearchCommands
    MaxCommands = 1
    DbFailures = FALSE
    ItemSync = FALSE
SPECIFICATION Spec
INVARIANT SearchMatchesStore
CHECK_DEADLOCK FALSE
