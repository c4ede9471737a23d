SPECIFICATION Spec
CONSTANTS
    d1 = d1
    d2 = d2
    d3 = d3
    img = img
    Docs = {d1, d2, d3}
    Payloads = {img}
    pic = pic
    Loose = {pic}
    Sidecar <- MCSidecar
    Dirs <- MCDirs
    Leaves <- MCLeaves
    PayloadLeaf <- MCPayloadLeaf
    Start <- MCStart
    Registered = {d1, d2}
    Styles <- MCStyles
    Gone = Gone
    None = None
    MaxMoves = 2
    MaxEdits = 2
    Freedoms = {}
INVARIANT LinksFollow
PROPERTIES PairsStayTogether EditsAreKept
CHECK_DEADLOCK FALSE
