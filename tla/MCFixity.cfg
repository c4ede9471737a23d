SPECIFICATION Spec
CONSTANTS
    None = None
    md = md
    dj = dj
    Grammars <- MCGrammars
    Bindings = {"stamp", "content"}
    MaxEdits = 1
    MaxEntries = 1
    MaxTick = 1
    MaxVerbs = 2
CONSTRAINT OneLate
SYMMETRY MCSymmetry
INVARIANTS DigestsBind StampsBind
PROPERTY RestatedIsTheSame
CHECK_DEADLOCK FALSE
