SPECIFICATION Spec
CONSTANTS
    a = a
    b = b
    d = d
    e = e
    caption = caption
    place = place
    Files <- MCFiles
    FileOrder <- MCOrder
    Dirs <- MCDirs
    Top = Top
    Fields <- MCFields
    LinkFields <- MCLinkFields
    Values = {"x"}
    None = None
    Keeper = Keeper
    page = page
    Pages <- MCPages
    Freedoms = {}
    Astray = Astray
    MaxEdits = 2
CONSTRAINT FewScattered
SYMMETRY MCSymmetry
INVARIANTS PinsHold EntriesAreAnswered
PROPERTIES NothingIsLost LinksHold
CHECK_DEADLOCK FALSE
