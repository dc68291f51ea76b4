\* Three paths, one of them containing ".."; one failing query.
CONSTANTS
    Paths = {p1, p2, p3}
    Suspicious = {p3}
    NoMedia = NoMedia
    MaxErrors = 1
    p1 = p1
    p2 = p2
    p3 = p3
SPECIFICATION FairSpec
PROPERTY EventuallyCleaned
