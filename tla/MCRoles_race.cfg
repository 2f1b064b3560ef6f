SPECIFICATION Spec
CONSTANTS
    Request = {r1, r2, r3}
    User = {u1, u2}
    Key = {core, custom, sub}
    Seeded = {core, custom}
    System = {core}
    SubKey = {sub}
    p1 = p1
    p2 = p2
    Permission = {p1, p2}
    Default = {p1}
    Choice <- NoneOrBoth
    None = None
    Over = Over
SYMMETRY Symmetry
INVARIANTS
    HoldersHaveARole
    CacheIsCurrent
    SavedSetHolds
