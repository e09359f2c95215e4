SPECIFICATION DraftSpec
CONSTANTS
 Pages = {p1, p2}
 DurableStore = TRUE
 MaxDraftVersion = 3
 MaxEdits = 2
SYMMETRY Interchangeable
CHECK_DEADLOCK FALSE
INVARIANTS RefusedOnlyWhenStale
