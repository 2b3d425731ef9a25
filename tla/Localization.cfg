CONSTANTS
    Dialogues = {d1}
    Tracks = {t1, t2}
    Entries = {e1}
    Editors = {u1, u2}
    Closed = Closed
    Idle = Idle
    Generations = {g1, g2}
    MaxEdits = 3
    MaxAstray = 1
SPECIFICATION Spec
INVARIANTS
    ReviewedIsCurrent
    NoBlindEdit
    GenerationsDoNotCompete
CHECK_DEADLOCK FALSE
SYMMETRY Alike
