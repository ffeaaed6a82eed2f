SPECIFICATION Spec
CONSTANTS
    Courses = {a1, a2}
    Classes = {k1}
    Rounds = {r1, r2}
    Terms = {t1, t2}
    NoRow = NoRow
    Transactions = {x1, x2}
    MaxChanges = 1
SYMMETRY Symmetry
CHECK_DEADLOCK FALSE
INVARIANTS NoDangling TermsAgree OpenRoundIsOffered
