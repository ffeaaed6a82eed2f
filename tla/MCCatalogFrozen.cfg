SPECIFICATION Spec
CONSTANTS
    Courses = {a1}
    Classes = {k1}
    Rounds = {r1}
    Terms = {t1}
    NoRow = NoRow
    Transactions = {x1, x2}
    MaxChanges = 1
CHECK_DEADLOCK FALSE
PROPERTIES CoreFrozen
