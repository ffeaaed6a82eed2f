SPECIFICATION SpecPastTTL
CONSTANTS
    c1 = c1
    c2 = c2
    c3 = c3
    x1 = x1
    x2 = x2
    t1 = t1
    t2 = t2
    s1 = s1
    s2 = s2
    s3 = s3
    Rounds = {r1}
    Students = {s1, s2}
    Classes = {c1, c2, c3}
    Courses = {x1, x2}
    Slots = {t1, t2}
    Requests = {q1, q2}
    Apps = {a1, a2, a3}
    NoApp = NoApp
    CourseOf <- MCCourseOf
    CreditsOf <- MCCreditsOf
    SlotsOf <- MCSlotsOf
    Capacity <- MCCapacity
    CreditLimit <- MCCreditLimit
    CourseLimit <- MCCourseLimit
    Eligible <- MCEligible
    MaxCredits = 2
    Delayed = {}
    LateRetry = FALSE
SYMMETRY MCSymmetry
CHECK_DEADLOCK FALSE
INVARIANTS
    ReleasedAtMostOnce
