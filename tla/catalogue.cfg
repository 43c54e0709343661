SPECIFICATION CampusSpec
CONSTANTS
    Students = {ann, bob}
    Professor = kim
    Courses = {c1, c2}
    Sessions = {s1, s2}
    Enrollments = {i1, i2}
    CourseCodes = {math}
    JoinCodes = {k1, k2}
    Requests = {r1, r2}
    Emails = {e1, e2}
    Lectures = {l1, l2}
    MaxAccounts = 3
    None = None
SYMMETRY Interchangeable
INVARIANTS  AnswersHold RecordsAreReachable
CHECK_DEADLOCK FALSE
