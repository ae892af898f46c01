SPECIFICATION Spec
CONSTANTS
    Zero = Zero
    Nil = Nil
    Jti = Jti
    u1 = u1
    x1 = x1
    x2 = x2
    l1 = l1
    l2 = l2
    s1 = s1
    s2 = s2
    r1 = r1
    Users = {u1}
    c1 = c1
    c2 = c2
    CourseIds = {c1, c2}
    Sections = {x1, x2}
    Lessons = {l1, l2}
    Slugs = {s1, s2}
    Requests = {r1}
SYMMETRY Symmetry
INVARIANTS
    TypeOK
    OutlineIsRegular
    EnrolledIsLinearizable
    OkIsOneDocument
