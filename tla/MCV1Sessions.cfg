\* Two people, three sessions, one forged cookie, two calls at a time.
SPECIFICATION Spec
CONSTANTS
    Account = {a1, a2}
    Session = {s1, s2, s3}
    Key = {k1, k2}
    Address = {e1}
    Nobody = Nobody
    Stranger = {x1}
    Profile = {p1, p2, p3}
    Call = {c1, c2}
SYMMETRY V1Symmetry
INVARIANTS
    ContextIsCurrent
    OneWriterPerProfile
