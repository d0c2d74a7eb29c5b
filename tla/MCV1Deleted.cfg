\* A deleted account's cookie still reaches the handlers of /v1.
SPECIFICATION Spec
CONSTANTS
    Account = {a1, a2}
    Session = {s1, s2}
    Key = {k1, k2}
    Address = {e1}
    Nobody = Nobody
    Stranger = {x1}
    Profile = {p1, p2}
    Call = {c1}
SYMMETRY V1Symmetry
PROPERTY DeletedAccountsAreRefused
