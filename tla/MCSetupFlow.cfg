\* Two setups that seed one claim each, reviewed at any time.
SPECIFICATION Spec
CONSTANTS
    SessionId = {s1, s2}
    Label = {l1, l2}
    Nil = Nil
    Name = {n1}
    Locale = {en}
    DefaultLocale = en
    MaxValues = 0
    Device = {}
    MaxVersion = 4
SYMMETRY SetupSymmetry
INVARIANTS
    BootstrapLeadsOn
    NothingBehindTheScenes
PROPERTIES
    ReviewStands
    SetupAddsNoDuplicate
    ProgressLostBySkipOnly
    GateOpensKnowingly
