\* Two devices that patch the profile while setups, with up to two claims
\* each, come and go.
SPECIFICATION Spec
CONSTANTS
    SessionId = {s1, s2}
    Label = {l1}
    Nil = Nil
    Name = {n1}
    Locale = {en}
    DefaultLocale = en
    MaxValues = 1
    Device = {d1, d2}
    MaxVersion = 3
SYMMETRY ProfileSymmetry
INVARIANTS
    AnswersInOrder
    StatusFollowsSessions
    EvidenceStands
    ActiveIsOpen
    VersionGuardsPreferences
