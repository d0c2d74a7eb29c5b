\* Two conversations while one setup is done, its claim reviewed, and the setup
\* skipped after all.
SPECIFICATION TalkSpec
CONSTANTS
    SessionId = {s1}
    Label = {l1}
    Nil = Nil
    Name = {n1}
    Locale = {en}
    DefaultLocale = en
    MaxValues = 0
    Device = {}
    MaxVersion = 3
    ConversationId = {c1, c2}
    MaxTime = 2
    MaxMessages = 4
    MaxFeedback = 1
SYMMETRY ConversationSymmetry
INVARIANTS
    TurnsAreWhole
    PagesHoldRecent
    CitedEvidenceStands
