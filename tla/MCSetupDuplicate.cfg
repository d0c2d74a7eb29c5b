\* A skip that is repeated after the next session was created.
SPECIFICATION Spec
CONSTANTS
    SessionId = {s1, s2, s3}
    Label = {l1}
    Nil = Nil
    Name = {n1}
    Locale = {en}
    DefaultLocale = en
    MaxValues = 0
    Device = {}
    MaxVersion = 4
INVARIANT OneOpenSession
