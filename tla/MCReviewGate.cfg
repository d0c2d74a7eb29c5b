\* A second setup that asks for no review.
SPECIFICATION Spec
CONSTANTS
    SessionId = {s1, s2}
    Label = {l1}
    Nil = Nil
    Name = {n1}
    Locale = {en}
    DefaultLocale = en
    MaxValues = 0
    Device = {}
    MaxVersion = 4
PROPERTY WithheldUntilReviewed
