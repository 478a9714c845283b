\* Two tags over four instants, with every input writeTags() is given.
SPECIFICATION Spec
CONSTANTS
    t1 = t1  t2 = t2
    Null = Null
    Tags = {t1, t2}
    SoftTags = {t2}
    MaxTime = 4
INVARIANTS TypeOK CachesAgree FreshWhenCurrent
PROPERTY PagesOnlyAge
