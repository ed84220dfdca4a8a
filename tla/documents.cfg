SPECIFICATION ScriptSpec
CONSTANTS
    e1 = e1
    e2 = e2
    note = note
    dtd = dtd
    frag = frag
    t1 = t1
    t2 = t2
    t3 = t3
    o1 = o1
    o2 = o2
    Doc = doc
    None = none
    Word = "word"
    Texts = {t2, t3}
    MaxArguments = 2
    Casts <- Documents
INVARIANTS Forest PlanKept OrderAgrees Normalized LiveFresh StylesFresh ElementsAgree
PROPERTIES HandlesKept
CHECK_DEADLOCK FALSE
