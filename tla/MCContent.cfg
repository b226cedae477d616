SPECIFICATION ContentSpec
CONSTANTS
    c1 = c1
    c2 = c2
    u1 = u1
    Conn = {c1, c2}
    User = {u1}
    UserOf <- MCUserOf
    Spared = {c2}
    Consumer = consumer
    Cap = 1
    MaxSends = 1
    Handler = {h1, h2}
    Cleaner = {n1}
    FileBudgets <- MCFileBudgets
    Item = {i1, i2, i3}
    Editor = {e1, e2}
    Base = 3
    MaxItems = 3
    MaxListWrites = 4
    w1 = w1
    w2 = w2
    ImportJob = {1, 2}
    Importer = {w1, w2}
    LastTs = 2
    WithFile = {1, 2}
    ImportBudgets <- MCImportBudgets
INVARIANTS
    RegistrySafety FileSafety ListSafety ImportSafety
PROPERTY ContentProgress
CHECK_DEADLOCK FALSE
