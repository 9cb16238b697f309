\* Two mailboxes, three messages, two readers of one mailbox and one of the other.
SPECIFICATION Spec
CONSTANTS
    a = a
    b = b
    r1 = r1
    r2 = r2
    r3 = r3
    m1 = m1
    m2 = m2
    m3 = m3
    Ids = {m1, m2, m3}
    Boxes = {a, b}
    Readers = {r1, r2, r3}
    BoxOf <- MCBoxOf
    MaxRows = 3
INVARIANTS
    TypeOK
    HandedOnce
    InOrder
PROPERTY ImplementsMailbox
