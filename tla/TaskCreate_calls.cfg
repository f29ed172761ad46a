SPECIFICATION FairSpec
CONSTANTS
    c1 = c1
    c2 = c2
    c3 = c3
    n1 = n1
    n2 = n2
    l1 = l1
    l2 = l2
    Nobody = Nobody
    Creators = {c1, c2, c3}
    Names = {n1, n2}
    Labels = {l1, l2}
INVARIANTS AllOrNothing
PROPERTIES ImplementsCatalogue EveryCallEnds
CHECK_DEADLOCK FALSE
