SPECIFICATION Spec
CONSTANTS
    c1 = c1
    c2 = c2
    n1 = n1
    n2 = n2
    l1 = l1
    l2 = l2
    Nobody = Nobody
    Creators = {c1, c2}
    Names = {n1, n2}
    Labels = {l1, l2}
SYMMETRY Symmetry
INVARIANTS NoSpuriousFailure
CHECK_DEADLOCK FALSE
