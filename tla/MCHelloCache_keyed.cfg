CONSTANTS
    Conns = {c1, c2}
    Addrs = {a1, a2}
    Listeners = {l1, l2}
    H2Listeners = {l1}
    Limit = 1
    AddrReuse = TRUE
    c1 = c1
    c2 = c2
    a1 = a1
    a2 = a2
    l1 = l1
    l2 = l2
    NoHello = NoHello
SPECIFICATION Spec
INVARIANTS KeyedByConnection
SYMMETRY Symmetry
