CONSTANTS
    Conns = {c1, c2, c3}
    Addrs = {a1, a2, a3}
    Listeners = {l1}
    H2Listeners = {l1}
    Limit = 1
    AddrReuse = FALSE
    c1 = c1
    c2 = c2
    c3 = c3
    a1 = a1
    a2 = a2
    a3 = a3
    l1 = l1
    NoHello = NoHello
SPECIFICATION Spec
INVARIANTS MapBounded ReportsOwnHello ServedHelloIsHeld
PROPERTIES ImplementsHelloReport
