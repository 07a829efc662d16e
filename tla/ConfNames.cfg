SPECIFICATION Spec
CONSTANTS
    n1 = n1
    n2 = n2
    k1 = k1
    k2 = k2
    a1 = a1
    Name = {n1, n2}
    Key = {k1, k2}
    Addr = {a1}
    FallbackOf <- SecondName
    NoName = NoName
    NoKey = NoKey
    Conf <- Uneven
    Pool <- Pools
    Certs <- Issued
INVARIANTS
    NamesAsCommented
