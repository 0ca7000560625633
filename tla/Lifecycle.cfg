SPECIFICATION Spec
CONSTANTS
    Nodes = {n1, n2}
    Nobody = Nobody
    Fds = {f1, f2, f3}
    NoFd = NoFd
INVARIANTS
    TypeOK
    Released
    SocketKept
PROPERTIES
    ImplementsTree
