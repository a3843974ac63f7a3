SPECIFICATION Spec
CONSTANTS
    p1 = p1  p2 = p2  p3 = p3
    f1 = f1  f2 = f2
    a = a  b = b
    Clients <- MCClients
    Fds <- MCFds
    Channels <- MCChannels
    MaxOut = 2
    MaxBatch = 1
    NoClient = NoClient
    NoFd = NoFd
SYMMETRY Symmetry
INVARIANTS TypeOK SubscriptionsSound
PROPERTIES ImplementsConnections
