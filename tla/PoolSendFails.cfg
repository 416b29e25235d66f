SPECIFICATION Spec
CONSTANTS
    Clients = {k1}
    Listener = sd
    Stdin = stdin
    NoFd = NoFd
    MaxFds = 5
    Rounds = 4
CHECK_DEADLOCK FALSE
INVARIANTS ServedAreClosed
