SPECIFICATION FairSpec
CONSTANTS
    Clients = {k1, k2, k3}
    Listener = sd
    Stdin = stdin
    NoFd = NoFd
    MaxFds = 3
    Rounds = 4
CHECK_DEADLOCK FALSE
INVARIANTS TypeOK TableIsOpen OverrunOnlyWhenFull MisclosedOnlyAfterFailedSend
PROPERTIES EndsUnlessBlocked
