CONSTANTS
    Threads = {t1, t2}
    MaxFd = 2
    NULL = null
SPECIFICATION Spec
INVARIANTS TypeOK NoDescriptorLost HeldAreReady
PROPERTY RefinesListeners
