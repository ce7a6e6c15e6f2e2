SPECIFICATION Spec
CONSTANTS
    Senders = {s1, s2}
    Commands = {m1, m2, m3}
    None = None
INVARIANT OneSignal
INVARIANT CommandsShowOnFd
INVARIANT DestroyedUnused
PROPERTY CommandsArrive
