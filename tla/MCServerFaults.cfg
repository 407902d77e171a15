CONSTANTS
    Fds = {f1, f2, f3, f4}
    Ecs = {e1, e2, e3, e4}
    Conns = {c1, c2}
    TcpServer = tcp_server
    SignalHandler = signal_handler
    Owners = {c1, c2, tcp_server, signal_handler}
    NULL = NULL
    SignalFd = f1
    ListenFd = f2
    MAX_EVENTS = 2
    MaxPending = 2
    Faulty = TRUE
SPECIFICATION Spec
SYMMETRY Symmetry
INVARIANTS
    Sound
    WatchedWhole
