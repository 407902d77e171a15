CONSTANTS
    Fds = {f1, f2, f3}
    Ecs = {e1, e2, e3}
    Conns = {c1}
    TcpServer = tcp_server
    SignalHandler = signal_handler
    Owners = {c1, tcp_server, signal_handler}
    NULL = NULL
    SignalFd = f1
    ListenFd = f2
    MAX_EVENTS = 3
    MaxPending = 1
    Faulty = FALSE
SPECIFICATION FairSpec
PROPERTIES
    SignalStops
    HangupFrees
