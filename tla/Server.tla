------------------------------- MODULE Server -------------------------------
(***************************************************************************)
(* The running server: main's start and stop sequence, event_loop_run, the *)
(* collector, and the objects that live on them (TcpServer, SignalHandler, *)
(* and per client a TcpConnection owned by an HTTPConnection), together    *)
(* with the kernel and the peers that drive them.                          *)
(*                                                                         *)
(* The program has one thread: an action is one callback, one collected    *)
(* entry, or one step of main.  Between two of them peers connect, send,   *)
(* close and reset, and signals arrive.                                    *)
(*                                                                         *)
(* A response is MaxPending chunks of BUFSIZE bytes at most; what the      *)
(* parser and the router do with the bytes read is a choice here and is    *)
(* refined by the modules HTTPRequestQueue, HTTPRouter and HTTPResponse.   *)
(***************************************************************************)
EXTENDS ELoop, Sequences, FiniteSets

CONSTANTS
    Conns,          \* addresses of connection objects
    TcpServer,      \* the TcpServer object
    SignalHandler,  \* the SignalHandler object
    SignalFd,       \* the fd number signalfd() returns at start
    ListenFd,       \* the fd number socket() returns at start
    MAX_EVENTS,     \* events one epoll_wait may return
    MaxPending,     \* bound on the chunks queued in one response
    Faulty          \* whether allocations and epoll_ctl(ADD) may fail

ASSUME ServerAssumption ==
    /\ Owners = Conns \cup {TcpServer, SignalHandler}
    /\ TcpServer \notin Conns /\ SignalHandler \notin Conns
    /\ TcpServer # SignalHandler
    /\ SignalFd \in Fds /\ ListenFd \in Fds /\ SignalFd # ListenFd
    /\ MAX_EVENTS \in Nat \ {0}
    /\ MaxPending \in Nat \ {0}
    /\ Faulty \in BOOLEAN

\* Where allocations do not fail there is a cell for every fd: memory outlasts
\* the fd table.
ASSUME MemoryAssumption ==
    ~Faulty => /\ IsFiniteSet(Fds) /\ IsFiniteSet(Ecs)
               /\ Cardinality(Fds) <= Cardinality(Ecs)

VARIABLES
    pc,         \* where main, or event_loop_run, is
    running,    \* eloop->running
    loop,       \* the watch table and the kernel's interest list
    batch,      \* events[] not yet looked at
    cur,        \* the event being dispatched, with the slots still to test
    entries,    \* collector->collect_entries_list, head first
    conn,       \* the connection objects
    open,       \* fds open in the process
    listen_fd,  \* TcpServer.listen_fd
    signal_fd,  \* SignalHandler.fd
    rx,         \* client fds with unread input
    hup,        \* client fds whose peer has shut its side
    rst,        \* client fds whose peer has reset the connection
    backlog,    \* whether a client waits in the listen queue
    sig         \* whether SIGINT or SIGTERM is pending

peerVars == <<rx, hup, rst, backlog, sig>>
vars == <<pc, running, loop, batch, cur, entries, conn, open, listen_fd,
          signal_fd, rx, hup, rst, backlog, sig>>

-----------------------------------------------------------------------------
\* st: "free" not allocated; "tcp" a TcpConnection alone; "http" one owned
\* by an HTTPConnection.  pending and last are its HTTPResponse.
ConnRecord == [st : {"free", "tcp", "http"}, fd : Fds \cup {NULL},
               pending : 0..MaxPending, last : BOOLEAN]

FreeConn == [st |-> "free", fd |-> NULL, pending |-> 0, last |-> FALSE]
NewConn(st, fd) == [st |-> st, fd |-> fd, pending |-> 0, last |-> FALSE]

EventRecord == [fd : Fds, ec : Ecs, events : SUBSET Types]
NoEvent == [fd |-> NULL, ec |-> NULL, events |-> {}]

\* Where event_loop_run is inside one iteration.
Dispatching == pc = "dispatch" /\ cur # NoEvent

FreeFds == Fds \ open
FreeConns == {c \in Conns : conn[c].st = "free"}
Scheduled == {entries[i] : i \in DOMAIN entries}

Init ==
    /\ pc = "boot" /\ running = FALSE
    /\ loop = event_loop_new
    /\ batch = {} /\ cur = NoEvent /\ entries = <<>>
    /\ conn = [c \in Conns |-> FreeConn]
    /\ open = {} /\ listen_fd = NULL /\ signal_fd = NULL
    /\ rx = {} /\ hup = {} /\ rst = {} /\ backlog = FALSE /\ sig = FALSE

-----------------------------------------------------------------------------
(* The peers and the kernel.                                               *)

ClientFds == {conn[c].fd : c \in Conns} \ {NULL}

Connect ==
    /\ listen_fd # NULL /\ ~backlog /\ pc # "done"
    /\ backlog' = TRUE
    /\ UNCHANGED <<pc, running, loop, batch, cur, entries, conn, open,
                   listen_fd, signal_fd, rx, hup, rst, sig>>

PeerSend(fd) ==
    /\ fd \in ClientFds \ (rx \cup hup)
    /\ rx' = rx \cup {fd}
    /\ UNCHANGED <<pc, running, loop, batch, cur, entries, conn, open,
                   listen_fd, signal_fd, hup, rst, backlog, sig>>

PeerShutdown(fd) ==
    /\ fd \in ClientFds \ hup
    /\ hup' = hup \cup {fd}
    /\ UNCHANGED <<pc, running, loop, batch, cur, entries, conn, open,
                   listen_fd, signal_fd, rx, rst, backlog, sig>>

\* A reset also discards the input not read yet.
PeerReset(fd) ==
    /\ fd \in ClientFds \ rst
    /\ rst' = rst \cup {fd}
    /\ hup' = hup \cup {fd}
    /\ rx' = rx \ {fd}
    /\ UNCHANGED <<pc, running, loop, batch, cur, entries, conn, open,
                   listen_fd, signal_fd, backlog, sig>>

\* The signals are blocked and kept for the signalfd once main has called
\* signal_handler_add_signal_callback.
Signal ==
    /\ signal_fd # NULL /\ ~sig
    /\ sig' = TRUE
    /\ UNCHANGED <<pc, running, loop, batch, cur, entries, conn, open,
                   listen_fd, signal_fd, rx, hup, rst, backlog>>

Environment ==
    \/ Connect
    \/ Signal
    \/ \E fd \in Fds : PeerSend(fd) \/ PeerShutdown(fd) \/ PeerReset(fd)

-----------------------------------------------------------------------------
(* main: start.                                                            *)

\* epoll_ctl(EPOLL_CTL_ADD) may fail (ENOMEM, ENOSPC) when Faulty.
AddMayReturn(ret) == ret = 0 \/ Faulty

\* signal_handler_new and the two signal_handler_add_signal_callback calls.
\* When the signalfd or its watch cannot be had signal_handler_new closes the
\* fd and returns NULL, and main's next call fails its assertion.
SignalHandlerNew ==
    /\ pc = "boot"
    /\ \/ /\ \E e \in Cells(loop, SignalFd) :
                loop' = event_loop_add_fd_watch(loop, SignalFd, "READ", SignalHandler, e, 0)
          /\ signal_fd' = SignalFd /\ open' = open \cup {SignalFd} /\ pc' = "start"
       \/ /\ Faulty
          /\ \/ UNCHANGED loop
             \/ \E e \in Cells(loop, SignalFd) :
                loop' = event_loop_add_fd_watch(loop, SignalFd, "READ", SignalHandler, e, -1)
          /\ pc' = "aborted" /\ UNCHANGED <<signal_fd, open>>
    /\ UNCHANGED <<running, batch, cur, entries, conn, listen_fd>>
    /\ UNCHANGED peerVars

\* http_server_start, whose result main ignores, and event_loop_run up to
\* its first epoll_wait.  Three outcomes: listening; a socket that could not
\* be made ready (setsockopt, fcntl, bind, listen: no watch; or the watch
\* itself failed: a linked cell the kernel does not know); no socket at all.
TcpServerStartListen ==
    /\ pc = "start"
    /\ \/ /\ \E e \in Cells(loop, ListenFd), ret \in CtlResults :
              /\ AddMayReturn(ret)
              /\ loop' = event_loop_add_fd_watch(loop, ListenFd, "READ", TcpServer, e, ret)
          /\ listen_fd' = ListenFd /\ open' = open \cup {ListenFd}
       \/ /\ Faulty
          /\ listen_fd' = ListenFd /\ open' = open \cup {ListenFd}
          /\ UNCHANGED loop
       \/ /\ Faulty
          /\ UNCHANGED <<loop, listen_fd, open>>
    /\ running' = TRUE /\ pc' = "wait"
    /\ UNCHANGED <<batch, cur, entries, conn, signal_fd>>
    /\ UNCHANGED peerVars

-----------------------------------------------------------------------------
(* event_loop_run: epoll_wait and the walk over events[].                  *)

\* The kernel's readiness of an fd; wr is the set of fds that can take output.
Readiness(fd, wr) ==
    (IF \/ fd \in rx \cup hup
        \/ fd = listen_fd /\ backlog
        \/ fd = signal_fd /\ sig
     THEN {"READ"} ELSE {})
    \cup (IF fd \in wr THEN {"WRITE"} ELSE {})
    \cup (IF fd \in hup THEN {"CLOSE"} ELSE {})

Reported(fd, wr) ==
    IF loop.ptr[fd] = NULL THEN {} ELSE loop.mask[fd] \cap Readiness(fd, wr)

\* epoll_wait returns the events of the fds in chosen: all that are ready, or
\* MAX_EVENTS of them, or none when nothing is ready (the 100 ms timeout).
EpollWait(chosen, wr) ==
    LET ready == {fd \in Fds : Reported(fd, wr) # {}}
    IN  /\ pc = "wait" /\ running
        /\ chosen \subseteq ready
        /\ IF Cardinality(ready) <= MAX_EVENTS THEN chosen = ready
                                              ELSE Cardinality(chosen) = MAX_EVENTS
        /\ batch' = {[fd |-> fd, ec |-> loop.ptr[fd], events |-> Reported(fd, wr)]
                        : fd \in chosen}
        /\ pc' = "dispatch"
        /\ UNCHANGED <<running, loop, cur, entries, conn, open, listen_fd, signal_fd>>
        /\ UNCHANGED peerVars

\* The while condition ends the loop: running is 0, ...
LeaveLoop ==
    /\ pc = "wait" /\ ~running
    /\ pc' = "exit"
    /\ UNCHANGED <<running, loop, batch, cur, entries, conn, open, listen_fd, signal_fd>>
    /\ UNCHANGED peerVars

\* ... or epoll_wait returned -1 (EINTR: the process was stopped and continued).
EpollInterrupted ==
    /\ pc = "wait" /\ running
    /\ pc' = "exit"
    /\ UNCHANGED <<running, loop, batch, cur, entries, conn, open, listen_fd, signal_fd>>
    /\ UNCHANGED peerVars

TakeEvent(ev) ==
    /\ pc = "dispatch" /\ cur = NoEvent /\ ev \in batch
    /\ batch' = batch \ {ev}
    /\ cur' = ev
    /\ UNCHANGED <<pc, running, loop, entries, conn, open, listen_fd, signal_fd>>
    /\ UNCHANGED peerVars

\* The slot under test: CLOSE before READ before WRITE.
Slot == IF "CLOSE" \in cur.events THEN "CLOSE"
        ELSE IF "READ" \in cur.events THEN "READ" ELSE "WRITE"

Advance ==
    cur' = IF cur.events = {Slot} THEN NoEvent
           ELSE [cur EXCEPT !.events = cur.events \ {Slot}]

\* The data of the callback in the slot, read from the cell as it is now,
\* freed or not.
Callee == loop.ec[cur.ec].datas[Slot]

\* The event is reported but the slot is NULL: an earlier callback of the same
\* event has removed the watch and freed the cell.
NoCallback ==
    /\ Dispatching /\ Callee = NULL
    /\ Advance
    /\ UNCHANGED <<pc, running, loop, batch, entries, conn, open, listen_fd, signal_fd>>
    /\ UNCHANGED peerVars

-----------------------------------------------------------------------------
(* The collector.                                                          *)

\* Mutant: an object is listed again.
collector_schedule_free_always(list, c) == <<c>> \o list

\* collector_schedule_free: an object already listed is not listed again.
collector_schedule_free(list, c) ==
    IF \E i \in DOMAIN list : list[i] = c THEN list ELSE <<c>> \o list

\* HTTPServer's on_request_finish; an entry that cannot be allocated is lost.
finish_callback(c) ==
    \/ entries' = collector_schedule_free(entries, c)
    \/ Faulty /\ UNCHANGED entries

\* Mutant: the CLOSE watch stays.
Unwatched_keeps_close(l, fd) ==
    kernel_close(event_loop_remove_fd_watch(
                    event_loop_remove_fd_watch(l, fd, "READ"), fd, "WRITE"), fd)

\* The three event_loop_remove_fd_watch calls and the close of
\* tcp_connection_close, on the watch table.
Unwatched(l, fd) ==
    kernel_close(
        event_loop_remove_fd_watch(
            event_loop_remove_fd_watch(
                event_loop_remove_fd_watch(l, fd, "READ"), fd, "WRITE"), fd, "CLOSE"), fd)

\* close(fd) for the process and the peer.
CloseFd(fd) ==
    /\ open' = open \ {fd}
    /\ rx' = rx \ {fd} /\ hup' = hup \ {fd} /\ rst' = rst \ {fd}
    /\ UNCHANGED <<backlog, sig>>

\* tcp_connection_close, leaving the connection object as after.
tcp_connection_close(c, after) ==
    /\ conn' = [conn EXCEPT ![c] = after]
    /\ IF conn[c].fd # NULL
       THEN /\ loop' = Unwatched(loop, conn[c].fd)
            /\ CloseFd(conn[c].fd)
       ELSE UNCHANGED <<loop, open>> /\ UNCHANGED peerVars

\* collector_collect runs when the batch is done, and in event_loop_destroy.
Collecting == (pc = "dispatch" /\ cur = NoEvent /\ batch = {}) \/ pc = "destroy"

\* One round of collector_collect: http_connection_destroy of the head, whose
\* tcp_connection_destroy closes an fd still open.
Collect ==
    /\ Collecting /\ entries # <<>>
    /\ tcp_connection_close(Head(entries), FreeConn)
    /\ entries' = Tail(entries)
    /\ UNCHANGED <<pc, running, batch, cur, listen_fd, signal_fd>>

\* The list is empty: back to the while condition, or, in event_loop_destroy,
\* close(eloop->epollfd).
CollectDone ==
    /\ Collecting /\ entries = <<>>
    /\ \/ pc = "dispatch" /\ pc' = "wait" /\ UNCHANGED loop
       \/ pc = "destroy" /\ pc' = "done" /\ loop' = epoll_close(loop)
    /\ UNCHANGED <<running, batch, cur, entries, conn, open, listen_fd, signal_fd>>
    /\ UNCHANGED peerVars

-----------------------------------------------------------------------------
(* The callbacks.                                                          *)

\* Mutant: event_loop_stop is not called.
OnSignal_keeps_running ==
    /\ Dispatching /\ Callee = SignalHandler
    /\ sig' = FALSE
    /\ Advance
    /\ UNCHANGED <<pc, running, loop, batch, entries, conn, open, listen_fd, signal_fd,
                   rx, hup, rst, backlog>>

\* SignalHandler's on_signal and main's on_signal: event_loop_stop.
OnSignal ==
    /\ Dispatching /\ Callee = SignalHandler
    /\ sig' = FALSE
    /\ running' = FALSE
    /\ Advance
    /\ UNCHANGED <<pc, loop, batch, entries, conn, open, listen_fd, signal_fd,
                   rx, hup, rst, backlog>>

\* Mutant: no CLOSE watch.
tcp_connection_set_callbacks_no_close(l, fd, c, e, ret) ==
    LET l1 == event_loop_add_fd_watch(l, fd, "READ", c, e, ret)
    IN  IF ret = 0 THEN event_loop_add_fd_watch(l1, fd, "WRITE", c, e, 0) ELSE l1

\* tcp_connection_set_callbacks: READ, WRITE and CLOSE in the cell e.  Only
\* the first is an EPOLL_CTL_ADD and may fail, and then the others are not
\* tried.
tcp_connection_set_callbacks(l, fd, c, e, ret) ==
    LET l1 == event_loop_add_fd_watch(l, fd, "READ", c, e, ret)
        l2 == event_loop_add_fd_watch(l1, fd, "WRITE", c, e, 0)
        l3 == event_loop_add_fd_watch(l2, fd, "CLOSE", c, e, 0)
    IN  IF ret = 0 THEN l3 ELSE l1

\* TcpServer's on_incoming_connection and HTTPServer's on_accept.  Either
\* accept4 fails (no free fd), or a TcpConnection cannot be allocated and the
\* fd is closed, or http_connection_new returns NULL and the TcpConnection
\* stays with its fd open, or it is built, and a failed
\* tcp_connection_set_callbacks, whose result is ignored, leaves it unwatched.
OnIncomingConnection ==
    /\ Dispatching /\ Callee = TcpServer
    /\ \/ /\ FreeFds = {}
          /\ UNCHANGED <<loop, conn, open, backlog>>
       \/ /\ FreeFds # {} /\ (Faulty \/ FreeConns = {})
          /\ backlog' = FALSE
          /\ UNCHANGED <<loop, conn, open>>
       \/ \E fd \in FreeFds, c \in FreeConns :
            /\ backlog' = FALSE
            /\ open' = open \cup {fd}
            /\ \/ /\ Faulty
                  /\ conn' = [conn EXCEPT ![c] = NewConn("tcp", fd)]
                  /\ UNCHANGED loop
               \/ /\ conn' = [conn EXCEPT ![c] = NewConn("http", fd)]
                  /\ \/ \E e \in Cells(loop, fd), ret \in CtlResults :
                          /\ AddMayReturn(ret)
                          /\ loop' = tcp_connection_set_callbacks(loop, fd, c, e, ret)
                     \/ (Faulty \/ Cells(loop, fd) = {}) /\ UNCHANGED loop
    /\ Advance
    /\ UNCHANGED <<pc, running, batch, entries, listen_fd, signal_fd, rx, hup, rst, sig>>

\* HTTPConnection's on_read.  A reset makes recv fail; input goes to
\* http_request_queue_append_data, which serves the messages it completes
\* (on_new_request: the response grows and its last flag is set) and may
\* fail; with neither, recv returned 0.
OnRead(c) ==
    /\ Dispatching /\ Slot = "READ" /\ Callee = c
    /\ \/ /\ conn[c].fd \in rst
          /\ finish_callback(c)
          /\ UNCHANGED <<conn, rx>>
       \/ /\ conn[c].fd \in rx \ rst
          /\ rx' = rx \ {conn[c].fd}
          /\ \/ UNCHANGED conn
             \/ \E p \in conn[c].pending .. MaxPending, last \in BOOLEAN :
                  conn' = [conn EXCEPT ![c].pending = p, ![c].last = last]
          /\ UNCHANGED entries \/ finish_callback(c)
       \/ /\ conn[c].fd \notin rx \cup rst
          /\ UNCHANGED <<conn, rx, entries>>
    /\ Advance
    /\ UNCHANGED <<pc, running, loop, batch, open, listen_fd, signal_fd,
                   hup, rst, backlog, sig>>

\* Mutant: http_response_read_data does not look at buffer_length.
OnWrite_underflows(c) ==
    /\ Dispatching /\ Slot = "WRITE" /\ Callee = c
    /\ conn' = [conn EXCEPT ![c].pending = conn[c].pending - 1]
    /\ Advance
    /\ UNCHANGED <<pc, running, loop, batch, entries, open, listen_fd, signal_fd>>
    /\ UNCHANGED peerVars

\* HTTPConnection's on_write: a chunk of the response is handed to send; when
\* there is none and the response is the last one the connection is closed.
\* So it is when memory_resize fails on what the chunk leaves, for then
\* http_response_read_data returns -1; if the response is not the last one
\* that is the first case (what a lost buffer does: HTTPConnection).
OnWrite(c) ==
    /\ Dispatching /\ Slot = "WRITE" /\ Callee = c
    /\ \/ /\ conn[c].pending > 0
          /\ conn' = [conn EXCEPT ![c].pending = conn[c].pending - 1]
          /\ UNCHANGED <<loop, open, entries>> /\ UNCHANGED peerVars
       \/ /\ conn[c].pending = 0 /\ conn[c].last
          /\ tcp_connection_close(c, [conn[c] EXCEPT !.fd = NULL])
          /\ finish_callback(c)
       \/ /\ Faulty /\ conn[c].pending > 1 /\ conn[c].last
          /\ tcp_connection_close(c, [conn[c] EXCEPT !.fd = NULL,
                                                    !.pending = conn[c].pending - 1])
          /\ finish_callback(c)
       \/ /\ conn[c].pending = 0 /\ ~conn[c].last
          /\ UNCHANGED <<conn, loop, open, entries>> /\ UNCHANGED peerVars
    /\ Advance
    /\ UNCHANGED <<pc, running, batch, listen_fd, signal_fd>>

\* Mutant: tcp_connection_close does not set the fd to -1.
OnClose_keeps_fd(c) ==
    /\ Dispatching /\ Slot = "CLOSE" /\ Callee = c
    /\ tcp_connection_close(c, conn[c])
    /\ finish_callback(c)
    /\ Advance
    /\ UNCHANGED <<pc, running, batch, listen_fd, signal_fd>>

\* HTTPConnection's on_close.
OnClose(c) ==
    /\ Dispatching /\ Slot = "CLOSE" /\ Callee = c
    /\ tcp_connection_close(c, [conn[c] EXCEPT !.fd = NULL])
    /\ finish_callback(c)
    /\ Advance
    /\ UNCHANGED <<pc, running, batch, listen_fd, signal_fd>>

-----------------------------------------------------------------------------
(* main: stop.                                                             *)

\* http_server_destroy: tcp_server_destroy.
HttpServerDestroy ==
    /\ pc = "exit"
    /\ IF listen_fd # NULL
       THEN /\ loop' = kernel_close(event_loop_remove_fd_watch(loop, listen_fd, "READ"), listen_fd)
            /\ open' = open \ {listen_fd}
       ELSE UNCHANGED <<loop, open>>
    /\ listen_fd' = NULL /\ backlog' = FALSE
    /\ pc' = "exit_signals"
    /\ UNCHANGED <<running, batch, cur, entries, conn, signal_fd, rx, hup, rst, sig>>

\* signal_handler_destroy; event_loop_destroy follows with collector_destroy.
SignalHandlerDestroy ==
    /\ pc = "exit_signals"
    /\ loop' = kernel_close(event_loop_remove_fd_watch(loop, signal_fd, "READ"), signal_fd)
    /\ open' = open \ {signal_fd}
    /\ signal_fd' = NULL
    /\ pc' = "destroy"
    /\ UNCHANGED <<running, batch, cur, entries, conn, listen_fd>>
    /\ UNCHANGED peerVars

Finished ==
    /\ pc \in {"done", "aborted"}
    /\ UNCHANGED vars

-----------------------------------------------------------------------------
LoopThread ==
    \/ SignalHandlerNew
    \/ TcpServerStartListen
    \/ \E wr \in SUBSET ClientFds : \E chosen \in SUBSET Fds : EpollWait(chosen, wr)
    \/ LeaveLoop
    \/ EpollInterrupted
    \/ \E ev \in batch : TakeEvent(ev)
    \/ NoCallback
    \/ OnSignal
    \/ OnIncomingConnection
    \/ \E c \in Conns : OnRead(c) \/ OnWrite(c) \/ OnClose(c)
    \/ Collect
    \/ CollectDone
    \/ HttpServerDestroy
    \/ SignalHandlerDestroy

Next == Environment \/ LoopThread \/ Finished

Spec == Init /\ [][Next]_vars

\* The thread is scheduled: WF_vars(LoopThread), written out.  LoopThread is
\* enabled wherever main has not ended: every pc has a step that no peer can
\* take away, and the peers alone always run dry (each of their steps adds to
\* a bounded set), so the absence of deadlock shows it.
Fairness == []<>(pc \in {"done", "aborted"}) \/ []<><<LoopThread>>_vars

FairSpec == Spec /\ Fairness

-----------------------------------------------------------------------------
(* Properties.                                                             *)

Pcs == {"boot", "start", "wait", "dispatch", "exit", "exit_signals",
        "destroy", "done", "aborted"}

\* The type invariant.
TypeOK ==
    /\ pc \in Pcs
    /\ running \in BOOLEAN
    /\ loop \in LoopRecord
    /\ batch \subseteq EventRecord
    /\ cur \in EventRecord \cup {NoEvent}
    /\ entries \in Seq(Conns)
    /\ conn \in [Conns -> ConnRecord]
    /\ open \subseteq Fds
    /\ listen_fd \in Fds \cup {NULL}
    /\ signal_fd \in Fds \cup {NULL}
    /\ rx \subseteq Fds /\ hup \subseteq Fds /\ rst \subseteq Fds
    /\ backlog \in BOOLEAN
    /\ sig \in BOOLEAN

\* The watch table, the heap and the kernel's interest list agree whatever
\* callbacks added, removed and failed (eloop.c:156-231): an event never
\* points to a freed or reused cell, and a freed cell calls nothing.
WatchTable == WatchTableOk(loop)

\* A callback slot of a linked cell refers to a live object that owns the
\* very fd of the cell: no callback ever runs on a freed connection, or on
\* one whose fd number the kernel has given to another client.
CalleesAreLive ==
    pc # "aborted" =>
    \A e \in loop.list, t \in Types :
        LET d == loop.ec[e].datas[t]
        IN  /\ d \in Conns => conn[d].st = "http" /\ conn[d].fd = loop.ec[e].fd
            /\ d = TcpServer => listen_fd = loop.ec[e].fd
            /\ d = SignalHandler => signal_fd = loop.ec[e].fd

\* Every open fd has exactly one owner and every owner's fd is open, across
\* the window in which a closed connection still waits for the collector and
\* its fd number may already belong to a new client: the close in
\* tcp_connection_destroy can hit neither a closed fd nor someone else's.
FdOwnership ==
    /\ open = (ClientFds \cup {listen_fd, signal_fd}) \ {NULL}
    /\ listen_fd # NULL => listen_fd \notin ClientFds \cup {signal_fd}
    /\ signal_fd # NULL => signal_fd \notin ClientFds
    /\ \A c \in Conns : conn[c].st = "free" => conn[c].fd = NULL
    /\ \A c1, c2 \in Conns :
        conn[c1].fd = conn[c2].fd /\ conn[c1].fd # NULL => c1 = c2

\* No callback invalidates an event that is still to be dispatched in the
\* same batch: its cell stays linked, for the fd the kernel reported.
PendingEventsValid ==
    \A ev \in batch : ev.ec \in loop.list /\ loop.ec[ev.ec].fd = ev.fd

\* The collector lists an object once and only while it is allocated, so
\* that http_connection_destroy runs once per connection even when CLOSE,
\* READ and WRITE of one batch all finish it; nothing is left over when the
\* loop waits or stops; and, allocations succeeding, a closed connection is
\* always listed, hence freed in the iteration that closed it.
CollectorSound ==
    /\ \A i, j \in DOMAIN entries : entries[i] = entries[j] => i = j
    /\ \A c \in Scheduled : conn[c].st = "http"
    /\ pc # "dispatch" => entries = <<>>
    /\ ~Faulty => \A c \in Conns :
                    conn[c].st = "http" /\ conn[c].fd = NULL => c \in Scheduled

\* All of it at once, for the instance in which calls fail.
Sound == WatchTable /\ CalleesAreLive /\ FdOwnership /\ PendingEventsValid /\ CollectorSound

\* Without failures of the system no client is stranded: whenever the loop
\* waits, every open connection is watched for all three events.
NobodyStranded ==
    pc = "wait" /\ ~Faulty =>
    \A c \in Conns : conn[c].st # "free" => loop.mask[conn[c].fd] = Types

\* Whatever call has failed, and whichever fd and cell numbers are used again,
\* a client is watched as a whole or not at all: the kernel does not know its
\* fd, or reports input, output and the peer's end, each to the callback of the
\* client's own connection (tcpconnection.c:143-159, httpserver.c:55).  So one
\* that can still send can also be written to, and noticed when it leaves.
WatchedWhole ==
    \A c \in Conns :
        LET fd == conn[c].fd
        IN  fd # NULL /\ loop.mask[fd] # {} =>
                \A t \in Types : t \in loop.mask[fd] /\ loop.ec[loop.ptr[fd]].datas[t] = c

\* SIGTERM or SIGINT stops the server, whatever the clients do.
SignalStops == sig ~> pc = "done"

\* A connection whose peer has gone is freed, unless the server stops first.
HangupFrees ==
    \A c \in Conns :
        conn[c].st = "http" /\ conn[c].fd \in hup ~> conn[c].st = "free" \/ pc = "done"
=============================================================================
