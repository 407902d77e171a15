---------------------------- MODULE ServerProofs ----------------------------
(***************************************************************************)
(* The safety invariants of Server, for every number of fds, cells and     *)
(* connections, every MAX_EVENTS, and whether or not the system fails.     *)
(*                                                                         *)
(* The argument is one inductive invariant, IInv.  Its centre is that the  *)
(* three views of a client agree: a filled slot of a linked cell, the fd   *)
(* field of the connection object, and the open fd (CalleesAreLive and     *)
(* FdOwnership).  It follows that every linked cell has an open fd, hence  *)
(* that accept's new fd has no cell, and that the callee of an event is    *)
(* the owner of the event's fd, hence that what a callback closes is its   *)
(* own cell and no other event of the batch.                               *)
(***************************************************************************)
EXTENDS Server, ELoopProofs, FiniteSetTheorems, TLAPS

\* The server and the signal handler only watch for input.
SlotTypes ==
    \A e \in loop.list, t \in Types :
        loop.ec[e].datas[t] \in {TcpServer, SignalHandler} => t = "READ"

\* Events of one batch are of different fds, and the cell of the one being
\* dispatched is freed or still belongs to its fd.
EventsSeparate ==
    /\ pc # "dispatch" => batch = {} /\ cur = NoEvent
    /\ \A ev1, ev2 \in batch : ev1.fd = ev2.fd => ev1 = ev2
    /\ \A ev \in batch : ev.fd # cur.fd
    /\ cur # NoEvent /\ cur.ec \in loop.list => loop.ec[cur.ec].fd = cur.fd

\* What main has set up where it is.
Startup ==
    /\ pc = "boot" => open = {} /\ loop.list = {} /\ signal_fd = NULL
    /\ pc \in {"boot", "start", "aborted"} =>
            listen_fd = NULL /\ \A c \in Conns : conn[c].fd = NULL
    /\ pc = "aborted" => signal_fd = NULL
    /\ pc \in {"start", "wait", "dispatch", "exit", "exit_signals"} => signal_fd = SignalFd
    /\ pc \in {"exit_signals", "destroy", "done"} => listen_fd = NULL

IInv ==
    /\ TypeOK
    /\ WatchTable
    /\ CalleesAreLive
    /\ SlotTypes
    /\ FdOwnership
    /\ PendingEventsValid
    /\ EventsSeparate
    /\ CollectorSound
    /\ Startup

-----------------------------------------------------------------------------
(* Consequences of the invariant.                                          *)

\* Every linked cell has an open fd: the fd of its slots' owners.
LEMMA LinkedFdsOpen ==
    ASSUME IInv, pc # "aborted"
    PROVE  \A e \in loop.list : loop.ec[e].fd \in open
<1> SUFFICES ASSUME NEW e \in loop.list
             PROVE  loop.ec[e].fd \in open
  OBVIOUS
<1>1. /\ loop.ec[e].fd \in Fds
      /\ e \in Ecs
      /\ loop.ec[e].events \in SUBSET Types
      /\ loop.ec[e].events # {}
  BY DEF IInv, TypeOK, WatchTable, WatchTableOk, LinkedCell, LoopRecord, EcRecord
<1>2. PICK t \in Types : loop.ec[e].datas[t] # NULL
  BY <1>1 DEF IInv, WatchTable, WatchTableOk, LinkedCell
<1>3. loop.ec[e].datas[t] \in Conns \cup {TcpServer, SignalHandler}
  BY <1>1, <1>2, ServerAssumption DEF IInv, TypeOK, LoopRecord, EcRecord
<1>4. loop.ec[e].fd \in {conn[c].fd : c \in Conns} \cup {listen_fd, signal_fd}
  BY <1>3 DEF IInv, CalleesAreLive
<1>5. loop.ec[e].fd # NULL
  BY <1>1, ELoopAssumption
<1> QED
  BY <1>4, <1>5 DEF IInv, FdOwnership, ClientFds

\* A callback is called on the owner of the fd the event was reported for.
LEMMA CalleeOwnsEvent ==
    ASSUME IInv, Dispatching
    PROVE  /\ pc = "dispatch"
           /\ cur \in EventRecord
           /\ Slot \in Types
           /\ Callee \in Owners \cup {NULL}
           /\ Callee # NULL =>
                cur.ec \in loop.list /\ loop.ec[cur.ec].fd = cur.fd
           /\ Callee \in Conns =>
                conn[Callee].st = "http" /\ conn[Callee].fd = cur.fd
<1>1. pc = "dispatch" /\ cur \in EventRecord /\ cur # NoEvent
  BY DEF IInv, TypeOK, Dispatching
<1>2. Slot \in Types
  BY DEF Slot, Types
<1>3. loop.ec[cur.ec] \in EcRecord /\ cur.ec \in Ecs
  BY <1>1 DEF IInv, TypeOK, LoopRecord, EventRecord
<1>4. Callee \in Owners \cup {NULL}
  BY <1>2, <1>3 DEF Callee, EcRecord
<1>5. Callee # NULL => cur.ec \in loop.list
  BY <1>2, <1>3 DEF IInv, WatchTable, WatchTableOk, FreedCell, NoDatas, Callee
<1>6. Callee # NULL => loop.ec[cur.ec].fd = cur.fd
  BY <1>1, <1>5 DEF IInv, EventsSeparate
<1>7. Callee \in Conns => Callee # NULL
  BY ELoopAssumption, ServerAssumption
<1>8. Callee \in Conns => conn[Callee].st = "http" /\ conn[Callee].fd = cur.fd
  BY <1>1, <1>2, <1>5, <1>6, <1>7 DEF IInv, CalleesAreLive, Callee
<1> QED
  BY <1>1, <1>2, <1>4, <1>5, <1>6, <1>8

\* The callback that ran last leaves nothing of its event but the other slots.
LEMMA AdvanceKeepsEvent ==
    ASSUME IInv, Dispatching, Advance
    PROVE  /\ cur' \in EventRecord \cup {NoEvent}
           /\ cur' # NoEvent => cur'.fd = cur.fd /\ cur'.ec = cur.ec
           /\ cur'.fd \in {cur.fd, NULL}
<1>1. cur \in EventRecord
  BY CalleeOwnsEvent
<1>2. CASE cur.events = {Slot}
  BY <1>2 DEF Advance, NoEvent
<1>3. CASE cur.events # {Slot}
  BY <1>1, <1>3 DEF Advance, EventRecord
<1> QED
  BY <1>2, <1>3

-----------------------------------------------------------------------------
(* Closing a connection.                                                   *)

\* The three removals and the close of tcp_connection_close unlink the cell
\* of the fd, whatever it watched, and touch no other.
LEMMA UnwatchedFd ==
    ASSUME NEW l \in LoopRecord, WatchTableOk(l), NEW fd \in Fds,
           NEW m, m = Unwatched(l, fd)
    PROVE  /\ m \in LoopRecord
           /\ WatchTableOk(m)
           /\ m.list = {e \in l.list : l.ec[e].fd # fd}
           /\ \A e \in m.list : m.ec[e] = l.ec[e]
           /\ \A g \in Fds \ {fd} : m.mask[g] = l.mask[g]
<1> DEFINE l1 == event_loop_remove_fd_watch(l, fd, "READ")
           l2 == event_loop_remove_fd_watch(l1, fd, "WRITE")
           l3 == event_loop_remove_fd_watch(l2, fd, "CLOSE")
<1>0. {"READ", "WRITE", "CLOSE"} = Types
  BY DEF Types
<1>1. /\ l1 \in LoopRecord
      /\ WatchTableOk(l1)
      /\ l1.list \subseteq l.list
      /\ \A c \in l.list : l.ec[c].fd # fd => c \in l1.list /\ l1.ec[c] = l.ec[c]
      /\ \A c \in l1.list :
            /\ l1.ec[c].fd = l.ec[c].fd
            /\ l.ec[c].fd = fd => l1.ec[c].events = l.ec[c].events \ {"READ"}
      /\ \A g \in Fds \ {fd} : l1.mask[g] = l.mask[g]
  BY <1>0, RemoveWatch
<1> HIDE DEF l1
<1>2. /\ l2 \in LoopRecord
      /\ WatchTableOk(l2)
      /\ l2.list \subseteq l1.list
      /\ \A c \in l1.list : l1.ec[c].fd # fd => c \in l2.list /\ l2.ec[c] = l1.ec[c]
      /\ \A c \in l2.list :
            /\ l2.ec[c].fd = l1.ec[c].fd
            /\ l1.ec[c].fd = fd => l2.ec[c].events = l1.ec[c].events \ {"WRITE"}
      /\ \A g \in Fds \ {fd} : l2.mask[g] = l1.mask[g]
  BY <1>0, <1>1, RemoveWatch
<1> HIDE DEF l2
<1>3. /\ l3 \in LoopRecord
      /\ WatchTableOk(l3)
      /\ l3.list \subseteq l2.list
      /\ \A c \in l2.list : l2.ec[c].fd # fd => c \in l3.list /\ l3.ec[c] = l2.ec[c]
      /\ \A c \in l3.list :
            /\ l3.ec[c].fd = l2.ec[c].fd
            /\ l2.ec[c].fd = fd => l3.ec[c].events = l2.ec[c].events \ {"CLOSE"}
      /\ \A g \in Fds \ {fd} : l3.mask[g] = l2.mask[g]
  BY <1>0, <1>2, RemoveWatch
<1> HIDE DEF l3
<1>4. /\ m \in LoopRecord /\ WatchTableOk(m)
      /\ m.list = l3.list /\ m.ec = l3.ec
      /\ \A g \in Fds \ {fd} : m.mask[g] = l3.mask[g]
  BY <1>3, KernelClose DEF Unwatched, l1, l2, l3
<1>5. \A c \in l3.list : l.ec[c].fd # fd
  <2> SUFFICES ASSUME NEW c \in l3.list, l.ec[c].fd = fd
               PROVE  FALSE
    OBVIOUS
  <2>1. l3.ec[c].events = ((l.ec[c].events \ {"READ"}) \ {"WRITE"}) \ {"CLOSE"}
    BY <1>1, <1>2, <1>3
  <2>2. c \in l.list /\ c \in Ecs /\ l.ec[c].events \in SUBSET Types
    BY <1>1, <1>2, <1>3 DEF LoopRecord, EcRecord
  <2>3. l3.ec[c].events = {}
    BY <2>1, <2>2, <1>0
  <2> QED
    BY <2>3, <1>3 DEF WatchTableOk, LinkedCell
<1>6. \A c \in l.list : l.ec[c].fd # fd => c \in l3.list /\ l3.ec[c] = l.ec[c]
  BY <1>1, <1>2, <1>3
<1> QED
  BY <1>1, <1>2, <1>3, <1>4, <1>5, <1>6

\* tcp_connection_close, on a connection whose fd is open or already closed,
\* keeps watch table, owners and open fds in agreement.
LEMMA CloseConnection ==
    ASSUME IInv, pc = "dispatch", UNCHANGED <<pc, listen_fd, signal_fd>>,
           NEW c \in Conns, NEW after \in ConnRecord, after.fd = NULL,
           tcp_connection_close(c, after)
    PROVE  /\ loop' \in LoopRecord
           /\ conn' = [conn EXCEPT ![c] = after]
           /\ conn' \in [Conns -> ConnRecord]
           /\ open' \subseteq Fds
           /\ rx' \subseteq Fds /\ hup' \subseteq Fds /\ rst' \subseteq Fds
           /\ backlog' = backlog /\ sig' = sig
           /\ WatchTable' /\ CalleesAreLive' /\ SlotTypes' /\ FdOwnership'
           /\ \A e \in loop.list : loop.ec[e].fd # conn[c].fd => e \in loop'.list
           /\ \A e \in loop'.list : e \in loop.list /\ loop'.ec[e] = loop.ec[e]
<1> DEFINE fd == conn[c].fd
<1>1. /\ loop \in LoopRecord /\ WatchTableOk(loop)
      /\ conn \in [Conns -> ConnRecord]
      /\ fd \in Fds \cup {NULL}
      /\ open \subseteq Fds
      /\ rx \subseteq Fds /\ hup \subseteq Fds /\ rst \subseteq Fds
      /\ pc' = pc /\ listen_fd' = listen_fd /\ signal_fd' = signal_fd
  BY DEF IInv, TypeOK, WatchTable, ConnRecord
<1>2. /\ conn' = [conn EXCEPT ![c] = after]
      /\ conn' \in [Conns -> ConnRecord]
      /\ conn'[c] = after
      /\ \A d \in Conns \ {c} : conn'[d] = conn[d]
  BY <1>1 DEF tcp_connection_close
<1>3. /\ open' = open \ {fd}
      /\ rx' \subseteq Fds /\ hup' \subseteq Fds /\ rst' \subseteq Fds
      /\ backlog' = backlog /\ sig' = sig
  <2>1. CASE fd = NULL
    BY <2>1, <1>1, ELoopAssumption DEF tcp_connection_close, peerVars
  <2>2. CASE fd # NULL
    BY <2>2, <1>1 DEF tcp_connection_close, CloseFd
  <2> QED
    BY <2>1, <2>2
<1>4. \A e \in loop.list : loop.ec[e].fd \in Fds
  BY <1>1 DEF WatchTableOk, LinkedCell
<1>5. /\ loop' \in LoopRecord /\ WatchTableOk(loop')
      /\ loop'.list = {e \in loop.list : loop.ec[e].fd # fd}
      /\ \A e \in loop'.list : loop'.ec[e] = loop.ec[e]
  <2>1. CASE fd = NULL
    <3>1. loop' = loop
      BY <2>1 DEF tcp_connection_close
    <3> QED
      BY <2>1, <3>1, <1>1, <1>4, ELoopAssumption
  <2>2. CASE fd # NULL
    <3>1. loop' = Unwatched(loop, fd) /\ fd \in Fds
      BY <2>2, <1>1 DEF tcp_connection_close
    <3> QED
      BY <3>1, <1>1, UnwatchedFd
  <2> QED
    BY <2>1, <2>2
<1>6. CalleesAreLive'
  <2> SUFFICES ASSUME NEW e \in loop'.list, NEW t \in Types, NEW d,
                      d = loop'.ec[e].datas[t]
               PROVE  /\ d \in Conns => conn'[d].st = "http" /\ conn'[d].fd = loop'.ec[e].fd
                      /\ d = TcpServer => listen_fd' = loop'.ec[e].fd
                      /\ d = SignalHandler => signal_fd' = loop'.ec[e].fd
    BY DEF CalleesAreLive
  <2>1. e \in loop.list /\ loop.ec[e].fd # fd /\ loop'.ec[e] = loop.ec[e]
    BY <1>5
  <2>2. /\ d \in Conns => conn[d].st = "http" /\ conn[d].fd = loop.ec[e].fd
        /\ d = TcpServer => listen_fd = loop.ec[e].fd
        /\ d = SignalHandler => signal_fd = loop.ec[e].fd
    BY <2>1 DEF IInv, CalleesAreLive
  <2> QED
    BY <2>1, <2>2, <1>1, <1>2
<1>7. SlotTypes'
  BY <1>5 DEF IInv, SlotTypes
<1>8. FdOwnership'
  <2>1. \A d \in Conns : conn[d].fd = fd /\ fd # NULL => d = c
    BY DEF IInv, FdOwnership
  <2>2. fd # NULL => fd # listen_fd /\ fd # signal_fd
    BY DEF IInv, FdOwnership, ClientFds
  <2>3. ClientFds' = ClientFds \ {fd}
    BY <2>1, <1>2 DEF ClientFds
  <2>4. open' = (ClientFds' \cup {listen_fd', signal_fd'}) \ {NULL}
    BY <2>2, <2>3, <1>1, <1>3 DEF IInv, FdOwnership
  <2>5. \A c1, c2 \in Conns :
            conn'[c1].fd = conn'[c2].fd /\ conn'[c1].fd # NULL => c1 = c2
    BY <1>2 DEF IInv, FdOwnership
  <2>6. \A d \in Conns : conn'[d].st = "free" => conn'[d].fd = NULL
    BY <1>2 DEF IInv, FdOwnership
  <2> QED
    BY <2>3, <2>4, <2>5, <2>6, <1>1 DEF IInv, FdOwnership
<1> QED
  BY <1>1, <1>2, <1>3, <1>5, <1>6, <1>7, <1>8 DEF WatchTable

-----------------------------------------------------------------------------
(* The collector's list.                                                   *)

\* Scheduling an object keeps the list free of duplicates and adds nothing
\* else.
LEMMA ScheduleFree ==
    ASSUME NEW s \in Seq(Conns), NEW c \in Conns,
           \A i, j \in DOMAIN s : s[i] = s[j] => i = j,
           NEW m, m = collector_schedule_free(s, c)
    PROVE  /\ m \in Seq(Conns)
           /\ \A i, j \in DOMAIN m : m[i] = m[j] => i = j
           /\ \A i \in DOMAIN m : m[i] = c \/ \E k \in DOMAIN s : m[i] = s[k]
           /\ \A k \in DOMAIN s : \E i \in DOMAIN m : m[i] = s[k]
           /\ \E i \in DOMAIN m : m[i] = c
<1>1. CASE \E i \in DOMAIN s : s[i] = c
  BY <1>1 DEF collector_schedule_free
<1>2. CASE ~ \E i \in DOMAIN s : s[i] = c
  <2>1. m = <<c>> \o s
    BY <1>2 DEF collector_schedule_free
  <2>2. /\ m \in Seq(Conns)
        /\ Len(m) = Len(s) + 1
        /\ Len(s) \in Nat
        /\ DOMAIN s = 1 .. Len(s) /\ DOMAIN m = 1 .. Len(s) + 1
        /\ m[1] = c
        /\ \A i \in 2 .. Len(s) + 1 : m[i] = s[i - 1]
    BY <2>1
  <2>3. \A i \in DOMAIN m : i = 1 \/ (i - 1 \in DOMAIN s /\ m[i] = s[i - 1])
    BY <2>2
  <2>4. \A i \in DOMAIN s : i + 1 \in DOMAIN m /\ m[i + 1] = s[i]
    BY <2>2
  <2>5. \A i, j \in DOMAIN m : m[i] = m[j] => i = j
    BY <1>2, <2>2, <2>3
  <2>6. \A i \in DOMAIN m : m[i] = c \/ \E k \in DOMAIN s : m[i] = s[k]
    BY <2>2, <2>3
  <2>7. \A k \in DOMAIN s : \E i \in DOMAIN m : m[i] = s[k]
    BY <2>4
  <2>8. 1 \in DOMAIN m
    BY <2>2
  <2> QED
    BY <2>2, <2>5, <2>6, <2>7, <2>8
<1> QED
  BY <1>1, <1>2

\* on_request_finish adds the connection to the collector's list at most.
LEMMA FinishSchedules ==
    ASSUME IInv, NEW c \in Conns, finish_callback(c)
    PROVE  /\ entries' \in Seq(Conns)
           /\ \A i, j \in DOMAIN entries' : entries'[i] = entries'[j] => i = j
           /\ Scheduled \subseteq Scheduled'
           /\ Scheduled' \subseteq Scheduled \cup {c}
           /\ ~Faulty => c \in Scheduled'
<1>1. /\ entries \in Seq(Conns)
      /\ \A i, j \in DOMAIN entries : entries[i] = entries[j] => i = j
  BY DEF IInv, TypeOK, CollectorSound
<1>2. CASE entries' = collector_schedule_free(entries, c)
  <2>1. /\ entries' \in Seq(Conns)
        /\ \A i, j \in DOMAIN entries' : entries'[i] = entries'[j] => i = j
        /\ \A i \in DOMAIN entries' : entries'[i] = c \/ \E k \in DOMAIN entries : entries'[i] = entries[k]
        /\ \A k \in DOMAIN entries : \E i \in DOMAIN entries' : entries'[i] = entries[k]
        /\ \E i \in DOMAIN entries' : entries'[i] = c
    BY <1>1, <1>2, ScheduleFree
  <2>2. Scheduled' = Scheduled \cup {c}
    BY <2>1 DEF Scheduled
  <2> QED
    BY <2>1, <2>2
<1>3. CASE Faulty /\ entries' = entries
  BY <1>1, <1>3 DEF Scheduled
<1> QED
  BY <1>2, <1>3 DEF finish_callback

-----------------------------------------------------------------------------
(* Steps that leave the watch table, the objects and the fds alone.        *)

\* Those parts of the invariant only speak of what such a step leaves alone.
LEMMA TableFrame ==
    ASSUME IInv, UNCHANGED <<loop, conn, open, listen_fd, signal_fd>>,
           pc = "aborted" => pc' = "aborted"
    PROVE  WatchTable' /\ CalleesAreLive' /\ SlotTypes' /\ FdOwnership'
<1>1. WatchTable' /\ SlotTypes'
  BY DEF IInv, WatchTable, SlotTypes
<1>2. CalleesAreLive'
  BY DEF IInv, CalleesAreLive
<1>3. FdOwnership'
  BY DEF IInv, FdOwnership, ClientFds
<1> QED
  BY <1>1, <1>2, <1>3

\* The other events of the batch stay valid when a callback only frees, or
\* fills, cells of its own fd and cells that were free.
LEMMA EventsSurvive ==
    ASSUME IInv, Dispatching, Advance, UNCHANGED <<pc, batch>>,
           \A e \in loop.list : loop.ec[e].fd # cur.fd =>
                e \in loop'.list /\ loop'.ec[e].fd = loop.ec[e].fd,
           cur.ec \in loop'.list => loop'.ec[cur.ec].fd = cur.fd
    PROVE  PendingEventsValid' /\ EventsSeparate'
<1>1. /\ pc = "dispatch" /\ pc' = pc /\ batch' = batch
      /\ batch \subseteq EventRecord
      /\ \A ev \in batch : ev.fd \in Fds /\ ev.fd # NULL
  BY CalleeOwnsEvent, ELoopAssumption DEF IInv, TypeOK, EventRecord
<1>2. PendingEventsValid'
  BY <1>1 DEF IInv, PendingEventsValid, EventsSeparate
<1>3. /\ cur' # NoEvent => cur'.fd = cur.fd /\ cur'.ec = cur.ec
      /\ cur'.fd \in {cur.fd, NULL}
  BY AdvanceKeepsEvent
<1>4. \A ev \in batch' : ev.fd # cur'.fd
  BY <1>1, <1>3 DEF IInv, EventsSeparate
<1>5. cur' # NoEvent /\ cur'.ec \in loop'.list => loop'.ec[cur'.ec].fd = cur'.fd
  BY <1>3
<1> QED
  BY <1>1, <1>2, <1>4, <1>5 DEF IInv, EventsSeparate

\* The peers and the kernel.
LEMMA EnvironmentStep ==
    ASSUME IInv, Environment
    PROVE  IInv'
<1>1. /\ UNCHANGED <<pc, running, loop, batch, cur, entries, conn, open, listen_fd, signal_fd>>
      /\ rx' \subseteq Fds /\ hup' \subseteq Fds /\ rst' \subseteq Fds
      /\ backlog' \in BOOLEAN /\ sig' \in BOOLEAN
  BY DEF Environment, Connect, Signal, PeerSend, PeerShutdown, PeerReset, IInv, TypeOK
<1>2. WatchTable' /\ CalleesAreLive' /\ SlotTypes' /\ FdOwnership'
  BY <1>1, TableFrame
<1>3. TypeOK'
  BY <1>1 DEF IInv, TypeOK
<1>4. PendingEventsValid' /\ EventsSeparate'
  BY <1>1 DEF IInv, PendingEventsValid, EventsSeparate
<1>5. CollectorSound'
  BY <1>1 DEF IInv, CollectorSound, Scheduled
<1>6. Startup'
  BY <1>1 DEF IInv, Startup
<1> QED
  BY <1>2, <1>3, <1>4, <1>5, <1>6 DEF IInv

\* epoll_wait fills the batch with the kernel's pointers, which are linked
\* cells of the fds reported.
LEMMA EpollWaitStep ==
    ASSUME IInv, NEW chosen, NEW wr, EpollWait(chosen, wr)
    PROVE  IInv'
<1>1. /\ pc = "wait" /\ pc' = "dispatch"
      /\ UNCHANGED <<running, loop, cur, entries, conn, open, listen_fd, signal_fd,
                     rx, hup, rst, backlog, sig>>
      /\ batch = {} /\ cur = NoEvent
      /\ entries = <<>>
  BY DEF EpollWait, peerVars, IInv, EventsSeparate, CollectorSound
<1>2. \A fd \in chosen : fd \in Fds /\ loop.ptr[fd] # NULL
  BY DEF EpollWait, Reported
<1>3. \A ev \in batch' : /\ ev \in EventRecord
                         /\ ev.ec = loop.ptr[ev.fd]
                         /\ loop.ptr[ev.fd] # NULL
  <2> SUFFICES ASSUME NEW ev \in batch'
               PROVE  ev \in EventRecord /\ ev.ec = loop.ptr[ev.fd] /\ loop.ptr[ev.fd] # NULL
    OBVIOUS
  <2>1. PICK fd \in chosen :
            ev = [fd |-> fd, ec |-> loop.ptr[fd], events |-> Reported(fd, wr)]
    BY DEF EpollWait
  <2>2. loop.ptr[fd] \in Ecs /\ loop.mask[fd] \subseteq Types
    BY <1>2 DEF IInv, TypeOK, LoopRecord
  <2>3. Reported(fd, wr) \subseteq Types
    BY <2>2 DEF Reported
  <2> QED
    BY <1>2, <2>1, <2>2, <2>3 DEF EventRecord
<1>4. \A ev1, ev2 \in batch' : ev1.fd = ev2.fd => ev1 = ev2
  BY DEF EpollWait
<1>5. WatchTable' /\ CalleesAreLive' /\ SlotTypes' /\ FdOwnership'
  BY <1>1, TableFrame
<1>6. TypeOK'
  BY <1>1, <1>3 DEF IInv, TypeOK, Pcs
<1>7. PendingEventsValid'
  BY <1>1, <1>3 DEF PendingEventsValid, IInv, WatchTable, WatchTableOk, KernelCell, EventRecord
<1>8. EventsSeparate'
  BY <1>1, <1>3, <1>4, ELoopAssumption DEF EventsSeparate, NoEvent, EventRecord
<1>9. CollectorSound'
  BY <1>1 DEF IInv, CollectorSound, Scheduled
<1>10. Startup'
  BY <1>1 DEF IInv, Startup
<1> QED
  BY <1>5, <1>6, <1>7, <1>8, <1>9, <1>10 DEF IInv

\* event_loop_run: the end of the loop, and the next event of the batch.
LEMMA LoopStep ==
    ASSUME IInv,
           \/ LeaveLoop
           \/ EpollInterrupted
           \/ \E ev \in batch : TakeEvent(ev)
    PROVE  IInv'
<1>1. /\ UNCHANGED <<running, loop, entries, conn, open, listen_fd, signal_fd,
                     rx, hup, rst, backlog, sig>>
      /\ \/ pc = "wait" /\ pc' = "exit" /\ UNCHANGED <<batch, cur>>
         \/ /\ pc = "dispatch" /\ pc' = pc
            /\ cur = NoEvent /\ cur' \in batch /\ batch' = batch \ {cur'}
  BY DEF LeaveLoop, EpollInterrupted, TakeEvent, peerVars
<1>2. WatchTable' /\ CalleesAreLive' /\ SlotTypes' /\ FdOwnership'
  BY <1>1, TableFrame
<1>3. TypeOK'
  BY <1>1 DEF IInv, TypeOK, Pcs
<1>4. PendingEventsValid'
  BY <1>1 DEF IInv, PendingEventsValid
<1>5. EventsSeparate'
  BY <1>1 DEF IInv, EventsSeparate, PendingEventsValid
<1>6. CollectorSound'
  <2>1. Scheduled' = Scheduled
    BY <1>1 DEF Scheduled
  <2> QED
    BY <1>1, <2>1 DEF IInv, CollectorSound
<1>7. Startup'
  BY <1>1 DEF IInv, Startup
<1> QED
  BY <1>2, <1>3, <1>4, <1>5, <1>6, <1>7 DEF IInv

\* A slot found NULL, the signal callback, and on_read: only the event, the
\* collector's list and the response change.
LEMMA QuietCallback ==
    ASSUME IInv, NoCallback \/ OnSignal \/ \E c \in Conns : OnRead(c)
    PROVE  IInv'
<1>1. /\ Dispatching /\ Advance
      /\ UNCHANGED <<pc, loop, batch, open, listen_fd, signal_fd>>
      /\ running' \in BOOLEAN
      /\ rx' \subseteq Fds /\ hup' \subseteq Fds /\ rst' \subseteq Fds
      /\ backlog' \in BOOLEAN /\ sig' \in BOOLEAN
  BY DEF NoCallback, OnSignal, OnRead, peerVars, IInv, TypeOK
<1>2. pc = "dispatch" /\ cur' \in EventRecord \cup {NoEvent}
  BY <1>1, CalleeOwnsEvent, AdvanceKeepsEvent
<1>3. /\ conn' \in [Conns -> ConnRecord]
      /\ \A d \in Conns : conn'[d].fd = conn[d].fd /\ conn'[d].st = conn[d].st
  <2>1. CASE UNCHANGED conn
    BY <2>1 DEF IInv, TypeOK
  <2>2. CASE \E c \in Conns : \E p \in conn[c].pending .. MaxPending, last \in BOOLEAN :
                conn' = [conn EXCEPT ![c].pending = p, ![c].last = last]
    <3>0. PICK c \in Conns : \E p \in conn[c].pending .. MaxPending, last \in BOOLEAN :
                conn' = [conn EXCEPT ![c].pending = p, ![c].last = last]
      BY <2>2
    <3>1. PICK p \in conn[c].pending .. MaxPending, last \in BOOLEAN :
                conn' = [conn EXCEPT ![c].pending = p, ![c].last = last]
      BY <3>0
    <3>2. conn \in [Conns -> ConnRecord] /\ conn[c] \in ConnRecord
      BY DEF IInv, TypeOK
    <3>3. p \in 0 .. MaxPending
      BY <3>2, ServerAssumption DEF ConnRecord
    <3> QED
      BY <3>1, <3>2, <3>3 DEF ConnRecord
  <2> QED
    BY <2>1, <2>2 DEF NoCallback, OnSignal, OnRead
<1>4. /\ entries' \in Seq(Conns)
      /\ \A i, j \in DOMAIN entries' : entries'[i] = entries'[j] => i = j
      /\ Scheduled \subseteq Scheduled'
      /\ \A c \in Scheduled' : c \in Conns /\ conn[c].st = "http"
  <2>1. CASE UNCHANGED entries
    BY <2>1 DEF IInv, TypeOK, CollectorSound, Scheduled
  <2>2. CASE \E c \in Conns : Callee = c /\ finish_callback(c)
    <3>1. PICK c \in Conns : Callee = c /\ finish_callback(c)
      BY <2>2
    <3>2. conn[c].st = "http"
      BY <3>1, <1>1, CalleeOwnsEvent
    <3>3. Scheduled \subseteq Conns
      BY DEF Scheduled, IInv, TypeOK
    <3> QED
      BY <3>1, <3>2, <3>3, FinishSchedules DEF IInv, CollectorSound
  <2> QED
    BY <2>1, <2>2 DEF NoCallback, OnSignal, OnRead
<1>5. TypeOK'
  BY <1>1, <1>2, <1>3, <1>4 DEF IInv, TypeOK
<1>6. WatchTable' /\ SlotTypes'
  BY <1>1 DEF IInv, WatchTable, SlotTypes
<1>7. CalleesAreLive'
  BY <1>1, <1>3 DEF IInv, CalleesAreLive
<1>8. FdOwnership'
  <2>1. ClientFds' = ClientFds
    BY <1>3 DEF ClientFds
  <2> QED
    BY <2>1, <1>1, <1>3 DEF IInv, FdOwnership
<1>9. PendingEventsValid' /\ EventsSeparate'
  <2>1. cur.ec \in loop.list => loop.ec[cur.ec].fd = cur.fd
    BY <1>1 DEF IInv, EventsSeparate, Dispatching
  <2> QED
    BY <2>1, <1>1, EventsSurvive
<1>10. CollectorSound'
  BY <1>1, <1>2, <1>3, <1>4 DEF IInv, CollectorSound
<1>11. Startup'
  BY <1>1, <1>2 DEF IInv, Startup
<1> QED
  BY <1>5, <1>6, <1>7, <1>8, <1>9, <1>10, <1>11 DEF IInv

-----------------------------------------------------------------------------
(* Steps that close a connection.                                          *)

\* What tcp_connection_close leaves of the object.
LEMMA ClosedRecord ==
    ASSUME IInv, NEW c \in Conns
    PROVE  /\ LET after == [conn[c] EXCEPT !.fd = NULL]
              IN  after \in ConnRecord /\ after.fd = NULL /\ after.st = conn[c].st
           /\ LET after == [conn[c] EXCEPT !.fd = NULL, !.pending = conn[c].pending - 1]
              IN  /\ conn[c].pending > 1 => after \in ConnRecord
                  /\ after.fd = NULL /\ after.st = conn[c].st
<1>1. conn[c] \in ConnRecord /\ MaxPending \in Nat
  BY ServerAssumption DEF IInv, TypeOK
<1>2. conn[c].pending > 1 => conn[c].pending - 1 \in 0 .. MaxPending
  BY <1>1 DEF ConnRecord
<1> QED
  BY <1>1, <1>2 DEF ConnRecord

\* on_close, and on_write after the last response: the connection is closed
\* and listed for the collector; the rest of its event finds NULL slots.
LEMMA ClosingCallback ==
    ASSUME IInv, NEW c \in Conns, Dispatching, Callee = c, Advance,
           NEW after \in ConnRecord, after.fd = NULL, after.st = conn[c].st,
           tcp_connection_close(c, after), finish_callback(c),
           UNCHANGED <<pc, running, batch, listen_fd, signal_fd>>
    PROVE  IInv'
<1>1. /\ pc = "dispatch" /\ pc' = pc /\ cur # NoEvent
      /\ conn[c].st = "http" /\ conn[c].fd = cur.fd
      /\ cur' \in EventRecord \cup {NoEvent}
  BY CalleeOwnsEvent, AdvanceKeepsEvent DEF Dispatching
<1>2. after \in ConnRecord /\ after.fd = NULL /\ after.st = "http"
  BY <1>1
<1>3. /\ loop' \in LoopRecord
      /\ conn' = [conn EXCEPT ![c] = after]
      /\ conn' \in [Conns -> ConnRecord]
      /\ open' \subseteq Fds
      /\ rx' \subseteq Fds /\ hup' \subseteq Fds /\ rst' \subseteq Fds
      /\ backlog' = backlog /\ sig' = sig
      /\ WatchTable' /\ CalleesAreLive' /\ SlotTypes' /\ FdOwnership'
      /\ \A e \in loop.list : loop.ec[e].fd # conn[c].fd => e \in loop'.list
      /\ \A e \in loop'.list : e \in loop.list /\ loop'.ec[e] = loop.ec[e]
  BY <1>1, <1>2, CloseConnection
<1>4. /\ conn'[c] = after
      /\ \A d \in Conns \ {c} : conn'[d] = conn[d]
  BY <1>3 DEF IInv, TypeOK
<1>5. /\ entries' \in Seq(Conns)
      /\ \A i, j \in DOMAIN entries' : entries'[i] = entries'[j] => i = j
      /\ Scheduled \subseteq Scheduled'
      /\ Scheduled' \subseteq Scheduled \cup {c}
      /\ ~Faulty => c \in Scheduled'
  BY FinishSchedules
<1>6. TypeOK'
  BY <1>1, <1>3, <1>5 DEF IInv, TypeOK
<1>7. PendingEventsValid' /\ EventsSeparate'
  <2>1. cur.ec \in loop'.list => loop'.ec[cur.ec].fd = cur.fd
    BY <1>1, <1>3 DEF IInv, EventsSeparate
  <2>2. \A e \in loop.list : loop.ec[e].fd # cur.fd =>
            e \in loop'.list /\ loop'.ec[e].fd = loop.ec[e].fd
    BY <1>1, <1>3
  <2> QED
    BY <2>1, <2>2, EventsSurvive
<1>8. CollectorSound'
  <2>1. \A d \in Scheduled' : conn'[d].st = "http"
    <3>1. Scheduled \subseteq Conns
      BY DEF Scheduled, IInv, TypeOK
    <3> QED
      BY <3>1, <1>2, <1>4, <1>5 DEF IInv, CollectorSound
  <2>2. ~Faulty => \A d \in Conns :
            conn'[d].st = "http" /\ conn'[d].fd = NULL => d \in Scheduled'
    BY <1>4, <1>5 DEF IInv, CollectorSound
  <2> QED
    BY <2>1, <2>2, <1>1, <1>5 DEF CollectorSound
<1>9. Startup'
  BY <1>1 DEF IInv, Startup
<1> QED
  BY <1>3, <1>6, <1>7, <1>8, <1>9 DEF IInv

\* http_connection_destroy of the collector's head: the batch is over, and
\* the fd it may close is the connection's own.
LEMMA CollectStep ==
    ASSUME IInv, Collect
    PROVE  IInv'
<1> DEFINE c == Head(entries)
<1>1. /\ pc = "dispatch" /\ cur = NoEvent /\ batch = {}
      /\ tcp_connection_close(c, FreeConn)
      /\ UNCHANGED <<pc, running, batch, cur, listen_fd, signal_fd>>
  BY DEF Collect, Collecting, IInv, CollectorSound
<1>2. /\ entries \in Seq(Conns) /\ entries # <<>>
      /\ entries' = Tail(entries)
  BY DEF Collect, IInv, TypeOK
<1>3. /\ c \in Conns /\ c = entries[1]
      /\ entries' \in Seq(Conns)
      /\ Len(entries) \in Nat /\ Len(entries) # 0
      /\ DOMAIN entries = 1 .. Len(entries)
      /\ DOMAIN entries' = 1 .. Len(entries) - 1
      /\ \A i \in DOMAIN entries' : i + 1 \in DOMAIN entries /\ entries'[i] = entries[i + 1]
  BY <1>2
<1> HIDE DEF c
<1>4. FreeConn \in ConnRecord /\ FreeConn.fd = NULL /\ FreeConn.st = "free"
  BY ServerAssumption DEF FreeConn, ConnRecord
<1>5. /\ loop' \in LoopRecord
      /\ conn' = [conn EXCEPT ![c] = FreeConn]
      /\ conn' \in [Conns -> ConnRecord]
      /\ open' \subseteq Fds
      /\ rx' \subseteq Fds /\ hup' \subseteq Fds /\ rst' \subseteq Fds
      /\ backlog' = backlog /\ sig' = sig
      /\ WatchTable' /\ CalleesAreLive' /\ SlotTypes' /\ FdOwnership'
  BY <1>1, <1>3, <1>4, CloseConnection
<1>6. /\ conn'[c] = FreeConn
      /\ \A d \in Conns \ {c} : conn'[d] = conn[d]
  BY <1>3, <1>5 DEF IInv, TypeOK
<1>7. TypeOK'
  BY <1>1, <1>3, <1>5 DEF IInv, TypeOK
<1>8. PendingEventsValid' /\ EventsSeparate'
  BY <1>1 DEF PendingEventsValid, EventsSeparate
<1>9. CollectorSound'
  <2>1. \A i, j \in DOMAIN entries' : entries'[i] = entries'[j] => i = j
    BY <1>3 DEF IInv, CollectorSound
  <2>2. c \notin Scheduled' /\ Scheduled' \subseteq Scheduled
    <3>1. 1 \in DOMAIN entries /\ \A i \in DOMAIN entries' : i + 1 # 1
      BY <1>3
    <3> QED
      BY <3>1, <1>3 DEF Scheduled, IInv, CollectorSound
  <2>3. \A d \in Scheduled : d = c \/ d \in Scheduled'
    <3> SUFFICES ASSUME NEW i \in DOMAIN entries
                 PROVE  entries[i] = c \/ \E k \in DOMAIN entries' : entries'[k] = entries[i]
      BY DEF Scheduled
    <3>1. CASE i = 1
      BY <3>1, <1>3
    <3>2. CASE i # 1
      <4>1. i - 1 \in DOMAIN entries' /\ (i - 1) + 1 = i
        BY <3>2, <1>3
      <4> QED
        BY <4>1, <1>3
    <3> QED
      BY <3>1, <3>2
  <2>4. Scheduled \subseteq Conns
    BY DEF Scheduled, IInv, TypeOK
  <2>5. \A d \in Scheduled' : conn'[d].st = "http"
    BY <2>2, <2>4, <1>6 DEF IInv, CollectorSound
  <2>6. ~Faulty => \A d \in Conns :
            conn'[d].st = "http" /\ conn'[d].fd = NULL => d \in Scheduled'
    BY <2>3, <1>4, <1>6 DEF IInv, CollectorSound
  <2> QED
    BY <2>1, <2>5, <2>6, <1>1 DEF CollectorSound
<1>10. Startup'
  BY <1>1 DEF IInv, Startup
<1> QED
  BY <1>5, <1>7, <1>8, <1>9, <1>10 DEF IInv

\* The list is empty: the loop waits again, or main has finished.
LEMMA CollectDoneStep ==
    ASSUME IInv, CollectDone
    PROVE  IInv'
<1>1. /\ UNCHANGED <<running, batch, cur, entries, conn, open, listen_fd, signal_fd,
                     rx, hup, rst, backlog, sig>>
      /\ \/ pc = "dispatch" /\ pc' = "wait" /\ loop' = loop
            /\ cur = NoEvent /\ batch = {}
         \/ pc = "destroy" /\ pc' = "done" /\ loop' = epoll_close(loop)
      /\ entries = <<>>
  BY DEF CollectDone, Collecting, peerVars
<1>2. /\ loop' \in LoopRecord
      /\ loop'.list = loop.list /\ loop'.ec = loop.ec
      /\ WatchTable'
  <2>1. CASE loop' = loop
    BY <2>1 DEF IInv, TypeOK, WatchTable
  <2>2. CASE loop' = epoll_close(loop)
    <3>1. loop' = [list |-> loop.list, ec |-> loop.ec, ptr |-> [fd \in Fds |-> NULL],
                   mask |-> [fd \in Fds |-> {}]]
      BY <2>2 DEF epoll_close, IInv, TypeOK, LoopRecord
    <3>2. loop' \in LoopRecord
      BY <3>1 DEF IInv, TypeOK, LoopRecord
    <3> QED
      BY <3>1, <3>2 DEF IInv, WatchTable, WatchTableOk, UniqueWatch, LinkedCell,
                        FreedCell, KernelCell
  <2> QED
    BY <1>1, <2>1, <2>2
<1>3. TypeOK'
  BY <1>1, <1>2 DEF IInv, TypeOK, Pcs
<1>4. CalleesAreLive' /\ SlotTypes'
  BY <1>1, <1>2 DEF IInv, CalleesAreLive, SlotTypes
<1>5. FdOwnership'
  BY <1>1 DEF IInv, FdOwnership, ClientFds
<1>6. PendingEventsValid' /\ EventsSeparate'
  BY <1>1, <1>2 DEF IInv, PendingEventsValid, EventsSeparate
<1>7. CollectorSound'
  BY <1>1 DEF IInv, CollectorSound, Scheduled
<1>8. Startup'
  BY <1>1 DEF IInv, Startup
<1> QED
  BY <1>2, <1>3, <1>4, <1>5, <1>6, <1>7, <1>8 DEF IInv

-----------------------------------------------------------------------------
(* Accepting a connection.                                                 *)

\* tcp_connection_set_callbacks on an fd without a cell fills one cell with
\* the connection, in all slots or, when EPOLL_CTL_ADD fails, in one.
LEMMA SetCallbacks ==
    ASSUME NEW l \in LoopRecord, WatchTableOk(l), NEW fd \in Fds, NEW c \in Owners,
           Found(l, fd) = {}, NEW e \in Cells(l, fd), NEW ret \in CtlResults,
           NEW m, m = tcp_connection_set_callbacks(l, fd, c, e, ret)
    PROVE  /\ m \in LoopRecord
           /\ WatchTableOk(m)
           /\ e \in Ecs \ l.list
           /\ m.list = l.list \cup {e}
           /\ m.ec[e].fd = fd
           /\ \A t \in Types : m.ec[e].datas[t] \in {c, NULL}
           /\ \A d \in l.list : m.ec[d] = l.ec[d]
           /\ \A g \in Fds \ {fd} : m.mask[g] = l.mask[g]
           /\ ret = 0 => m.mask[fd] = Types
<1> DEFINE l1 == event_loop_add_fd_watch(l, fd, "READ", c, e, ret)
           l2 == event_loop_add_fd_watch(l1, fd, "WRITE", c, e, 0)
           l3 == event_loop_add_fd_watch(l2, fd, "CLOSE", c, e, 0)
<1>0. {"READ", "WRITE", "CLOSE"} = Types
  BY DEF Types
<1>1. e \in Ecs \ l.list
  BY DEF Cells
<1>2. /\ l1 \in LoopRecord /\ WatchTableOk(l1)
      /\ l1.list = l.list \cup {e} /\ l1.ec[e].fd = fd
      /\ l1.ec[e].datas["READ"] = c
      /\ \A u \in Types \ {"READ"} : l1.ec[e].datas[u] = NULL
      /\ \A d \in Ecs \ {e} : l1.ec[d] = l.ec[d]
      /\ \A g \in Fds \ {fd} : l1.mask[g] = l.mask[g]
      /\ Cells(l1, fd) = {e}
  BY <1>0, <1>1, AddWatch
<1> HIDE DEF l1
<1>3. /\ l2 \in LoopRecord /\ WatchTableOk(l2)
      /\ l2.list = l1.list \cup {e} /\ l2.ec[e].fd = fd
      /\ l2.ec[e].datas["WRITE"] = c
      /\ \A u \in Types \ {"WRITE"} :
            l2.ec[e].datas[u] = IF e \in l1.list THEN l1.ec[e].datas[u] ELSE NULL
      /\ \A d \in Ecs \ {e} : l2.ec[d] = l1.ec[d]
      /\ \A g \in Fds \ {fd} : l2.mask[g] = l1.mask[g]
      /\ Cells(l2, fd) = {e}
  <2>1. e \in Cells(l1, fd) /\ "WRITE" \in Types /\ 0 \in CtlResults
    BY <1>0, <1>2 DEF CtlResults
  <2> QED
    BY <2>1, <1>2, AddWatch
<1> HIDE DEF l2
<1>4. /\ l3 \in LoopRecord /\ WatchTableOk(l3)
      /\ l3.list = l2.list \cup {e} /\ l3.ec[e].fd = fd
      /\ l3.ec[e].datas["CLOSE"] = c
      /\ \A u \in Types \ {"CLOSE"} :
            l3.ec[e].datas[u] = IF e \in l2.list THEN l2.ec[e].datas[u] ELSE NULL
      /\ \A d \in Ecs \ {e} : l3.ec[d] = l2.ec[d]
      /\ \A g \in Fds \ {fd} : l3.mask[g] = l2.mask[g]
      /\ l3.mask[fd] = l3.ec[e].events
  <2>1. e \in Cells(l2, fd) /\ "CLOSE" \in Types /\ 0 \in CtlResults
    BY <1>0, <1>3 DEF CtlResults
  <2> QED
    BY <2>1, <1>3, AddWatch
<1> HIDE DEF l3
<1>5. m = IF ret = 0 THEN l3 ELSE l1
  BY DEF tcp_connection_set_callbacks, l1, l2, l3
<1>6. l.list \subseteq Ecs \ {e}
  BY <1>1 DEF LoopRecord
<1>7. \A t \in Types : l1.ec[e].datas[t] \in {c, NULL} /\ l2.ec[e].datas[t] \in {c, NULL}
                                                /\ l3.ec[e].datas[t] \in {c, NULL}
  BY <1>2, <1>3, <1>4
<1>8. CASE ret = 0
  <2>1. m = l3
    BY <1>5, <1>8
  <2>2. \A t \in Types : l3.ec[e].datas[t] = c
    BY <1>0, <1>2, <1>3, <1>4
  <2>3. e \in l3.list /\ c # NULL
    BY <1>2, <1>3, <1>4, ELoopAssumption
  <2>4. l3.ec[e].events \subseteq Types
    BY <1>1, <1>4 DEF LoopRecord, EcRecord
  <2>5. \A t \in Types : t \in l3.ec[e].events
    BY <2>2, <2>3, <1>4 DEF WatchTableOk, LinkedCell
  <2>6. l3.mask[fd] = Types
    BY <2>4, <2>5, <1>4
  <2> QED
    BY <2>1, <2>6, <1>1, <1>2, <1>3, <1>4, <1>6, <1>7
<1>9. CASE ret # 0
  <2>1. m = l1
    BY <1>5, <1>9
  <2> QED
    BY <2>1, <1>1, <1>2, <1>6, <1>7, <1>9
<1> QED
  BY <1>8, <1>9

\* An fd that is not open has no linked cell, even when its number was in use
\* earlier in the same batch.
LEMMA NewFdHasNoCell ==
    ASSUME IInv, pc # "aborted", NEW fd \in Fds \ open
    PROVE  Found(loop, fd) = {}
  BY LinkedFdsOpen DEF Found

\* A new client, whatever fails on the way.
LEMMA AcceptStep ==
    ASSUME IInv, OnIncomingConnection
    PROVE  IInv'
<1>1. /\ Dispatching /\ Advance /\ Callee = TcpServer
      /\ UNCHANGED <<pc, running, batch, entries, listen_fd, signal_fd, rx, hup, rst, sig>>
      /\ backlog' \in BOOLEAN
  BY DEF OnIncomingConnection, IInv, TypeOK
<1>2. /\ pc = "dispatch" /\ pc' = pc
      /\ cur \in EventRecord /\ cur' \in EventRecord \cup {NoEvent}
      /\ cur.ec \in loop.list /\ loop.ec[cur.ec].fd = cur.fd
  <2>1. Callee # NULL
    BY <1>1, ServerAssumption, ELoopAssumption
  <2> QED
    BY <2>1, <1>1, CalleeOwnsEvent, AdvanceKeepsEvent
<1>3. CASE UNCHANGED <<loop, conn, open>>
  <2>1. WatchTable' /\ CalleesAreLive' /\ SlotTypes' /\ FdOwnership'
    BY <1>1, <1>3, TableFrame
  <2>2. TypeOK'
    BY <1>1, <1>2, <1>3 DEF IInv, TypeOK
  <2>3. PendingEventsValid' /\ EventsSeparate'
    BY <1>1, <1>2, <1>3, EventsSurvive
  <2>4. CollectorSound'
    BY <1>1, <1>3 DEF IInv, CollectorSound, Scheduled
  <2>5. Startup'
    BY <1>1, <1>3 DEF IInv, Startup
  <2> QED
    BY <2>1, <2>2, <2>3, <2>4, <2>5 DEF IInv
<1>4. ASSUME NEW fd \in FreeFds, NEW c \in FreeConns, NEW new \in ConnRecord,
             new.fd = fd, new.st # "free",
             open' = open \cup {fd}, conn' = [conn EXCEPT ![c] = new],
             \/ UNCHANGED loop
             \/ /\ new.st = "http"
                /\ \E e \in Cells(loop, fd), ret \in CtlResults :
                    loop' = tcp_connection_set_callbacks(loop, fd, c, e, ret)
      PROVE  IInv'
  <2>1. /\ fd \in Fds /\ fd # NULL /\ fd \notin open
        /\ c \in Conns /\ conn[c].st = "free"
        /\ Found(loop, fd) = {}
        /\ c \in Owners /\ c # TcpServer /\ c # SignalHandler /\ c # NULL
    BY <1>2, <1>4, NewFdHasNoCell, ELoopAssumption, ServerAssumption DEF FreeFds, FreeConns
  <2>2. /\ conn' \in [Conns -> ConnRecord]
        /\ conn'[c] = new
        /\ \A d \in Conns \ {c} : conn'[d] = conn[d]
    BY <2>1, <1>4 DEF IInv, TypeOK
  <2>3. /\ loop' \in LoopRecord
        /\ WatchTableOk(loop')
        /\ loop.list \subseteq loop'.list
        /\ \A e \in loop.list : loop'.ec[e] = loop.ec[e]
        /\ \A e \in loop'.list \ loop.list :
                /\ new.st = "http" /\ loop'.ec[e].fd = fd
                /\ \A t \in Types : loop'.ec[e].datas[t] \in {c, NULL}
    <3>1. CASE UNCHANGED loop
      BY <3>1 DEF IInv, TypeOK, WatchTable
    <3>2. CASE /\ new.st = "http"
               /\ \E e \in Cells(loop, fd), ret \in CtlResults :
                    loop' = tcp_connection_set_callbacks(loop, fd, c, e, ret)
      <4>1. PICK e \in Cells(loop, fd), ret \in CtlResults :
                    loop' = tcp_connection_set_callbacks(loop, fd, c, e, ret)
        BY <3>2
      <4>2. loop \in LoopRecord /\ WatchTableOk(loop)
        BY DEF IInv, TypeOK, WatchTable
      <4>3. /\ loop' \in LoopRecord
            /\ WatchTableOk(loop')
            /\ e \in Ecs \ loop.list
            /\ loop'.list = loop.list \cup {e}
            /\ loop'.ec[e].fd = fd
            /\ \A t \in Types : loop'.ec[e].datas[t] \in {c, NULL}
            /\ \A d \in loop.list : loop'.ec[d] = loop.ec[d]
        BY <4>1, <4>2, <2>1, SetCallbacks
      <4> QED
        BY <3>2, <4>3
    <3> QED
      BY <1>4, <3>1, <3>2
  <2>4. TypeOK'
    BY <1>1, <1>2, <1>4, <2>1, <2>2, <2>3 DEF IInv, TypeOK
  <2>5. \A e \in loop.list, t \in Types : loop.ec[e].datas[t] # c
    BY <2>1, <1>2 DEF IInv, CalleesAreLive
  <2>6. CalleesAreLive'
    <3> SUFFICES ASSUME NEW e \in loop'.list, NEW t \in Types, NEW d,
                        d = loop'.ec[e].datas[t]
                 PROVE  /\ d \in Conns => conn'[d].st = "http" /\ conn'[d].fd = loop'.ec[e].fd
                        /\ d = TcpServer => listen_fd' = loop'.ec[e].fd
                        /\ d = SignalHandler => signal_fd' = loop'.ec[e].fd
      BY DEF CalleesAreLive
    <3>1. CASE e \in loop.list
      <4>1. loop'.ec[e] = loop.ec[e] /\ d # c
        BY <3>1, <2>3, <2>5
      <4> QED
        BY <3>1, <4>1, <1>1, <1>2, <2>2 DEF IInv, CalleesAreLive
    <3>2. CASE e \notin loop.list
      <4>1. new.st = "http" /\ loop'.ec[e].fd = fd /\ d \in {c, NULL}
        BY <3>2, <2>3
      <4>2. NULL \notin Conns /\ NULL # TcpServer /\ NULL # SignalHandler
        BY ELoopAssumption, ServerAssumption
      <4> QED
        BY <4>1, <4>2, <1>4, <2>1, <2>2
    <3> QED
      BY <3>1, <3>2
  <2>7. SlotTypes'
    <3>1. NULL # TcpServer /\ NULL # SignalHandler
      BY ELoopAssumption, ServerAssumption
    <3> QED
      BY <3>1, <2>1, <2>3 DEF IInv, SlotTypes
  <2>8. FdOwnership'
    <3>1. conn[c].fd = NULL \/ conn[c].fd \in open
      BY <2>1 DEF IInv, FdOwnership, ClientFds
    <3>2. \A d \in Conns : conn[d].fd # fd
      BY <2>1 DEF IInv, FdOwnership, ClientFds
    <3>3. listen_fd # fd /\ signal_fd # fd
      BY <2>1 DEF IInv, FdOwnership
    <3>4. conn[c].fd = NULL
      BY <2>1 DEF IInv, FdOwnership
    <3>5. ClientFds' = ClientFds \cup {fd}
      BY <3>4, <1>4, <2>1, <2>2 DEF ClientFds
    <3>6. open' = (ClientFds' \cup {listen_fd', signal_fd'}) \ {NULL}
      BY <3>5, <1>1, <1>4, <2>1 DEF IInv, FdOwnership
    <3>7. \A c1, c2 \in Conns :
            conn'[c1].fd = conn'[c2].fd /\ conn'[c1].fd # NULL => c1 = c2
      BY <3>2, <1>4, <2>2 DEF IInv, FdOwnership
    <3>8. \A d \in Conns : conn'[d].st = "free" => conn'[d].fd = NULL
      BY <1>4, <2>2 DEF IInv, FdOwnership
    <3> QED
      BY <3>3, <3>5, <3>6, <3>7, <3>8, <1>1 DEF IInv, FdOwnership
  <2>9. PendingEventsValid' /\ EventsSeparate'
    <3>1. cur.ec \in loop'.list => loop'.ec[cur.ec].fd = cur.fd
      BY <1>2, <2>3
    <3> QED
      BY <3>1, <1>1, <2>3, EventsSurvive
  <2>10. CollectorSound'
    <3>1. Scheduled' = Scheduled /\ Scheduled \subseteq Conns
      BY <1>1 DEF Scheduled, IInv, TypeOK
    <3>2. c \notin Scheduled
      BY <2>1 DEF IInv, CollectorSound
    <3> QED
      BY <3>1, <3>2, <1>1, <1>2, <1>4, <2>1, <2>2 DEF IInv, CollectorSound
  <2>11. Startup'
    BY <1>1, <1>2 DEF IInv, Startup
  <2> QED
    BY <2>3, <2>4, <2>6, <2>7, <2>8, <2>9, <2>10, <2>11 DEF IInv, WatchTable
<1>5. CASE \E fd \in FreeFds, c \in FreeConns :
            /\ open' = open \cup {fd}
            /\ \/ /\ conn' = [conn EXCEPT ![c] = NewConn("tcp", fd)]
                  /\ UNCHANGED loop
               \/ /\ conn' = [conn EXCEPT ![c] = NewConn("http", fd)]
                  /\ \/ \E e \in Cells(loop, fd), ret \in CtlResults :
                            loop' = tcp_connection_set_callbacks(loop, fd, c, e, ret)
                     \/ UNCHANGED loop
  <2>1. PICK fd \in FreeFds, c \in FreeConns :
            /\ open' = open \cup {fd}
            /\ \/ /\ conn' = [conn EXCEPT ![c] = NewConn("tcp", fd)]
                  /\ UNCHANGED loop
               \/ /\ conn' = [conn EXCEPT ![c] = NewConn("http", fd)]
                  /\ \/ \E e \in Cells(loop, fd), ret \in CtlResults :
                            loop' = tcp_connection_set_callbacks(loop, fd, c, e, ret)
                     \/ UNCHANGED loop
    BY <1>5
  <2> DEFINE tcp  == NewConn("tcp", fd)
             http == NewConn("http", fd)
  <2>2. fd \in Fds /\ 0 \in 0 .. MaxPending
    BY ServerAssumption DEF FreeFds
  <2>3. /\ tcp \in ConnRecord /\ tcp.fd = fd /\ tcp.st # "free"
        /\ http \in ConnRecord /\ http.fd = fd /\ http.st = "http" /\ http.st # "free"
    BY <2>2 DEF ConnRecord, NewConn
  <2> HIDE DEF tcp, http
  <2>4. CASE conn' = [conn EXCEPT ![c] = tcp] /\ UNCHANGED loop
    BY <2>1, <2>3, <2>4, <1>4
  <2>5. CASE /\ conn' = [conn EXCEPT ![c] = http]
             /\ \/ \E e \in Cells(loop, fd), ret \in CtlResults :
                        loop' = tcp_connection_set_callbacks(loop, fd, c, e, ret)
                \/ UNCHANGED loop
    BY <2>1, <2>3, <2>5, <1>4
  <2> QED
    BY <2>1, <2>4, <2>5 DEF tcp, http
<1> QED
  BY <1>3, <1>5 DEF OnIncomingConnection

\* on_write: a chunk is sent, or the connection is closed, or nothing.
LEMMA WriteStep ==
    ASSUME IInv, NEW c \in Conns, OnWrite(c)
    PROVE  IInv'
<1>1. /\ Dispatching /\ Advance /\ Callee = c
      /\ UNCHANGED <<pc, running, batch, listen_fd, signal_fd>>
  BY DEF OnWrite
<1>2. CASE \E after \in ConnRecord :
              /\ after.fd = NULL /\ after.st = conn[c].st
              /\ tcp_connection_close(c, after) /\ finish_callback(c)
  BY <1>1, <1>2, ClosingCallback
<1>3. CASE /\ \/ conn[c].pending > 0 /\ conn' = [conn EXCEPT ![c].pending = conn[c].pending - 1]
              \/ UNCHANGED conn
           /\ UNCHANGED <<loop, open, entries, rx, hup, rst, backlog, sig>>
  <2>1. pc = "dispatch" /\ cur' \in EventRecord \cup {NoEvent}
    BY <1>1, CalleeOwnsEvent, AdvanceKeepsEvent
  <2>2. /\ conn' \in [Conns -> ConnRecord]
        /\ \A d \in Conns : conn'[d].fd = conn[d].fd /\ conn'[d].st = conn[d].st
    <3>1. conn \in [Conns -> ConnRecord] /\ conn[c] \in ConnRecord
      BY DEF IInv, TypeOK
    <3>2. CASE conn[c].pending > 0 /\ conn' = [conn EXCEPT ![c].pending = conn[c].pending - 1]
      <4>1. conn[c].pending - 1 \in 0 .. MaxPending
        BY <3>1, <3>2, ServerAssumption DEF ConnRecord
      <4> QED
        BY <3>1, <3>2, <4>1 DEF ConnRecord
    <3>3. CASE UNCHANGED conn
      BY <3>1, <3>3
    <3> QED
      BY <1>3, <3>2, <3>3
  <2>3. TypeOK'
    BY <1>1, <1>3, <2>1, <2>2 DEF IInv, TypeOK
  <2>4. WatchTable' /\ SlotTypes'
    BY <1>3 DEF IInv, WatchTable, SlotTypes
  <2>5. CalleesAreLive'
    BY <1>1, <1>3, <2>2 DEF IInv, CalleesAreLive
  <2>6. FdOwnership'
    <3>1. ClientFds' = ClientFds
      BY <2>2 DEF ClientFds
    <3> QED
      BY <3>1, <1>1, <1>3, <2>2 DEF IInv, FdOwnership
  <2>7. PendingEventsValid' /\ EventsSeparate'
    <3>1. cur.ec \in loop.list => loop.ec[cur.ec].fd = cur.fd
      BY <1>1 DEF IInv, EventsSeparate, Dispatching
    <3> QED
      BY <3>1, <1>1, <1>3, EventsSurvive
  <2>8. CollectorSound'
    <3>1. Scheduled' = Scheduled /\ Scheduled \subseteq Conns
      BY <1>3 DEF Scheduled, IInv, TypeOK
    <3> QED
      BY <3>1, <1>1, <1>3, <2>2 DEF IInv, CollectorSound
  <2>9. Startup'
    BY <1>1, <2>1 DEF IInv, Startup
  <2> QED
    BY <2>3, <2>4, <2>5, <2>6, <2>7, <2>8, <2>9 DEF IInv
<1>4. CASE tcp_connection_close(c, [conn[c] EXCEPT !.fd = NULL]) /\ finish_callback(c)
  BY <1>2, <1>4, ClosedRecord
<1>5. CASE /\ conn[c].pending > 1
           /\ tcp_connection_close(c, [conn[c] EXCEPT !.fd = NULL, !.pending = conn[c].pending - 1])
           /\ finish_callback(c)
  BY <1>2, <1>5, ClosedRecord
<1> QED
  BY <1>3, <1>4, <1>5 DEF OnWrite, peerVars

-----------------------------------------------------------------------------
(* main: start and stop.                                                   *)

\* signal_handler_new.
LEMMA SignalHandlerStep ==
    ASSUME IInv, SignalHandlerNew
    PROVE  IInv'
<1>1. /\ pc = "boot"
      /\ UNCHANGED <<running, batch, cur, entries, conn, listen_fd, rx, hup, rst, backlog, sig>>
      /\ open = {} /\ loop.list = {} /\ signal_fd = NULL /\ listen_fd = NULL
      /\ batch = {} /\ cur = NoEvent /\ entries = <<>>
      /\ \A c \in Conns : conn[c].fd = NULL
  BY DEF SignalHandlerNew, peerVars, IInv, Startup, EventsSeparate, CollectorSound
<1>2. /\ SignalFd \in Fds /\ SignalHandler \in Owners /\ "READ" \in Types
      /\ SignalFd # NULL
      /\ SignalHandler # NULL /\ SignalHandler # TcpServer /\ SignalHandler \notin Conns
      /\ Found(loop, SignalFd) = {}
      /\ loop \in LoopRecord /\ WatchTableOk(loop)
      /\ 0 \in CtlResults /\ -1 \in CtlResults
  BY <1>1, ServerAssumption, ELoopAssumption
     DEF Types, Found, CtlResults, IInv, TypeOK, WatchTable
<1>3. /\ loop' \in LoopRecord /\ WatchTableOk(loop')
      /\ \A e \in loop'.list :
            /\ loop'.ec[e].fd = SignalFd
            /\ loop'.ec[e].datas["READ"] = SignalHandler
            /\ \A t \in Types \ {"READ"} : loop'.ec[e].datas[t] = NULL
  <2>1. CASE UNCHANGED loop
    BY <2>1, <1>1, <1>2
  <2>2. CASE \E e \in Cells(loop, SignalFd), ret \in CtlResults :
            loop' = event_loop_add_fd_watch(loop, SignalFd, "READ", SignalHandler, e, ret)
    <3>1. PICK e \in Cells(loop, SignalFd), ret \in CtlResults :
            loop' = event_loop_add_fd_watch(loop, SignalFd, "READ", SignalHandler, e, ret)
      BY <2>2
    <3>2. /\ loop' \in LoopRecord /\ WatchTableOk(loop')
          /\ loop'.list = loop.list \cup {e}
          /\ loop'.ec[e].fd = SignalFd
          /\ loop'.ec[e].datas["READ"] = SignalHandler
          /\ \A u \in Types \ {"READ"} :
                loop'.ec[e].datas[u] = IF e \in loop.list THEN loop.ec[e].datas[u] ELSE NULL
      BY <3>1, <1>2, AddWatch
    <3> QED
      BY <3>2, <1>1
  <2> QED
    BY <2>1, <2>2, <1>2 DEF SignalHandlerNew
<1>4. \/ pc' = "start" /\ signal_fd' = SignalFd /\ open' = {SignalFd}
      \/ pc' = "aborted" /\ signal_fd' = NULL /\ open' = {}
  BY <1>1 DEF SignalHandlerNew
<1>5. TypeOK'
  BY <1>1, <1>2, <1>3, <1>4 DEF IInv, TypeOK, Pcs
<1>6. CalleesAreLive'
  <2> SUFFICES ASSUME pc' # "aborted", NEW e \in loop'.list, NEW t \in Types, NEW d,
                      d = loop'.ec[e].datas[t]
               PROVE  /\ d \in Conns => conn'[d].st = "http" /\ conn'[d].fd = loop'.ec[e].fd
                      /\ d = TcpServer => listen_fd' = loop'.ec[e].fd
                      /\ d = SignalHandler => signal_fd' = loop'.ec[e].fd
    BY DEF CalleesAreLive
  <2>1. d \in {SignalHandler, NULL} /\ loop'.ec[e].fd = SignalFd
    BY <1>3
  <2>2. NULL # TcpServer /\ NULL \notin Conns
    BY ServerAssumption, ELoopAssumption
  <2> QED
    BY <2>1, <2>2, <1>2, <1>4
<1>7. SlotTypes'
  <2>1. NULL # TcpServer /\ NULL # SignalHandler
    BY ServerAssumption, ELoopAssumption
  <2> QED
    BY <2>1, <1>3 DEF SlotTypes
<1>8. FdOwnership'
  <2>1. ClientFds' = {}
    BY <1>1 DEF ClientFds
  <2> QED
    BY <2>1, <1>1, <1>2, <1>4 DEF IInv, FdOwnership
<1>9. PendingEventsValid' /\ EventsSeparate'
  BY <1>1, ELoopAssumption DEF PendingEventsValid, EventsSeparate, NoEvent
<1>10. CollectorSound'
  BY <1>1, <1>4 DEF IInv, CollectorSound, Scheduled
<1>11. Startup'
  BY <1>1, <1>4 DEF Startup
<1> QED
  BY <1>3, <1>5, <1>6, <1>7, <1>8, <1>9, <1>10, <1>11 DEF IInv, WatchTable

\* tcp_server_start_listen, whatever fails in it.
LEMMA StartListenStep ==
    ASSUME IInv, TcpServerStartListen
    PROVE  IInv'
<1>1. /\ pc = "start" /\ pc' = "wait"
      /\ running' \in BOOLEAN
      /\ UNCHANGED <<batch, cur, entries, conn, signal_fd, rx, hup, rst, backlog, sig>>
      /\ listen_fd = NULL /\ signal_fd = SignalFd
      /\ batch = {} /\ cur = NoEvent /\ entries = <<>>
      /\ \A c \in Conns : conn[c].fd = NULL
  BY DEF TcpServerStartListen, peerVars, IInv, Startup, EventsSeparate, CollectorSound
<1>2. /\ ListenFd \in Fds /\ TcpServer \in Owners /\ "READ" \in Types
      /\ ListenFd # NULL /\ ListenFd # SignalFd /\ SignalFd # NULL
      /\ TcpServer # NULL /\ TcpServer # SignalHandler /\ TcpServer \notin Conns
      /\ loop \in LoopRecord /\ WatchTableOk(loop)
      /\ ClientFds = {} /\ open = {SignalFd}
  BY <1>1, ServerAssumption, ELoopAssumption
     DEF Types, IInv, TypeOK, WatchTable, FdOwnership, ClientFds
<1>3. Found(loop, ListenFd) = {}
  BY <1>1, <1>2, NewFdHasNoCell
<1>4. /\ loop' \in LoopRecord /\ WatchTableOk(loop')
      /\ loop.list \subseteq loop'.list
      /\ \A e \in loop.list : loop'.ec[e] = loop.ec[e]
      /\ \A e \in loop'.list \ loop.list :
            /\ listen_fd' = ListenFd
            /\ loop'.ec[e].fd = ListenFd
            /\ loop'.ec[e].datas["READ"] = TcpServer
            /\ \A t \in Types \ {"READ"} : loop'.ec[e].datas[t] = NULL
  <2>1. CASE UNCHANGED loop
    BY <2>1, <1>2
  <2>2. CASE /\ listen_fd' = ListenFd
             /\ \E e \in Cells(loop, ListenFd), ret \in CtlResults :
                loop' = event_loop_add_fd_watch(loop, ListenFd, "READ", TcpServer, e, ret)
    <3>1. PICK e \in Cells(loop, ListenFd), ret \in CtlResults :
            loop' = event_loop_add_fd_watch(loop, ListenFd, "READ", TcpServer, e, ret)
      BY <2>2
    <3>2. /\ loop' \in LoopRecord /\ WatchTableOk(loop')
          /\ loop'.list = loop.list \cup {e}
          /\ loop'.ec[e].fd = ListenFd
          /\ loop'.ec[e].datas["READ"] = TcpServer
          /\ \A u \in Types \ {"READ"} :
                loop'.ec[e].datas[u] = IF e \in loop.list THEN loop.ec[e].datas[u] ELSE NULL
          /\ \A d \in Ecs \ {e} : loop'.ec[d] = loop.ec[d]
      BY <3>1, <1>2, <1>3, AddWatch
    <3>3. e \notin loop.list /\ loop.list \subseteq Ecs
      BY <1>2, <1>3 DEF Cells, LoopRecord
    <3> QED
      BY <3>2, <3>3, <2>2
  <2> QED
    BY <2>1, <2>2 DEF TcpServerStartListen
<1>5. \/ listen_fd' = ListenFd /\ open' = open \cup {ListenFd}
      \/ listen_fd' = NULL /\ open' = open
  BY <1>1 DEF TcpServerStartListen
<1>6. TypeOK'
  BY <1>1, <1>2, <1>4, <1>5 DEF IInv, TypeOK, Pcs
<1>7. CalleesAreLive'
  <2> SUFFICES ASSUME NEW e \in loop'.list, NEW t \in Types, NEW d,
                      d = loop'.ec[e].datas[t]
               PROVE  /\ d \in Conns => conn'[d].st = "http" /\ conn'[d].fd = loop'.ec[e].fd
                      /\ d = TcpServer => listen_fd' = loop'.ec[e].fd
                      /\ d = SignalHandler => signal_fd' = loop'.ec[e].fd
    BY DEF CalleesAreLive
  <2>1. CASE e \in loop.list
    <3>1. loop'.ec[e] = loop.ec[e] /\ loop.ec[e].fd \in Fds
      BY <2>1, <1>2, <1>4 DEF WatchTableOk, LinkedCell
    <3>2. d # TcpServer
      BY <2>1, <3>1, <1>1, ELoopAssumption DEF IInv, CalleesAreLive
    <3> QED
      BY <2>1, <3>1, <3>2, <1>1 DEF IInv, CalleesAreLive
  <2>2. CASE e \notin loop.list
    <3>1. d \in {TcpServer, NULL} /\ loop'.ec[e].fd = ListenFd /\ listen_fd' = ListenFd
      BY <2>2, <1>4
    <3>2. NULL # SignalHandler /\ NULL \notin Conns
      BY ServerAssumption, ELoopAssumption
    <3> QED
      BY <3>1, <3>2, <1>2
  <2> QED
    BY <2>1, <2>2
<1>8. SlotTypes'
  <2>1. NULL # TcpServer /\ NULL # SignalHandler
    BY ServerAssumption, ELoopAssumption
  <2> QED
    BY <2>1, <1>4 DEF IInv, SlotTypes
<1>9. FdOwnership'
  <2>1. ClientFds' = {}
    BY <1>1 DEF ClientFds
  <2> QED
    BY <2>1, <1>1, <1>2, <1>5 DEF IInv, FdOwnership
<1>10. PendingEventsValid' /\ EventsSeparate'
  BY <1>1, ELoopAssumption DEF PendingEventsValid, EventsSeparate, NoEvent
<1>11. CollectorSound'
  BY <1>1 DEF IInv, CollectorSound, Scheduled
<1>12. Startup'
  BY <1>1 DEF Startup
<1> QED
  BY <1>4, <1>6, <1>7, <1>8, <1>9, <1>10, <1>11, <1>12 DEF IInv, WatchTable

\* What tcp_server_destroy and signal_handler_destroy do to the watch of
\* their fd: its cell watched for input only, so one removal frees it.
LEMMA RemoveService ==
    ASSUME IInv, pc # "aborted", NEW fd \in Fds, fd \in {listen_fd, signal_fd},
           NEW m, m = kernel_close(event_loop_remove_fd_watch(loop, fd, "READ"), fd)
    PROVE  /\ m \in LoopRecord
           /\ WatchTableOk(m)
           /\ \A e \in m.list : /\ e \in loop.list
                                /\ m.ec[e] = loop.ec[e]
                                /\ loop.ec[e].fd # fd
<1> DEFINE l1 == event_loop_remove_fd_watch(loop, fd, "READ")
<1>0. loop \in LoopRecord /\ WatchTableOk(loop) /\ "READ" \in Types
  BY DEF IInv, TypeOK, WatchTable, Types
<1>1. /\ l1 \in LoopRecord /\ WatchTableOk(l1)
      /\ l1.list \subseteq loop.list
      /\ \A c \in loop.list : loop.ec[c].fd # fd => c \in l1.list /\ l1.ec[c] = loop.ec[c]
      /\ \A c \in l1.list :
            /\ l1.ec[c].fd = loop.ec[c].fd
            /\ loop.ec[c].fd = fd => l1.ec[c].events = loop.ec[c].events \ {"READ"}
  BY <1>0, RemoveWatch
<1> HIDE DEF l1
<1>2. m \in LoopRecord /\ WatchTableOk(m) /\ m.list = l1.list /\ m.ec = l1.ec
  BY <1>1, KernelClose DEF l1
<1>3. \A c \in l1.list : loop.ec[c].fd # fd
  <2> SUFFICES ASSUME NEW c \in l1.list, loop.ec[c].fd = fd
               PROVE  FALSE
    OBVIOUS
  <2>1. c \in loop.list /\ c \in Ecs
    BY <1>0, <1>1 DEF LoopRecord
  <2>2. l1.ec[c].events = loop.ec[c].events \ {"READ"} /\ l1.ec[c].events # {}
    BY <1>1 DEF WatchTableOk, LinkedCell
  <2>3. PICK t \in loop.ec[c].events : t # "READ"
    BY <2>2
  <2>4. t \in Types /\ loop.ec[c].datas[t] # NULL
        /\ loop.ec[c].datas[t] \in Conns \cup {TcpServer, SignalHandler, NULL}
    BY <2>1, <2>3, <1>0, ServerAssumption DEF WatchTableOk, LinkedCell, LoopRecord, EcRecord
  <2>5. loop.ec[c].datas[t] \in Conns
    BY <2>1, <2>3, <2>4 DEF IInv, SlotTypes
  <2>6. fd \in {conn[d].fd : d \in Conns}
    BY <2>1, <2>4, <2>5 DEF IInv, CalleesAreLive
  <2>7. fd \in ClientFds
    BY <2>6, ELoopAssumption DEF ClientFds
  <2> QED
    BY <2>7, ELoopAssumption DEF IInv, FdOwnership
<1> QED
  BY <1>1, <1>2, <1>3

\* http_server_destroy and signal_handler_destroy.
LEMMA StopStep ==
    ASSUME IInv, HttpServerDestroy \/ SignalHandlerDestroy
    PROVE  IInv'
<1>1. /\ UNCHANGED <<running, batch, cur, entries, conn, rx, hup, rst, sig>>
      /\ backlog' \in BOOLEAN
      /\ batch = {} /\ cur = NoEvent /\ entries = <<>>
      /\ pc \in {"exit", "exit_signals"}
      /\ signal_fd = SignalFd /\ SignalFd \in Fds /\ SignalFd # NULL
      /\ pc = "exit_signals" => listen_fd = NULL
  BY ELoopAssumption, ServerAssumption
     DEF HttpServerDestroy, SignalHandlerDestroy, peerVars, IInv, TypeOK, Startup,
         EventsSeparate, CollectorSound
<1>2. PICK fd \in Fds \cup {NULL} :
        /\ \/ /\ pc = "exit" /\ pc' = "exit_signals"
              /\ fd = listen_fd /\ listen_fd' = NULL /\ signal_fd' = signal_fd
           \/ /\ pc = "exit_signals" /\ pc' = "destroy"
              /\ fd = signal_fd /\ signal_fd' = NULL /\ listen_fd' = listen_fd
        /\ open' = open \ {fd}
        /\ IF fd = NULL
           THEN loop' = loop
           ELSE loop' = kernel_close(event_loop_remove_fd_watch(loop, fd, "READ"), fd)
  <2>1. listen_fd \in Fds \cup {NULL} /\ open \subseteq Fds /\ NULL \notin Fds
    BY ELoopAssumption DEF IInv, TypeOK
  <2>2. CASE HttpServerDestroy
    <3>1. /\ pc = "exit" /\ pc' = "exit_signals" /\ listen_fd' = NULL /\ signal_fd' = signal_fd
          /\ IF listen_fd = NULL
             THEN loop' = loop /\ open' = open
             ELSE /\ loop' = kernel_close(event_loop_remove_fd_watch(loop, listen_fd, "READ"), listen_fd)
                  /\ open' = open \ {listen_fd}
      BY <2>2 DEF HttpServerDestroy
    <3>2. open' = open \ {listen_fd}
      BY <3>1, <2>1
    <3> QED
      BY <3>1, <3>2, <2>1
  <2>3. CASE SignalHandlerDestroy
    BY <2>3, <1>1 DEF SignalHandlerDestroy
  <2> QED
    BY <2>2, <2>3
<1>3. pc # "aborted" /\ pc' # "aborted"
  BY <1>1, <1>2
<1>4. /\ loop' \in LoopRecord /\ WatchTableOk(loop')
      /\ \A e \in loop'.list : /\ e \in loop.list
                               /\ loop'.ec[e] = loop.ec[e]
                               /\ loop.ec[e].fd # fd
  <2>1. CASE fd = NULL
    BY <2>1, <1>2, ELoopAssumption DEF IInv, TypeOK, WatchTable, WatchTableOk, LinkedCell
  <2>2. CASE fd # NULL
    BY <2>2, <1>2, <1>3, RemoveService
  <2> QED
    BY <2>1, <2>2
<1>5. TypeOK'
  BY <1>1, <1>2, <1>4 DEF IInv, TypeOK, Pcs
<1>6. CalleesAreLive'
  <2> SUFFICES ASSUME NEW e \in loop'.list, NEW t \in Types, NEW d,
                      d = loop'.ec[e].datas[t]
               PROVE  /\ d \in Conns => conn'[d].st = "http" /\ conn'[d].fd = loop'.ec[e].fd
                      /\ d = TcpServer => listen_fd' = loop'.ec[e].fd
                      /\ d = SignalHandler => signal_fd' = loop'.ec[e].fd
    BY DEF CalleesAreLive
  <2>1. /\ d \in Conns => conn[d].st = "http" /\ conn[d].fd = loop.ec[e].fd
        /\ d = TcpServer => listen_fd = loop.ec[e].fd
        /\ d = SignalHandler => signal_fd = loop.ec[e].fd
    BY <1>3, <1>4 DEF IInv, CalleesAreLive
  <2> QED
    BY <2>1, <1>1, <1>2, <1>4
<1>7. SlotTypes'
  BY <1>4 DEF IInv, SlotTypes
<1>8. FdOwnership'
  <2>1. ClientFds' = ClientFds
    BY <1>1 DEF ClientFds
  <2>2. fd # NULL => fd \notin ClientFds
    BY <1>2 DEF IInv, FdOwnership
  <2>3. pc = "exit" /\ listen_fd # NULL => listen_fd # signal_fd
    BY DEF IInv, FdOwnership
  <2>4. open' = (ClientFds' \cup {listen_fd', signal_fd'}) \ {NULL}
    BY <2>1, <2>2, <2>3, <1>1, <1>2 DEF IInv, FdOwnership
  <2> QED
    BY <2>1, <2>4, <1>1, <1>2 DEF IInv, FdOwnership
<1>9. PendingEventsValid' /\ EventsSeparate'
  BY <1>1, ELoopAssumption DEF PendingEventsValid, EventsSeparate, NoEvent
<1>10. CollectorSound'
  BY <1>1, <1>2 DEF IInv, CollectorSound, Scheduled
<1>11. Startup'
  BY <1>1, <1>2 DEF Startup
<1> QED
  BY <1>4, <1>5, <1>6, <1>7, <1>8, <1>9, <1>10, <1>11 DEF IInv, WatchTable

-----------------------------------------------------------------------------
(* The inductive invariant.                                                *)

\* main starts in the invariant.
LEMMA InitIInv == Init => IInv
<1> SUFFICES ASSUME Init
             PROVE  IInv
  OBVIOUS
<1>1. /\ loop \in LoopRecord /\ loop.list = {}
      /\ \A e \in Ecs : loop.ec[e].datas = NoDatas
      /\ \A fd \in Fds : loop.ptr[fd] = NULL
  BY DEF Init, event_loop_new, ZeroEc, NoDatas, LoopRecord, EcRecord
<1>2. FreeConn \in ConnRecord /\ FreeConn.fd = NULL /\ FreeConn.st = "free"
  BY ServerAssumption DEF FreeConn, ConnRecord
<1>3. \A c \in Conns : conn[c] = FreeConn
  BY DEF Init
<1>4. TypeOK
  <2>1. conn \in [Conns -> ConnRecord]
    BY <1>2 DEF Init
  <2>2. entries \in Seq(Conns)
    BY DEF Init
  <2>3. /\ pc \in Pcs /\ running \in BOOLEAN
        /\ batch \subseteq EventRecord /\ cur \in EventRecord \cup {NoEvent}
        /\ open \subseteq Fds /\ rx \subseteq Fds /\ hup \subseteq Fds /\ rst \subseteq Fds
        /\ listen_fd \in Fds \cup {NULL} /\ signal_fd \in Fds \cup {NULL}
        /\ backlog \in BOOLEAN /\ sig \in BOOLEAN
    BY DEF Init, Pcs
  <2> QED
    BY <1>1, <2>1, <2>2, <2>3 DEF TypeOK
<1>5. WatchTable
  <2>1. UniqueWatch(loop) /\ LinkedCell(loop)
    BY <1>1 DEF UniqueWatch, LinkedCell
  <2>2. FreedCell(loop)
    BY <1>1 DEF FreedCell
  <2>3. KernelCell(loop)
    BY <1>1 DEF KernelCell
  <2> QED
    BY <2>1, <2>2, <2>3 DEF WatchTable, WatchTableOk
<1>6. CalleesAreLive /\ SlotTypes
  BY <1>1 DEF CalleesAreLive, SlotTypes
<1>7. FdOwnership
  <2>1. ClientFds = {}
    BY <1>2, <1>3 DEF ClientFds
  <2> QED
    BY <2>1, <1>2, <1>3 DEF Init, FdOwnership
<1>8. PendingEventsValid /\ EventsSeparate
  BY ELoopAssumption DEF Init, PendingEventsValid, EventsSeparate, NoEvent
<1>9. CollectorSound
  BY <1>2, <1>3 DEF Init, CollectorSound, Scheduled
<1>10. Startup
  BY <1>1, <1>2, <1>3 DEF Init, Startup
<1> QED
  BY <1>4, <1>5, <1>6, <1>7, <1>8, <1>9, <1>10 DEF IInv

\* A step that changes nothing, Finished among them.
LEMMA StutterStep ==
    ASSUME IInv, UNCHANGED vars
    PROVE  IInv'
<1>1. WatchTable' /\ CalleesAreLive' /\ SlotTypes' /\ FdOwnership'
  BY TableFrame DEF vars
<1>2. TypeOK'
  BY DEF vars, IInv, TypeOK
<1>3. PendingEventsValid' /\ EventsSeparate'
  BY DEF vars, IInv, PendingEventsValid, EventsSeparate
<1>4. CollectorSound'
  BY DEF vars, IInv, CollectorSound, Scheduled
<1>5. Startup'
  BY DEF vars, IInv, Startup
<1> QED
  BY <1>1, <1>2, <1>3, <1>4, <1>5 DEF IInv

\* Every step of the program, the peers and the kernel keeps it.
LEMMA NextIInv == IInv /\ [Next]_vars => IInv'
<1> SUFFICES ASSUME IInv, [Next]_vars
             PROVE  IInv'
  OBVIOUS
<1>1. CASE Environment
  BY <1>1, EnvironmentStep
<1>2. CASE SignalHandlerNew
  BY <1>2, SignalHandlerStep
<1>3. CASE TcpServerStartListen
  BY <1>3, StartListenStep
<1>4. CASE \E wr \in SUBSET ClientFds : \E chosen \in SUBSET Fds : EpollWait(chosen, wr)
  BY <1>4, EpollWaitStep
<1>5. CASE LeaveLoop \/ EpollInterrupted \/ \E ev \in batch : TakeEvent(ev)
  BY <1>5, LoopStep
<1>6. CASE NoCallback \/ OnSignal \/ \E c \in Conns : OnRead(c)
  BY <1>6, QuietCallback
<1>7. CASE OnIncomingConnection
  BY <1>7, AcceptStep
<1>8. CASE \E c \in Conns : OnWrite(c)
  BY <1>8, WriteStep
<1>9. CASE \E c \in Conns : OnClose(c)
  BY <1>9, ClosingCallback, ClosedRecord DEF OnClose
<1>10. CASE Collect
  BY <1>10, CollectStep
<1>11. CASE CollectDone
  BY <1>11, CollectDoneStep
<1>12. CASE HttpServerDestroy \/ SignalHandlerDestroy
  BY <1>12, StopStep
<1>13. CASE UNCHANGED vars
  BY <1>13, StutterStep
<1> QED
  BY <1>1, <1>2, <1>3, <1>4, <1>5, <1>6, <1>7, <1>8, <1>9, <1>10, <1>11, <1>12, <1>13
     DEF Next, LoopThread, Finished

\* Hence it holds always.
LEMMA Invariance == Spec => []IInv
  BY InitIInv, NextIInv, PTL DEF Spec

-----------------------------------------------------------------------------
(* The theorems.                                                           *)

\* Every variable keeps its type: in particular every cell and fd the loop
\* and the connections hold is one that exists.
THEOREM TypeCorrect == Spec => []TypeOK
<1>1. IInv => TypeOK
  BY DEF IInv
<1> QED
  BY Invariance, <1>1, PTL

\* Whatever callbacks add, remove and fail to add (eloop.c:156-231), the
\* pointers the kernel holds are linked cells of the same fd and events, and
\* a freed cell calls nothing.
THEOREM WatchTableSound == Spec => []WatchTable
<1>1. IInv => WatchTable
  BY DEF IInv
<1> QED
  BY Invariance, <1>1, PTL

\* No callback runs on a freed connection, or on one that no longer owns the
\* fd of the cell (eloop.c:90-100).
THEOREM CallbacksRunOnLiveObjects == Spec => []CalleesAreLive
<1>1. IInv => CalleesAreLive
  BY DEF IInv
<1> QED
  BY Invariance, <1>1, PTL

\* Every open fd has one owner and every owner's fd is open, so the second
\* close of a connection, in tcp_connection_destroy (tcpconnection.c:58-66),
\* can hit no other client's fd.
THEOREM FdsHaveOneOwner == Spec => []FdOwnership
<1>1. IInv => FdOwnership
  BY DEF IInv
<1> QED
  BY Invariance, <1>1, PTL

\* The events still to be dispatched in a batch (eloop.c:88-100) are never
\* invalidated by the callbacks dispatched before them.
THEOREM BatchStaysValid == Spec => []PendingEventsValid
<1>1. IInv => PendingEventsValid
  BY DEF IInv
<1> QED
  BY Invariance, <1>1, PTL

\* An object is in the collector's list once and while it is allocated, and
\* a closed connection is in it unless an allocation failed
\* (collector.c:57-102).
THEOREM CollectorListSound == Spec => []CollectorSound
<1>1. IInv => CollectorSound
  BY DEF IInv
<1> QED
  BY Invariance, <1>1, PTL

\* The five together, as they are checked where calls fail: no failure of
\* epoll_ctl, accept4 or an allocation (eloop.c, tcpserver.c) breaks one.
THEOREM SoundAlways == Spec => []Sound
BY WatchTableSound, CallbacksRunOnLiveObjects, FdsHaveOneOwner, BatchStaysValid,
   CollectorListSound, PTL DEF Sound

-----------------------------------------------------------------------------
(* Nobody is stranded.                                                     *)

\* Without failures of the system every connection that has an fd is owned by
\* an HTTPConnection and watched for all three events, wherever the thread is:
\* NobodyStranded speaks of the points where the loop waits, when no closed
\* connection is left (CollectorSound).
Watched ==
    ~Faulty /\ pc # "done" =>
    \A c \in Conns :
        conn[c].st # "free" =>
            /\ conn[c].st = "http"
            /\ conn[c].fd # NULL => loop.mask[conn[c].fd] = Types

\* When allocations do not fail, there is a cell for a new fd: the linked
\* cells are of different open fds, so they are fewer than the fds.
LEMMA CellForNewFd ==
    ASSUME IInv, pc # "aborted", ~Faulty, NEW fd \in Fds \ open
    PROVE  Cells(loop, fd) # {}
<1>1. /\ loop.list \subseteq Ecs
      /\ \A e \in loop.list : loop.ec[e].fd \in Fds \ {fd}
      /\ \A e1, e2 \in loop.list : loop.ec[e1].fd = loop.ec[e2].fd => e1 = e2
  BY LinkedFdsOpen
     DEF IInv, TypeOK, LoopRecord, WatchTable, WatchTableOk, UniqueWatch, LinkedCell
<1>2. Cells(loop, fd) = Ecs \ loop.list
  BY NewFdHasNoCell DEF Cells
<1>3. ASSUME Ecs = loop.list
      PROVE  FALSE
  <2> DEFINE f == [e \in Ecs |-> loop.ec[e].fd]
  <2>1. f \in Injection(Ecs, Fds \ {fd})
    BY <1>1, <1>3 DEF Injection, IsInjective
  <2>2. /\ IsFiniteSet(Fds) /\ Cardinality(Fds) \in Nat
        /\ IsFiniteSet(Ecs) /\ Cardinality(Ecs) \in Nat
        /\ Cardinality(Fds) <= Cardinality(Ecs)
    BY MemoryAssumption, FS_CardinalityType
  <2>3. IsFiniteSet(Fds \ {fd}) /\ Cardinality(Fds \ {fd}) = Cardinality(Fds) - 1
    BY <2>2, FS_RemoveElement
  <2>4. Cardinality(Ecs) <= Cardinality(Fds \ {fd})
    BY <2>1, <2>3, FS_Injection
  <2> QED
    BY <2>2, <2>3, <2>4
<1> QED
  BY <1>1, <1>2, <1>3

\* A step closes or frees a client, or leaves it its object, its fd and what
\* the kernel watches of it.
ClientKept(c) ==
    /\ conn'[c].st \in {"free", conn[c].st}
    /\ conn'[c].fd # NULL =>
        /\ conn'[c].st = conn[c].st /\ conn'[c].fd = conn[c].fd
        /\ loop'.mask[conn[c].fd] = loop.mask[conn[c].fd]

\* tcp_connection_close takes away the watches of its own fd only.
LEMMA CloseKeepsMasks ==
    ASSUME IInv, NEW c \in Conns, NEW after \in ConnRecord, after.fd = NULL,
           after.st \in {"free", conn[c].st}, tcp_connection_close(c, after)
    PROVE  \A d \in Conns : ClientKept(d)
<1>1. /\ conn \in [Conns -> ConnRecord]
      /\ loop \in LoopRecord /\ WatchTableOk(loop)
      /\ conn[c].fd \in Fds \cup {NULL}
  BY DEF IInv, TypeOK, WatchTable, ConnRecord
<1>2. /\ conn'[c] = after
      /\ \A d \in Conns \ {c} : conn'[d] = conn[d]
  BY <1>1 DEF tcp_connection_close
<1>3. \A g \in Fds : g # conn[c].fd => loop'.mask[g] = loop.mask[g]
  <2>1. CASE conn[c].fd = NULL
    BY <2>1 DEF tcp_connection_close
  <2>2. CASE conn[c].fd # NULL
    <3>1. loop' = Unwatched(loop, conn[c].fd) /\ conn[c].fd \in Fds
      BY <2>2, <1>1 DEF tcp_connection_close
    <3> QED
      BY <3>1, <1>1, UnwatchedFd
  <2> QED
    BY <2>1, <2>2
<1>4. \A d \in Conns \ {c} :
            conn[d].fd # NULL => conn[d].fd \in Fds /\ conn[d].fd # conn[c].fd
  BY <1>1 DEF IInv, FdOwnership, ConnRecord
<1>5. \A d \in Conns \ {c} : ClientKept(d)
  BY <1>2, <1>3, <1>4 DEF ClientKept
<1> QED
  BY <1>2, <1>5 DEF ClientKept

\* Every step but the one that accepts a client, and the end.
LEMMA ClientsKept ==
    ASSUME IInv, [Next]_vars, ~OnIncomingConnection, ~CollectDone
    PROVE  \A c \in Conns : ClientKept(c)
<1>1. /\ conn \in [Conns -> ConnRecord]
      /\ loop \in LoopRecord /\ WatchTableOk(loop)
      /\ \A c \in Conns : conn[c].fd \in Fds \cup {NULL}
  BY DEF IInv, TypeOK, WatchTable, ConnRecord
<1>2. CASE UNCHANGED <<loop, conn>>
  BY <1>2 DEF ClientKept
<1>3. CASE \E d \in Conns : OnRead(d)
  <2>1. PICK d \in Conns : OnRead(d)
    BY <1>3
  <2>2. loop' = loop
    BY <2>1 DEF OnRead
  <2>3. \A c \in Conns : conn'[c].st = conn[c].st /\ conn'[c].fd = conn[c].fd
    <3>1. CASE UNCHANGED conn
      BY <3>1
    <3>2. CASE \E p \in conn[d].pending .. MaxPending, last \in BOOLEAN :
                  conn' = [conn EXCEPT ![d].pending = p, ![d].last = last]
      BY <3>2, <1>1 DEF ConnRecord
    <3> QED
      BY <2>1, <3>1, <3>2 DEF OnRead
  <2> QED
    BY <2>2, <2>3 DEF ClientKept
<1>4. CASE \E d \in Conns : OnWrite(d) \/ OnClose(d)
  <2>1. PICK d \in Conns : OnWrite(d) \/ OnClose(d)
    BY <1>4
  <2>2. CASE \E after \in ConnRecord : /\ after.fd = NULL /\ after.st = conn[d].st
                                      /\ tcp_connection_close(d, after)
    BY <2>2, CloseKeepsMasks
  <2>3. CASE \/ tcp_connection_close(d, [conn[d] EXCEPT !.fd = NULL])
             \/ /\ conn[d].pending > 1
                /\ tcp_connection_close(d, [conn[d] EXCEPT !.fd = NULL,
                                                          !.pending = conn[d].pending - 1])
    BY <2>2, <2>3, ClosedRecord
  <2>4. CASE UNCHANGED loop /\ conn' = [conn EXCEPT ![d].pending = conn[d].pending - 1]
    <3>1. \A c \in Conns : conn'[c].st = conn[c].st /\ conn'[c].fd = conn[c].fd
      BY <2>4, <1>1 DEF ConnRecord
    <3> QED
      BY <2>4, <3>1 DEF ClientKept
  <2> QED
    BY <2>1, <2>3, <2>4, <1>2 DEF OnWrite, OnClose
<1>5. CASE Collect
  <2>1. FreeConn \in ConnRecord /\ FreeConn.fd = NULL /\ FreeConn.st = "free"
    BY ServerAssumption DEF FreeConn, ConnRecord
  <2>2. Head(entries) \in Conns /\ tcp_connection_close(Head(entries), FreeConn)
    BY <1>5 DEF Collect, IInv, TypeOK
  <2> QED
    BY <2>1, <2>2, CloseKeepsMasks
<1>6. CASE SignalHandlerNew \/ TcpServerStartListen
  <2>1. \A c \in Conns : conn'[c].fd = NULL /\ conn'[c].st = conn[c].st
    BY <1>6, <1>1 DEF SignalHandlerNew, TcpServerStartListen, IInv, Startup
  <2> QED
    BY <2>1 DEF ClientKept
<1>7. CASE HttpServerDestroy \/ SignalHandlerDestroy
  <2>1. conn' = conn
    BY <1>7 DEF HttpServerDestroy, SignalHandlerDestroy
  <2>2. \/ loop' = loop
        \/ \E g \in {listen_fd, signal_fd} :
                /\ g # NULL
                /\ loop' = kernel_close(event_loop_remove_fd_watch(loop, g, "READ"), g)
    BY <1>7, ServerAssumption, ELoopAssumption
       DEF HttpServerDestroy, SignalHandlerDestroy, IInv, Startup
  <2>3. ASSUME NEW g \in {listen_fd, signal_fd}, g # NULL,
               loop' = kernel_close(event_loop_remove_fd_watch(loop, g, "READ"), g)
        PROVE  \A c \in Conns : ClientKept(c)
    <3> DEFINE l1 == event_loop_remove_fd_watch(loop, g, "READ")
    <3>1. g \in Fds /\ "READ" \in Types
      BY <2>3 DEF IInv, TypeOK, Types
    <3>2. /\ l1 \in LoopRecord /\ WatchTableOk(l1)
          /\ \A h \in Fds \ {g} : l1.mask[h] = loop.mask[h]
      BY <3>1, <1>1, RemoveWatch
    <3> HIDE DEF l1
    <3>3. loop' = kernel_close(l1, g)
      BY <2>3 DEF l1
    <3>4. \A h \in Fds \ {g} : loop'.mask[h] = l1.mask[h]
      BY <3>1, <3>2, <3>3, KernelClose
    <3>5. \A c \in Conns : conn[c].fd # NULL => conn[c].fd \in Fds \ {g}
      BY <2>3, <1>1 DEF IInv, FdOwnership, ClientFds
    <3> QED
      BY <2>1, <3>2, <3>4, <3>5 DEF ClientKept
  <2> QED
    BY <1>2, <2>1, <2>2, <2>3
<1>8. CASE Environment
  BY <1>2, <1>8 DEF Environment, Connect, Signal, PeerSend, PeerShutdown, PeerReset
<1>9. CASE \/ LeaveLoop \/ EpollInterrupted \/ NoCallback \/ OnSignal
           \/ \E wr \in SUBSET ClientFds : \E chosen \in SUBSET Fds : EpollWait(chosen, wr)
           \/ \E ev \in batch : TakeEvent(ev)
  BY <1>2, <1>9 DEF LeaveLoop, EpollInterrupted, NoCallback, OnSignal, EpollWait, TakeEvent
<1>10. CASE UNCHANGED vars
  BY <1>2, <1>10 DEF vars
<1> QED
  BY <1>3, <1>4, <1>5, <1>6, <1>7, <1>8, <1>9, <1>10
     DEF Next, LoopThread, Finished

\* Every step.
LEMMA WatchedStep ==
    ASSUME IInv, Watched, [Next]_vars
    PROVE  Watched'
<1>1. /\ conn \in [Conns -> ConnRecord]
      /\ loop \in LoopRecord /\ WatchTableOk(loop)
      /\ \A c \in Conns : conn[c].fd \in Fds \cup {NULL}
  BY DEF IInv, TypeOK, WatchTable, ConnRecord
<1>2. CASE UNCHANGED <<loop, conn>> /\ (pc' # "done" => pc # "done")
  BY <1>2 DEF Watched
<1>3. CASE CollectDone
  BY <1>3 DEF CollectDone, Collecting, Watched
<1>4. CASE OnIncomingConnection
  <2>1. pc # "done" /\ pc # "aborted" /\ pc' = pc
    BY <1>4 DEF OnIncomingConnection, Dispatching
  <2>2. CASE Faulty
    BY <2>2 DEF Watched
  <2>3. CASE ~Faulty /\ ~UNCHANGED <<loop, conn>>
    <3>1. PICK fd \in FreeFds, c \in FreeConns :
              /\ conn' = [conn EXCEPT ![c] = NewConn("http", fd)]
              /\ \/ \E e \in Cells(loop, fd), ret \in CtlResults :
                      /\ AddMayReturn(ret)
                      /\ loop' = tcp_connection_set_callbacks(loop, fd, c, e, ret)
                 \/ Cells(loop, fd) = {}
      BY <1>4, <2>3 DEF OnIncomingConnection
    <3>2. /\ fd \in Fds \ open /\ fd # NULL
          /\ c \in Conns /\ c \in Owners
      BY <3>1, ELoopAssumption, ServerAssumption DEF FreeFds, FreeConns
    <3>3. PICK e \in Cells(loop, fd) :
              loop' = tcp_connection_set_callbacks(loop, fd, c, e, 0)
      BY <3>1, <3>2, <2>1, <2>3, CellForNewFd DEF AddMayReturn
    <3>4. loop'.mask[fd] = Types /\ \A g \in Fds \ {fd} : loop'.mask[g] = loop.mask[g]
      <4>1. Found(loop, fd) = {} /\ 0 \in CtlResults
        BY <2>1, <3>2, NewFdHasNoCell DEF CtlResults
      <4> QED
        BY <3>2, <3>3, <4>1, <1>1, SetCallbacks
    <3>5. /\ conn'[c].st = "http" /\ conn'[c].fd = fd
          /\ \A d \in Conns \ {c} : conn'[d] = conn[d]
      BY <3>1, <3>2, <1>1 DEF NewConn
    <3>6. \A d \in Conns : conn[d].fd # NULL => conn[d].fd \in Fds \ {fd}
      BY <3>2, <1>1 DEF IInv, FdOwnership, ClientFds
    <3> QED
      BY <3>2, <3>4, <3>5, <3>6, <2>1 DEF Watched
  <2> QED
    BY <2>1, <2>2, <2>3, <1>2
<1>5. CASE ~OnIncomingConnection /\ ~CollectDone
  <2>1. pc' # "done" => pc # "done"
    BY <1>5 DEF Next, LoopThread, Finished, Environment, Connect, Signal, PeerSend, PeerShutdown,
                PeerReset, SignalHandlerNew, TcpServerStartListen, LeaveLoop, EpollInterrupted,
                NoCallback, OnSignal, EpollWait, TakeEvent, OnRead, OnWrite, OnClose, Collect,
                Collecting, HttpServerDestroy, SignalHandlerDestroy, vars
  <2> QED
    BY <1>5, <2>1, ClientsKept DEF Watched, ClientKept
<1> QED
  BY <1>3, <1>4, <1>5

\* Without failures of the system every connection the loop waits for is
\* watched for input, output and the peer's end (tcpconnection.c:69-90).
THEOREM NobodyIsStranded == Spec => []NobodyStranded
<1>1. Init => Watched
  BY DEF Init, Watched, FreeConn
<1>2. IInv /\ Watched /\ [Next]_vars => Watched'
  BY WatchedStep
<1>3. IInv /\ Watched => NobodyStranded
  <2> SUFFICES ASSUME IInv, Watched, pc = "wait", ~Faulty,
                      NEW c \in Conns, conn[c].st # "free"
               PROVE  loop.mask[conn[c].fd] = Types
    BY DEF NobodyStranded
  <2>1. conn[c].st = "http" /\ (conn[c].fd # NULL => loop.mask[conn[c].fd] = Types)
    BY DEF Watched
  <2>2. entries = <<>> /\ (conn[c].fd = NULL => c \in Scheduled)
    BY <2>1 DEF IInv, CollectorSound
  <2>3. Scheduled = {}
    BY <2>2 DEF Scheduled
  <2> QED
    BY <2>1, <2>2, <2>3
<1> QED
  BY Invariance, <1>1, <1>2, <1>3, PTL DEF Spec

-----------------------------------------------------------------------------
(* A client is watched as a whole or not at all.                           *)

\* Here calls may fail.  An fd is watched for all three events from the moment
\* tcp_connection_set_callbacks has got through, until it is closed; a new fd
\* has no cell, hence no bits in the kernel that are left of another client.
Whole ==
    /\ KernelMasks(loop)
    /\ \A c \in Conns : conn[c].fd # NULL => loop.mask[conn[c].fd] \in {{}, Types}

\* The three watches of a client: if the first fails the kernel knows none.
LEMMA SetCallbacksMasks ==
    ASSUME NEW l \in LoopRecord, WatchTableOk(l), KernelMasks(l), NEW fd \in Fds, NEW c \in Owners,
           Found(l, fd) = {}, NEW e \in Cells(l, fd), NEW ret \in CtlResults,
           NEW m, m = tcp_connection_set_callbacks(l, fd, c, e, ret)
    PROVE  KernelMasks(m) /\ (ret # 0 => m.mask = l.mask)
<1> DEFINE l1 == event_loop_add_fd_watch(l, fd, "READ", c, e, ret)
           l2 == event_loop_add_fd_watch(l1, fd, "WRITE", c, e, 0)
           l3 == event_loop_add_fd_watch(l2, fd, "CLOSE", c, e, 0)
<1>0. {"READ", "WRITE", "CLOSE"} = Types /\ e \in Ecs /\ 0 \in CtlResults
  BY DEF Types, Cells, CtlResults
<1>1. l1 \in LoopRecord /\ WatchTableOk(l1) /\ Cells(l1, fd) = {e}
  BY <1>0, AddWatch
<1>2. KernelMasks(l1) /\ (ret # 0 => l1.mask = l.mask)
  BY <1>0, AddMasks
<1>3. m = IF ret = 0 THEN l3 ELSE l1
  BY DEF tcp_connection_set_callbacks
<1> HIDE DEF l1
<1>4. l2 \in LoopRecord /\ WatchTableOk(l2) /\ KernelMasks(l2)
  <2>1. e \in Cells(l1, fd)
    BY <1>1
  <2> QED
    BY <1>0, <1>1, <1>2, <2>1, AddWatch, AddMasks
<1> HIDE DEF l2
<1>5. KernelMasks(l3)
  BY <1>0, <1>4, AddMasks
<1> QED
  BY <1>2, <1>3, <1>5

\* tcp_connection_close.
LEMMA UnwatchedMasks ==
    ASSUME NEW l \in LoopRecord, WatchTableOk(l), KernelMasks(l), NEW fd \in Fds
    PROVE  KernelMasks(Unwatched(l, fd))
<1> DEFINE l1 == event_loop_remove_fd_watch(l, fd, "READ")
           l2 == event_loop_remove_fd_watch(l1, fd, "WRITE")
           l3 == event_loop_remove_fd_watch(l2, fd, "CLOSE")
<1>0. {"READ", "WRITE", "CLOSE"} = Types
  BY DEF Types
<1>1. l1 \in LoopRecord /\ WatchTableOk(l1) /\ KernelMasks(l1)
  BY <1>0, RemoveWatch, RemoveMasks
<1>2. Unwatched(l, fd) = kernel_close(l3, fd)
  BY DEF Unwatched
<1> HIDE DEF l1
<1>3. l2 \in LoopRecord /\ WatchTableOk(l2) /\ KernelMasks(l2)
  BY <1>0, <1>1, RemoveWatch, RemoveMasks
<1> HIDE DEF l2
<1>4. l3 \in LoopRecord /\ KernelMasks(l3)
  BY <1>0, <1>3, RemoveWatch, RemoveMasks
<1> HIDE DEF l3
<1> QED
  BY <1>2, <1>4, CloseMasks

\* The kernel's bits, in every step.
LEMMA KernelMasksStep ==
    ASSUME IInv, KernelMasks(loop), [Next]_vars
    PROVE  KernelMasks(loop')
<1>1. loop \in LoopRecord /\ WatchTableOk(loop)
  BY DEF IInv, TypeOK, WatchTable
<1>2. CASE loop' = loop
  BY <1>2
<1>3. ASSUME NEW fd \in Fds, NEW d, NEW ret, NEW e \in Cells(loop, fd),
             loop' = event_loop_add_fd_watch(loop, fd, "READ", d, e, ret)
      PROVE  KernelMasks(loop')
  <2>1. e \in Ecs
    BY <1>1, FindCallback DEF Cells, Found, LoopRecord, WatchTableOk
  <2> QED
    BY <1>1, <1>3, <2>1, AddMasks
<1>4. CASE SignalHandlerNew \/ TcpServerStartListen
  BY <1>2, <1>3, <1>4, ServerAssumption DEF SignalHandlerNew, TcpServerStartListen
<1>5. ASSUME NEW c \in Conns, NEW after, tcp_connection_close(c, after)
      PROVE  KernelMasks(loop')
  <2>1. conn[c].fd # NULL => conn[c].fd \in Fds
    BY DEF IInv, TypeOK, ConnRecord
  <2> QED
    BY <1>1, <1>2, <1>5, <2>1, UnwatchedMasks DEF tcp_connection_close
<1>6. CASE Collect
  <2>1. Head(entries) \in Conns
    BY <1>6 DEF Collect, IInv, TypeOK
  <2> QED
    BY <1>5, <1>6, <2>1 DEF Collect
<1>7. CASE \E c \in Conns : OnRead(c) \/ OnWrite(c) \/ OnClose(c)
  BY <1>2, <1>5, <1>7 DEF OnRead, OnWrite, OnClose
<1>8. CASE OnIncomingConnection
  <2>1. ASSUME NEW fd \in FreeFds, NEW c \in FreeConns, NEW e \in Cells(loop, fd),
               NEW ret \in CtlResults,
               loop' = tcp_connection_set_callbacks(loop, fd, c, e, ret)
        PROVE  KernelMasks(loop')
    <3>1. fd \in Fds \ open /\ c \in Owners /\ Found(loop, fd) = {}
      BY <1>8, ServerAssumption, NewFdHasNoCell
         DEF FreeFds, FreeConns, OnIncomingConnection, Dispatching
    <3> QED
      BY <1>1, <2>1, <3>1, SetCallbacksMasks
  <2> QED
    BY <1>2, <1>8, <2>1 DEF OnIncomingConnection
<1>9. ASSUME NEW fd \in Fds, loop' = kernel_close(event_loop_remove_fd_watch(loop, fd, "READ"), fd)
      PROVE  KernelMasks(loop')
  <2> DEFINE l1 == event_loop_remove_fd_watch(loop, fd, "READ")
  <2>1. l1 \in LoopRecord /\ KernelMasks(l1)
    BY <1>1, RemoveWatch, RemoveMasks DEF Types
  <2> QED
    BY <1>9, <2>1, CloseMasks
<1>10. CASE HttpServerDestroy \/ SignalHandlerDestroy
  <2>1. (listen_fd # NULL => listen_fd \in Fds) /\ (pc = "exit_signals" => signal_fd \in Fds)
    BY ServerAssumption DEF IInv, TypeOK, Startup
  <2> QED
    BY <1>2, <1>9, <1>10, <2>1 DEF HttpServerDestroy, SignalHandlerDestroy
<1>11. CASE CollectDone
  <2>1. KernelMasks(epoll_close(loop))
    BY <1>1 DEF epoll_close, KernelMasks, LoopRecord
  <2> QED
    BY <1>2, <1>11, <2>1 DEF CollectDone
<1>12. CASE Environment \/ UNCHANGED vars
  BY <1>2, <1>12 DEF Environment, Connect, Signal, PeerSend, PeerShutdown, PeerReset, vars
<1>13. CASE \/ LeaveLoop \/ EpollInterrupted \/ NoCallback \/ OnSignal
            \/ \E wr \in SUBSET ClientFds : \E chosen \in SUBSET Fds : EpollWait(chosen, wr)
            \/ \E ev \in batch : TakeEvent(ev)
  BY <1>2, <1>13 DEF LeaveLoop, EpollInterrupted, NoCallback, OnSignal, EpollWait, TakeEvent
<1> QED
  BY <1>4, <1>6, <1>7, <1>8, <1>10, <1>11, <1>12, <1>13 DEF Next, LoopThread, Finished

LEMMA WholeStep ==
    ASSUME IInv, Whole, [Next]_vars
    PROVE  Whole'
<1>1. /\ conn \in [Conns -> ConnRecord]
      /\ loop \in LoopRecord /\ WatchTableOk(loop)
      /\ \A c \in Conns : conn[c].fd \in Fds \cup {NULL}
  BY DEF IInv, TypeOK, WatchTable, ConnRecord
<1>2. KernelMasks(loop')
  BY KernelMasksStep DEF Whole
<1>3. CASE OnIncomingConnection
  <2>1. CASE UNCHANGED <<loop, conn>>
    BY <1>2, <2>1 DEF Whole
  <2>2. ASSUME NEW fd \in FreeFds, NEW c \in FreeConns, NEW st \in {"tcp", "http"},
               conn' = [conn EXCEPT ![c] = NewConn(st, fd)],
               \/ \E e \in Cells(loop, fd), ret \in CtlResults :
                    loop' = tcp_connection_set_callbacks(loop, fd, c, e, ret)
               \/ loop' = loop
        PROVE  Whole'
    <3>1. /\ fd \in Fds \ open /\ fd # NULL /\ c \in Conns /\ c \in Owners
          /\ Found(loop, fd) = {}
      BY <1>3, ELoopAssumption, ServerAssumption, NewFdHasNoCell
         DEF FreeFds, FreeConns, OnIncomingConnection, Dispatching
    <3>2. loop.mask[fd] = {}
      <4>1. loop.ptr[fd] = NULL
        BY <3>1, <1>1 DEF WatchTableOk, KernelCell, Found
      <4> QED
        BY <3>1, <4>1 DEF Whole, KernelMasks
    <3>3. loop'.mask[fd] \in {{}, Types} /\ \A g \in Fds \ {fd} : loop'.mask[g] = loop.mask[g]
      <4>1. ASSUME NEW e \in Cells(loop, fd), NEW ret \in CtlResults,
                   loop' = tcp_connection_set_callbacks(loop, fd, c, e, ret)
            PROVE  loop'.mask[fd] \in {{}, Types} /\ \A g \in Fds \ {fd} : loop'.mask[g] = loop.mask[g]
        <5>1. \A g \in Fds \ {fd} : loop'.mask[g] = loop.mask[g]
          BY <1>1, <3>1, <4>1, SetCallbacks
        <5>2. ret = 0 => loop'.mask[fd] = Types
          BY <1>1, <3>1, <4>1, SetCallbacks
        <5>3. ret # 0 => loop'.mask = loop.mask
          BY <1>1, <3>1, <4>1, SetCallbacksMasks DEF Whole
        <5> QED
          BY <3>2, <5>1, <5>2, <5>3
      <4> QED
        BY <2>2, <3>2, <4>1
    <3>4. /\ conn'[c].fd = fd
          /\ \A d \in Conns \ {c} : conn'[d] = conn[d]
      BY <2>2, <3>1, <1>1 DEF NewConn
    <3>5. \A d \in Conns : conn[d].fd # NULL => conn[d].fd \in Fds \ {fd}
      BY <3>1, <1>1 DEF IInv, FdOwnership, ClientFds
    <3>6. ASSUME NEW d \in Conns, conn'[d].fd # NULL
          PROVE  loop'.mask[conn'[d].fd] \in {{}, Types}
      <4>1. CASE d = c
        BY <3>3, <3>4, <4>1
      <4>2. CASE d # c
        <5>1. conn'[d].fd = conn[d].fd /\ conn[d].fd \in Fds \ {fd}
          BY <3>4, <3>5, <3>6, <4>2
        <5>2. loop.mask[conn[d].fd] \in {{}, Types}
          BY <3>6, <5>1 DEF Whole
        <5> QED
          BY <3>3, <5>1, <5>2
      <4> QED
        BY <4>1, <4>2
    <3> QED
      BY <1>2, <3>6 DEF Whole
  <2> QED
    BY <1>3, <2>1, <2>2 DEF OnIncomingConnection
<1>4. CASE CollectDone
  <2>1. conn' = conn /\ (loop' = loop \/ loop' = epoll_close(loop))
    BY <1>4 DEF CollectDone
  <2>2. \A g \in Fds : epoll_close(loop).mask[g] = {}
    BY <1>1 DEF epoll_close, LoopRecord
  <2>3. \A c \in Conns : conn[c].fd # NULL => conn[c].fd \in Fds
    BY <1>1
  <2> QED
    BY <1>2, <2>1, <2>2, <2>3 DEF Whole
<1>5. CASE ~OnIncomingConnection /\ ~CollectDone
  BY <1>2, <1>5, ClientsKept DEF Whole, ClientKept
<1> QED
  BY <1>3, <1>4, <1>5

\* Whatever call fails, the kernel does not know a client's fd, or reports all
\* three events of it, each to the client's own connection
\* (tcpconnection.c:143-159).
THEOREM ClientsWatchedWhole == Spec => []WatchedWhole
<1>1. Init => Whole
  BY DEF Init, Whole, KernelMasks, event_loop_new, FreeConn
<1>2. IInv /\ Whole /\ [Next]_vars => Whole'
  BY WholeStep
<1>3. IInv /\ Whole => WatchedWhole
  <2> SUFFICES ASSUME IInv, Whole, NEW c \in Conns, NEW fd, fd = conn[c].fd,
                      fd # NULL, loop.mask[fd] # {}, NEW t \in Types
               PROVE  t \in loop.mask[fd] /\ loop.ec[loop.ptr[fd]].datas[t] = c
    BY DEF WatchedWhole
  <2> DEFINE e == loop.ptr[fd]
             d == loop.ec[e].datas[t]
  <2>1. fd \in Fds /\ loop.mask[fd] = Types /\ e # NULL
    BY DEF IInv, TypeOK, ConnRecord, Whole, KernelMasks
  <2>2. e \in loop.list /\ loop.ec[e].fd = fd /\ loop.mask[fd] = loop.ec[e].events
    BY <2>1 DEF IInv, WatchTable, WatchTableOk, KernelCell
  <2>3. d # NULL
    BY <2>1, <2>2 DEF IInv, WatchTable, WatchTableOk, LinkedCell
  <2>4. d \in Conns \cup {TcpServer, SignalHandler}
    <3>1. loop.ec[e] \in EcRecord
      BY <2>2 DEF IInv, TypeOK, LoopRecord
    <3> QED
      BY <2>3, <3>1, ServerAssumption DEF EcRecord
  <2>5. /\ d \in Conns => conn[d].fd = fd
        /\ d = TcpServer => listen_fd = fd
        /\ d = SignalHandler => signal_fd = fd
    <3>1. pc # "aborted"
      BY DEF IInv, Startup
    <3> QED
      BY <2>2, <3>1 DEF IInv, CalleesAreLive
  <2>6. fd \in ClientFds
    BY DEF ClientFds
  <2>7. d = c
    BY <2>4, <2>5, <2>6 DEF IInv, FdOwnership
  <2> QED
    BY <2>1, <2>7
<1> QED
  BY Invariance, <1>1, <1>2, <1>3, PTL DEF Spec

=============================================================================
