------------------------------- MODULE ELoop -------------------------------
(***************************************************************************)
(* The event loop's watch table (src/src/eloop.c): the heap cells that     *)
(* hold struct ELoopCallback, the list that links the allocated ones, and  *)
(* the kernel's epoll interest list, as operators on one record.           *)
(*                                                                         *)
(*   list   the cells linked in eloop->callbacks_list.  A cell is          *)
(*          allocated exactly while it is linked, so Ecs \ list is the     *)
(*          free heap; find_callback_by_fd only compares fds, and no two   *)
(*          linked cells have one fd (WatchTableOk), so the order of the   *)
(*          links is dropped.                                              *)
(*   ec     the contents of every cell, the free ones included: memory     *)
(*          stays readable after free() and event_loop_run does read it.   *)
(*   ptr    epoll_event.data.ptr the kernel holds for an fd, NULL when the *)
(*          fd is not in the interest list.                                *)
(*   mask   the event bits the kernel holds for an fd.                     *)
(*                                                                         *)
(* callbacks[t] and datas[t] are always assigned together and each owner   *)
(* has one callback per type, so datas[t] stands for both.                 *)
(***************************************************************************)
EXTENDS Integers

CONSTANTS
    Fds,      \* file descriptor numbers
    Ecs,      \* addresses of struct ELoopCallback cells
    Owners,   \* objects passed as callback data
    NULL      \* the null pointer, and the fd -1

ASSUME ELoopAssumption ==
    /\ NULL \notin Fds
    /\ NULL \notin Ecs
    /\ NULL \notin Owners

\* enum ELoopWatchFdCallbackType; the type is also the epoll bit it maps to
\* (eloop_callback_type_to_epoll_event: EPOLLIN, EPOLLOUT, EPOLLRDHUP).
Types == {"READ", "WRITE", "CLOSE"}

\* What epoll_ctl returns.
CtlResults == {0, -1}

NoDatas == [t \in Types |-> NULL]

\* What calloc returns.
ZeroEc == [fd |-> NULL, events |-> {}, datas |-> NoDatas]

EcRecord == [fd : Fds \cup {NULL}, events : SUBSET Types,
             datas : [Types -> Owners \cup {NULL}]]

LoopRecord == [list : SUBSET Ecs, ec : [Ecs -> EcRecord],
               ptr : [Fds -> Ecs \cup {NULL}], mask : [Fds -> SUBSET Types]]

event_loop_new ==
    [list |-> {}, ec |-> [e \in Ecs |-> ZeroEc],
     ptr |-> [fd \in Fds |-> NULL], mask |-> [fd \in Fds |-> {}]]

-----------------------------------------------------------------------------
\* Mutant: the fd is not compared.
Found_any_fd(l, fd) == l.list

\* The cells of the list whose fd is fd: at most one.
Found(l, fd) == {e \in l.list : l.ec[e].fd = fd}

find_callback_by_fd(l, fd) ==
    IF Found(l, fd) = {} THEN NULL ELSE CHOOSE e \in Found(l, fd) : TRUE

\* The cells event_loop_add_fd_watch may write to: the one found, else any
\* free one (none: memory_create returns NULL and the call returns -1).
Cells(l, fd) == IF Found(l, fd) = {} THEN Ecs \ l.list
                                     ELSE {find_callback_by_fd(l, fd)}

\* Mutant: the event replaces those watched before.
Filled_overwrites(l, fd, t, d, e) ==
    LET old == IF e \in l.list THEN l.ec[e] ELSE ZeroEc
    IN  [fd |-> fd, events |-> {t}, datas |-> [old.datas EXCEPT ![t] = d]]

\* The cell e as event_loop_add_fd_watch leaves it.
Filled(l, fd, t, d, e) ==
    LET old == IF e \in l.list THEN l.ec[e] ELSE ZeroEc
    IN  [fd |-> fd, events |-> old.events \cup {t},
         datas |-> [old.datas EXCEPT ![t] = d]]

\* event_loop_add_fd_watch with the cell e of Cells(l, fd); ret is what
\* epoll_ctl returns.  When it fails the cell stays linked and filled.
event_loop_add_fd_watch(l, fd, t, d, e, ret) ==
    LET new == Filled(l, fd, t, d, e)
    IN  [list |-> l.list \cup {e},
         ec   |-> [l.ec EXCEPT ![e] = new],
         ptr  |-> IF ret = 0 THEN [l.ptr EXCEPT ![fd] = e] ELSE l.ptr,
         mask |-> IF ret = 0 THEN [l.mask EXCEPT ![fd] = new.events] ELSE l.mask]

\* Mutant: the callback slot is not cleared.
Cleared_keeps_slot(l, t, e) ==
    [l.ec[e] EXCEPT !.events = l.ec[e].events \ {t},
                    !.fd = IF l.ec[e].events = {t} THEN NULL ELSE l.ec[e].fd]

\* The cell e as event_loop_remove_fd_watch leaves it.  free() reuses the
\* first words of a freed cell, which hold fd and the event bits; the
\* callback slots behind them keep their contents.
Cleared(l, t, e) ==
    LET bits == l.ec[e].events \ {t}
    IN  [fd |-> IF bits = {} THEN NULL ELSE l.ec[e].fd,
         events |-> bits,
         datas  |-> [l.ec[e].datas EXCEPT ![t] = NULL]]

\* event_loop_remove_fd_watch: EPOLL_CTL_DEL, unlink and free when no event
\* bit is left, else EPOLL_CTL_MOD; nothing when no cell has this fd.
\* epoll_ctl fails with ENOENT when the kernel does not know the fd.
event_loop_remove_fd_watch(l, fd, t) ==
    LET e   == find_callback_by_fd(l, fd)
        new == Cleared(l, t, e)
        in_kernel == l.ptr[fd] # NULL
    IN  IF e = NULL THEN l
        ELSE [list |-> IF new.events = {} THEN l.list \ {e} ELSE l.list,
              ec   |-> [l.ec EXCEPT ![e] = new],
              ptr  |-> IF new.events = {} THEN [l.ptr EXCEPT ![fd] = NULL] ELSE l.ptr,
              mask |-> IF in_kernel THEN [l.mask EXCEPT ![fd] = new.events] ELSE l.mask]

\* close(fd): the kernel drops a closed fd from the interest list.
kernel_close(l, fd) ==
    [l EXCEPT !.ptr[fd] = NULL, !.mask[fd] = {}]

\* close(eloop->epollfd): the interest list goes with it.
epoll_close(l) ==
    [l EXCEPT !.ptr = [fd \in Fds |-> NULL], !.mask = [fd \in Fds |-> {}]]

-----------------------------------------------------------------------------
(***************************************************************************)
(* The watch table is sound: no two linked cells have one fd; a linked     *)
(* cell watches something and its event bits are its filled slots; the     *)
(* kernel's pointer for an fd is a linked cell of that same fd with the    *)
(* same bits, so epoll_wait never reports a freed or foreign cell          *)
(* (eloop.c:88); and every slot of a freed cell is NULL, so the reads of a *)
(* cell that its own CLOSE callback freed (eloop.c:94, 98) call nothing.   *)
(***************************************************************************)
UniqueWatch(l) ==
    \A e1, e2 \in l.list : l.ec[e1].fd = l.ec[e2].fd => e1 = e2

LinkedCell(l) ==
    \A e \in l.list :
        /\ l.ec[e].fd \in Fds
        /\ l.ec[e].events # {}
        /\ \A t \in Types : t \in l.ec[e].events <=> l.ec[e].datas[t] # NULL

FreedCell(l) ==
    \A e \in Ecs \ l.list : l.ec[e].datas = NoDatas

KernelCell(l) ==
    \A fd \in Fds :
        l.ptr[fd] # NULL => /\ l.ptr[fd] \in l.list
                            /\ l.ec[l.ptr[fd]].fd = fd
                            /\ l.mask[fd] = l.ec[l.ptr[fd]].events

WatchTableOk(l) ==
    /\ UniqueWatch(l)
    /\ LinkedCell(l)
    /\ FreedCell(l)
    /\ KernelCell(l)

=============================================================================
