---------------------------- MODULE ELoopProofs ----------------------------
(***************************************************************************)
(* What event_loop_add_fd_watch, event_loop_remove_fd_watch and close do   *)
(* to a sound watch table, for every set of fds, cells and owners.         *)
(***************************************************************************)
EXTENDS ELoop, TLAPS

\* When some linked cell has this fd, find_callback_by_fd returns it, and in
\* a sound table it is the only one.
LEMMA FindCallback ==
    ASSUME NEW l \in LoopRecord, UniqueWatch(l), NEW fd \in Fds
    PROVE  /\ Found(l, fd) = {} => find_callback_by_fd(l, fd) = NULL
           /\ Found(l, fd) # {} =>
                /\ find_callback_by_fd(l, fd) \in Found(l, fd)
                /\ find_callback_by_fd(l, fd) # NULL
                /\ Found(l, fd) = {find_callback_by_fd(l, fd)}
<1>1. Found(l, fd) = {} => find_callback_by_fd(l, fd) = NULL
  BY DEF find_callback_by_fd
<1>2. ASSUME Found(l, fd) # {}
      PROVE  find_callback_by_fd(l, fd) \in Found(l, fd)
  BY <1>2 DEF find_callback_by_fd
<1>3. Found(l, fd) \subseteq Ecs /\ NULL \notin Ecs
  BY ELoopAssumption DEF Found, LoopRecord
<1>4. \A e1, e2 \in Found(l, fd) : e1 = e2
  BY DEF Found, UniqueWatch
<1> QED
  BY <1>1, <1>2, <1>3, <1>4

\* A watch added with success, or as the first of its fd, keeps the table
\* sound and touches no other cell.
LEMMA AddWatch ==
    ASSUME NEW l \in LoopRecord, WatchTableOk(l),
           NEW fd \in Fds, NEW t \in Types, NEW d \in Owners,
           NEW e \in Cells(l, fd), NEW ret \in CtlResults,
           ret = 0 \/ Found(l, fd) = {},
           NEW m, m = event_loop_add_fd_watch(l, fd, t, d, e, ret)
    PROVE  /\ m \in LoopRecord
           /\ WatchTableOk(m)
           /\ m.list = l.list \cup {e}
           /\ m.ec[e].fd = fd
           /\ m.ec[e].datas[t] = d
           /\ \A u \in Types \ {t} :
                m.ec[e].datas[u] = IF e \in l.list THEN l.ec[e].datas[u] ELSE NULL
           /\ \A c \in Ecs \ {e} : m.ec[c] = l.ec[c]
           /\ Cells(m, fd) = {e}
           /\ \A g \in Fds \ {fd} : m.mask[g] = l.mask[g]
           /\ ret = 0 => m.mask[fd] = m.ec[e].events
<1> DEFINE new == Filled(l, fd, t, d, e)
<1>1. /\ e \in Ecs
      /\ e \in l.list => l.ec[e].fd = fd
      /\ e \notin l.list => Found(l, fd) = {}
      /\ Found(l, fd) \subseteq {e}
  <2>1. CASE Found(l, fd) = {}
    BY <2>1 DEF Cells, Found
  <2>2. CASE Found(l, fd) # {}
    <3>1. e = find_callback_by_fd(l, fd)
      BY <2>2 DEF Cells
    <3>2. e \in Found(l, fd) /\ Found(l, fd) = {e}
      BY <2>2, <3>1, FindCallback DEF WatchTableOk
    <3> QED
      BY <3>2 DEF Found, LoopRecord
  <2> QED
    BY <2>1, <2>2
<1>2. /\ new \in EcRecord
      /\ new.fd = fd
      /\ new.datas[t] = d
      /\ new.events # {}
      /\ \A u \in Types \ {t} :
            new.datas[u] = IF e \in l.list THEN l.ec[e].datas[u] ELSE NULL
      /\ \A u \in Types : u \in new.events <=> new.datas[u] # NULL
  <2>1. CASE e \in l.list
    <3>1. /\ l.ec[e] \in EcRecord
          /\ \A u \in Types : u \in l.ec[e].events <=> l.ec[e].datas[u] # NULL
      BY <2>1, <1>1 DEF LoopRecord, WatchTableOk, LinkedCell
    <3>2. new = [fd |-> fd, events |-> l.ec[e].events \cup {t},
                 datas |-> [l.ec[e].datas EXCEPT ![t] = d]]
      BY <2>1 DEF Filled
    <3> QED
      BY <2>1, <3>1, <3>2, ELoopAssumption DEF EcRecord
  <2>2. CASE e \notin l.list
    <3>1. new = [fd |-> fd, events |-> {t}, datas |-> [NoDatas EXCEPT ![t] = d]]
      BY <2>2 DEF Filled, ZeroEc
    <3> QED
      BY <2>2, <3>1, ELoopAssumption DEF EcRecord, NoDatas
  <2> QED
    BY <2>1, <2>2
<1> HIDE DEF new
<1>3. /\ m.list = l.list \cup {e}
      /\ m.ec = [l.ec EXCEPT ![e] = new]
      /\ m.ptr = IF ret = 0 THEN [l.ptr EXCEPT ![fd] = e] ELSE l.ptr
      /\ m.mask = IF ret = 0 THEN [l.mask EXCEPT ![fd] = new.events] ELSE l.mask
      /\ m = [list |-> m.list, ec |-> m.ec, ptr |-> m.ptr, mask |-> m.mask]
  BY DEF event_loop_add_fd_watch, new
<1>4. m.ec[e] = new /\ \A c \in Ecs \ {e} : m.ec[c] = l.ec[c]
  BY <1>1, <1>3 DEF LoopRecord
<1>5. m \in LoopRecord
  <2>1. m.list \in SUBSET Ecs
    BY <1>1, <1>3 DEF LoopRecord
  <2>2. m.ec \in [Ecs -> EcRecord]
    BY <1>1, <1>2, <1>3 DEF LoopRecord
  <2>3. m.ptr \in [Fds -> Ecs \cup {NULL}]
    BY <1>1, <1>3 DEF LoopRecord
  <2>4. new.events \in SUBSET Types
    BY <1>2 DEF EcRecord
  <2>5. m.mask \in [Fds -> SUBSET Types]
    BY <2>4, <1>3 DEF LoopRecord
  <2> QED
    BY <2>1, <2>2, <2>3, <2>5, <1>3 DEF LoopRecord
<1>6. UniqueWatch(m)
  <2>1. \A c \in l.list : c # e => l.ec[c].fd # fd
    BY <1>1 DEF Found, LoopRecord
  <2> QED
    BY <2>1, <1>2, <1>3, <1>4 DEF UniqueWatch, WatchTableOk, LoopRecord
<1>7. LinkedCell(m)
  BY <1>1, <1>2, <1>3, <1>4 DEF LinkedCell, WatchTableOk, LoopRecord
<1>8. FreedCell(m)
  BY <1>3, <1>4 DEF FreedCell, WatchTableOk
<1>9. KernelCell(m)
  <2> SUFFICES ASSUME NEW g \in Fds, m.ptr[g] # NULL
               PROVE  /\ m.ptr[g] \in m.list
                      /\ m.ec[m.ptr[g]].fd = g
                      /\ m.mask[g] = m.ec[m.ptr[g]].events
    BY DEF KernelCell
  <2>1. CASE g = fd /\ ret = 0
    <3>1. m.ptr = [l.ptr EXCEPT ![fd] = e] /\ m.mask = [l.mask EXCEPT ![fd] = new.events]
      BY <2>1, <1>3
    <3>2. m.ptr[g] = e /\ m.mask[g] = new.events
      BY <2>1, <3>1 DEF LoopRecord
    <3>3. e \in m.list /\ m.ec[e].fd = fd /\ m.ec[e].events = new.events
      BY <1>2, <1>3, <1>4
    <3>4. g = fd
      BY <2>1
    <3> QED
      BY <3>2, <3>3, <3>4
  <2>2. CASE g = fd /\ ret # 0
    <3>1. l.ptr[fd] # NULL
      BY <2>2, <1>3
    <3> QED
      BY <2>2, <3>1 DEF KernelCell, WatchTableOk, Found
  <2>3. CASE g # fd
    <3>1. m.ptr[g] = l.ptr[g] /\ m.mask[g] = l.mask[g]
      BY <2>3, <1>3 DEF LoopRecord
    <3>2. /\ l.ptr[g] \in l.list
          /\ l.ec[l.ptr[g]].fd = g
          /\ l.mask[g] = l.ec[l.ptr[g]].events
      BY <3>1 DEF KernelCell, WatchTableOk
    <3>3. l.ptr[g] # e
      BY <2>3, <3>2, <1>1
    <3> QED
      BY <3>1, <3>2, <3>3, <1>3, <1>4 DEF LoopRecord
  <2> QED
    BY <2>1, <2>2, <2>3
<1>10. Cells(m, fd) = {e}
  <2>1. e \in Found(m, fd)
    BY <1>2, <1>3, <1>4 DEF Found
  <2> QED
    BY <2>1, <1>5, <1>6, FindCallback DEF Cells
<1>11. /\ \A g \in Fds \ {fd} : m.mask[g] = l.mask[g]
       /\ ret = 0 => m.mask[fd] = m.ec[e].events
  BY <1>3, <1>4 DEF LoopRecord
<1> QED
  BY <1>2, <1>3, <1>4, <1>5, <1>6, <1>7, <1>8, <1>9, <1>10, <1>11 DEF WatchTableOk

\* Removing a watch keeps the table sound, leaves every cell of another fd as
\* it is, and leaves a cell of this fd only with the other slots.
LEMMA RemoveWatch ==
    ASSUME NEW l \in LoopRecord, WatchTableOk(l), NEW fd \in Fds, NEW t \in Types,
           NEW m, m = event_loop_remove_fd_watch(l, fd, t)
    PROVE  /\ m \in LoopRecord
           /\ WatchTableOk(m)
           /\ m.list \subseteq l.list
           /\ \A c \in l.list : l.ec[c].fd # fd => c \in m.list /\ m.ec[c] = l.ec[c]
           /\ \A c \in m.list :
                /\ m.ec[c].fd = l.ec[c].fd
                /\ l.ec[c].fd = fd => m.ec[c].events = l.ec[c].events \ {t}
           /\ \A g \in Fds \ {fd} : m.mask[g] = l.mask[g]
<1> DEFINE e == find_callback_by_fd(l, fd)
           new == Cleared(l, t, e)
<1>1. CASE Found(l, fd) = {}
  <2>1. m = l
    BY <1>1, FindCallback DEF event_loop_remove_fd_watch, WatchTableOk
  <2> QED
    BY <1>1, <2>1 DEF Found
<1>2. CASE Found(l, fd) # {}
  <2>1. /\ e \in l.list /\ e \in Ecs /\ e # NULL /\ l.ec[e].fd = fd
        /\ \A c \in l.list : l.ec[c].fd = fd => c = e
    BY <1>2, FindCallback DEF Found, LoopRecord, WatchTableOk
  <2>2. /\ l.ec[e] \in EcRecord
        /\ \A u \in Types : u \in l.ec[e].events <=> l.ec[e].datas[u] # NULL
    BY <2>1 DEF LoopRecord, WatchTableOk, LinkedCell
  <2>3. /\ new \in EcRecord
        /\ new.events = l.ec[e].events \ {t}
        /\ new.events # {} => new.fd = fd
        /\ \A u \in Types : u \in new.events <=> new.datas[u] # NULL
    <3>1. new = [fd |-> IF new.events = {} THEN NULL ELSE l.ec[e].fd,
                 events |-> l.ec[e].events \ {t},
                 datas |-> [l.ec[e].datas EXCEPT ![t] = NULL]]
      BY DEF Cleared
    <3> QED
      BY <2>1, <2>2, <3>1 DEF EcRecord
  <2> HIDE DEF new, e
  <2>4. m = [list |-> IF new.events = {} THEN l.list \ {e} ELSE l.list,
             ec   |-> [l.ec EXCEPT ![e] = new],
             ptr  |-> IF new.events = {} THEN [l.ptr EXCEPT ![fd] = NULL] ELSE l.ptr,
             mask |-> IF l.ptr[fd] # NULL THEN [l.mask EXCEPT ![fd] = new.events]
                                          ELSE l.mask]
    BY <2>1 DEF event_loop_remove_fd_watch, new, e
  <2>5. /\ m.list = IF new.events = {} THEN l.list \ {e} ELSE l.list
        /\ m.ec[e] = new
        /\ \A c \in Ecs \ {e} : m.ec[c] = l.ec[c]
    BY <2>1, <2>4 DEF LoopRecord
  <2>6. m \in LoopRecord
    <3>1. m.list \in SUBSET Ecs
      BY <2>5 DEF LoopRecord
    <3>2. m.ec \in [Ecs -> EcRecord]
      BY <2>1, <2>3, <2>4 DEF LoopRecord
    <3>3. m.ptr \in [Fds -> Ecs \cup {NULL}]
      BY <2>4 DEF LoopRecord
    <3>4. new.events \in SUBSET Types
      BY <2>3 DEF EcRecord
    <3>5. m.mask \in [Fds -> SUBSET Types]
      BY <3>4, <2>4 DEF LoopRecord
    <3> QED
      BY <3>1, <3>2, <3>3, <3>5, <2>4 DEF LoopRecord
  <2>7. UniqueWatch(m)
    BY <2>1, <2>3, <2>5 DEF UniqueWatch, WatchTableOk, LoopRecord
  <2>8. LinkedCell(m)
    BY <2>1, <2>3, <2>5 DEF LinkedCell, WatchTableOk, LoopRecord
  <2>9. FreedCell(m)
    <3>1. ASSUME new.events = {} PROVE new.datas = NoDatas
      <4>1. new.datas \in [Types -> Owners \cup {NULL}]
        BY <2>3 DEF EcRecord
      <4> QED
        BY <3>1, <4>1, <2>3 DEF NoDatas
    <3> QED
      BY <3>1, <2>1, <2>5 DEF FreedCell, WatchTableOk
  <2>10. KernelCell(m)
    <3> SUFFICES ASSUME NEW g \in Fds, m.ptr[g] # NULL
                 PROVE  /\ m.ptr[g] \in m.list
                        /\ m.ec[m.ptr[g]].fd = g
                        /\ m.mask[g] = m.ec[m.ptr[g]].events
      BY DEF KernelCell
    <3>1. m.ptr[g] = l.ptr[g]
      BY <2>4 DEF LoopRecord
    <3>2. /\ l.ptr[g] \in l.list
          /\ l.ec[l.ptr[g]].fd = g
          /\ l.mask[g] = l.ec[l.ptr[g]].events
      BY <3>1 DEF KernelCell, WatchTableOk
    <3>3. CASE g = fd
      <4>1. l.ptr[fd] = e /\ new.events # {}
        BY <3>1, <3>2, <3>3, <2>1, <2>4 DEF LoopRecord
      <4>2. m.mask[fd] = new.events
        BY <4>1, <2>1, <2>4 DEF LoopRecord
      <4> QED
        BY <3>1, <3>3, <4>1, <4>2, <2>1, <2>3, <2>5
    <3>4. CASE g # fd
      <4>1. l.ptr[g] # e
        BY <3>2, <3>4, <2>1
      <4>2. m.mask[g] = l.mask[g]
        BY <3>4, <2>4 DEF LoopRecord
      <4> QED
        BY <3>1, <3>2, <4>1, <4>2, <2>5 DEF LoopRecord
    <3> QED
      BY <3>3, <3>4
  <2>11. \A g \in Fds \ {fd} : m.mask[g] = l.mask[g]
    BY <2>4 DEF LoopRecord
  <2> QED
    BY <2>1, <2>3, <2>5, <2>6, <2>7, <2>8, <2>9, <2>10, <2>11 DEF WatchTableOk, LoopRecord
<1> QED
  BY <1>1, <1>2

\* close on an fd that no linked cell has keeps the table sound.
LEMMA KernelClose ==
    ASSUME NEW l \in LoopRecord, WatchTableOk(l), NEW fd \in Fds,
           NEW m, m = kernel_close(l, fd)
    PROVE  /\ m \in LoopRecord
           /\ WatchTableOk(m)
           /\ m.list = l.list
           /\ m.ec = l.ec
           /\ \A g \in Fds \ {fd} : m.mask[g] = l.mask[g]
<1>1. m = [list |-> l.list, ec |-> l.ec, ptr |-> [l.ptr EXCEPT ![fd] = NULL],
           mask |-> [l.mask EXCEPT ![fd] = {}]]
  BY DEF kernel_close, LoopRecord
<1>2. m \in LoopRecord
  BY <1>1 DEF LoopRecord
<1>3. KernelCell(m)
  BY <1>1 DEF KernelCell, WatchTableOk, LoopRecord
<1>4. \A g \in Fds \ {fd} : m.mask[g] = l.mask[g]
  BY <1>1 DEF LoopRecord
<1> QED
  BY <1>1, <1>2, <1>3, <1>4 DEF WatchTableOk, UniqueWatch, LinkedCell, FreedCell

-----------------------------------------------------------------------------
(* What the kernel keeps of an fd it does not know.                        *)

\* The kernel has event bits only for the fds it knows.
KernelMasks(l) == \A fd \in Fds : l.ptr[fd] = NULL => l.mask[fd] = {}

\* Adding a watch keeps it so, and a failed EPOLL_CTL_ADD changes nothing in
\* the kernel.
LEMMA AddMasks ==
    ASSUME NEW l \in LoopRecord, KernelMasks(l), NEW fd \in Fds, NEW t, NEW d,
           NEW e \in Ecs, NEW ret,
           NEW m, m = event_loop_add_fd_watch(l, fd, t, d, e, ret)
    PROVE  KernelMasks(m) /\ (ret # 0 => m.mask = l.mask)
<1>1. CASE ret = 0
  <2>1. \A g \in Fds : m.ptr[g] = IF g = fd THEN e ELSE l.ptr[g]
    BY <1>1 DEF event_loop_add_fd_watch, LoopRecord
  <2>2. \A g \in Fds \ {fd} : m.mask[g] = l.mask[g]
    BY <1>1 DEF event_loop_add_fd_watch, LoopRecord
  <2> QED
    BY <1>1, <2>1, <2>2, ELoopAssumption DEF KernelMasks
<1>2. CASE ret # 0
  BY <1>2 DEF event_loop_add_fd_watch, KernelMasks
<1> QED
  BY <1>1, <1>2

\* So does removing one, ...
LEMMA RemoveMasks ==
    ASSUME NEW l \in LoopRecord, KernelMasks(l), NEW fd \in Fds, NEW t,
           NEW m, m = event_loop_remove_fd_watch(l, fd, t)
    PROVE  KernelMasks(m)
<1> DEFINE e == find_callback_by_fd(l, fd)
           new == Cleared(l, t, e)
<1>1. CASE e = NULL
  BY <1>1 DEF event_loop_remove_fd_watch
<1>2. CASE e # NULL
  <2>1. /\ m.ptr = IF new.events = {} THEN [l.ptr EXCEPT ![fd] = NULL] ELSE l.ptr
        /\ m.mask = IF l.ptr[fd] # NULL THEN [l.mask EXCEPT ![fd] = new.events] ELSE l.mask
    BY <1>2 DEF event_loop_remove_fd_watch
  <2> HIDE DEF e, new
  <2>2. \A g \in Fds \ {fd} : m.ptr[g] = l.ptr[g] /\ m.mask[g] = l.mask[g]
    BY <2>1 DEF LoopRecord
  <2>3. m.ptr[fd] = NULL => m.mask[fd] = {}
    <3>1. CASE l.ptr[fd] = NULL
      BY <2>1, <3>1 DEF KernelMasks
    <3>2. CASE l.ptr[fd] # NULL
      <4>1. m.mask[fd] = new.events
        BY <2>1, <3>2 DEF LoopRecord
      <4>2. new.events # {} => m.ptr[fd] # NULL
        BY <2>1, <3>2
      <4> QED
        BY <4>1, <4>2
    <3> QED
      BY <3>1, <3>2
  <2> QED
    BY <2>2, <2>3 DEF KernelMasks
<1> QED
  BY <1>1, <1>2

\* ... and closing an fd.
LEMMA CloseMasks ==
    ASSUME NEW l \in LoopRecord, KernelMasks(l), NEW fd \in Fds
    PROVE  KernelMasks(kernel_close(l, fd))
BY DEF kernel_close, KernelMasks, LoopRecord

=============================================================================
