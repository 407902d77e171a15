# A verification model of RApp

RApp is a single-threaded HTTP application server in C for Linux: one `epoll` loop, callbacks,
a collector that frees finished connections after each batch of events, a request queue around
joyent's `http_parser`, a router and containers that answer requests, and in front of it a start-up that loads a
plugin and collects its configuration from four sources.  These modules model both from the source in `src/src`,
check them with TLC on small instances, and prove the safety of the event loop, of connections, of the request queue,
of the router and of the start-up with TLAPS for every instance.

## Inventory

| Part (`src/src`) | State | Operations | What makes it correct |
|---|---|---|---|
| event loop `eloop.c` | list of callback cells, `epoll` interest list, `running`, the batch `events[]` | add/remove a watch, run, stop, schedule a free | an event never points to a freed or foreign cell; a stop ends the loop |
| collector `collector.c` | list of objects to free | schedule, collect | each object freed once, after the batch |
| TCP connection `tcpconnection.c` | fd, callbacks | create, watch, read, write, close, destroy | the fd is closed once, and by its owner |
| TCP server `tcpserver.c`, HTTP server `httpserver.c` | listening fd | listen, accept, finish a connection | no client is left without a watch |
| signal handler `signalhandler.c` | signalfd, mask, callbacks by signal | add, remove, deliver | SIGINT and SIGTERM stop the server |
| HTTP connection `httpconnection.c` | queue, response, finish callback | on_read, on_write, on_close, on_new_request | answers in the order of requests; a close only after the last one |
| request queue `httprequestqueue.c`, request `httprequest.c` | byte buffer, parser, slots and two indices, ranges | append data, eight parser callbacks, get next | what is served is what was sent, however it was cut |
| response `httpresponse.c` | byte FIFO, last flag | append, read, end headers, error page | nothing lost, doubled or reordered |
| router `httprouter.c` | linked packs of bindings, default container | bind, set default, serve | the documented match, in binding order |
| container `container.c` | plugin or built-in callbacks | make, init, serve, destroy | destroyed once; an incomplete plugin is refused |
| configuration `config/*.c` | sections, options, values, locks; the state of the YAML reader | declare, defaults, command line, environment, files, typed reads | each option has what its strongest source gave it; a file is refused exactly for its faults |
| start and stop `main.c` | arguments, the objects it made | early options, the steps to the loop, eleven ways to give up, destruction | it serves or gives up, and says why |
| logger `logger.c` | the level | create, filter, destroy | a refusal is not filtered out |
| memory, version | - | - | - |

Interaction: the kernel wakes the loop; the loop calls TcpServer, SignalHandler and TcpConnection; TcpConnection
calls HTTPConnection; that one feeds its queue, whose parser callbacks call back into it, and it hands the request to
the router, which calls a container, which appends to the response of the connection; `on_write` later drains
the response.  A finished connection goes through HTTPServer into the collector.  Before the loop, `main` asks argp for the
log options and the plugin, lets the plugin declare options, and passes the configuration to argp, to the environment
and to the YAML reader in turn; the loop only starts when all of them agree.  Everything is synchronous in one
thread, so concurrency is that between the thread and the kernel with its peers and signals; what is hard is the
order of callbacks inside a batch, memory and fd numbers that are reused, and streams cut at arbitrary bytes.
The list of hazards with their lines is in `PROJECT.json`.

## Modules

| Module | Models | Kind |
|---|---|---|
| `ELoop` | the watch table: cells, heap, kernel pointers and masks | operators on one record |
| `Server` | `main`, `event_loop_run`, collector, TcpServer, HTTPServer, SignalHandler, connections, peers | state machine, EXTENDS `ELoop` |
| `HTTPRequestQueue` | queue and request, with the heap block behind `queue->buffer` at its physical size | state machine |
| `HTTPResponse` | the byte FIFO and the parts of an answer | operators on one record |
| `HTTPConnection` | one connection with its client, queue, response and events | state machine, EXTENDS `HTTPResponse` |
| `HTTPExchange` | what a connection promises | abstract specification, implemented by `HTTPConnection` |
| `HTTPRouter` | packs, bindings, the scan | state machine |
| `RouteTable` | what the router promises: a flat table in binding order | abstract specification, implemented by `HTTPRouter` |
| `Config` | options and their values, the API, the environment and the command line | operators on one record |
| `ConfigYaml` | `yaml.c`: the events of a document, the reader's five states, the stack of a section, skipping | state machine, EXTENDS `Config` |
| `Logger` | the level of a logger and its filter | operators on one record |
| `Startup` | `main` around the loop, the early options, `container.c`, the sources | state machine, EXTENDS `ConfigYaml`, `Logger` |
| `ConfigSources` | what the configuration promises: the order of the sources and their locks | abstract specification, implemented by `Startup` |
| `ELoopProofs`, `ServerProofs` | lemmas about the watch table; the invariants of `Server` | proofs |
| `HTTPConnectionProofs` | the invariants of `HTTPConnection` and its refinement of `HTTPExchange` | proofs |
| `HTTPRequestQueueProofs` | the invariants of `HTTPRequestQueue` | proofs |
| `HTTPRouterProofs` | the invariants of `HTTPRouter` and its refinement of `RouteTable` | proofs |
| `SequenceLemmas` | what `FlattenSeq` makes of a sequence, and where its parts are, used for the queue, the router and the reader | proofs |
| `ConfigProofs`, `StartupProofs` | lemmas about the API, and the reader's way through a document; the invariants of `Startup` and its refinement | proofs |
| `MC*` | instances | for TLC |

`Server` and `HTTPConnection` look at the same callbacks from two distances.  `Server` has several connections,
real fds, cells and a collector, and reduces what one does with bytes to a count of pending chunks and the
last flag.  `HTTPConnection` follows one connection through its messages and answers and reduces the
loop to the slots of the connection's own event.  `HTTPRequestQueue` follows the bytes of the messages.
`Startup` hands over to `Server` at the label "serving" and takes over again after it; the two share no state
but the address and the port.

Correspondence.  Definitions carry the names of the C functions and fields where TLA+ allows; `PROJECT.json` gives
the lines of each.  An action is one callback with all it calls, one collected entry, or one step of `main`.  In
`HTTPRequestQueue` an action is one callback of the parser, or the code around `http_parser_execute`.
`on_incoming_connection` and `on_accept` are one action, as are the three watches of `tcp_connection_set_callbacks` and
the removal of watches with the close of the fd in `tcp_connection_close`.  In `Startup` an action is one argument, one
option, one token of a list, one step of the YAML reader, or one object made or destroyed; whatever main does
before it gives up (destroying what it made, or not) is in the action that gives up.  A name is the sequence of its words, a
text an opaque string with what `strtol` and the regular expression for booleans make of it as constants.  A file is a
description of its sections and pairs; `Tokens` is what libyaml scans from it.

Memory.  `free()` in `ELoop` puts a cell back among the free ones but keeps the words the code may still
read: the loop does read a cell after its own CLOSE callback freed it (`eloop.c:94`), and finds slots that
were set to NULL before.  A fresh cell is all NULL (`calloc`).  In `HTTPRequestQueue` memory behind a `realloc` that
shrinks keeps its contents or not, both are tried.

Failures.  The constant `Faulty` lets allocations and system calls fail.  A run stops following the code at
its first undefined access and says so in a state of its own ("undefined").

Definitions whose comment begins with "Mutant" are deliberately wrong variants of the definition that
follows them.  Put in its place, each makes a run fail; `PROJECT.json` pairs them with the property that then breaks.

## Runs

| Run | Bounds | Shows |
|---|---|---|
| `MCServer.cfg` | 2 connections, 4 fds, 4 cells, batches of 4, no failures | watches, fds, batch and collector consistent in every interleaving |
| `MCServerFaults.cfg` | the same, batches of 2, answers of two pieces, failures | the five safety invariants, as one (`Sound`), when calls fail; a client is watched as a whole or not at all (`WatchedWhole`) |
| `MCServerLive.cfg` | 1 connection | a signal stops the server, a hangup frees its connection |
| `MCHTTPRequestQueue.cfg` | regular clients: 2 messages, up to 2 headers; any clients: 3 messages, cuts and bodies anywhere; limit of 1 header, 2 slots | regular clients are served what they sent; for all clients the buffer keeps every byte, and lengths, slots and order are right |
| `MCHTTPConnection.cfg` | 2 messages, garbage, hangup, reset; 5 items per read | implements `HTTPExchange`; a close was announced and ends the answers; only what a client sent gives it up |
| `MCHTTPConnectionLive.cfg` | the same with failures, 7 items per read | the last request and a leaving client lead to the end of the connection |
| `MCHTTPRouter.cfg` | 3 bindings in packs of 2, failures | implements `RouteTable`, first match; packs well formed; a binding without its route is silent |
| `MCStartup.cfg` | 10 command lines, 5 environments, 8 plugins, 17 files, 3 directories, failures | each option has what its strongest source gave it; files are refused for their faults alone; main ends, in order, and says why; implements `ConfigSources` |
| `MCHTTPRequestQueueUrl.cfg`, `...Body.cfg`, `MCHTTPRouterLongest.cfg`, `MCStartupSkip.cfg` | | disagreements, below |

Why the bounds are enough.  The hazards of the loop concern two clients: one fd number reused, one event spoiled by
another callback, one connection finished twice; a third would repeat them, and the proofs cover any number.  Batches of two
in the run with failures make `epoll_wait` choose among the ready fds.  Spans are two tokens long so that a read can cut
one; the header limit of 1 and the 2 slots are reached and passed.  Answers have six or seven items, so that reads of five and seven end
inside an answer, at its end and in the next one.  Three bindings in packs of two give
an order within a pack and one across packs.

The start-up's inputs are chosen so that every source meets every other: an option given twice in one line, a list and
an empty list in the environment, a number outside its range, a range checked in each source, a file that replaces, empties or
extends what an earlier one gave, lists in both styles, known and unknown sections of each form, a document cut by
a syntax error, a plugin that repeats an option of the core or gives two options the same outer name.  Everything after the first
files repeats what was done to the first two, so at most two of each list are open at once.

Regular clients.  `ServedAsSent` speaks of the traffic the queue serves correctly: a message with a body is
the last one, no read goes on behind the end of a header block, and no url, field or value is cut in two.
Two more, `NothingHeldBack` and `LimitIsOnFields`, exclude the clients whose reads go on behind a
header block (`runOn`): `on_headers_complete` moves the rest of the buffer, the parser goes on at the old place, and so it may
skip a message or meet a header twice (finding 2).  `LimitIsOnFields` also excludes values that are cut.  The other properties hold for every client,
among them `BytesKept`: the header blocks handed out and what the buffer holds are, one after the other, all that was read, wherever
`append_data` extends the block and `on_headers_complete` copies, moves and shrinks it.  What goes wrong behind a move is only where the parser reads.

What a failure leaves.  `NobodyStranded` holds only where no call fails: `http_connection_new` and `tcp_connection_set_callbacks` may fail
and leave a client unwatched.  `WatchedWhole` says how far that goes: the kernel does not know the client's fd at all, or reports
input, output and the peer's end to its own connection, through every reuse of fds and cells.  `GivenUpForCause` is the client's side of
one connection: one that stays and sends only messages, up to its last one, is never given up, and the messages
in front of what it is given up for were served.  That their answers were sent is not promised, and not true.

Disagreements between the code and what the repository says of it (`findings` in `PROJECT.json`):

1. `queue_url`: after a message with a body, the bytes of the body stay in `queue->buffer`, and the next request's
   ranges do not index its header buffer.
2. `queue_body`: a body longer than its header block and in the same read is parsed from bytes that were moved and released.
3. `router_longest`: ROUTE_MATCH_LONGEST takes the last match.
4. `startup_skip`: a file whose only fault is an unknown section is refused, or read for ever, when that section is not a plain
   block: the reader takes the next end of a block for its end.

Two more are modelled and have no run of their own.  The limit on header fields counts pieces of values
(`LimitIsOnFields` says when that makes no difference).  A boolean option gets the value 1 from every text that is
accepted, since the expression for true texts is compiled and never executed (`common.c:158`), and cannot be given on the command line.

Fairness.  `Server` assumes weak fairness of the loop thread alone: the operating system schedules it.  It is written out as
an equivalent formula, since TLC is slow on ENABLED of so wide a relation.  Clients and signals are never forced
to act.  `HTTPConnection` adds that a connected client's socket can take output again and again: without it nothing would end, since the
program has no timeouts.  `LastIsClosed` and `LeftIsFreed` say nothing of a client that stays and does not read.
`Startup` assumes that `main` is scheduled, also written out: outside the YAML reader a step of `Main` changes something until
`main` ends, so it suffices that such steps keep happening; inside it the step is `ParseStep`.  `StartEnds` excepts one state, the
reader skipping a section at the end of the stream, in which the code does loop for ever.

## Proofs

The server.  `ServerProofs` proves nine theorems, for all sets of fds, cells and connections, all `MAX_EVENTS` and `MaxPending`, with and
without failures, from the assumptions `ELoopAssumption` and `ServerAssumption` (NULL is none of the objects, the
owners are the connections and the two services, the two first fds differ): `TypeCorrect`, `WatchTableSound`,
`CallbacksRunOnLiveObjects`, `FdsHaveOneOwner`, `BatchStaysValid`, `CollectorListSound`, their conjunction `SoundAlways`,
`ClientsWatchedWhole`, and `NobodyIsStranded`, which also needs `MemoryAssumption`: where no call fails there are as many cells as fds,
since `malloc` is then never short of one.  It counts: each linked cell has an fd of its own, so while a new fd
has no cell, a cell is free.

The invariants are not inductive one by one.  `IInv` is their conjunction with three more parts: `SlotTypes` (the two
services watch only for input, so the CLOSE and WRITE slots are the connections'), `EventsSeparate` (the events of a batch are of
different fds, and the cell under dispatch is freed or still of its fd) and `Startup` (what `main` has set up at each
`pc`).  The argument: each filled slot of a linked cell belongs to an object that owns the cell's fd, and each owner's
fd is open.  Hence every linked cell has an open fd, so the number `accept4` returns has no cell (`NewFdHasNoCell`); and the
callee of an event is the owner of the event's fd (`CalleeOwnsEvent`), so what a callback closes is its own cell and
no other event of the batch.  `ELoopProofs` has what adding, removing and closing do to a sound table (`AddWatch`,
`RemoveWatch`, `KernelClose`); `ServerProofs` has one lemma for each action or group of actions, and
`NextIInv` puts them together.

`ClientsWatchedWhole` adds `Whole` to `IInv`: an fd without a cell has no bits in the kernel (`KernelMasks`), and the kernel has all three
events of a client's fd or none.  Only the first of the three calls of `tcp_connection_set_callbacks` can fail, since the others find the cell and
change its mask; a new fd has no cell, so no bits of an earlier client are left on it; and no step changes one event of a client without the others.
That the slots are the client's own is the part of `IInv` on callees.

The start-up.  `StartupProofs` proves ten theorems, for all command lines, environments, plugins, directories and files, from
`ConfigAssumption` (numbers are integers, the range of `long` holds 0 and 1) and `StartupAssumption` (arguments, variables,
declarations and documents are what their comments say, and no text is NULL): `TypeCorrect`, `ValuesAlwaysFit`, `LoadIsSeen`, `RefusalsAreTold`,
`DestroyedInOrder`, `PathsAreOpened`, `ServerListens`, `VerdictIsRight`, `OptionsAreAsGiven`, and `PrecedenceKept`, that `Startup` implements `ConfigSources`.

`IInv` has four parts: `ConfInv` (the configuration is well formed, has no values before the sources are read, has
the core's options from then on, and an option being filled from the environment is not held), `Control` (where `main` and
the reader are, and that the plugin being asked is a plugin), `Life` (which objects live at
each `pc`) and `Early` (what the early options made of the arguments before `i`).  `ConfigProofs` has what each
function of the API preserves.  GET_OPTION returns the first option of a name: that there is a first one rests on the
least number of a set of naturals, from the library's theorem on natural numbers.  The refinement takes each source
in a lemma of its own (`LineStep`, `EnvStep`, `FileStep`): it changes one option, not a held one, and keeps or extends its
values as its source may.

`PathsAreOpened` and `ServerListens` need more, `Started`, which adds three parts to `IInv`.  `Said`: every text that is
left to be read is one, down to the tokens of a document, so that no value of a string option is NULL, which the typed reads return for an
error.  `CoreInv`: the options of the core are as `main` declared them, unless a plugin declared an option of the core in front
of it; then GET_OPTION finds the plugin's, of another type or without a range, which is why both properties except that case (`Redeclares`).  The
lemma `CoreSet` follows `main` through its nine calls, `DeclaredKept` the result through the sources.  `Counts`: until the files are
read, whatever has a value is held, so the number of directories is zero or that of a held option; a file changes no held option
(`LockedStays`); hence the number read once stays the number of its values, and the first `i` of them have been opened.

`VerdictIsRight` follows the reader through the tokens of any document.  `SectionPlaces`, `PairPlaces` and `TextPlaces` name the
places between its sections, the pairs of a section and the texts of a list, with or without separators (`Chain` of `SequenceLemmas`: each
part begins where the one in front of it ended), and `At` says that the reader is behind so many tokens of it, up to where the document is
cut.  The invariant `Reader` has a clause for each state: the reader is at such a place, and all it has passed is right; when it is done all
of the document is right, and when it gave up something is not (`AllGood`).  `SectionReads`, `SkipReads`, `PairReads` and `TextReads` take one
step from a place to the next; a token that is missing means that the document is cut.  A step changes no option but its values, so what a document
says of the options stays as it was (`GoodSame`).  A section that is skipped must be a plain block for this: its first
BLOCK_END is then its own.

`OptionsAreAsGiven` compares the outcome with what the sources say as a whole, which the code never sees at once.  The
reference joins the texts of all arguments, tokens and documents that are about an option (`FlattenSeq`); the invariant `Giving` says that
behind every step the option holds what the part of them gives that has been read.  `LineInv`: its values are those of the first `i - 1`
arguments, and it is held exactly if one of them named it.  `EnvInv`: the options in front of `i` are settled by the two stronger
sources (`Settled`), the one whose list is being read has the tokens before `num`, the others have what the command line said.  `ReadInv`: an option
that is not held has the last texts of the documents that were read, and inside a document of the places the reader has passed; `Taking` has a clause for
each of its states, beside those of `Reader`, and `TakingStep` one step of it.  What rests on it: a text is taken if it is
valid and there is room, so one value is the first of them and several are all (`TakenMore`), a file empties the option first, so the
last of its lists counts, and what a source says of the options does not depend on their values (`SourcesSame`, `ToldSame`).

One connection.  `HTTPConnectionProofs` proves five theorems, for all `BUFSIZE`, `MAX_REQUESTS` and `MaxMessages`, from
`ConnectionAssumption` (positive numbers, no more messages than slots): `TypeCorrect`, `RestKept`, `CloseAnnounced`,
`NoneGivenUp`, and, if memory does not run out (`~Faulty`), `PromiseKept`, that `HTTPConnection` implements
`HTTPExchange`.  With failures the last one is false: a lost buffer that regrows starts with bytes nobody wrote.

`IInv` has five parts: `Types`; `Flow`, which ties the response to the history (what is in the buffer is the rest of the answers,
and its length is right even when the buffer is lost); `Closing` (a closed connection has nothing left to do); `Latest`
(the flag is that of the latest request, and no request before it was the last); and `Announced` (each answer marks its end as its
own request asks for).  `CloseAnnounced` rests on the last three: only the latest answer may announce a close, since no
request is parsed behind a last one.  `Served` has what a request does to the response, `ReadOut` what a read takes from it.
`NoneGivenUp` adds `Cause`: a connection that was given up under a client that is there has no read left to run and is polled no more,
so what gave it up stays unread, and lies behind the last message or behind all of them.

The queue.  `HTTPRequestQueueProofs` proves, for all scripts of messages, all limits and all lengths of spans, from
`QueueAssumption`: for every client `TypeCorrect`, `SlotsHold`, `BufferKeeps`, `BufferConserves` and `LastStaysLast`; for clients that do not go on behind a
header block `NothingWaits`; if they do not cut a value either, `LimitHolds`; and for regular
clients `RequestsAreAsSent`: what is served is, field by field, what was sent, however it arrived.

`IInv` is layered like the clients.  For any of them: `Typed`, `Accounts` (the parser's place, the read and the block),
`Slots` (the two indices, and which slots are free) and `Marks` (a request marked last is the last one).  For those without `runOn`: `Aligned` (what the
parser has in front of it is the stream, byte by byte) and `Position` (its state says which part of which message comes next).  If they cut no span:
`Placed` (it stands between two spans, and has counted the fields it has passed).  For the regular: `Filled` (the block holds the
message as far as it was read, the ranges of the request name its parts, and each served request is complete).  The stream is a
`FlattenSeq` of messages and each of those of spans; where a message begins and what stands at each place of it are lemmas on sums of lengths.

`BufferConserves` (`BytesKept`) adds `Kept`: a request has no header block before its end.  `append_data` puts a part of the
stream behind the buffer (`AppendKeeps`); `on_headers_complete` parts what the buffer holds in two, the copy and what is moved to the front, whatever the
released tail then contains (`HeadersCompleteKeeps`), which needs that the parser's count of the block does not exceed
the buffer (`Accounts`); `on_message_complete` appends the block to those handed out (`CompleteKeeps`).

The router.  `HTTPRouterProofs` proves `TypeCorrect`, `RouterImplementsTable` and `PacksStayFilled` from `RouterAssumption`, for any
pack length, any routes and both matching modes.  In the invariant all packs but the first are full; so binding in the first free place of
the first pack is appending to the flat table, and the scan of the packs is a scan of that table.

`SequenceLemmas` has the length and the elements of `FlattenSeq` for every input, and the places of its parts.  They are proved without an induction
theorem, by a least counterexample over the recursive function that defines it.

Every invariant, action property and refinement that a passing run checks is proved.  Only model-checked: the properties under fairness, which
are beyond the prover like ENABLED (`SignalStops`, `HangupFrees`, `LastIsClosed`, `LeftIsFreed`, `StartEnds`).

## Not modelled

Of the configuration: allocations of names and values that fail, the texts of `--help` and `--usage`, option names that argp
completes from an abbreviation, and the accessors that only forward.  Of the logger: what a message looks like and where it
goes.  Of `main`: a signal before the signalfd exists.  The table of callbacks by signal number: only `main` fills it, for two
signals, and `signal_handler_remove_signal_callback`, like `tcp_connection_sendfile`, has no caller.  Chunked bodies.  The
message after the last slot of the queue is written behind the
array; runs end there.  `http_parser` is a submodule outside this tree: it is modelled by its callbacks,
as the strict build that accepts nothing behind a message that is not keep-alive.  Texts (status lines, dates,
pages, log messages) are items without contents.  Code for a NULL request in `on_new_request` is unreachable.
`memory.c` wraps the C library, and its failures are choices of the modules that call it; `version.c` is constants.

## Plan

Done, in this order: event loop and server, their proofs, queue, response and connection, router, configuration, logger
and start-up, their proofs, the proofs of the connection, of the router, of the queue, that nobody is stranded, of the
paths and the address `main` reads, of the verdict on a file, and of the values of the options.

Next:

1. `HTTPConnection` as an implementation of what `Server` assumes of one connection.
2. `SignalHandler`: the callback table and mask, with removal.
