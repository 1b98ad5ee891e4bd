# A verification project for the Glasswall c-icap service

TLA+ modules that model the programs of this repository, the TLC runs that check
them on small instances, and TLAPS proofs about them for every size.
`PROJECT.json` lists the parts, the runs, the mutants each property is tested
with, the source lines behind every definition, the hazards and the theorems.

## The system

The repository builds one product out of three programs:

* **c-icap** (`src/c-icap`), an ICAP server in C. A *monitor* process forks
  *children*; each child has a *listener* thread, which accepts connections and
  queues them, and *worker* threads, which serve the requests of one connection
  after the other.
* **gw_rebuild** (`src/c-icap-modules/services/gw_rebuild`), the ICAP service
  that runs in the worker threads: it stores the body of a request in a file, has
  it rebuilt by another program and answers with the outcome.
* **cloud-proxy-app** (`src/cloud-proxy-app`), a .NET program that gw_rebuild
  starts for every file. It hands the file to an adaptation service over
  RabbitMQ and returns the outcome as its exit code.

A request passes through all of them:

    client -> accept (listener) -> connections queue -> worker (thread_main)
      -> do_request: ICAP header, preview, chunked body, end of data, answer
           -> gw_rebuild handlers: store file -> fork/exec cloud-proxy-app
                -> RabbitMQ -> adaptation service -> exit code and output file
           <- 204, the rebuilt body or an error page
      <- answer, connection kept or closed

and the monitor watches the counters that the workers keep in shared memory,
forks and stops children by them, replaces those that die and takes everything
down or over to a new configuration.

### Inventory

| part | state | operations | what is hard about it | module |
|---|---|---|---|---|
| child process | connections queue, counters in shared memory, flags, two condition variables, accept mutex | listen, accept, queue, take, serve, keep alive, close, shut down | every interleaving of listener, workers, main thread and signals; signals outside the lock | `ChildServer` |
| monitor | children queue(s) in shared memory, pids, signals on their way, flags | fork, register, policy, reap, reconfigure, stop | children that die, or are told, between fork, registration and wait | `Monitor` |
| ICAP request | position, lock, return code, keep-alive, send state, service's buffer | preview, fake preview, get_send_body, end of data, rest of the answer | two halves of a loop that answer while they read; failures at each step | `IcapRequest` |
| chunked reader | network buffer, chunk counters, pending data | net_data_read, parse_chunk_data | bytes cut at any place; data pointed to while the buffer moves | `ChunkStream` |
| body containers | file, ring, memory and cached bodies with positions, limits, locks | write, read, lock, unlock | wrap-around, limits, growth, short writes, the move from memory to a file | `RingBuf`, `SimpleFile`, `MemBuf`, `CachedFile` |
| gw_rebuild | service data, files, objects, statistics, child processes | preview, io, end of data, exec_prog, release | several workers wait for several processes; timeouts; ownership of objects | `GwRebuild` |
| cloud-proxy-app | stores, response queue, cancellation, broker | copy, connect, publish, take, copy out, clear | late, duplicated, malformed answers; exceptions anywhere | `CloudProxy` |
| head of a request | read buffer, bytes read too far, parsed fields, the recycled structure | read, parse, encapsulated headers, keep alive, recycle | requests cut and joined at any byte; what an earlier request leaves behind | `RequestHead` |
| object caches | hash chains, queue of entries; shared pages with locks | search, update, expire | racing updates and a clock read too early; processes killed while they write | `LocalCache`, `SharedCache` |
| memory allocators | pools, free lists, chunks | alloc, realloc, free, reset | a block that returns to the wrong list | `Mem`, `PackArray` |
| arrays, lists, headers | packed buffers, linked nodes, index of lines | add, remove, iterate, pack | memory filled from both ends; removal under a cursor; an index into a buffer that moves | `PackArray`, `List`, `Headers` |
| access control | acls, access lists | read directives, decide | order, negation, missing data | `Access` |
| configuration | parameters, services, aliases, modules, ports | read, include, reconfigure | what an earlier configuration leaves behind | `Config` |
| commands | list, pipes, scheduled queue | register, send on, run, schedule | threads and an iteration on one queue | `Commands` |
| statistics | one block per child, history | count, merge, report | children that die; reading without a lock | `Stats` |
| lookup tables | rows, hash table; pool of connections | open, search, destroy | duplicate rows; servers that go away | `Tables`, `LdapTable` |
| templates, logs | cache of pages; open files | find, load, release; write, rotate | expiry and rotation under running threads | `Templates`, `Logs` |
| mutexes | semaphores, file locks; list of thread mutexes | lock, unlock, fork | holders that die; threads that fork | `Locks` |
| connections, TLS | socket, call in progress | connect, read, write, close | partial calls, signals, resets | `NetIO` |
| ICAP client, load generator | request, connection; shared counters | options, send and receive; threads, interrupt | an answer while the body is sent; a signal anywhere | `IcapClient`, `Stretch` |
| sample services | ring buffer, 206 bodies | preview, io, end of data | portions of any size | `DemoServices` |
| content helpers, tables over other servers, authentication, Windows port | | | conversions and library calls without a state of their own | not modelled |

`PROJECT.json` has the same list with the source files of every part and the
reason why a part is left out.

### How the modules belong together

Three abstract specifications tie components together: `ConnLifecycle` (what a
child promises for a connection), `ProxyContract` (what cloud-proxy-app
promises, and what `GwRebuild` assumes of it) and `ByteStream` (what every
container of a body promises). A request is one step of `ChildServer`; what is
in it is `RequestHead`, then `IcapRequest`, whose body is read by `ChunkStream`
and whose service is `GwRebuild` or `DemoServices`. `Monitor` sees children as
slots; their statistics are `Stats`, the commands sent to them `Commands`, the
mutex they accept under `Locks`, and a reconfiguration, one outcome there, is
`Config`. The containers, caches, tables, templates and logs are the library
under all of them.

What is left to do, in this order: proofs about the pools of `LdapTable`, the locks
of `SharedCache` and the mutexes of `Locks`; several children under one accept
mutex; `IcapClient` against `IcapRequest` instead of an external server.

## Conventions

A critical section of the code is one action; so is a stretch of code that only
touches a thread's own state. A condition variable is the set of threads blocked
on it: a signal wakes one of them and is lost when there is none, and a signal
that the code sends after the unlock is a step of its own. Operators named
`<definition>_<what>` in front of a definition are mutants: the definition with a
plausible mistake, used to see that a property notices it. Every other name
follows the source.

Data is abstracted to what the properties tell apart: connections, workers and
requests are model values, bytes are numbered by their position in the body, and
chunks, headers and pages are single items.

## Modules

### Child process: `ChildServer`, `ConnLifecycle`

`mpmt_server.c` runs `child_main` in every child: it starts THREADS_PER_CHILD
workers (`thread_main`) and one listener (`listener_thread`), and takes them
down again (`cancel_all_threads`).

| model | code |
|---|---|
| `queue` | `con_queue->connections[0..used-1]` |
| `freeservers`, `usedservers`, `requests`, `connections`, `idle`, `to_be_killed`, `father_said` | fields of `child_data` in shared memory |
| `wpc`, `wconn`, `wkeep`, `wreqs` | a worker's position in `thread_main`, its connection, `keepalive`, `keepalive_reqs` |
| `lpc`, `lports`, `lconn`, `jobs_in_queue`, `listener_running` | the listener's position and locals |
| `mpc`, `tries`, `rounds`, `joined` | `child_main` and `cancel_all_threads` |
| `accept_mutex` | the accept mutex: free, ours, or another child's |
| `fresh`, `closed`, `leaked` | where connections come from and end |

The actions of a worker begin with `W`, those of the listener with `L`, those of
the main thread with `M`; the queue operations have the names of the code.
`Environment` has the monitor's orders, SIGTERM, the end of the monitor and the
other children. `ConnLifecycle` says what all of this is for: a connection is
accepted once, served by one worker, which serves nothing else meanwhile, and not
touched again when it is over.

### Monitor: `Monitor`

The loop of `start_server`, one action per stage (`mpc`): start children, wait,
test the flags, apply the policy, reap, reconfigure, kill. A child is its `state`
between fork and wait, its `slot` in the children queue it inherited
(`queue_of`) and a SIGTERM on its way to it; its actions are what the code of a
child does to its slot. A reconfiguration makes a new queue and keeps the old one
until it has no slot in use.

### ICAP request: `IcapRequest`

`do_request` behind the parsed header. `pc` is the stage: preview, `decide`
(what `do_request` makes of the preview's outcome), the rounds of
`get_send_body` (`wait`, then the upper half, which reads and parses, then the
lower half, which exchanges data with the service and formats the next block),
`end` (`do_end_of_data`), `rest` (`send_remaining_response`). `send` is
`req->status` with the block being sent; `loop` the locals of `get_send_body`;
`held` what the service or `echo_body` holds. The service is any service with the
given capacity that returns any of the given codes. Body data is counted in
items. `send_remaining_response` does not look at what the service's I/O function
returns: when that fails with the length left alone (`RestStale`), the old buffer
goes out again and again, and `erred` is set; what follows is left to the client.
When the service gives nothing (`RestStops`) the answer ends without its zero
chunk and counts as sent, and only an error in the length (`RestErrs`) ends the
request as one. `DoneIsWhole` and `RequestEnds` are about requests without a
stale buffer or a service that stops short.

### Chunked reader: `ChunkStream`

The same loop seen byte by byte: `wire` and `block` are what the client has sent
and what `pstrblock_read` holds, `pending` is `wdata`. A byte of the body is its
number, so that losing, repeating or overwriting one shows; `net_data_read` moves
the block to the start of the buffer, and what `wdata` pointed to is `Clobbered`.

### Body containers: `ByteStream`, `RingBuf`, `SimpleFile`, `MemBuf`, `CachedFile`

State machines with the fields of the C structures. The first three map to
`ByteStream`: bytes come out once, in the order they went in, and CI_EOF comes
when nothing is left. `RingBuf` has a step per block that is copied, `SimpleFile`
short and failing `write(2)`, its limit, its ring mode and its locks, `MemBuf`
growth, failing allocations and termination. `CachedFile` moves to a file when a
write does not fit; as it counts bytes as accepted whose write failed, it is
compared with the stream only until then.

### gw_rebuild: `GwRebuild`, `ProxyContract`

One worker per request, all in one process: preview handler, `gw_rebuild_io`
(bodies arrive in any pieces), end of data with `exec_prog` (`fork`, `execvp`,
polling `waitpid`, timeout), the switch on the status, sending, release. `disk`,
`freed`, `body` and `size` follow the temporary files and their objects, `stats`
the statistics, `proxy` the processes. What a proxy may do is `ProxyContract`.
After a rebuild the output file is one object under two names, and releasing the
request destroys it twice: its descriptor's number is closed again and the object
is twice in its pool. What this does to requests that run on in the same child
depends on the order of every open and every allocation, so the model does not
follow it: it puts those requests in `exposed`, where they may fail, send what
another request stored, or bring the child down, and the properties are about
the others. `ExposedByRebuild` says that only a rebuild with DataCleanup does
this. A copy of the child that a failed `execvp` left counts its error in the
statistics both processes share; `ScansCounted` has it on its balance. A store
that is full when it is to be sent makes `gw_rebuild_io` fail, which
`send_remaining_response` does not look at: `send_stale` sends the old buffer, and
only `ClientCloses` ends that.

### cloud-proxy-app: `CloudProxy`, `ProxyContract`

`Main` and `RunAsync` step by step, with an exception possible at each; the
RabbitMQ callback, the timer, the broker and the adaptation service act on their
own. The headers of an answer are what `Process` tells apart, missing and
unreadable ones included.

### The library: `Mem`, `PackArray`, `List`, `Headers`, `LocalCache`, `SharedCache`, `Tables`, `LdapTable`, `Templates`, `Logs`, `Locks`, `Stats`

| module | state and code | steps |
|---|---|---|
| `Mem` | `mem` (blocks and the free lists of the buffers), `object_pools`, `serial` with its `pieces`: mem.c | a call; its pool's mutex makes it one step |
| `PackArray` | `pk` (`curpos`, `endpos`) and the memory `front` and `rear` of it: the pack allocator, arrays, pointer arrays, vectors | a call, with the sizes and alignment of the code |
| `List` | `first`, `last`, `trash`, `cursor`, the nodes: `ci_list_t` | a call; of an iteration each call of its function, which may change the list |
| `Headers` | `buf`, `bufused`, `headers`: `ci_headers_list_t` character by character, as the property is about the text | an edit, packing, reading from the wire |
| `LocalCache` | `queue`, `hash_table`, `entry`: cache.c | an update reads the clock, then takes the mutex |
| `SharedCache` | `slot`, `lock` (of a page: semaphore with what it undoes, or file lock of a process), `cache_users` | a search or an update of a thread, lock by lock and field by field; locks that fail, a process killed anywhere |
| `Tables` | `types`, `table`, `heap`: lookup_table.c, lookup_file_table.c, hash.c | opening, rows that fail, destroying; the file changes on its own |
| `LdapTable` | `pools` (`inactive`, `used`, `connections`), a search's position | critical sections of the pool's mutex; binding and searching outside it; the server goes and comes |
| `Templates` | `templates` with `locked`, copies of threads without a slot | critical sections of `templates_mutex`; reading and ageing outside it |
| `Logs` | files with their handle, their read-write locks, the relog in progress | lock, write, unlock of each thread; lock, close, open of relog |
| `Locks` | `sem`, `undo`, `flock`; the list of thread mutexes | lock, unlock, death; init, destroy, fork |
| `Stats` | blocks of the slots, `history`, the totals being read | each store of a count, registration, death, merge; each field read by the info service |

They are instantiated together in `MCLibrary`: `which` picks a part, and its
variables are the first of the module's, so that one run checks all of them.

### Around the request: `Access`, `Config`, `NetIO`, `Commands`, `RequestHead`, `IcapClient`, `Stretch`, `DemoServices`

| module | state and code | steps |
|---|---|---|
| `Access` | the acls and the two access lists; `written`, the directives themselves | a directive is read; the decisions are operators, compared with what the directives mean |
| `Config` | `live`, a process with its reconfigurations, and `fresh`, one started with the file being read | a line, the end of a file, the rest of the start up to the number of children, a reconfiguration |
| `NetIO` | socket (`in`, `room`, `fin`, `peer`), the call in progress | system calls of a call; the peer; signals |
| `Commands` | `list`, `ctl` and the pipes, the scheduled `queue` | a read of a pipe, a search, a push, a step of the iteration |
| `RequestHead` | `buf`, `startsearch`, `pstrblock`, the fields of `ci_request_t` | a read, parsing, an entity, the next request |
| `IcapClient` | `req`, the file, the output, the connection both ways | a call of the non-blocking functions, with reads of the file that may be short; the server |
| `Stretch` | positions of threads, `stats`, `file_indx`, the two mutexes | lock, read, write of each counter; the handler |
| `DemoServices` | `whattodo`, ring buffers, answers | a call of a handler |

`MCServer` instantiates these in the same way.

## Runs

| run | question | instance |
|---|---|---|
| `child_serving` | Do listener and workers hand over every connection exactly once, keep the counters right, and accept only under the mutex and with room in the queue? | 2 workers, 3 connections, 2 ports, spurious wake-ups, another child at the mutex: more connections than queue places and workers, both ports ready in one pass |
| `child_shutdown` | Does a child go down when told, from every state; does its listener start; do workers finish? | 1 worker, 1 connection, both orders in any order, the monitor may die |
| `monitor_policy` | Do queues, slots and processes agree: no waited-for pid in a queue, no child that was told to go in another queue than its own? | 3 processes, 1 crash, 2 reconfigurations, of which the second may come while the old queue is in use, stop |
| `monitor_liveness` | Do children and monitor stop; are dead children replaced? | 3 processes, 1 server, worn children, 1 crash, stop |
| `monitor_old_told` | (violated) Are all children of the old configuration told to go? | 4 processes, 2 servers |
| `proxy_run` | Does the exit code tell the truth, are the stores cleared, does the program end? | 2 answers with any headers, faults anywhere |
| `gw_requests` | Is nothing sent unscanned; is the whole body scanned; are lengths and counters true, files removed; do requests end? | each kind of request alone, pairs of some kinds with and without failing `fork` and `execvp`; MaxObjectSize 3 with bodies of 0 to 4 bytes |
| `gw_fork` | (violated) Does `exec_prog` return the status of its own process? | 2 requests whose `fork` may fail |
| `body_stream` | Are the containers streams, and does the reader of chunked bodies find exactly the body? | see `MCBody` |
| `request_requests` | Does a request get one complete answer, and its service the whole body; does a kept connection stay in step; does a request end? | see `MCIcapRequest`: requests with and without preview and body, services that lock or unlock, connections that fail at any step |
| `library_parts` | Do allocators, arrays, lists, headers, cached bodies, caches, tables, templates, logs, mutexes and statistics keep what they were given? | see `MCLibrary` |
| `server_parts` | Do access rules, reconfigurations, calls on connections, commands, the head of a request, the clients and the sample services do what was asked, once and in order? | see `MCServer` |

The properties are conjunctions where the code asks one question: `Settled` is
`ScansCounted` and `FilesGone`, `DoneIsWhole` is `KeptWhole` and `OkIsWhole`,
`ThreadsMoveOn` is `ListenerStarts` and `ServiceEnds`, and the like; the parts
are defined just before. The type invariants are conjuncts too, except the one
of `ChildServer`, which is proved.

Why the bounds are enough. The queue of a child has as many places as workers, so
one connection more than workers fills it; the threads are symmetric.
A second worker adds interleavings of the counters and the queue, which
`child_serving` has; the shutdown waits for each worker in the same way.
In the monitor three processes are one that serves, one that replaces
it and one that is forked too late. The containers go round their buffers more
than twice, with calls that are larger than the buffer. A request needs at most
three items on each side to have one received, one held and one being sent; five
fill the echo buffer.

In the library, sizes lie on both sides of each limit, caches are smaller than
what is stored and see entries expire, two threads or processes meet in each
critical section and one of them may die or find a file gone. The configuration
is read four times in any order of eight files, so that each meets what every
other leaves, with numbers of servers on both sides of the limit and a port that
changes its kind or is named twice; the client's file is read whole or through a
pipe in any pieces; requests on a connection follow each other in threes, read at
most six bytes at a time and in any smaller pieces, so that a header ends at every
place of a read.

`IcapRequest`, with every request and every failing connection, does not keep
`ServiceGetsAll`, `OneAnswer`, `OkIsWhole` and `ErrorCloses`; `AllRequests`
leaves out the combinations that `MCIcapRequest` names one by one
(`Refutes...`), and the properties hold for the rest. In the same way
`NothingUnscanned` and `FilesGone` are about loads whose `fork` succeeds. The
parts of `MCLibrary` and `MCServer` say in the property where the code makes an
exception: a slot a killed process was writing, a page two threads were in at
once, an array after an add that failed, a child that died before it attached its
statistics or between the stores of a carry, a preview read in pieces, and so on.
Each
exception is one of the disagreements below.

### Fairness

* `ChildServer`: the scheduler runs each thread that is not blocked, signals
  arrive, and a monitor that stops the server repeats its order, as
  `kill_all_childs` does. Nothing is assumed of clients: polling, accepting and
  serving need not finish. `ServiceEnds` alone assumes that requests end
  (every wait of `process_request` has a timeout) and says so in its premise.
* `Monitor`: the monitor and each child run, SIGTERM arrives, a child that goes
  down exits, and one whose pipe was closed notices. No crash, order or policy
  decision is assumed.
* `CloudProxy`: `RunAsync` goes on and the timer expires. Broker and service may
  stay silent.
* `GwRebuild`: each worker goes on, its timeout included, as long as the child
  lives; proxies may hang.
* `IcapRequest`: the worker goes on; every wait for the client ends in data or in
  a timeout. Once a stale buffer goes out nothing is assumed.
* `MCBody`: the reader of chunked bodies goes on, a client that has more to send
  sends it and the service takes data again and again (strong fairness of
  `net_data_read` and of a service call that takes something).
* The library and the parts around the request are checked for safety only.
  `NetIO` and `Stretch` state the fairness (the calling thread runs) under which
  two of the statements below are refuted.

Deadlock is not checked where a behaviour ends: a child that is down, a server
that has stopped, a request that is answered, a bound that is reached.

## Proofs

Eight modules hold theorems. A component's `ConstantsAssumption` is all that is
assumed about its constants, apart from the hypotheses of `IcapRequest`, which the
theorems state.

| theorem | states | for |
|---|---|---|
| `ChildServerProofs!TypeCorrect` | `TypeOK`: the queue stays within its array, the counters within the thread pool | any finite non-empty set of workers, any connections, ports, requests, rounds |
| `CountersAlways` | `CountersAgree`: `usedservers` and `freeservers` count what the workers do | the same |
| `MutexAlways` | `AcceptUnderMutex` | the same |
| `RoomAlways` | `RoomAfterHasChild` | the same |
| `ShutdownAlways` | `ShutdownClosesServed` | the same |
| `PlacesAlways` | `ConnOnePlace`: every connection is in exactly one place | the same |
| `LifecycleRefined` | `ImplementsLifecycle`: the child implements `ConnLifecycle` | the same |
| `MonitorProofs!QueuesAlways` | `QueuesTrue`: no pid that was waited for in a queue, no queue destroyed under a child that was told to go | any number of processes, servers, threads, crashes, reconfigurations |
| `CloudProxyProofs!ExitAlways` | `ExitTrue`: the exit code was stated by the service, the stores are cleared | any number of answers, faults anywhere |
| `CloudProxyProofs!ContractKept` | `KeepsContract`: cloud-proxy-app implements `ProxyContract` | the same |
| `GwRebuildProofs!ScannedAlways` | `ScannedWhole`: nothing unscanned and nothing of another request is sent, what is scanned is the whole body, and only a rebuild with DataCleanup exposes other requests | any finite set of requests of any size, any MaxObjectSize |
| `GwRebuildProofs!LengthAlways` | `LengthTrue` | the same |
| `GwRebuildProofs!SettledAlways` | `Settled`: scans are counted once (and once more by each copy that returns), files removed, objects given back | the same |
| `IcapRequestOrder!AnswerAlways` | `AnswerInOrder`: one answer, in order, not before the service allows it | requests, buffers and chunks of any size; `LocksFor204` |
| `IcapRequestProofs!GivesAlways` | `ServiceGetsAll` | the same; `TakesAll` |
| `IcapRequestProofs!WholeAlways` | `DoneIsWhole` | the same; all three hypotheses |
| `BodyProofs!RingIsStream`, `RingCallsAlways` | the ring buffer implements `ByteStream`; `ShortReadEmpties`, `ShortWriteFills` | any size of the buffer and the calls |
| `MemIsStream`, `MemCallsAlways` | the memory buffer implements `ByteStream`; `IsString` | any STARTLEN, INCSTEP, memory and calls |
| `FileIsStream`, `FileLockHolds`, `FileCallsAlways` | the file implements `ByteStream`; no read goes behind the lock; `RemainsAsserted` | any calls and failing writes; no limit, or locked until the end is written (`FileConstants`) |

None of the properties is inductive by itself. The arguments, by component:

**Child.** `TypeInv` adds to the types which thread holds a connection at which
position (`ConnInHand`) and the bounds of the shutdown's rounds, and is
inductive. The Boolean variables are kept apart (`Bools`), which suits the
provers. The bounds of the counters do not follow from the types: they follow
from `CountersAgree`, the cardinality of the set of workers between the two
counter updates, which is inductive relative to `TypeInv`: two steps move one
worker in or out (`CountersStep`), all others none (`CountersFrame`).
`ControlInv` joins the accept mutex, `JobsCoverQueue` (the count the listener
got from its last put is never less than what is queued, though workers take
connections in between) and `JoinedAreGone` (a joined worker has left). With
these, `haschild` implies room in the queue, and a child whose workers are all
joined has nothing open. For the connections, the steps that move one are
singled out (`Moves`), each has a lemma that says from where to where, and every
other step leaves all places alone (`PlacesFrame`); `ConnOnePlace` and the steps
of `ConnLifecycle` follow case by case.

**Monitor.** Each action is first shown to be one of a few effects: it forks the
least process that is left (`Forks`), gives orders to children with a slot in one
of the two queues (`Orders`), reaps one process (`Reaps`), or is a child writing
its own slot (`Writes`). `QueueOrder` (queues are numbered in the order they
were made) rules out that a new queue is one that a child already has, and
`SlotInv` says when a process has a slot and where the slot of one that was
waited for can be: in neither queue. `NoGhostSlots` follows from the latter, and
the old queue can be let go because the last slot in it was the reaped one's.

**cloud-proxy-app.** `ClaimsInv` follows a stated outcome from the service
through the broker's answers and `_respQueue` into `outcome`; `PlaceInv` says
what has been done to the files at each place, so that an exception there
returns the right code. The refinement maps each step to a step of
`ProxyContract` (the copy writes, the end exits) or to none.

**gw_rebuild** (`GwRebuildInduct`, `GwRebuildProofs`). A step of one worker or
proxy leaves every other request alone (`Frame`), except that a worker whose
fork failed may take the end of another's proxy. So each part of the invariant
is shown for the request that acts, and framed for the rest: `StoreInv` (how far
the body is stored at each place), `FilesInv` (which files `data->body` names,
and how often each object was given back), `ProxyInv` and `OwnInv` (a status is
the own proxy's, as long as no fork fails), `AnswersInv` (every answer, not just
the last, was earned and has its true length), `DiskInv` (a file on the disk is
named by its body or belongs to a proxy that was given up) and `ScansCounted`,
whose cardinalities move by one request at a time. Stale chunks, clients that
close and exposed requests move only a place and an answer (`QuietStep`). The proof of `ScannedWhole`
turned up a case the run's loads did not have: a body that arrives whole in a
preview above MaxObjectSize is stored cut off, as nobody looks at what
`gw_body_data_write` returns but for an error, and is scanned. `PreviewCut`
excepts it, `LargerRefused` states what the configuration file promises, and
`AllLoads` now has such a request.

**ICAP request** (`IcapRequestOrder`, `IcapRequestProofs`). `Shape` says what has
been sent at each send status and `Place` what the position in `do_request` adds,
above all when an answer may already have begun; together (`SendInv`) they are
inductive relative to `TypeInv`, which bounds the buffers. `GivesInv` is about
the other direction: what is left on the wire and with the reader at each place,
and that a round ends only when the service has taken everything. `WholeInv` adds
the conservation of the body, `Total`: items still to come, pending, held by the
service, in the chunk being made and sent add up to `BodySize`, until the answer
is complete. It holds until a stale buffer goes out or the service stops short,
and then `erred` says so for good (`ErredStays`). The hypotheses are about the given set of requests, and each is
needed, as the `Refutes...` sets of `MCIcapRequest` show: `LocksFor204`, that a
service which may answer 204 while the body comes has not unlocked its data
(`RefutesOneAnswer`); `TakesAll`, that a service can hold the body or passes it
on over a connection that does not fail, and does not answer such a request with
a 206 (`RefutesServiceGetsAll`, `RefutesServiceGetsAll206`), and that an echoed
body fits its buffer; `Undisturbed`, that the connection does not fail under an
OPTIONS request or a dropped body (`RefutesOkIsWhole`, `RefutesErrorCloses`).
`MCIcapRequest` assumes all three of `AllRequests`, so the runs are within them.

**Body containers** (`BodyProofs`). The ring buffer's invariant replaces the
pair of positions and `full` by one number, the bytes stored: `write_pos` is
`read_pos` plus that number, wrapped once, and `full` tells a full buffer from an
empty one (`Positions`); the k-th stored byte is the k-th not yet read
(`Contents`). What a block of a call may touch is then linear arithmetic
(`WriteBlock`, `ReadBlock`). In the memory buffer and the file byte i + 1 is at
offset i. The memory buffer needs that the growing loop stops at a size that is
large enough (`Growth`); the file that it never enters ring mode, which the
hypothesis gives: there `EofAfterLastByte` is refuted.

The invariants of each component were checked with TLC on the instances of the
runs before they were proved.

Only model-checked:

* liveness (`ProxyEnds`, `ServerStops`, `KeepsServers`, `ImmediateShutdown`,
  `ThreadsMoveOn`, `RequestEnds`, `ChunkEnds`): the prover has no support for
  fairness;
* the reader of chunked bodies (`ChunkExact` and the parts of `BodyCalls` and
  `BodyIsStream` that are not proved container by container): what a body is on the
  wire is a recursive function of its chunks, and the proof would be an induction
  over it;
* the properties of `MCLibrary` and `MCServer`.

## Where the code and its texts disagree

Two runs show a statement of the repository that the code does not keep; the
findings in `PROJECT.json` quote the lines.

* `monitor_old_told`: a child that was forked before a reconfiguration and
  registers after it is never told to go.
* `gw_fork`: after a failed `fork`, `exec_prog` waits for pid -1. In the trace
  there is no process to wait for, `waitpid` fails, and `exec_prog` returns what
  its uninitialised `status` holds, as if a proxy had exited with it. (While
  another request's proxy runs, the same call would take that one's exit status.)

The modules state others, which no listed run checks; TLC refutes each of
them with the constants given here (`AllLoads`, `Refutes...` and the parts of
`MCLibrary` and `MCServer` are the instances of those modules).

| statement | refuted with | what happens |
|---|---|---|
| `NoServersIsABug` (mpmt_server.c:804) | 2 workers, 1 port, 4 connections | a worker counts itself free and signals after the unlock; the late signal lets the listener go on with a full queue, the connection is dropped without a close and the listener ends |
| `GracefulServesAccepted` (mpmt_server.c:573) | `ChildServer_shutdown.cfg` | queue and flag are looked at in two steps; a connection queued in between is not served |
| `GracefulShutdown` (mpmt_server.c:231) | the same, `ServingSpec` | a worker between its test and its wait misses the only broadcast; the wait for it has no limit |
| `ImmediateTimeout` (mpmt_server.c:252) | the same | a later graceful order takes the limit away again |
| `OldQueueReleasedLast` (mpmt_server.c:429) | `Monitor_old_told.cfg` | a child that has not registered yet does not count |
| `OneDeathAtATime` (proc_threads_queues.c:340) | the same | the order shows only when the child has taken it |
| `MaxServersKept` (c-icap.conf.in:63) | the same | children without a slot, and those going down, do not count |
| `MonitorStops` without `DiedUntold` (mpmt_server.c:289) | `Monitor_liveness.cfg` | a child that died before it took the order is never waited for |
| `AnsweredOnce` (gw_rebuild.c:580) | `AllLoads` | after a failed `execvp` both processes answer |
| `FreedOnce` (mem.c:391) | `AllLoads` | `store` and `rebuild` are one object, destroyed twice |
| `OwnContent` (gw_rebuild.c:406) | `AllLoads` | a request that runs on after that may send what another one stored |
| `MaximumScanned` (gw_rebuild.conf:17) | `AllLoads` | a body of exactly MaxObjectSize is refused when its end comes alone |
| `LargerRefused` (gw_rebuild.conf:17) | `AllLoads` | a body that comes whole in a preview above MaxObjectSize is stored cut off and scanned |
| `ErrorStopsSending` (request.c:1139) | `AllLoads` | an error that leaves the length alone lets the old buffer be sent, until the client closes |
| `HeadersCopied` (request.c:1457) | `AllLoads` | the branch without service data dereferences it |
| `EofAfterLastByte` (body.c:761) | `SimpleFile` with `max_store_size` 3, `Locking` "never" | in ring mode equal positions mean both empty and full |
| `RestKept` for previews (request.c:1666) | `ChunkStream` | a preview that ends the body drops what follows it in the buffer |
| `RejectsMalformed` (request_common.c:573) | `ChunkStream` with the wire "0 CR LF X LF" in `Malformed` | the two bytes behind the zero chunk are tested with `&&`, so one wrong byte passes |
| `BytesCounted` (request.h:170) | `ChunkStream` | an incomplete zero chunk is counted again |
| `OneAnswer` (request.c:674) | `RefutesOneAnswer` | dropping the body begins a second answer behind the 204 |
| `ServiceGetsAll` (request.c:1625, service.h:245) | `RefutesServiceGetsAll` | the client fails while the service still has data to take; the end-of-data handler is called without it |
| `ServiceGetsAll` (request.c:1625) | `RefutesServiceGetsAll206` | after a 206 outside preview the body is not read |
| `OkIsWhole` (request.c:1532, 1450) | `RefutesOkIsWhole`; `EchoCap` 4, or 2 and an unlocking service | an OPTIONS answer that cannot be written counts as sent; an echo that does not fit its buffer is cut |
| `ErrorStops` (request.c:1139) | `MCIcapRequest` | the comment has an error stop the sending; only one that sets the length does |
| `EndsAt204` (service.h:234) | ALLOW204_AS_200OK_ZERO_ENCAPS | the 204 has become a 200, and the request goes on |
| `ErrorCloses` (request.c:1538) | `RefutesErrorCloses` | one error path keeps the connection |
| `EntriesSet` (`PackArray`) | `MCLibrary` | an add that fails for want of space keeps its place in the index |
| `SizeStated` (`Headers`) | `MCLibrary` | after the removal of a line that is not the last, sizeofheader is one too large |
| `WholeAtEnd` (`CachedFile`, body.c:483) | `MCLibrary` | bytes whose write to the file failed are counted as accepted |
| `AllReleased` (`LdapTable`, ldap_module.c:235) | `MCLibrary` | after the last failure one more connection is opened and never given back |
| `CacheMakesPlace` (`Templates`, txtTemplate.c:63, 238) | `MCLibrary` | a full cache evicts nothing; later templates are read from their files each time |
| `ServerLogThere` (`Logs`) | `MCLibrary` | the server's log is tested before the lock; relog may fail to open it in between |
| `DefinedOnce` (`Logs`, log.c:404) | the last log named twice | the last file of the list is not compared |
| `ThreadsExcluded` (`SharedCache`) | `MCLibrary` | the default file locks do not keep two workers of a child apart, and a lock that fails is not noticed |
| `InfoBytesTrue` (`Stats`) | `MCLibrary` | a child's kilobytes are read after a carry and its bytes before, so that a kilobyte is counted twice |
| `InfoAtMost` (`Stats`) | `MCLibrary` | a child removed while the slots are read is counted twice |
| `ValuesAreFields`, `HashIsFile` (`Tables`) | `MCLibrary` | a field of blanks takes the rest of its line; of rows with one key, the list has the first and the hash table the last |
| `TimeWithoutDays` (`Access`, acl.c:282) | a time acl without days | it never matches |
| `DefaultsRestored` (`Config`, cfg_param.c:992) | `MCServer` | what ci_cfg_* sets, the schemes of locks and shared memory, CI_TMPDIR, TLS_ENABLED and a StartServers lowered to MaxServers keep their old values |
| `PortsListen` (`Config`) | `MCServer` | icap_init_server_tls does not look at what BIO_do_accept returns; a TLS port that could not be bound counts as open, also at the next reconfiguration |
| `Allow206Stated` (`Config`, c-icap.conf.in:695) | `MCServer` | on disables and off enables |
| `NamesStay` (`Config`) | STEP 1 | growing the table of aliases or services moves what parameters point to |
| `CallEnds` (`NetIO`, os/unix/net_io.c:376) | `MCServer`, `FairSpec` | a wait that fails is repeated for ever |
| `TlsReadTrue` (`NetIO`) | `MCServer` | a TLS read fails although data arrived while it waited |
| `AllReach` (`Commands`) | `MCServer` | two commands read at once are taken for one that is unknown |
| `ScheduledOnce` (`Commands`, commands.c:218) | `MCServer` | the queue is searched before the lock is taken |
| `ServerOwn` (`RequestHead`) | `MCServer` | a request that fails to parse has the server name of the one before |
| `OkHasBody`, `PartialHasBody`, `ReadIsKept` (`IcapClient`) | `MCServer` | a 200 to a preview loses its body; a 206's body is not read; a connection closed behind a whole answer is an error |
| `PreviewExact` (`IcapClient`) | `MCServer` | the buffer is not advanced: a read after a short one overwrites the preview from its start |
| `EarlyIsKept` (`IcapClient`) | `MCServer` | an answer other than a 204 that is there in full does not end the call: the body is still written, and a write that fails makes it an error |
| `HandlerNotBlocking` (`Stretch`, c-icap-stretch.c:123) | `MCServer` | the handler joins a thread that waits for a mutex of the thread it runs on |
| `MaxEnds` (`Stretch`) | `MCServer`, `FairSpec` | file requests that failed do not count, and the number is not reached |
| `RequestLengthTrue` (`DemoServices`, srv_ex206.c:153) | `MCServer` | the length is changed in a response's headers only |
| `PreviewHeld` (`DemoServices`) | a preview larger than the ring | what does not fit is lost |
| `TakesTurns` (`DemoServices`) | `MCServer` | `whattodo` is not locked |

Smaller ones that the modules follow without stating: `ci_list_remove` leaves
`last` on a removed last node (the two instances of `List` keep it apart from
`ci_list_push_back`, as every caller but memcached.c does); a child that dies
before it attaches its statistics adds its predecessor's to the history once
more; header lines that end in a bare LF are indexed two characters on; a shared
cache entry that was displaced is never found and its users are never counted
down for a killed process; `del_mutex` leaves `last` on a freed item;
acl names that no acl has are dropped from a rule; the duplicate check of
`register_conf_table` stops at the first empty slot; a port that changes its
kind under its old number fails to bind while old children listen on it, which
only a plain port reports; a TLS port named twice aborts the next
reconfiguration; the expiry of
a template is noticed when it is released, so that the request that finds it
stale still uses it; `ci_tls_connect` tries again when its time is over, and a
raw `linger_close` leaves the connection's descriptor set.

## What is not modelled

Whole parts, with the reason, as in `PROJECT.json`: the Berkeley DB, DNS and
memcached modules, whose operations are calls into libraries; the decoding of
HTTP credentials; content helpers (file types, encodings, digests, regular
expressions, formatted texts), which convert text without a state; wrappers of
shared memory and of libraries; the set-up of cloud-proxy-app; the Windows port
and `perl_handler`, which are not built.

Inside the modelled parts: failures of thread mutex operations and of malloc,
except in `MemBuf`; a failing creation of a new children queue; the texts of
answers, pages and log lines; chunk lengths of more than one digit; truncation
and mapping of body files, which nothing in the repository uses; the ISTag of the
service; dynamic arrays and vectors of pointers; destroying a local cache,
closing LDAP tables, emptying the template cache and the command list at a
reconfiguration; acl types other than src, user and time; contexts, certificates
and addresses of connections; the info page; the configuration of
cloud-proxy-app, which either works or makes a later step throw. Sockets, the
file system, the directory server and the client's server appear as the outcomes
the code tells apart.
