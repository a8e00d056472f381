# Pwrake in TLA+

Pwrake (`lib/pwrake/`) is a parallel version of Rake.  It replaces the
depth-first, sequential execution of Rake by a pool of worker threads, one per
core of a list of hosts, each with a shell connection to its host; a tracer
finds the tasks that are ready, a queue hands them to the workers.  Files may be
in Gfarm, a distributed file system, and tasks then run where their files are;
the repository holds the client library of Gfarm, `libgfarm`
(`handson/ex2/lib/libgfarm`), over which this access goes.

This directory holds TLA+ modules of the concurrent core of Pwrake and of the
stateful parts of libgfarm, TLC configurations that check them on small
instances, and TLAPS proofs of theorems about Pwrake's queue, tracer, operator, host list and
shell connections, and about libgfarm's authentication, its event queue, its search for idle
nodes, its calls on nodes and on the metadata server, its attribute cache and its connection cache.

## 1. The system

### Pwrake

| part | state | operations | talks to |
|---|---|---|---|
| `Pwrake.manager`, `Manager` (manager.rb) | `@core_list`, `@host_group`, `@connection_list`, `@operator`, options | `setup_logger`, `setup_hostlist`, `setup_filesystem`, `setup_connection`, `setup_dag`, `finish` | creates everything else, lazily |
| overrides of Rake (rake_mod.rb) | `already_invoked`, `output_queue`, `assigned` of a task | `top_level`, `invoke_task`, `Task#invoke`, `Task#execute` | call `Operator#invoke` and `#finish` |
| `Operator` (algorithm.rb) | `@workers`, `@input_queue`, `@tracer`; per thread `:connection`, `:id` | `initialize`, `thread_loop`, `invoke`, `finish`, `standard_exception_handling` | pushes to and pops from `TaskQueue`, asks `Tracer`, per-invoke output queues |
| `Tracer` (algorithm.rb) | `@footprint`, `@fetched`, `@fetched_tasks`, `@mutex` | `available_task`, `find_task` | reads `already_invoked`, which workers set |
| `TaskQueue` (scheduler.rb) | `@q`, `@finished`, `@th_end`, `@m`, `@cv` | `push`, `pop`, `finish`, `stop`, `thread_end` | all threads |
| `SimpleQueue` (scheduler.rb), `HostQueue`, `AffinityQueue`, `Throughput` (affinity.rb) | one array, or one per host | `push`, `pop`, `pop_alt`, `clear`, `empty?` | called by `TaskQueue` under `@m` |
| `Scheduler`, `AffinityScheduler` | none | hooks `on_start`, `on_trace`, `on_execute`, ... | `on_trace` sets `task.assigned` |
| `Shell`, `SSH`, `GfarmSSH` (shell.rb, ssh.rb, gfarmssh.rb), `sh` and backquote (system.rb) | `@io`, `@lock`, `@status`, `@terminator`, `OPEN_LIST` | `open`, `close`, `system`, `backquote`, `connect_list`, `gfwhere` | the shell of a host, by a terminator line |
| `Logger`, `Log`, `Timer`, `Counter` | `@out`, `LOCK`; counters | `open`, `puts`, `finish`, `close`; `count`, `print` | all threads |
| graph.rb, metis_tools.rb | a graph of tasks | partition with the program kmetis | never reached: `@scheduling` is never `"graph_partition"` |

How a run goes.  `rake` loads the Rakefile, whose top level may invoke tasks,
and then calls `invoke_task` for each target of the command line.
`Operator#invoke(root)` repeats: ask the tracer for the tasks below `root` that
are ready (a batch), store an output queue in each, push the batch to the input
queue, pop as many tasks as it has from the output queue; until the tracer
returns nil.  Each worker repeats: pop a task, set `already_invoked`, run the
action, push the task to its output queue.  An action may itself invoke tasks;
then its thread starts one more worker on its own connection, becomes an
invoker, and at the end tells that worker to end through `@th_end`.  When a
task raises, its worker calls `stop`, which clears the queue, and `exit`, which
raises `SystemExit` in the main thread too.  `invoke_task` ends, in an `ensure`,
with `Operator#finish`, which finishes the queue and joins the workers.

What is hard about Pwrake:

- one `signal` for many tasks, passed on by each `pop`; workers that go back to
  sleep because a task is for another host;
- `finish` and `thread_end` write and signal without the mutex of the queue;
- the tracer clears its footprint and its batch before it takes its mutex;
- `already_invoked` is set before an action runs, so the order of tasks hangs
  on each invoke waiting for its whole batch;
- a failure meets main anywhere: with a lock held, in a wait, in a join;
- nested invokes share the tracer and the queue.

### libgfarm

A program reads and writes files through `gfs_pio_*`, asks the metadata server
`gfmd` about names, and talks to the server `gfsd` of each file system node.
There is one thread; what runs "at the same time" are the servers, other
clients, requests under way in the event queue, and time.

| part | state | operations | talks to |
|---|---|---|---|
| buffered file I/O (gfs_pio.c) | `struct gfs_file`: buffer, `p`, `length`, `offset`, `io_offset`, mode flags, `error` | read, write, seek, truncate, getc, putc, ungetc, lines, delimiters, flush, sync, close | a view of the file: requests to one node |
| views, copies, statfs on nodes (gfs_pio_section.c, gfs_pio_remote.c, gfs_replicate.c, gfs_statfsnode.c) | the connection of the view, the node chosen, retries left | set the view, `gfarm_schedule_file`, open, replicate, statfs, close | the connection cache, the scheduling, gfmd, gfsd |
| connection cache (conn_cache.c over lru_cache.c, conn_hash.c) | hash table, list in the order of use, `free_cached_entries`, references | acquire, enter, addref, free, purge, gc, terminate | gfs_client.c and gfm_client.c, which hold references |
| authentication (auth_client.c, auth_server.c, auth_common.c) | try, method, key and its expiry; callbacks of two events | the straight-line and the multiplexed client, the server, the key file | both ends of a new connection |
| scheduling of nodes (schedule.c) | what is known of every host and network, counters of a search, requests outstanding | select hosts, callbacks of load, connection and disk space, reset of the cache | the event queue, the connection cache, gfmd |
| event queue (gfutil/gfevent.c) and multiplexed requests | list of events with timeouts, the sets of `select`; a state per request | add, delete, turn, loop; send and receive callbacks | sockets |
| operations on gfmd (lookup.c, gfm_client.c, gfs_*.c) | the connection, requests written ahead, retry, sleep interval | open, mkdir, remove, rename, link, stat, ... as compounds | gfmd, the connection cache |
| marshalling and buffers (gfp_xdr.c, iobuffer.c, io_fd.c) | two buffers per end | send, flush, recv, purge, a passed descriptor | every server |
| remote commands (gfs_client.c) | pipes, residuals, states of client and server, a pending signal | request, one loop of select, signals, result | gfsd and the command it runs |
| replies that are lists (gfm_client.c), replicas received (gfs_client.c) | the steps left of a call, what is unread of its reply | calls over one connection; the loop of `gfs_client_replica_recv` | gfmd, gfsd, a local file |
| containers (gfutil/id_table.c, hash.c, tree.h) | index with a hole, free numbers; chains; nodes with colours | alloc, lookup, free; enter, purge, iterate; insert, remove, splay | used by schedule.c, conn_cache.c, gfs_dircache.c, gfmd |
| directory and attribute cache (gfs_dircache.c, gfs_dirplus.c) | list by expiration, hash table, lifespan; a block of entries read ahead | stat, read, purge, expiration set, clear | gfmd |

What is hard about it:

- one buffer serves reads and writes, over requests that move less than asked;
- counters, lists, tables and references are kept by several functions, and an
  assertion fails long after the one that went wrong;
- two authentication clients, one of them in callbacks, against a key that
  expires in between;
- callbacks change what the code that started them iterates over, add events to
  the list that is being walked, and close descriptors whose numbers come back;
- requests are written ahead of their results, and a connection may have been
  stale before, or be lost between a request and its answer;
- retries are nested, and each must release what it holds;
- full buffers on both ends of one connection, and a descriptor that must be
  read past the buffer;
- a cache that expires in the order of a list, under lifespans that change.

The properties that make each part correct:

- TaskQueue: mutual exclusion; no task is forgotten while workers sleep; finish
  reaches every worker; a task is handed out once.
- Tracer: a batch holds tasks whose prerequisites were all invoked, and is never
  empty; nil is returned only when all is invoked; a circular dependency is
  reported exactly when there is one.
- Operator: a task begins after its prerequisites are completed, and runs once;
  an invoke returns when the task is completed; a failure never looks like
  success; the program exits.
- Shell: a command's status is that of this command, a command's output is not
  mixed with another's, a connection is closed once.
- Manager: `core_list` holds each host as often as it has cores.
- File I/O: it behaves as a file with a position.
- Connection cache: counter, list, table and references agree; what goes first was
  used least recently.
- Authentication: both sides agree on the result; an expired key is renewed.
- Scheduling: what is counted is there, nothing outstanding is left behind.
- Event queue: a request has one event, of a descriptor of its own; a callback is
  called for a reason; every request comes to an end.
- Operations on gfmd: an answer is taken for its own request; references are
  given back; nothing is executed twice without a lost connection; a stale
  connection is forgiven.
- Marshalling: what is sent arrives, however it is cut.
- Remote commands: outputs and input are forwarded whole and in order, and the
  loop ends.
- Attribute cache: an answer is the last that was seen, within its lifespan.
- Calls on nodes: one reference is kept, a stale connection costs a retry.
- Lists and replicas: a call reads its own reply, whole, whatever fails in the middle.
- Containers: what was put in is found, under its own key, and is visited once.

`PROJECT.json` lists the hazards with the lines where they bite.


## 2. The modules

### Pwrake

**HostQueue** (scheduler.rb `SimpleQueue`, affinity.rb).  Operators on a
function from hosts to sequences of tasks.  `Locality[j]` is the list of hosts that
`on_trace` assigns to task `j`; `Targets(j)` the sets of lists `push` may store
it in (its hosts, or one list at random when none of them has one); `PopFrom`
takes the head of one list and removes it from all; `AltHosts` are the lists
`pop_alt` may choose.  `Throughput#interhost` is one of two numbers, so only
same or other domain remains of it.  `SimpleQueue` is the case of one host.

**TaskQueue** (scheduler.rb).  One action per segment of code between two points
where another thread can act: taking `@m`, releasing it, `@cv.wait`, and the
unlocked writes of `finish` and `thread_end`.  `at[v]` says where thread `v` is.
A signal wakes any one waiter.  `QSpec` is its most general client without
nested workers: main pushes tasks that are not queued, in any batches, and
finishes at any time; a worker pops, and may call `stop` at any time.

**Tracer** (algorithm.rb).  `find_task` as a depth-first search with an explicit
stack of frames (task, prerequisites to visit, result so far).  Arrays have an identity
(`current` and `batch` refer into `array`), so that two invokers holding the same
`@fetched_tasks` is a state of the model.  `TracerSpec` lets any threads call
with any roots at any time, tasks be marked at any time and a thread be
interrupted by an exception.

**SoleInvoker** extends Tracer by the loop of one `invoke` whose batches are
executed before the next call (`TSpec`), for what only holds without
interference.

**Operator** (algorithm.rb, rake_mod.rb) extends TaskQueue and instantiates
Tracer: main, workers, nested workers, output queues, failures, the join of
the workers, and the exit of the process.  Its variables `begun` and `done`
record executions and are read by no action.

**Workflow** is the abstract specification of a run: each task goes from idle to
running to done once, and starts when its prerequisites are done.

**Shell** (shell.rb, system.rb).  Connections, each a shell process with a stream
of commands to it and a stream of tokens (text, newline, terminator, status) from
it.  `gets` reads up to a newline or to the end of the file, so that output without
a last newline hides the terminator as it does in the code.  A call is five steps:
write the command under `@lock`, write the echo, read line by line, release
`@lock`, read `@status`.  `close` is run by the `ensure` of a worker and, when the
process exits at any time, by the `END` block for the connections in `OPEN_LIST`.
A connection in `Mortal` may be lost at any time: writing then raises, and reading
ends at the end of the file.

**HostList** (manager.rb, `setup_hostlist`).  The host file is read line by line and
the cores are dealt in rounds.

**Gfwhere** (affinity.rb, gfarmssh.rb).  `on_trace` for one batch: the files of its tasks
are collected (`Collect`) and added to a command until its length reaches the limit, and the answer of a command for
one file has no names in it.

### libgfarm

**GfsPio** (gfs_pio.c).  A function of the code is an operator that gives the set
of its outcomes: the file descriptor, the node, the error and the bytes; functions
that call others compose these sets.  Requests may move fewer bytes than asked or
fail.  **GfarmFile** is the abstract file with a position, of which GfsPio is a
refinement (`PioSpec`, `content <- Contents`, `pos <- Where`); **FileBytes** holds
what both say of bytes and holes.

**ConnCache** (conn_cache.c, lru_cache.c, conn_hash.c).  One action per call that
gfs_client.c and gfm_client.c make, a step of the program between which it holds
any references; `abort` is a state.  The loop of gc (`Gc`) is what it has let go when it stops: the
first `Turns` of the entries that nobody holds, from the tail of the list (`Oldest`).

**Auth** (auth_client.c, auth_server.c, auth_common.c).  Either client against the
server, one message a step, the callbacks of the two events named as in the code,
with a key file whose key expires or is replaced in between.

**SearchIdle** (schedule.c).  `search_idle` as far as the next turn of the event
queue; in a turn the callback of any request that was answered runs, refused or
timed out.  Flags, counters and the outstanding requests are those of the code; what is left
of a loop over hosts or networks is the set of them that have not been visited, taken in the
order of the list (`First`).

**EventQueue** (gfevent.c, and the multiplexed requests of gfs_client.c and
auth_client.c).  The detail below SearchIdle: `select`, then one step per event of
the list, whose callback takes it out, adds the next one, or closes its
descriptor.  A descriptor is a number, taken again by the next socket.  A turn
keeps the sets of its select while callbacks add events.

**GfmOp** (lookup.c, gfm_client.c, gfs_*.c).  `RequestsOf` and `ResultsOf` are the
two passes over the path or paths of an operation: what is written ahead and what is
read.  Connections go between client and gfmd, gfmd restarts, connections are
lost; the client retries once, and sleeps while it connects.

**IoBuffer** (iobuffer.c) gives the functions on a buffer by what the descriptor
accepted or delivered.  **Xdr** (gfp_xdr.c, io_fd.c, and the calls of gfs_client.c)
is both ends of a connection with their four buffers: items are bytes, cut wherever
the buffers and the socket cut them, and converted back.  **RemoteCommand**
(gfs_client.c) is the loop of `gfs_client_command_io` and its descriptors against
gfsd, over the same buffers.

**StatCache** (gfs_dircache.c, gfs_dirplus.c).  Each call is one action; between
calls other clients change the files and time passes.

**NodeCall** (gfs_pio_section.c, gfs_replicate.c, gfs_statfsnode.c,
config_client.c).  Connections, their process and their references, the three
nested retries of an open, and the copy to the local node inside of it, while nodes
go down and come back.

**Protocol** (gfm_client.c, gfs_client.c) lists the calls of both protocols by the fields
they send and read.  **ListCall** runs them: a call is a sequence of steps (the result,
an entry, an allocation), each of which consumes a prefix of the reply.  The server has
written its whole answer before; the connection may end behind any prefix of it.

**ReplicaRecv** (gfs_client.c).  The stream of sizes and bytes of `gfs_client_replica_recv`,
partial reads and writes, and a `write` that fails.

**IdTable** (id_table.c): the index is a sequence with a hole, each function one operator on
the record of the table.  **HashTable** (hash.c under conn_hash.c): chains, and two iterators,
one that looks and one that purges.  **Tree** (tree.h): both kinds of trees as a function
from elements to records of parent, children and colour, rotated as the macros do; a side
is a parameter where the macros write each case twice.

### Proofs and instances

The theorems are in **TaskQueueProofs** (with what HostQueue's lists hold),
**TracerProofs**, **SoleInvokerProofs** (the loop of one invoke), **OperatorProofs** (the
invariant that joins threads, queue and tracer, and what follows from it: the refinements),
**HostProofs** (what concerns hosts and connections to them: Shell, HostList, Gfwhere),
**EventProofs** (Auth, EventQueue), **StorageProofs** (NodeCall, SearchIdle) and
**GfmProofs** (GfmOp, and the caches: StatCache, ConnCache).

**MCTracer**, **MCOperator**, **MCShell** and **MCEvents** hold the constants of runs;
`mux_retry` runs Auth itself.  **MCComponents**, **MCStorage** and **MCLibrary** check several
components in one run: they share no state, so a variable `unit`, chosen at the start,
says which of them moves while the others stay in an initial state, and a behaviour is
one of the component alone.  MCComponents: HostList, ConnCache, Auth, Gfwhere, GfmOp,
StatCache, EventQueue.  MCStorage: SearchIdle, Xdr, RemoteCommand, NodeCall.  MCLibrary:
TaskQueue, GfsPio, ListCall, ReplicaRecv, IdTable, HashTable, Tree.  In MCTracer the variable `alone`
chooses, in the same way, a single invoker or two threads.

Definitions named "Mutant" are wrong variants of the definition below them.  No
specification uses them; substituting one for its original must make TLC refute the
property `PROJECT.json` names, which shows that the property depends on that line of
code.

### Correspondence of state

| code | model |
|---|---|
| `@q`, `@finished`, `@th_end`, holder of `@m` | `q`, `finished`, `thEnd`, `m` |
| program counter inside the queue, `n` of `pop`, its result | `at`, `n`, `got` |
| `task.already_invoked`, prerequisites | `invoked`, `prereq` |
| `@footprint`, `@fetched`, `@fetched_tasks`, holder of `@mutex` | `footprint`, `fetched`, `current` with `array`, `mutex` |
| frames of `find_task` | `stack`; position outside it `where`; result `ret` |
| local `a` of `invoke`, index of its loops, output queue | `batch`, `k`, `outq` |
| `task.output_queue` | `outOf`, the invoker whose queue it is |
| local `thread` of a nested `invoke` | `child` |
| threads that ended by an exception; `SystemExit` on its way to main | `failed`, `pending` |
| `@io`, `@status`, holder of `@lock`, `OPEN_LIST` | `io`, `status`, `lock`, `openList` |
| `@core_list`, `tmplist`, `sz` of `setup_hostlist` | `coreList`, `tmplist`, `sz` |
| the list, `cmd` and count of `gfwhere`, its result, `task.locality` | `gf`, `where`, `local` |
| `struct gfs_file`, the file on its node | `gf`, `node` |
| `struct gfp_conn_cache`, its entries and `lru_entry` | `cache`; references of the program `held` |
| auth client and server, both directions, key file | `cl`, `sv`, `c2s`, `s2c`, `keys` |
| `search_idle_host_state`, `search_idle_network`, `search_idle_state`, closures | `host`, `net`, `si`, `out` |
| `struct gfarm_eventqueue`, its fd sets, the request states, descriptors | `queue`, `turn`, `req`, `sock` |
| operation, `struct gfm_connection`, gfmd | `op`, `wires`, `gfmd`, `open` |
| `struct gfp_xdr` of both ends, bytes under way | `end`, `wire` |
| `gfs_client_command_context`, local descriptors | `cc`, `desc`; gfsd `gfsd`, streams `up`, `down` |
| `gfs_stat_cache`: list, hash, count, lifespan; `struct gfs_dirplus` | `sc`, `dp`; the server's `files` |
| `struct gfs_connection`s, nodes, locals of the call | `links`, `nodes`, `nc` |
| a call of the protocol, its unread reply, the connection | `lc`, `reply`, `link` |
| locals of `gfs_client_replica_recv`, bytes to come, the local file | `rr`, `stream`, `local` |
| `struct gfarm_id_table`, what its users hold | `idt`, `inuse` |
| `RB_ENTRY`, `SPLAY_ENTRY` of each element, the root | `tree` |

Variables that record history, and that no action reads: `begun`, `done`, `uses`,
`log`, `sent` and `got` of Xdr, `seen`, `req.excused`, `req.first`, `nc.gaveup`, `past`,
`idlast`.

## 3. The runs

| run | instance | asks |
|---|---|---|
| `tracer` | a single invoker on all 83521 graphs of 4 tasks with at most 2 prerequisites each; 2 threads with arbitrary roots, marks and interrupts on 2 graphs | does the loop end, as the graph demands?  What does `@mutex` still protect when `@footprint` and `@fetched_tasks` are replaced outside it? |
| `operator_flat` | main, 2 workers on 2 hosts, every acyclic workflow of 4 tasks up to renaming, one target | do the threads implement Workflow, use the queue as `QSpec`, and exit? |
| `operator_fail` | 3 workers, a nested one, failing tasks, a circular graph, an invoke at load time and one from an action, also of a task whose prerequisite the target needs itself | does a failure keep dependants from running and let the program exit?  Do nested batches return to their invoker, and does each task wait for what is in its own batch?  Does a queued task ever wait for a sleeping worker? |
| `shell` | a worker with a connection, two on one that may be lost, a command that prints and fails, one without a last newline, exit at any time | are outputs and results those of their commands, does every other call end, are all connections closed at exit? |
| `library` | seven components, each by itself (MCLibrary) | is a task of the queue ever forgotten by the signals, handed out twice, or a worker left asleep, under any order of push, pop, finish and stop; does the buffer behave as a file with a position, after every sequence of calls; does each call read its own reply; is a replica reported whole when it is; do the containers keep what they hold? |
| `storage` | four components, each by itself (MCStorage) | does a search count what is there and leave nothing outstanding; does every item arrive; is every output forwarded; is every reference released; does every wait end? |
| `components` | seven components, each by itself (MCComponents) | see the properties below |
| `nested_race`, `one_worker_hang`, `two_targets`, `stale_ready`, `mux_retry` | see section 4 | disagreements |

The properties of `components`: `Alternating` (HostList), `CacheConsistent` and
`LeastRecentlyUsed` (ConnCache), `AuthAgrees` (Auth), `LocalityFound` (Gfwhere),
`OperationsWhole` and `ToldAsDone` (GfmOp), `StatCacheRight` (StatCache), `RequestsRight`
(EventQueue: `OneEvent`, `FailsForReason` and `CachedClean`), and `EveryStartEnds` for the
deal, the authentication, the operations and the requests of the event queue.  Of
`storage`: `SearchAsserts` and `ChosenHaveSpace` (SearchIdle), `Delivered` (Xdr), `Forwarded`
(RemoteCommand), `NodesReached` (NodeCall: `ReferencesKept` and `StaleOnce`), and
`EveryWaitEnds` for all of them; it excepts two commands (`CommandEnded`), one that awaits
its input behind a pending signal, which is sent for ever instead, and one that exited while a
piece of its input was announced, and `Forwarded` the second (section 4).  `AuthAgrees`
and `EveryStartEnds` except a multiplexed client after it has sent its key type again
(`Retried`), which is what `mux_retry` shows.  Of `library`: `NotAllAsleep`, `NoStrandedWorker` and
`HandedOutOnce` (TaskQueue), `Positions`, `PioSpec` and `Stable` (GfsPio),
`ListInStep`, `ReplicaWhole`, and `ContainersRight` (`IdsRight`, `HashRight`, `TreeRight`).

### Bounds, and why they are enough

The queue in `library`: three workers give a waker, a sleeper and a third that can steal the
signal; three hosts in two domains give a local list, a near and a far one, for three
tasks with two, one and no replicas.  A worker makes three
turns before it steals, and the instance has enough signals for all three.  Four tasks
give chains, diamonds, a task reached twice, and cycles behind a ready task; two
prerequisites (`MaxPrereqs`) give a first and a later one in the loop of `find_task`.
Two callers are the least that interfere, and what they do to each other does not
depend on a third.  `MaxRef` is the number of arrays a run may create: in the runs of
Operator it is larger than any behaviour needs, in the raced part of `tracer` it
caps the number of calls.  `Nested` are the nested workers, as many as the actions
invoke.  In `operator_fail` the action of `e` invokes `b`, which needs `d`; in the graph `Nesting`
nobody else needs `d`, in `Sharing` the target does, so that the batch of main runs it while the nested
invoke takes it for done.  In Shell `MaxCalls` is 1, as two users share a connection and the second finds
what the first left in the stream and in `@status`.  A command prints up to two lines (`Out`, of
the tokens `Word`); text keeps its newlines.

- Host files of three lines with up to three cores have rounds in which a first, a
  middle or a last host has run out.  Gfwhere: batches of up to four tasks, and files
  that fill a command (`Limit`) alone, with another, or exactly.
- GfsPio: `BufSize` 2 and files of at most `MaxLen` 3 bytes make every call start
  inside, at the end of and behind a buffer; `MaxIO` 2 makes a request shorter than
  asked, `MaxFaults` 1 lets one fail.  The view leaves out its last call,
  which only properties read.
- ConnCache: one entry is kept (`NumCache`), three connections to two servers, at most
  two references each (`MaxHeld`): one to use, one to evict, one that replaces another
  under the same key.
- Auth: `RetryMax` 2 as in the code, three expirations or replacements (`MaxEvents`): one
  more than the retries can repair, in both clients.  `mux_retry` needs one.
- GfmOp: two operations, the first of which may leave a file open or a connection in
  the cache; `MaxFaults` 1, three connections (`Wire`, with what is under way on a lost one), `SleepMax` 2: one sleep before the limit.
- StatCache: a directory of three names, two of which nobody changes, read by blocks of two
  under a cache of two; `Timeout` 2, a shorter lifespan of 1, a clock up to `MaxTime` 2,
  one change of the file, one failure of malloc.
- EventQueue: a host reached by TCP that wants to be authenticated, and the local one,
  both at once (`MuxLimit`); every timeout one tick, the load asked twice; one answer
  lost, peer gone or refusal (`Breaks`).  With three hosts (8.7 million states) the
  invariants were checked, too.
- SearchIdle: five hosts in three networks, the local one and two each of a near and of
  a far one, of which the second are always busy; two requests in progress at most, in all and
  per network (`Concurrency`, `PerNet`), so that requests overlap, in one network and in two, and
  a third is sent after a failed connection has been counted twice; one host is wanted, one
  failure.  `Plans`: one search among four hosts, or two searches, so that the second finds what the first
  has cached, with the local host up only then.  Of one host the metadata server may say that it is busy (`Infos`).
- Xdr: bytes of two values and buffers of three make every integer, string and array
  cross a buffer's end; three procedures, in three scripts of two batches; the
  connection may be lost once.  RemoteCommand: pipes of two and a connection of three
  elements, input of three bytes and outputs of four in pieces, two signals, one failure.
- NodeCall: the local node and another, which has the replica; three connections, a copy
  on demand, one retry of each kind (`MaxRetry`), two calls, one connection left by the
  scheduling, three connections lost: one more than an open forgives.  A copy may find a replica,
  or the local node unknown to gfmd; the open then goes on at the node chosen, with its retries.  `EnoughLinks`: a node
  can be connected to without waiting for memory.
- ListCall: every call that reads a list, with up to `MaxList` 2 entries or names, then a call
  without or with lists in its entries; one allocation fails.  ReplicaRecv: up to two
  records of up to three bytes, one failing write.
- IdTable: numbers from 1 to a limit of 5, which run out and are given again, an index that starts
  with two entries and grows to four.  HashTable: five names of four keys (two differ in case),
  in two of three buckets; one allocation fails.  Tree: red-black trees of up to 8 keys,
  splay trees of up to 5, every order of insertions and removals.

Deadlock is checked except where the system may stop: the search of the tracer when its
callers are done, the runs with failures, Shell at the end of the process or behind a command
that hides its terminator, GfsPio after an abort, and the two suites, whose components
come to their end.

### Fairness

Pwrake: weak fairness of each thread (Ruby's scheduler runs every thread that can run,
an action ends, and a mutex that is free is obtained) and of the interrupt
(`Thread#raise` is delivered).  In Shell also of each shell process, which runs what it
is sent; a user runs finitely many commands, so that the END block gets the lock
without an assumption on the order in which `Mutex` serves.  In particular nothing is assumed
of which thread a signal reaches.

libgfarm: weak fairness of the program, which has one thread, and of what answers it
as long as it is up: the peer of an authentication, gfmd (its serving, not its
restart: it may stay down for ever), gfsd and the command it runs, the network, which
establishes connections and delivers what is not lost, and time.  A request of a search is
answered, refused, or times out.  That nodes come back is not assumed.

## 4. Where the code and its documents disagree

Runs that TLC refutes:

- `one_worker_hang`.  `finish` sets `@finished` and signals without `@m`
  (scheduler.rb:97).  If the only worker is between its test of `@finished` and
  `@cv.wait`, the signal is lost and the join never returns.  One worker is the
  default without a host file.  With two or more workers this cannot happen:
  the theorem `FinishReachesAll`.
- `nested_race`.  Two actions that invoke tasks at the same time may be given the
  same `@fetched_tasks` (algorithm.rb:15), push its tasks twice and read tasks
  that are not of their batch: the check `raise "b is not included in a"` fires.
- `two_targets`.  `invoke_task` finishes the queue after each target
  (rake_mod.rb:32), the operator is created once: the tasks of a second target are
  pushed to a finished queue without workers.
- `stale_ready`.  A turn of the event queue visits what its callbacks have added, with
  the sets of the select before (gfevent.c:396-427).  A client that has read the answer
  to its key type adds its event again for the challenge; if another event is behind it
  in the list, it is called in the same turn as if the challenge were there, and waits in
  `gfp_xdr_recv` while other hosts are not served and no timeout applies.
- `mux_retry`.  When its key has expired, the multiplexed client sends its key type
  again and adds its readable event without setting the callback (auth_client.c:495), although
  the comment says `go to ..._receive_keytype()`.  The callback is still `receive_result`: the
  answer to the key type is taken for the answer to the response, the client reports success, and the
  server waits for the response for ever.

Met while modelling, and left out of the statements of the properties where they say so:

- `thread_end` loses its broadcast as `finish` does (scheduler.rb:109), for a nested
  worker, with any number of workers: `ExitsUnnested` leaves nested invokes out.  A nested
  invoke takes a prerequisite that another batch still runs for done (algorithm.rb:35), so that its
  task may begin, and the invoke return, too early: the exception `BegunElsewhere` of
  `BatchOrder` and `InvokeComplete`.  Nothing in the repository speaks of nested invokes.
- shell.rb:47: `close` writes to the shell before it takes the connection out of
  `OPEN_LIST`; on a lost connection it raises and the connection stays there.  A host file
  without cores makes an empty list (manager.rb:105).  `@out` is tested outside `LOCK` (logger.rb:43).  A second
  `GfarmSSH#close` runs its commands before the test of `closed?` (gfarmssh.rb:20).
- auth_client.c:424: a timeout may come together with the answer, and the server takes the
  client for authenticated.
- gfs_pio.c:344: after a truncation inside a buffer that was read, or a failed unbuffered
  write and `gfs_pio_clearerr`, `io_offset` stays behind and the assertion of the next read
  fails (`skewed`).  `gfs_pio_putc` loses the error of its flush in an inner `e` (756), `gfs_pio_readdelim`
  tests an uninitialised `overflow` (1026).
- schedule.c:1021 decrements `concurrency` twice when a connection fails, so that later more
  requests are under way than CONCURRENCY (1197: "We limit concurrency here").  When two networks are
  merged and the second has no candidates, the end of the list of the first
  (schedule.c:452) points into the second.
- gfevent.c: `gfarm_eventqueue_turn` compares the absolute times of events with the relative
  time of its caller, so that a loop with a timeout polls; the only caller gives none.  A
  callback that closes its descriptor lets the next socket take its number within the turn, and the
  new event is visited with the bits of the old one.
- gfs_client.c: a statfs that times out (1116) leaves its connection in the cache with the
  answer to come, which the next call takes for its own; `pending_signal` is never reset
  (1759); a command that exits while a piece of its input was announced leaves gfsd out of
  step (1692); a lost descriptor (912) leaves the broken connection in the cache.
- gfm_client.c: a format without `/` in `process_free` aborts (gfp_xdr.c:549); an end of file while
  a list is read returns an error without purging the connection; the hosts of an architecture
  are announced and not read (516).  A failing malloc "breaks gfm protocol", as the source says itself.
- id_table.c: the number returned by `gfarm_id_alloc` is read from a place that a rewind may have
  given to another entry (542); a compaction of an empty tail reads past the index.
- gfs_dircache.c: a limit of 0 removes the head of an empty list (158); entries read ahead are stamped
  with the time of their return; a failing stat leaves the old entry.  gfs_pio_section.c: after a
  copy, a failing `gfm_host_get_canonical_self_name` leaves the name of a freed host.
  gfs_statfsnode.c:50 leaks a reference to gfmd at a retry; it and gfs_replicate.c:33 do not retry a process that
  cannot be set on a stale connection of the scheduling (schedule.c:995).

## 5. What is proved

For all values of the constants that satisfy the assumptions of the modules.

| theorem | says | by |
|---|---|---|
| `TypeCorrect` | `QSpec => []TypeOK` | induction; the bound `n <= 2` needs the guard of `PopSkip`, everything else is typing of the actions |
| `Locking` | `[]Flat` | `TypeOK` and `Flat` together (lemma `FlatStep`, one case per action): the holder of `@m` is the one thread in a critical place |
| `EndedLastInvariant` | `[]EndedLast` | from `Locking`: the worker that leaves held `@m`, so no other one was between its test and its wait |
| `TasksNotForgotten` | `[]NotAllAsleep` | from `Locking`: a worker only goes to sleep on an empty queue or after passing the signal on |
| `FinishReachesAll` | with `TwoWorkers`, `[]NoStrandedWorker` | from `EndedLast`: a second worker is awake, asleep (and gets the signal) or has ended, in which case it signalled and nobody is about to wait |
| `NoTaskWaitsForIdle` | `[]NoIdleWorker` | strengthened (`IdleInv`) by what a worker about to wait has seen; with one list `PopSkip` cannot happen |
| `ListsHoldOnce` | `QSpec => []Stored` | push stores a task that is in no list; pop deletes it from the lists of its locality, the only ones that can hold it a second time; lemmas on what `Append`, `Tail` and `Without` leave in one list |
| `TasksHandedOutOnce` | `QSpec => HandedOutOnce` | from `ListsHoldOnce`: the task pop returns is in no list after the step |
| `SearchInvariant` (TracerProofs) | `TracerSpec => [](TracerTypeOK /\ Searching)` | the stack is empty when `@mutex` is free, and each frame is a prerequisite of the one below it |
| `FetchedAreReady` | `TracerSpec => []ReadyWhenFetched` | strengthened by what a frame knows: a result of nil so far means that all prerequisites visited are in `invoked`; `invoked` only grows |
| `NoTaskFetchedTwice` | `TracerSpec => []FetchedOnce` | with `Accounted`: what an array holds is in `@fetched`, the frames of a search are of different tasks, and none of these is in `@fetched` |
| `OperatorInvariant` | with `NoNesting`, `Spec => []OperatorInv` | see below |
| `ImplementsWorkflow` | with `NoNesting`, `Spec => WorkflowSpec` | the step `StartTask` maps to a start, `EndTask` to an end, the others to stuttering; that the prerequisites are done is `Untouched` and `Collected` of the invariant |
| `InvokeIsComplete`, `OutputIsInBatch` | with `NoNesting`, `[]InvokeComplete`, `[]OutputInBatch` | from `OperatorInv`: what main waits for is what it pushed, and a search that returns nil has found its root invoked, with no batch open |
| `QueueIsUsedWell` | with `NoNesting` and no failing task, `Spec => QueueSpec` | each step of the Operator is one of `QNext` on the queue's variables or leaves them; a pushed task is in no list because it was fetched once and not begun |
| `NoTaskForgotten`, `PoppedOnce` | with `NoNesting`, `[](NotAllAsleep /\ NoIdleWorker)`, `HandedOutOnce` | also when tasks fail, where `QueueIsUsedWell` does not apply: the lemmas of the queue's proofs are about its actions, and the steps the Operator adds (an exception cuts a push short, a worker dies) are cases of their own |
| `InvokerIsAnswered`, `SoleInvokerIsAnswered` | `TSpec => []AnswerIsRight`, and `[]SoleAnswerIsRight` for MCTracer | see below |
| `ShellInvariant` | `ShellSpec => []ShellInv` | see below |
| `CallsGetTheirOwnAnswer`, `CallsAreNotCutShort`, `TheEndBlockClosesAll` | `[]OwnAnswer`, `[]NotCutShort`, `[]EndCloses` | conjuncts and consequences of `ShellInv` |
| `HostsAreRead`, `CoresAlternate` | `HSpec => []HostsInv`, `HSpec => []Alternating` | see below |
| `BatchesAreAsked`, `EveryLocalityIsFound` | `GfwhereSpec => []GfwhereInv`, `GfwhereSpec => []LocalityFound` | a file of the batch is in the list, in the command, or told; `count` is the length of the command, so that an answer is read in the form in which it is printed |
| `AuthenticationAgrees` | `AuthSpec => []AuthAgrees`, for both clients | see below |
| `NodesAreReached` | `NodeCallSpec => []NodesReached` | see below |
| `EventInvariant`, `RequestsRightAlways` | `EventSpec => []EventInv`, `EventSpec => []RequestsRight` | see below |
| `GfmInvariant` | `GfmSpec => []GfmInv` | see below |
| `OperationsAreWhole`, `AlwaysToldAsDone` | `GfmSpec => []OperationsWhole`, `GfmSpec => []ToldAsDone` | what `GfmInv` says of an operation that has ended |
| `StatCacheInvariant`, `CacheAnswersLastSeen` | `StatCacheSpec => []StatCacheInv`, `StatCacheSpec => []StatCacheRight` | see below |
| `ConnCacheInvariant`, `CacheIsConsistent`, `OldestGoFirst` | `CSpec => []ConnCacheInv`, `CSpec => []CacheConsistent`, `CSpec => LeastRecentlyUsed` | see below |
| `SearchInvariant` (StorageProofs) | `SearchSpec => []SearchInv` | see below |
| `SearchKeepsCount`, `ChosenHosts` | `SearchSpec => []SearchAsserts`, `SearchSpec => []ChosenHaveSpace` | conjuncts and consequences of `SearchInv` |

**The Operator** (`OperatorInv`).  `ReadyWhenFetched` says that a task was handed out when its
prerequisites were in `invoked`, and `already_invoked` is set before the action runs; that
they are *done* follows only because main awaits the whole batch before it searches
again.  So the invariant takes what is proved of the queue (`TypeOK`, `Flat`, `Stored`) and
of the tracer (`TracerInv`, `ReadyWhenFetched`, `Accounted`), says in which places of the code a thread can
be and who may still run (`Control`, `Life`), and of a task where it is: main searches only
when nothing is open (`Quiet`); what is in the current batch and not yet pushed is in no queue and
not begun (`Collected`, `Untouched`); a pushed task is in the queue, with one worker, in
main's output queue, or lost with a worker that died (`Routed`, `Outstanding`, `Returning`);
an array with tasks belongs to the search below a root (`Rooted`).  The
hypothesis `NoNesting`, no action invokes tasks, is what the code needs: with
nested invokes the run `nested_race` refutes `OutputInBatch`.

**One invoker** (`SoleInv`).  What interference destroys (the properties of the raced
runs do not include it) and a single invoker keeps: `@footprint` and the frames account
for all that was visited.  While it searches, a task of the footprint has been invoked, or is a frame
of the stack, or there is a `Reason` why it was not: some task was fetched (`InSearchInv`);
the frames are a path from the root (`Descent`, `RootSought`), so that a frame met again is a circular
dependency behind it.  Between searches what was fetched is in the batch or invoked
(`OutsideInv`).  That no task of a cycle is ever invoked, and that all below an invoked
task is, needs no induction along paths: a set that
is closed under prerequisites holds all that is reachable from it (`Reachable` and `OnCycle` are
defined by such sets), and `invoked` is such a set.

**The host list** (`HostsInv`).  There is a sequence `ls` of the lines that name a host, in order
(`Collected`), and a number `r` of rounds, such that of each host what is
left in `tmplist` is its cores less `r`, or one more, as it has
had its turn in this round or not, and `coreList` has the rest (`Dealt`).  From this the n-th
core of a host is dealt in round n, which is `Alternating`.

**Shell** (`ShellInv`).  For each caller (`Talk`) what is left in the two pipes is the rest of
its own command, output, newline and terminator; for each connection (`Rests`) that outside of
a call the pipes are empty, unless a command without a last newline has left its terminator
unread, whose caller then reads for ever with the lock; `Locks` ties the places of the threads to the holder
of `@lock`, `Ends` the walk of the END block to the connections it has closed.  Nothing is
assumed of the number of callers or of when a shell dies.

**Authentication** (`AuthInv`).  A conjunct per place of the client (`Choosing`, `Proving`) says
what is under way in each direction and where the server is; `Knowing` what the client has learnt
of the methods of both; `Counting` that every retry has used up an expired key of its own
(`Spent`), so that a client fails only after `RetryMax` expirations, or is excused.  `AuthInv` ends when a
multiplexed client sends its key type again, with the callback of auth_client.c:495: from there
on the client either still waits for the result (`Misreading`) or has one (`Misled`), which is
success or a timeout, never a refusal (`RetryMisreads`, `MisreadingGoesOn`,
`MisledForGood`).  The theorem is about the three together and needs no hypothesis; `Retried` in
`AuthAgrees` is what is left of the exception.

**Calls on nodes** (`NodeCallInv`).  `ReferencesKept` is inductive with the places of the call
(`Placed`).  For `StaleOnce`, errors are counted: each break costs two at
most, the one of the call it meets and, if the connection stays in the cache, that of the next.  So
the errors of an open at its node (`Errors`), and one more if a stale connection is left, are at most
one more than twice the breaks, unless the node was away (`OpenCounted`); the other calls
have a stale connection only before their first error, while nothing broke (`OthersCounted`).  That a new
connection finds memory is a lemma (`SpareIsFree`) from `EnoughLinks`: there are at least as many connections as nodes,
of which the cache holds one each.

**The event queue** (`EventInv`).  Three parts of the program have to agree.  Events and
requests: the events are those of the requests in progress, one of each, in any order
(`Matched`).  Descriptors: one in use belongs to one request in progress at most, and an open
one to some request (`Owned`), so that there is a descriptor left for each host that has not
been asked (`DescriptorLeft`, by counting) and the number that a callback gives back can be
taken within its turn.  Time and sockets: an event whose time is over, or was over at the
last select, has an excuse or something to read (`Timed`); what is in a socket or under way to
it is, up to the first error, a beginning of what the step of its request still expects
(`Served`, with `Follows` and `Expected`), and a socket that no request uses is owed nothing
unless a timeout left it (`LeftClean`).  A callback either goes on or ends its request: two
lemmas (`GoesOnKeeps`, `EndsKeeps`) show that either keeps the invariant, whatever it has done
to its own socket, and each callback is then a case of one of them.  That descriptors are
ready when the callback of a readable event is called is not part of it: the run
`stale_ready` refutes it, and nothing else depends on it.

**Operations on gfmd** (`GfmInv`).  The results an operation waits for are a list of its own
(`ResultsOf`), and at every moment there is a place in it: what it has read is before
(`Placed`), what is on its way back is next (`InOrder`), what gfmd still has to execute comes
after, behind at most the rest of a compound that failed earlier, which gfmd skips (`Answering`), or an
error is on its way and nothing else (`Refused`).  A connection that nobody reads owes nothing
(`Finished`), and that is what the next operation finds.  References are counted by place (`RefsTo`, `Held`).
That nothing is executed twice without a fault is again by counting: how often gfmd has executed an operation and
how often it still will, on any connection, lost ones included (`SentOn`), is at most how often it
was asked (`Asked`).  `Replaced` follows a connection that was lost before the operation up to the one that replaces it.

**The attribute cache** (`StatCacheInv`).  List, table and count agree and the list is in the order of
expiration (`CacheOk`); every entry is what was seen last of its name, and expires within the lifespan of
its list (`SeenOk`).  The actions are whole calls, made of functions on the cache (`Purge`,
`Enter`, expirations, a removal of the oldest), so that the proof is a lemma per function, and a case per call.
Entries read ahead keep the invariant one by one, at the time of their return.

**The connection cache** (`ConnCacheInv`).  While the program runs, the list holds every connection once
(`Once`), the hash table finds exactly the ones in the list, each by its own key (`Table`), references
are counted on both sides and a connection lives while it is held or cached (`Referred`), the
counter is the number of idle entries, and it is at most `NumCache`.  The list is in the order in which connections were
used last (`Within`), of which `uses` is the history: so the oldest of the list are the oldest of all, whoever
held them in between.  Functions on the cache have a lemma each; that the oldest n of the idle entries exist
(`OldestIs`) is from the least element of a set of places.  There are always enough of them, because the counter
is right: this is why gc never aborts.

**The search for idle nodes** (`SearchInv`).  A request is in progress for a host at most once, of
a candidate that is not counted, and is recorded where the loop that made it expects it
(`UnderwayOk`); `ongoing` of a network is the number of requests of its hosts (`NetsOk`); the
four counters are the numbers of hosts marked available that are idle, usable and so on
(`AvOk`, `CountedAs`), for which a host must not be counted twice: one from the cache
is not tried in this search again, and no network is gone through twice (`left`, `nets`).  Where the search
may wait for what is in progress, and where nothing may be (`Quiet`), is tied to its place.  What
is chosen at the end are permutations of the available hosts (`Orders`) that agree with the
comparisons of qsort, so that all are hosts that were counted, and hosts that lack the space are cut
off (`ChosenOk`).  The proof needs one induction, over the place of a host
in a list: that a loop by `First` visits the least of what is left, from the
well-foundedness of `<` on the natural numbers.

Of the theorems, `NotAllAsleep`, `NoStrandedWorker`, `NoIdleWorker`, `HandedOutOnce`,
`ReadyWhenFetched`, `FetchedOnce`, `WorkflowSpec`, `QueueSpec`, `InvokeComplete`, `OwnAnswer`,
`NotCutShort`, `EndCloses`, `AuthAgrees`, `NodesReached`, `RequestsRight`, `SoleAnswerIsRight`,
`Alternating`, `LocalityFound`, `OperationsWhole`, `ToldAsDone`, `StatCacheRight`, `CacheConsistent`,
`LeastRecentlyUsed`, `SearchAsserts` and `ChosenHaveSpace` are also properties of runs.

Only model-checked:

- liveness and fairness (`Exits`, `ExitsUnnested`, `SoleTraceEnds`, `ShellEnds`,
  `EveryWaitEnds`, `EveryStartEnds`), out of the prover's reach, and the Operator with nested invokes;
- `Positions`, `PioSpec` and `Stable` (GfsPio), `ListInStep` (ListCall) and `Delivered` (Xdr), whose
  functions are folds over the requests, the steps or the pieces of one call: what they compute is by
  induction over data;
- `ReplicaWhole` and the containers (`ContainersRight`), written with recursive operators,
  and `Forwarded` (RemoteCommand), which is over the same buffers as Xdr.

## 6. Not modelled, and why

- Ruby's scheduler, `Mutex`, `ConditionVariable`, `Queue` and `Thread` are modelled
  from their use.  The interpreter lock makes each of the modelled steps atomic
  (`Array#push`, an assignment).
- Rake itself: whether `needed?` is true, which `find_task` asks before it fetches a
  task, is a choice for the tasks of `Optional` and true for the others; a
  prerequisite's name always resolves to a task.
- The action of a task is opaque: it may invoke tasks, and completes or raises.
- A command that reads its standard input, and with it the echo meant for the shell.
- `GfarmSSH#initialize` and `#close`: commands around those of Shell, whose result is
  decided outside.  Logger and Counter: output that nothing reads.  The rest of
  Manager sets options and creates objects.
- graph.rb and metis_tools.rb need the program kmetis and are never reached.
- gfmd, gfsd, sockets and the network are modelled from what libgfarm sends and expects.
- Xdr leaves out transient errors of write and failing mallocs; formats that differ from
  `i` only in width.  GfmOp leaves out the arguments of requests, and what has no compound
  (users, groups, quotas, hosts: their calls are in ListCall).  NodeCall leaves out `gfs_migrate_to`, which removes a
  replica after a copy, nodes given by the caller, and the errors of gfmd other than a failed
  schedule.  The run of GfmOp uses paths of one component at most.  StatCache takes from the server one version per file.  EventQueue leaves out timer
  events, the growth of the fd sets, the timeout of the loop and what an authentication
  says, which is in Auth.  SearchIdle leaves out the functions over files at the end of schedule.c, and the hook
  (schedule.c:576) by which the connection cache makes it forget that a host has authenticated the user.
  RemoteCommand leaves out `gfs_client_command_send_stdin`.
- gfs_dir.c reads ahead as gfs_dirplus.c does and keeps nothing.  GSI needs the Globus
  libraries, which are not here.
  Configuration, host tables, URLs, globbing, error messages: sequential code without shared
  state.
- The demonstrations: about 25000 lines of numerical C (sdfred, vendored) that tasks run, and Rakefiles, whose
  shapes of workflow are among the graphs of the Operator runs.

The map covers about a fifth of the implementation lines of the repository, more than a third of
what is not a demonstration, and nearly all of what has state that two parties change.
Most of the rest converts arguments, prints, or computes images.

## 7. Plan

Done: TaskQueue, Tracer, Operator, Workflow, Shell, HostList and Gfwhere; of libgfarm the
file I/O, the connection cache, authentication, scheduling with its event queue, operations
on gfmd, marshalling, remote commands, the attribute cache, the calls on nodes, replies
that are lists, replicas, and the containers.  Proved: section 5.  Next, in this order:

1. Proofs for libgfarm: `WithinArray` of IoBuffer's functions as lemmas, and from them Xdr and RemoteCommand.
2. SearchIdle shown to be implemented by EventQueue: a turn with the callbacks of what
   has arrived.
3. The configuration files of libgfarm: tokens, and the statements that set options once.
4. GfarmSSH on top of Shell; the use of a connection by Operator (a parent that closes
   it while its nested worker runs).
