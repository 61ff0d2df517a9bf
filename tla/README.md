# TLA+ models of the PHP coroutine engine

This directory holds a formal model of php-coroutine-engine: PHP 7.1.17 whose
`php-fpm` worker serves many requests at once. Each request runs in a coroutine
context; a script that makes a remote call is suspended with `longjmp`, libevent
goes on with other requests, and the reply to the call resumes it. The models
follow the C sources, TLC checks them on small instances, and TLAPS proves the
safety properties of the context pool, of the worker on top of it, of the `php-fpm`
master, of the response buffer and of the scoreboard's locks for every number of
contexts, connections, children and requests.

`tlc -config X.cfg M` runs a configuration (`PROJECT.json` says which module goes
with which file and what is expected); `tlapm M.tla` checks the proofs of a module
whose name ends in `Proofs`. Operators whose comment begins with "Slip" are plausible mistakes in the
definition that follows them; `PROJECT.json` lists under `mutants` which property
catches which. Nothing else refers to them.

## 1. Inventory

| Component | Source | State | Operations |
|---|---|---|---|
| Coroutine context pool | `ext/standard/fpm_coroutine.c` | idle list (head, tail), use list (head), `next`/`prev` of each context, `context_count`, `listener_event_stop` | `init_coroutine_static`, `init_coroutine_context`, `use_coroutine_context`, `free_coroutine_context`, `asser_event_stop`, `asser_event_continue` |
| Worker event loop and request path | `sapi/fpm/fpm/fpm_main.c`, `fpm_coroutine.c` | per context: `fd`, `bev`, `request`, `prev_execute_data`; per bufferevent: callback argument, input; selected TSRM storage; `requests` | `do_accept`, `socket_read_cb`, `event_cb`, `close_request`, `yield_coroutine_context`, `resume_coroutine_context`, `regist_event` |
| Remote call extension | `ext/coro_http/coro_http.c` | pending evhttp requests with the context they belong to | `coro_http_get`, `ReadChunkCallback`, `RemoteReadCallback` |
| Script files and yield points | `fpm_main.c`, `main/main.c`, `Zend` | list of prepend, primary, append file; frame stored at the yield | `zend_execute_scripts_coro`, the yield |
| FastCGI records | `main/fastcgi.c`, the SAPI readers in `fpm_main.c` and `main/SAPI.c` | position in what libevent has buffered, rest of the body's record, output buffer with the open packet, `keep`, `ended`, descriptor | `fcgi_read_request`, `fcgi_read`, `fcgi_write`, `fcgi_flush`, `fcgi_end`, `fcgi_finish_request`, `fcgi_close`, `safe_read`, `safe_write` |
| Per-coroutine storage | `TSRM/TSRM.c` | table of resources, one row per coroutine | `ts_allocate_id`, `ts_free_id`, `create_tsrm_tls_entry` |
| FPM process control | `fpm_process_ctl.c`, `fpm_children.c`, `fpm_events.c`, `fpm_signals.c` | `fpm_state`, `fpm_signal_sent`, the `pctl_event` timer, the signal pipe, the children of each pool | see section 4.3 |
| Scoreboard | `fpm_scoreboard.c`, `fpm_request.c`, `fpm_atomic.h`, `fpm_status.c`, `fpm_php_trace.c` | counters behind a spin lock, a slot per child with its own lock, stage and time stamps; in the master `tracer`, `slow_logged` | `fpm_scoreboard_update`, `_proc_alloc`, `_proc_free`, `_proc_acquire`, the hooks `fpm_request_*`, `fpm_request_check_timed_out`, the status page's copy, `fpm_php_trace` |
| Configuration, logs, sockets, status page | `fpm_conf.c`, `fpm_log.c`, `fpm_stdio.c`, `fpm_sockets.c`, `fpm_status.c` | one process, start-up and formatting | not modelled |
| Zend engine; bundled extensions, other SAPIs | `Zend/`, `ext/`, `sapi/` | PHP 7.1.17 as upstream | not modelled |

How they interact. The master forks workers and watches them through SIGCHLD and
the scoreboard. A worker's libevent loop calls `do_accept` for the listening
socket and `socket_read_cb`/`event_cb` for each connection. `do_accept` takes a
context from the pool, and the pool takes the listening event out of the loop
when it was the last. `socket_read_cb` runs the script. `coro_http_get` yields;
`RemoteReadCallback` selects the context's storage and resumes. Whoever ends a
request calls `close_request` and gives the context back. Contexts, the current
TSRM row and the request counter are shared by all callbacks, and all of them
trust that the row selected is their own.

What is hard here, and what has to be true:

* *The pool.* Two lists share two link fields and a counter and a flag follow
  them by hand. Correct: two disjoint well-formed lists, counter and flag exact,
  nothing handed out twice, first in first out.
* *The request path.* A client may leave at any moment, a request may arrive in
  pieces, the reply may arrive before or after the client is gone, and two
  callbacks share the release of one context. Correct: no context is lost or
  shared, no callback comes back to a context that is idle, a response contains
  its own script's data, what was suspended ends, the listening event returns,
  and the worker leaves its loop at `pm.max_requests`.
* *The master.* Orders overtake each other, children die at any moment, several
  deaths become one signal, children that have just been forked lose signals.
  Correct: orders only escalate, nothing is forked while stopping, nobody is
  orphaned, every child has a slot of its own, limits hold, dead children are
  buried, termination ends.
* *FastCGI.* The callback sees a prefix of the request, the kernel takes a prefix
  of a write, two streams share one buffer whose header is filled in afterwards.
  Correct: the body comes out in order and once, the client gets each stream's
  bytes in order, the buffer is not exceeded, a connection on which bytes were
  lost is not used again.
* *Shared memory.* Processes of different fates read and write it at any
  moment; they are killed and stopped between two instructions. Correct: locks
  exclude and come back, no count is lost, the master judges a child by one moment.

`PROJECT.json` lists the hazards one by one with their line, and for each the
properties that watch it or the reason why none does yet.

## 2. Plan

| Order | Module | Content | State |
|---|---|---|---|
| 1 | `CoroutinePool`, `ContextFifo`, `CoroutinePoolProofs` | the pool, the queue it implements, the proofs, the refinement among them | done |
| 2 | `CoroutineEngine`, `RequestService` | the worker's callbacks on top of the pool; the service its clients are promised | done |
| 3 | `ProcessControl`, `ProcessControlProofs` | the master and one pool of children, the proofs | done |
| 4 | `FcgiPackets`, `FastCgi`, `ResponseStream` | reading in pieces, packing of records, cut writes, early finish; the stream the client is promised | done |
| 4 | `FoldTheorems`, `PacketProofs`, `FastCgiProofs` | folds of sequences; what packing sends and keeps, what a client makes of it; the buffer's bound, the streams, the body | done |
| 5 | `Scoreboard`, `ScoreboardProofs`, `SlotProofs` | spin locks, updates by several processes, hooks, timeouts, tracing, deaths; who has which lock, what a slot says, what is traced | done |
| 6 | `CoroutineEngineProofs` | the worker's safety properties, from the pool's theorems; that it implements the service | done |
| 7 | `CoroutineScript` | files of a script, frames at a yield, what a resume executes | open: needs a model of the virtual machine's frames |
| 8 | `Tsrm` | rows and ids, growth of a row | open: ids are allocated at start-up only, before any coroutine runs |

Abstract specifications: `ContextFifo` for the pool, `RequestService` for the worker and
`ResponseStream` for a response. Each is implemented by the detailed module, as a run
checks and a theorem states.

## 3. Modules

* `CoroutinePool`: the pool, assignment by assignment, and the mapping to its abstract
  specification.
* `ContextFifo`: its abstract specification, a queue.
* `CoroutinePoolProofs`: theorems of `CoroutinePool`.
* `CoroutineEngine`: one worker. It takes the pool's operators with
  `Pool == INSTANCE CoroutinePool`, so every callback changes the pool exactly as
  `CoroutinePool` says.
* `RequestService`: what the worker promises its clients, without contexts, events and
  thread-local rows: one connection's steps do not touch another's.
* `CoroutineEngineProofs`: theorems of `CoroutineEngine`; it takes the pool's with
  `PoolProofs == INSTANCE CoroutinePoolProofs`.
* `ProcessControl`: the master, one worker pool, its children and the slots of
  the scoreboard. `ProcessControlProofs`: its theorems.
* `FcgiPackets`: the output buffer and the client's parser, as operators.
* `FastCgi`: one request on top of it, reading, writing and closing.
* `ResponseStream`: what `FastCgi` promises the client.
* `FoldTheorems`: facts about `FoldLeft` with any operator, taken with
  `INSTANCE FoldTheorems WITH Op <- ...`. `PacketProofs`: lemmas about the operators of
  `FcgiPackets`. `FastCgiProofs`: theorems of `FastCgi`.
* `Scoreboard`: the shared memory, the workers' hooks and the master's accesses.
  `ScoreboardProofs`: theorems about the locks and the counts; `SlotProofs`: about the slots,
  the traces and the types.
* `MCCoroutineEngine`, `MCProcessControl`, `MCFastCgi`, `MCScoreboard`: instances for TLC.
  `CoroutinePool` needs none.

## 4. How the models correspond to the code

### 4.1 The pool

`next`, `prev` are functions from contexts to contexts or `Null`; `Store(f, x, v)`
is the assignment `x->f = v`, and storing through `Null`, which the code guards
with an `if`, changes nothing. `free_coroutine_context` has four cases for taking
a context out of its list and three for appending it; the first four are
`UnlinkedNext` and `UnlinkedPrev`, the last the disjuncts of `FreeContext`.
`held` is a history variable: what callers have and have not given back. The code
has no such thing, and nothing in `free_coroutine_context` checks that its
argument was in use; `Next` gives back only what is held, which is the protocol
the engine must keep and `PoolProtocol` checks that it does. All contexts are
built by `main()` before the listening event is registered. `Listed(first)` is the
sequence that the links from `first` represent; `ImplementsFifo` reads `ContextFifo`
with the listed pool as its queue and the members of the use list as its set.

### 4.2 The worker

libevent calls back one event at a time, so every callback is one action:
`DoAccept`, `SocketRead`, `ClientGone` (`event_cb`), `RemoteReply`
(`RemoteReadCallback` with `resume_coroutine_context`), `LoopExit`. Interleaving
is that of callbacks, clients and the remote server. A script is a number of
remote calls followed by its end; `Yield` is `coro_http_get` up to the `longjmp`.
`answer[k]` records whose data went into the response of connection `k`.
`tls` is the TSRM row selected; a reply is delivered to the context of the row
selected after `Checkout`, as the code does with `SG(coroutine_info).context`.
`calls` are the pending evhttp requests with the connection whose script made
them, which the code does not keep.

What the worker has been called back for (`inbuf`) is the start of a request with all of its parameters
(`"request"`) or not (`"cut"`), or the rest of one whose start it has read (`"rest"`). Nobody looks at what
`fcgi_read_request` returns, so a cut request is refused or runs with the parameters it has; the rest of a
request has no method and is refused (`Outcomes`).

A start-up that fails sends the client the end of a response and closes the descriptor with
`fcgi_finish_request(request, 1)`; the context stays held. To libevent the bufferevent is still there, but a closed
descriptor makes no event, so neither callback comes again. (Its entry for the number stays, so that a later
connection given the same number is not watched; numbers of descriptors are not modelled.) A resumed
script that ends by `exit()` or a fatal error jumps to the `EG(bailout)` of a frame that has returned: the worker dies
of it, or goes on as if the script had ended (conduct "bailout").

What clients do is a parameter, `Conduct`, because the worker is right under some
conducts only, and the runs say which. Where the code goes on with memory that
belongs to a request already shut down, the worker survives or dies (`loop =
"dead"`), nondeterministically. `ConnectionGone` stands for the workers that share
the listening socket and for resets.

`ImplementsService` reads `RequestService` in this state. A connection is `"queued"` in
`backlog`; with a context (`cb`) it is `"open"`, or `"waiting"` when that context is in
`suspended`; otherwise it is `"free"` (`Stage`). Those that left are `hup`, `pending` are the
connections of `calls`, a response is `answer`, and the capacity is the number of
contexts. `Fail` is the only step of the service that closes a connection without a response while its client is
there; it exists only where a start-up may fail. `Accept` needs room among the connections in service *and* the replies nobody waits
for any more, since a context whose client has gone is given back only by the
reply (`event_cb` leaves it to `RemoteReadCallback`).

### 4.3 The master

The master is one thread. Its loop is `at = "loop"`; `fpm_children_bury` and
`fpm_children_make` are loops of their own (`at = "bury"`, `at = "make"`) with one
action per turn, because children go on meanwhile. `GotOrder`, `GotChild` are the
characters of the signal pipe, `Timeout` the one-shot timer of `fpm_pctl`,
`Maintain`, `MaintainOnDemand`, `OnSocketAccept` and `RequestTimeout` the other
events. `Set`, `ActionNext`, `Stay` are `fpm_pctl`, `fpm_pctl_action_next`,
`fpm_pctl_action_last`. `FiredTimerQueued` is the fact that a timer which sets
itself again in its own callback is not in the queue afterwards: the queue still
holds it, so nothing is added, and `fpm_event_loop` then deletes it.

A child is `"starting"` until it has set up its own signal handlers; until then it
runs the master's handler, which does nothing in another process, so `Send` may
lose SIGQUIT and SIGTERM. SIGQUIT is recorded in `quit` and changes nothing else:
the handler closes descriptor 0 and sets `in_shutdown`, and the libevent loop of
the coroutine worker looks at neither. `stage` is the request stage in the slot:
one for all the requests a child has open (`load`), as in the code.

Left open by the model: which of the idle children started first (that is the one
the maintenance kills), whether a time limit has been reached, whether a fault
completes the emergency restart threshold. `Idle` counts the stages of all children in one step, where
the maintenance reads one after the other (`Scoreboard` has it so); no property of the master depends on
the difference. `pipe` is a set: a second equal signal
in the pipe does nothing that the first did not.

### 4.4 FastCGI

A byte of the request is its offset, a byte of the response its stream and place,
so no byte has content and every one can be told from every other. `arrived` is how
much of the request libevent had buffered when it called back; nothing comes while
the callback runs, so `safe_read` gets a prefix (`Available`). `ReadRequest` is
`fcgi_read_request` up to the begin record, `ReadParams` one record of parameters,
`ReadPost` a call of the SAPI's reader with `ReadBodyHeader` and `ReadBodyContent`
the turns of `fcgi_read`'s loop. Two things the model keeps because they matter: what
has been copied is not returned when the next header is missing (the return value is
0), and the SAPI takes a short read for the end of the body.

`Write`, `Flush`, `FinishEarly` and `EndRequest` are the script's calls, in any order and
number up to `MaxWrites`. `buf` is `out_buf`: `pos` is `out_pos`, `hdr` the offset of
`out_hdr`, `body` what is between, `top` the highest byte written since the last flush.
`Packed` has the branches of `fcgi_write` (fits; fills up and fits; goes out without being
copied, cut into records of 65528 bytes). `Emit` is `safe_write`: the kernel takes everything, or
with "slow_client" some bytes and then refuses; the code then resets `keep` and forgets
what is left. `client` is a parser of the record layer, not part of the repository: it
reads headers and content by the lengths the headers announce.

### 4.5 The scoreboard

Every access to the shared memory is two or more actions, because other processes run in
between: `EnterBoard` takes the lock and reads, `StoreBoard` writes, `LeaveBoard` gives the lock back, and a worker
may die after each;
`EnterSlot` and `WriteRest` are the two halves of a hook that has the slot's lock. A lock is
the word the code has, and whoever stores 0 in it opens it: nothing in the model makes a
lock exclusive but `Spun` and `Tried`. `todo` are the hooks a callback has yet to call. The
callbacks are those of `CoroutineEngine`, seen from the slot: a request arrives (and is executed, refused, for the
status page, or closed by a failed start-up, `Arrivals`), a suspended script is resumed, a client leaves, a script yields, ends or finishes early;
`load` counts the scripts a worker has suspended or running.

The master is one thread: `Look`, `CopyRest`, `Judge` are `fpm_request_check_timed_out`,
`Maintain` and `Sample` the counting of idle children, `Trace`, `MasterCounted`, `Dump` are
`fpm_php_trace`, `Bury` frees the slot of a dead child and forks its successor. `Die` is
SIGTERM, `Stop` the stop that `ptrace` causes; both strike between any two steps. `accepted`
is the number of the request instead of a time, so two requests never have the same time
stamp. Histories (`served`, `forgotten`, `orphaned`, `whole`, `orders`) are named as such: `whole` is what the last hook
that was through with a slot left there, or the `memset` for a new child; `orders` are the time stamps a child was
to be stopped for. `MaxServed` counts requests a worker has yet to enter (`Unentered`) with those entered.

`SnapshotWhole` compares all that the master judges a child by with `whole`, so a copy that has the stage of one hook and
the stamps of another breaks it. `TracedOnce` is about stamps and not about requests: a request that is resumed runs under the
stamp of whichever request its worker accepted last, since the slot has only one, and can be traced again under that.

## 5. Runs

All bounds are constants of the configuration.

| Run | Instance | Shows |
|---|---|---|
| `pool` | 4 contexts | `ListIntegrity`, `ListenerMatchesPool`, `TakeIsFresh`, and that the lists implement `ContextFifo` (`ImplementsFifo`). Four contexts give head, two inner ones and tail in either list, so every case of the unlinking and appending |
| `engine_safe` | 2 contexts, 3 connections, 2 calls per script | no context lost (`HeldIsReferred`), answers are own, the pool's protocol is kept, suspended scripts end, the listener returns. More connections than contexts, so the pool runs empty; two calls, so a resumed script yields again |
| `engine_faults` | same | early hang-ups, failed start-ups, unsent calls and bailouts: contexts get lost (`HeldIsReferred` is not claimed) but none is shared or idle while in use (`ContextExclusive`, `ReferredIsHeld`; the behaviours of `engine_safe` are among these), and the worker implements `RequestService` (`ImplementsService`, which has `AnswersAreOwn` as a consequence, and `ClosedWhenAnswered` but for failed start-ups); a script whose call was not sent waits |
| `engine_segments` | 1 context, 3 connections, no calls, `pm.max_requests` 2 | requests in several segments lose nothing while no script is suspended; the limit ends the loop |
| `engine_limit_missed` | 1 context, limit 1 | **violation**: `LeavesAtLimit` |
| `engine_lost` | 1 context, 1 connection | **violation**: `AbortedReturns` |
| `engine_split` | 1 context, 2 connections | **violation**: `AnswersAreOwn` |
| `master_safe` | dynamic, `pm.max_children` 3, `process.max` 2, 2 spare servers, 2 requests per child | slots, the limits, orphans, escalation and forking under all orders, crashes, exits, idle kills, request timeouts, emergencies. Three slots are the fewest with which the slot remembered can be in use while another is free; two requests let one end while the other goes on |
| `master_live` | ondemand, 2 children, TERM, USR2, failing forks | a fork that fails gives the slot back (`SlotsOwned`), the dead are buried, termination ends |
| `master_reload` | 1 child | **violation**: `ReloadCompletes` |
| `fastcgi` | buffer of 8192 bytes, up to 3 writes of 1, 8183, 8184, 131064 bytes to either stream, body of 5 bytes in two records or 2 in one, read in blocks of 3 or 16, cuts after 0, 4 or 20 bytes | `BodyInOrder`, `NothingLost`, `NeverOverflows`, `TornIsNotKept`, `ImplementsStream`. The lengths are those around a full buffer with and without an open packet and around two records written past it; 0, 4 and 20 bytes cut between records, in a header and in content |
| `scoreboard` | 2 workers, 2 requests, 2 scripts per worker, 1 death, 2 rounds of the master | `LocksKept`, `RequestsCounted`, `SnapshotWhole`, `TracedOnce`, `StageMeansWork`. Two workers and the master give every pair of competitors for a lock; the bounds let a worker die at any step of a request while the master looks at, counts or traces the other, and two looks and two requests let `slow_logged` forget a stamp |

Process ids are interchangeable, and so are connections and workers, so the runs without
liveness properties use symmetry. `CHECK_DEADLOCK FALSE` stands where the system
really stops: `engine_faults` (every context lost, or the worker dead),
`engine_segments` (the worker has left its loop), the master (it has exited or
executed its successor), `fastcgi` (the request is closed) and `scoreboard` (the bounds are
reached; or the master spins for a lock whose holder is dead, or stopped by itself).

### What the violations say

* `engine_limit_missed`: `close_request` compares `requests == max_requests`, and
  only `socket_read_cb` looks at its result. When the request that reaches the
  limit was resumed, the worker never leaves.
* `engine_lost`: a client that closes before it has made a script wait leaves its
  context held for good, because only the reply to a remote call frees it.
* `engine_split`: the rest of a request that arrives after its script has yielded
  is taken for a new request of the same context, which is then released with the
  call pending. The reply continues whichever script has the context by then.
* `master_reload`: a child forked just before a reload loses SIGQUIT and SIGTERM,
  and SIGKILL is never sent, since the timer is gone after its first callback.
  Terminating is safe (`TerminateStops`): its second signal is SIGKILL already.

Disagreements met without a run of their own:

* A worker shows the stage that counts as idle only between two lines of `init_request_callback`, when a
  request has come already. One that waits in libevent counts as busy (`SeenIdle`), so a dynamic pool grows towards
  `pm.max_children` whatever its load, and spare children are told nothing: with one spare server allowed and
  two children waiting, both wait for ever (`www.conf.in:91` says that some will be killed). `WithinLimits` bounds the growth.
* A request whose parameters arrive in two segments is closed without an answer, or its script runs without
  the rest (`split_params` with `ClosedWhenAnswered`). SIGQUIT does not end a worker, so one killed for
  being idle stays. A static pool whose replacement fork fails stays short until another child
  dies (`fork_failure`).
* A write that the kernel cuts is never taken up again. Cut at the border of a record, with
  nothing of the buffer gone out, the buffer is dropped and later records still follow in
  step: the client sees a well-formed response with a gap. Cut inside a record, the end record is
  read as content. `ResponseStream` has the latter as its `Break`.
* A change of stream close to the end of the buffer sends a record of length 0, which
  the protocol reads as the end of the stream.
* `fastcgi_finish_request()` on a connection that is kept goes on writing to it: the conduct
  "finish_kept", which no run uses, breaks `ImplementsStream`. On one that is not kept it
  closes the descriptor that the bufferevent closes again.
* A child killed while it has the board's lock leaves it taken, and the master spins for
  it without a bound (`orphaned`); so it does when it traces a child that it has stopped there. A
  slot's lock is cleared by the `memset` of `fpm_scoreboard_proc_free`.
* The master's SET may come between the two halves of a worker's intent: `idle` and `active` drift
  until the next maintenance. Nothing is claimed of them. Nor is a time limit per request: all
  requests of a worker share one slot, and each overwrites `accepted`.

### Fairness

`CoroutineEngine`: libevent serves every descriptor that stays ready (weak
fairness of `SocketRead` and `ClientGone`), evhttp calls back for every request it
has sent, if only with its timeout (`RemoteReply`), and a loop told to exit does.
Clients are never obliged to anything, and `DoAccept` is not either.

`ProcessControl`: the master does not block in `fpm_children_bury` and
`fpm_children_make` (weak fairness of their turns); its loop comes to the pipe
and the timer again and again, though children may keep it busy in between, hence
strong fairness there; `waitpid` takes the oldest first, hence strong fairness of
burying each child; processes are scheduled and the kernel delivers signals.
Children are never obliged to end requests or leave. One thing strong fairness of
the loop hides: children that die as fast as they are forked could keep the master
in `fpm_children_bury` for ever. The model has that behaviour (the loop is then
not reached, so nothing is owed), and no property claims that an order still in
the pipe is obeyed.

`FastCgi` and `Scoreboard` have no fairness: a cut write is never repeated and a spin lock
is not fair, so there is no liveness to claim.

## 6. Proofs

`CoroutinePoolProofs` assumes only `ContextAssumption`: the contexts are a finite,
non-empty set without `Null`. Its theorems hold for every number of contexts and
every order of calls:

| Theorem | Property |
|---|---|
| `TypeCorrectness` | `TypeOK`, with `context_count` between 0 and the number of contexts |
| `ListsAreIntact` | `ListIntegrity` |
| `ListenerIsExact` | `ListenerMatchesPool` |
| `HandsOutFreshContexts` | `TakeIsFresh` |
| `PoolIsFifo` | `ImplementsFifo` |
| `Invariance` | the inductive invariant `Inv` |

The inductive invariant is `TypeOK`, `ListIntegrity` and `StopMatchesCount`.
`ListIntegrity` is inductive because it says that there *are* two sequences
without repetition that the links represent, one of the idle contexts with the
counter as its length, one of the held. Reachability along `next` would need
induction over the list; a sequence needs none. Each step of the proof names the
new sequences: `use_coroutine_context` drops the first of one and puts it before
the other, `free_coroutine_context` cuts one out of the use sequence (by whether it
is first, inner, last or alone) and appends it to the pool. The bound on the
counter follows because a sequence without repetition is no longer than the set
(`ListBound`). `StopMatchesCount` ties the flag to the counter, since
`asser_event_stop` tests the counter and not the list; with `ListIntegrity` it
gives `ListenerMatchesPool`, where a counter of zero must mean that the idle set
is empty.

`PoolIsFifo` is the refinement of `ContextFifo`. A mapping that follows the links
recursively is out of the prover's reach, so `Listed(first)` is defined as *the* sequence
without repetition that the links from `first` represent. There is one by
`ListIntegrity`, and only one, because two sequences that agree up to a place have the
same next context there (`ChainsAgree`, `ChainIsUnique`). The step lemmas of the
invariant name the new sequences anyway, so each says as well which operation of the
queue it was (`FifoStep`): `free_coroutine_context` of a context in use is `Give`, whichever of its
seven cases it takes.

`ProcessControlProofs` assumes only `ConfigurationAssumption`: what `fpm_conf.c`
admits as a configuration, and a finite set of process ids. Its theorems hold for
every number of children, every process manager and every `Conduct`:

| Theorem | Property |
|---|---|
| `SlotsAreOwned` | `SlotsOwned` |
| `LimitsRespected` | `WithinLimits` |
| `NobodyOrphaned` | `NoOrphans` |
| `NeverDowngraded` | `OnlyEscalates` |
| `StoppingForksNobody` | `NoForkWhileStopping` |
| `TypeCorrect` | `TypeOK` |

None of `WithinLimits`, `NoOrphans` and `TypeOK` is inductive. The invariant `Inv`
adds to `SlotsOwned` three things. `Known`: the master's list holds exactly the
processes there are, dead ones that have not been waited for included, and is empty
once the master has left. `Bounded`: neither the children nor the goal of
`fpm_children_make` exceeds `pm.max_children`; this is where the maintenance's
minimum of spawn rate, missing spares and room matters (`ForkWithinMax`) and where
burying a child makes room for the one forked in its place. `Pending`: signals are
pending for living processes only, so nobody dies twice. That the scoreboard is
not full when a child is forked follows by counting: the slots in use are the image
of the children (`SlotsLeft`). `TypeOK` also needs `Room`: a slot is blank until its
child serves, and a child that has begun to accept has room for the request, which
is true because nothing between `ChildAccepts` and `ChildReads` adds one.

`CoroutineEngineProofs` assumes `EngineAssumption`. Its theorems hold for every
number of contexts, connections, calls and requests, and each names the conduct of clients it
needs as a hypothesis: `Undivided` (requests come in one piece), `Orderly` (`Undivided`, or no script makes a call), `Steady`
(`Orderly`, nobody leaves before sending, no start-up and no call fails). The run `engine_split` shows that `Orderly` cannot be
dropped, `engine_lost` that `Steady` cannot.

| Theorem | Hypothesis | Property |
|---|---|---|
| `TypeCorrect` | `Orderly` | `TypeOK` |
| `ReferredAreHeld` | `Orderly` | `ReferredIsHeld` |
| `ContextsAreExclusive` | `Orderly` | `ContextExclusive` |
| `ResponsesAreOwn` | `Orderly` | `AnswersAreOwn` |
| `ListenerHasContext` | `Orderly` | `AcceptHasContext` |
| `WorkerKeepsPoolProtocol` | `Orderly` | `PoolProtocol` |
| `WorkerSeesFifo` | `Orderly` | every step of the worker is one of `ContextFifo` or leaves the queue |
| `ClosedAfterAnswer` | `Undivided`, no failing start-up | `ClosedWhenAnswered` |
| `HeldAreReferred` | `Steady` | `HeldIsReferred` |
| `ServiceIsImplemented` | `Undivided` | `ImplementsService` |

The inductive invariant `IInv` contains the pool's own invariant, whose step lemmas
are cited from `CoroutinePoolProofs` and not proved again: the proof shows that every callback
takes and gives back within the protocol they assume. With that, the pool's refinement
holds inside the worker as well (`FifoStep`, `WorkerSeesFifo`). None of the properties is
inductive alone. `OwnersHold` and `CallersHold` say which context each connection and each pending
call has; `CallersWait` that a connection with a call pending is in no other stage, which is what keeps a
reply from meeting a context given to somebody else; `QueuedHaveNone` that connections not yet accepted
have nothing; `RequestsAreWhole` carries `Orderly` into the states. `HeldIsReferred` needs `RInv` on top: who
reads or leaves has sent, and whatever is held is referred to.

`ServiceIsImplemented` has one lemma for each callback (`DoAcceptServes`, `SocketReadServes`, `ClientGoneServes`,
`RemoteReplyServes`, and `ClientServes` for the clients), which names the step of `RequestService` that the callback is, and
`Waiting` on top of `IInv`: a suspended script has a connection that has sent everything (`SuspendedOwned`), a reply
whose client is still there finds its script suspended (`CallersSuspended`), a connection waits for one reply at most
(`CallsKnown`). That `do_accept` has room is counted (`RoomToAccept`): connections in service and pending replies inject
into the contexts held, and the head of the idle list is not among them. `Undivided` is needed: a request whose parameters come in
two pieces may be closed without an answer, and one whose body comes late is what `engine_split` is about.

`FastCgiProofs` assumes `BufferAssumption` (a buffer of at least 24 bytes, a multiple of 8, where the
code has 8192) and `RequestAssumption`.

| Theorem | Property |
|---|---|
| `BufferNeverOverflows` | `NeverOverflows` |
| `NoByteIsLost` | `NothingLost` |
| `CutConnectionIsNotKept` | `CutIsNotKept`: a connection on which a write was cut is not kept |
| `TornConnectionIsDropped` | `TornIsNotKept` |
| `StreamsAreImplemented` | `ImplementsStream`, unless "finish_kept" is in `Conduct` |
| `BodyArrivesInOrder` | `BodyInOrder` |
| `TypesAreKept` | `TypeOK` |

`NeverOverflows` is not inductive: how far a write reaches depends on where the
open packet begins. `Sound` says that `pos` and the open header are aligned and that
a header with content after it leaves room for its padding; `Closed` that without an open packet `pos` is at
most `BufSize`. Each operator of `FcgiPackets` has one lemma from `Sound` to `Sound`. The interesting case is a packet
opened in the last eight bytes, which reaches into the bytes reserved behind the
buffer and fits only because `BufSize` is a multiple of 8.

`RequestAssumption` says that a request is what a web server sends (`WellFormed`): a begin
record, records of parameters and an empty one, records of the body and an empty one. There may be any
number of each, of any lengths and paddings; `fcgi_read_request` gives up other
forms. The configuration of the run satisfies it.

What the client has and what the buffer holds are folds of sequences of segments. The
library's induction theorems take an operator, so `FoldTheorems` proves induction over sequences
from the least element of a set (`WFMin`), and states its results for an operator that is a
CONSTANT of the module: each use instantiates it. `FoldOfConcat` (the second part goes on from the result of
the first) and `FoldStays` (what every step keeps, the fold keeps) are what the other proofs need. On it, `PacketProofs` says what a stretch of segments
*carries*: read by a client that is between two records, it takes what it has of each stream from `g`
to `h` and leaves it between two records (`Carries`); a proper beginning of one leaves it
with no more than `h` of each stream. `PackedHolds` covers the three branches of `fcgi_write`.

`StreamInv` has six parts. `Received`: the client has no more of a stream than was written. `Matched`: while nothing
was cut and the request is not over, what the client has and what the buffer holds make up what was
written, and the client is between two records. `Uncut`: only a cut write leaves a client torn or astray. `NotOver`,
`EndedFirst`: a client is told of the end only when there is one, and the descriptor is closed after it. `Within` is the
buffer's bound. `NothingLost`, `TornIsNotKept` and the refinement follow. "finish_kept" must be excluded from the
refinement because there the code really writes behind the end of the response (see section 5).

`ReadInv` names the record `e` that ends the parameters (`Border`) and says where the reader is
(`Whereabouts`): at a header with all of the body before it taken, inside a record by as much as
`in_len` says, or cut off with nothing left to read, where every later call of `fcgi_read` returns nothing. `Ordered`
is the property, extended to what `fcgi_read` has copied and not yet returned; `Calls` bounds the turns of its loop by what
`CONTENT_LENGTH` leaves, which is why a body is never read past its last record.

`ScoreboardProofs` assumes `BoardAssumption`; its theorems hold for every number of workers and
for deaths and stops at every step.

| Theorem | Property |
|---|---|
| `LocksAreKept` | `LocksKept` |
| `RequestsAreCounted` | `RequestsCounted` |

`SlotProofs` builds on it:

| Theorem | Property |
|---|---|
| `SnapshotsAreWhole` | `SnapshotWhole` |
| `StagesMeanWork` | `StageMeansWork` |
| `StampsAreTracedOnce` | `TracedOnce` |
| `TypeCorrect` | `TypeOK` |

`LInv` adds to `LocksKept` what makes it inductive: that whoever is in a slot has its lock (`SlotLocks`),
so that giving it back cannot open it under another; that after a death with the board's lock nobody is behind it any more; and
that the dead are nowhere and the child that is traced stays stopped until it was counted and dumped (`Attended`), without which
`Dump` could bring a dead one back. `RequestsAreCounted` rests on it: `Counting` says that what a
process has read of the counters is still what they are, which is mutual exclusion, and that a worker has a request
to count only between its hook and the board. What remains is counting a finite set.

In `SlotProofs` the invariant `WInv` describes one worker at a time (`Fine`): which hooks it may still have to call
(`Agenda`) and what follows each (`Onward`); that it has entered a request in its slot before it can show one
(`Entering`); that the count and the stamp agree unless it is between the two halves of `reading` (`Stamped`). `TypeCorrect`
needs that a maintenance has counted no more idle workers than there are (`Sampled`), so that the active ones it
sets, the difference, are not negative.

`SnapshotsAreWhole` rests on `SlotsWhole`: a slot whose lock is free, or that the master is in, says what
the last hook that ran to its end left there. A worker killed inside a hook leaves a slot that says
something else, but also leaves its lock taken, so that the master, which tries it, copies the slot only
after `fpm_scoreboard_proc_free`. `CopyRest` then reads what `Look` read, because nobody else is in the slot in between
(`SlotLocks`). Most steps touch neither a slot nor the copy, and are dealt with together (`Aside`, `AtSlotOrAside`).

`StampsAreTracedOnce` cannot rely on `slow_logged` alone, which `Judge` resets whenever it sees another stamp, and
the stamp it sees may be late. `Behind` says that no stamp a child was stopped for is ahead of the one its slot shows, and
that `slow_logged` still has the latter if the child was stopped for it; `Judged` says the same of the copy the master
is about to judge by. Stamps of a slot only grow until its worker is buried, when `orders` and `slow_logged` go with
it; and once another stamp is shown, the old one is never shown again, so that to forget it does no harm. A child that dies
and is buried while the master has a copy of its slot is impossible, the master being one thread.

Only model-checked: the liveness properties (`SuspendedReturns`, `ListenerResumes`, `LeavesAtLimit`,
`DeadAreBuried`, `TerminateStops`), since fairness and ENABLED are beyond the prover. Every invariant, action property and
refinement that a run checks is a theorem, under the hypotheses named above.
`master_safe` has no failing forks; `master_live` does, and the theorems, `fork_failure` being one of the conducts they
quantify over.

## 7. Not modelled

* What a script does between two remote calls, its files (prepend, primary, append), its working
  directory, the frame at a yield; the contents of requests and responses; the Zend memory manager
  (its misuse is the nondeterministic death above). A yield is a `longjmp` out of the virtual
  machine: what a resume executes is decided by frames and opcodes, which would be a model of
  the engine rather than of this program.
* The table of thread-local resources (`TSRM.c`): only which row is selected. Rows are built in
  `main()` and ids allocated at start-up.
* `ce_http_get`, which uses a connection object that is never set, and the 4096
  byte buffer of `ReadChunkCallback`.
* `FCGI_GET_VALUES`, the hash of the parameters, `fcgi_accept_request` (without a caller here), Windows.
* Several worker pools, log files, the status page beyond its copy under the lock: it reads the slots of a
  full status without their locks and promises nothing.
* The listen queue, CPU times and strings of a slot; the hook `fpm_log_write` and the second
  call of `on_close`, which change no stage a property distinguishes.
* Configuration, logging and sockets: parsing and start-up of one process.
* Failures of memory allocation outside `fpm_children_make`.
* Zend, the bundled extensions and other SAPIs, more than 99% of the lines: PHP 7.1.17 as upstream.
