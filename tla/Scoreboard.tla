------------------------------ MODULE Scoreboard ------------------------------
(***************************************************************************)
(* The memory that the php-fpm master shares with the workers of a pool    *)
(* (sapi/fpm/fpm: fpm_scoreboard.c, fpm_request.c, fpm_atomic.h): counters *)
(* behind one spin lock and a slot with a lock of its own per worker.      *)
(*                                                                         *)
(* Every access is a few steps here, because processes run at the same     *)
(* time, and a worker can be killed, or stopped for tracing, at each.  A   *)
(* lock is the word the code has: whoever stores 0 in it opens it.         *)
(***************************************************************************)
EXTENDS Integers, FiniteSets, Sequences

CONSTANTS
  Worker,       (* the children of the pool, each with its slot            *)
  Master,       (* the master process                                      *)
  MaxServed,    (* bound: requests accepted by all workers                 *)
  MaxDeaths,    (* bound: workers that die                                 *)
  MaxRounds,    (* bound: children the master looks at, and maintenances   *)
  MaxLoad,      (* bound: scripts one worker has begun and not ended       *)
  Conduct       (* subset of Conducts                                      *)

(* "terminate": request_terminate_timeout is set, and a worker gets SIGTERM *)
(* when its request takes too long; "slowlog": request_slowlog_timeout is. *)
Conducts == {"terminate", "slowlog"}

ASSUME BoardAssumption ==
  /\ IsFiniteSet(Worker) /\ Master \notin Worker
  /\ {MaxServed, MaxDeaths, MaxRounds, MaxLoad} \subseteq Nat
  /\ Conduct \subseteq Conducts

VARIABLES
  lock, board,      (* scoreboard->lock, and the counters behind it        *)
  slot,             (* scoreboard->procs[i] of each worker                 *)
  status,           (* "up", "stopped", or "dead" until it is buried       *)
  pc,               (* where each process is                               *)
  todo,             (* hooks of fpm_request.c a worker has yet to call     *)
  upd,              (* arguments of a process's fpm_scoreboard_update      *)
  tmp,              (* what it has read of the counters                    *)
  load,             (* requests of a worker whose script is not through    *)
  script,           (* workers in a script                                 *)
  doomed,           (* workers with SIGTERM pending                        *)
  tracer,           (* children with child->tracer                         *)
  slow_logged,      (* child->slow_logged                                  *)
  child, copy,      (* the child the master looks at, its copy of the slot *)
  seen,             (* idle children counted, and those left to be counted *)
  served,           (* history: requests entered in slots                  *)
  forgotten,        (* those of them whose worker died before it counted   *)
  deaths, rounds,   (* workers that died, and what MaxRounds bounds        *)
  orphaned,         (* one of them died between locking and unlocking the  *)
                    (* board                                               *)
  whole,            (* what each slot says since the last hook that was    *)
                    (* through with it                                     *)
  orders            (* time stamps of the requests each child was to be    *)
                    (* stopped for, one after the other                    *)

boardVars  == <<lock, board>>
workerVars == <<todo, load, script, served>>
masterVars == <<tracer, slow_logged, child, copy, seen, rounds>>
history    == <<forgotten, deaths, orphaned>>
endVars    == <<status, doomed, history>>
pastVars   == <<whole, orders>>
vars == <<boardVars, slot, pc, upd, tmp, workerVars, masterVars, endVars,
          pastVars>>

Process == Worker \cup {Master}
Running == {"reading", "info", "executing"}

(* A slot after memset.  accepted is the time stamp of that name, as the   *)
(* number of the request it belongs to.                                    *)
FreshSlot == [lock |-> 0, stage |-> "none", accepted |-> 0, requests |-> 0]

(* What a slot says, apart from its lock.                                  *)
Shown(s) == [stage |-> s.stage, accepted |-> s.accepted, requests |-> s.requests]

NoUpdate == [action |-> "none", idle |-> 0, active |-> 0, requests |-> 0,
             slow_rq |-> 0]
Inc(i, a, r, s) == [action |-> "inc", idle |-> i, active |-> a, requests |-> r,
                    slow_rq |-> s]
Counters == [idle |-> 0, active |-> 0, active_max |-> 0, requests |-> 0,
             slow_rq |-> 0]

Init ==
  /\ lock = 0 /\ board = Counters
  /\ slot = [w \in Worker |-> FreshSlot]
  /\ status = [w \in Worker |-> "up"]
  /\ pc = [p \in Process |-> "loop"]
  /\ todo = [w \in Worker |-> <<>>]
  /\ upd = [p \in Process |-> NoUpdate]
  /\ tmp = [p \in Process |-> Counters]
  /\ load = [w \in Worker |-> 0]
  /\ script = {} /\ doomed = {} /\ tracer = {}
  /\ slow_logged = [w \in Worker |-> 0]
  /\ child = Master /\ copy = FreshSlot
  /\ seen = [idle |-> 0, left |-> {}]
  /\ served = 0 /\ forgotten = 0 /\ deaths = 0 /\ rounds = 0 /\ orphaned = FALSE
  /\ whole = [w \in Worker |-> Shown(FreshSlot)]
  /\ orders = [w \in Worker |-> <<>>]

Runs(p) == IF p = Master THEN TRUE ELSE status[p] = "up"

(* Where a process is between taking a lock and giving it back.            *)
InBoard(p) == pc[p] \in {"store", "unlock", "status_copy"}
InSlot(p, w) == \/ p = w /\ pc[w] = "rest"
                \/ p = Master /\ child = w /\ pc[Master] = "copy"

-----------------------------------------------------------------------------
(* fpm_scoreboard_update, by any process.                                  *)

(* Slip: a count may become negative.                                      *)
AtLeastZero_Unchecked(n) == n

AtLeastZero(n) == IF n > 0 THEN n ELSE 0
Larger(a, b)   == IF a > b THEN a ELSE b

(* The counters after an update.  SET has -1 for what it leaves alone.     *)
Updated(b, u) ==
  LET active == IF u.action = "set" THEN u.active
                ELSE AtLeastZero(b.active + u.active)
  IN [idle       |-> IF u.action = "set" THEN u.idle
                     ELSE AtLeastZero(b.idle + u.idle),
      active     |-> active,
      active_max |-> Larger(b.active_max, active),
      requests   |-> b.requests + u.requests,
      slow_rq    |-> b.slow_rq + u.slow_rq]

(* Slip: the result of the compare and swap is not looked at.              *)
Spun_Once(l) == TRUE

(* fpm_spinlock has seen the word at 0.                                    *)
Spun(l) == l = 0

(* Slip: the copy is made without the lock.                                *)
Tried_Ignored(l) == TRUE

(* fpm_spinlock with try_once succeeds.                                    *)
Tried(l) == l = 0

(* Slip: the function returns before the lock is given back.               *)
Unlocked_Missing == lock

Unlocked == 0

(* The lock is taken and the counters are read; they are written; the lock *)
(* is given back.                                                          *)
EnterBoard(p) ==
  /\ pc[p] = "count" /\ Runs(p) /\ Spun(lock)
  /\ lock' = 1
  /\ tmp' = [tmp EXCEPT ![p] = board]
  /\ pc' = [pc EXCEPT ![p] = "store"]
  /\ UNCHANGED <<board, slot, upd, workerVars, masterVars, endVars, pastVars>>

StoreBoard(p) ==
  /\ pc[p] = "store" /\ Runs(p)
  /\ board' = Updated(tmp[p], upd[p])
  /\ upd' = [upd EXCEPT ![p] = NoUpdate]
  /\ tmp' = [tmp EXCEPT ![p] = Counters]
  /\ pc' = [pc EXCEPT ![p] = "unlock"]
  /\ UNCHANGED <<lock, slot, workerVars, masterVars, endVars, pastVars>>

LeaveBoard(p) ==
  /\ pc[p] = "unlock" /\ Runs(p)
  /\ lock' = Unlocked
  /\ UNCHANGED <<board, upd, tmp>>

-----------------------------------------------------------------------------
(* The workers: hooks of fpm_request.c, in the order the callbacks of      *)
(* fpm_main.c and fastcgi.c call them.                                     *)

(* Slip: a refused request leaves the callback without close_request.      *)
Arrivals_Refused ==
  {<<"accepting", "reading", "info", "executing">>,
   <<"accepting", "reading", "info">>,
   <<"accepting", "reading", "info", "finished">>,
   <<"accepting", "reading", "info", "executing", "status", "end">>}

(* socket_read_cb: a script is executed, or the request is refused, or its *)
(* start-up fails and it is closed, or it is for the status page.          *)
Arrivals ==
  {<<"accepting", "reading", "info", "executing">>,
   <<"accepting", "reading", "info", "end">>,
   <<"accepting", "reading", "info", "finished">>,
   <<"accepting", "reading", "info", "executing", "status", "end">>}

(* The first step of a hook.                                               *)
Entry(hooks, w, in) ==
  IF hooks = <<>> THEN IF w \in in THEN "run" ELSE "loop"
  ELSE IF Head(hooks) = "status" THEN "status" ELSE "slot"

Call(w, hooks) ==
  /\ todo' = [todo EXCEPT ![w] = hooks]
  /\ pc' = [pc EXCEPT ![w] = Entry(hooks, w, script)]

(* The worker has yet to enter the request in its slot.                    *)
Unentered(w) ==
  /\ todo[w] # <<>>
  /\ \/ Head(todo[w]) = "accepting"
     \/ Head(todo[w]) = "reading" /\ pc[w] \in {"slot", "rest"}

Arrive(w) ==
  /\ pc[w] = "loop" /\ Runs(w) /\ load[w] < MaxLoad
  /\ served + Cardinality({v \in Worker : Unentered(v)}) < MaxServed
  /\ \E hooks \in Arrivals :
       /\ Call(w, hooks)
       /\ load' = [load EXCEPT ![w] = IF hooks[Len(hooks)] = "executing"
                                      THEN @ + 1 ELSE @]
  /\ UNCHANGED <<boardVars, slot, upd, tmp, script, served, masterVars, endVars,
                 pastVars>>

(* resume_coroutine_context, for one of the suspended scripts              *)
Resume(w) ==
  /\ pc[w] = "loop" /\ Runs(w) /\ load[w] > 0
  /\ Call(w, <<"executing">>)
  /\ UNCHANGED <<boardVars, slot, upd, tmp, load, script, served, masterVars,
                 endVars, pastVars>>

(* event_cb, for a client whose script is suspended, or that has none.     *)
ClientGone(w) ==
  /\ pc[w] = "loop" /\ Runs(w)
  /\ \E gone \in {0} \cup {1 : s \in 1 .. load[w]} :
       load' = [load EXCEPT ![w] = @ - gone]
  /\ Call(w, <<"end">>)
  /\ UNCHANGED <<boardVars, slot, upd, tmp, script, served, masterVars, endVars,
                 pastVars>>

(* The script yields, ends, or has its response finished early: then       *)
(* fcgi_close calls the on_close hook.                                     *)
Yield(w) ==
  /\ pc[w] = "run" /\ Runs(w)
  /\ script' = script \ {w}
  /\ pc' = [pc EXCEPT ![w] = "loop"]
  /\ UNCHANGED <<boardVars, slot, upd, tmp, todo, load, served, masterVars,
                 endVars, pastVars>>

EndScript(w) ==
  /\ pc[w] = "run" /\ Runs(w)
  /\ load' = [load EXCEPT ![w] = @ - 1]
  /\ script' = script \ {w}
  /\ Call(w, <<"end">>)
  /\ UNCHANGED <<boardVars, slot, upd, tmp, served, masterVars, endVars,
                 pastVars>>

FinishEarly(w) ==
  /\ pc[w] = "run" /\ Runs(w)
  /\ Call(w, <<"finished">>)
  /\ UNCHANGED <<boardVars, slot, upd, tmp, load, script, served, masterVars,
                 endVars, pastVars>>

StageOf(hook) == IF hook = "end" THEN "finished" ELSE hook

(* fpm_scoreboard_proc_acquire, and the hook begins to write: the stage    *)
(* and, for a new request, the time stamps.                                *)
EnterSlot(w) ==
  /\ pc[w] = "slot" /\ Runs(w) /\ Spun(slot[w].lock)
  /\ slot' = [slot EXCEPT ![w].lock = 1, ![w].stage = StageOf(Head(todo[w])),
                          ![w].accepted = IF Head(todo[w]) = "reading"
                                          THEN slot[w].requests + 1 ELSE @]
  /\ pc' = [pc EXCEPT ![w] = "rest"]
  /\ UNCHANGED <<boardVars, upd, tmp, workerVars, masterVars, endVars, pastVars>>

(* The hook is through: the next one, the script or the loop.              *)
GoOn(w) ==
  /\ todo' = [todo EXCEPT ![w] = Tail(@)]
  /\ script' = IF Head(todo[w]) = "executing" THEN script \cup {w}
               ELSE IF Head(todo[w]) = "end" THEN script \ {w} ELSE script
  /\ pc' = [pc EXCEPT ![w] = Entry(Tail(todo[w]), w, script')]

(* What else the hook writes, and fpm_scoreboard_proc_release: accepting   *)
(* and reading_headers then update the counters.                           *)
WriteRest(w) ==
  LET hook == Head(todo[w])
      new  == hook = "reading"
  IN
  /\ pc[w] = "rest" /\ Runs(w)
  /\ slot' = [slot EXCEPT ![w].lock = Unlocked,
                          ![w].requests = IF new THEN @ + 1 ELSE @]
  /\ whole' = [whole EXCEPT ![w] = Shown(slot'[w])]
  /\ served' = IF new THEN served + 1 ELSE served
  /\ IF hook \in {"accepting", "reading"}
     THEN /\ upd' = [upd EXCEPT ![w] = IF new THEN Inc(-1, 1, 1, 0)
                                       ELSE Inc(1, -1, 0, 0)]
          /\ pc' = [pc EXCEPT ![w] = "count"]
          /\ UNCHANGED <<todo, script>>
     ELSE GoOn(w) /\ UNCHANGED upd
  /\ UNCHANGED <<boardVars, tmp, load, masterVars, endVars, orders>>

Counted(w) ==
  /\ LeaveBoard(w)
  /\ GoOn(w)
  /\ UNCHANGED <<slot, load, served, masterVars, endVars, pastVars>>

(* fpm_status_handle_request tries the lock once: 503, or a copy.          *)
TryStatus(w) ==
  /\ pc[w] = "status" /\ Runs(w)
  /\ IF Tried(lock)
     THEN /\ lock' = 1
          /\ pc' = [pc EXCEPT ![w] = "status_copy"]
          /\ UNCHANGED <<todo, script>>
     ELSE GoOn(w) /\ UNCHANGED lock
  /\ UNCHANGED <<board, slot, upd, tmp, load, served, masterVars, endVars,
                 pastVars>>

CopyStatus(w) ==
  /\ pc[w] = "status_copy" /\ Runs(w)
  /\ lock' = Unlocked
  /\ GoOn(w)
  /\ UNCHANGED <<board, slot, upd, tmp, load, served, masterVars, endVars,
                 pastVars>>

-----------------------------------------------------------------------------
(* The master.                                                             *)

MasterGoes(here, there) ==
  pc[Master] = here /\ pc' = [pc EXCEPT ![Master] = there]

(* fpm_request_check_timed_out tries the lock of the child's slot once,    *)
(* and begins to copy it.                                                  *)
Look(c) ==
  /\ Conduct # {} /\ rounds < MaxRounds /\ rounds' = rounds + 1
  /\ MasterGoes("loop", "copy") /\ Tried(slot[c].lock)
  /\ slot' = [slot EXCEPT ![c].lock = 1]
  /\ child' = c
  /\ copy' = [copy EXCEPT !.stage = slot[c].stage]
  /\ UNCHANGED <<boardVars, upd, tmp, workerVars, tracer, slow_logged, seen,
                 endVars, pastVars>>

CopyRest ==
  /\ MasterGoes("copy", "judge")
  /\ copy' = [copy EXCEPT !.accepted = slot[child].accepted,
                          !.requests = slot[child].requests]
  /\ slot' = [slot EXCEPT ![child].lock = Unlocked]
  /\ UNCHANGED <<boardVars, upd, tmp, workerVars, tracer, slow_logged, child,
                 seen, rounds, endVars, pastVars>>

(* Slip: a request that was traced is forgotten at the next look.          *)
StillLogged_Forgotten(n) == 0

(* What slow_logged is after it was compared with the copy.                *)
StillLogged(n) == IF n = copy.accepted THEN n ELSE 0

(* The rest of fpm_request_check_timed_out, for a request that has taken   *)
(* too long or not.                                                        *)
Judge ==
  LET logged == StillLogged(slow_logged[child])
  IN
  /\ MasterGoes("judge", "loop")
  /\ \/ /\ slow_logged' = [slow_logged EXCEPT ![child] = logged]
        /\ UNCHANGED <<tracer, doomed, orders>>
     \/ /\ "slowlog" \in Conduct /\ copy.stage = "executing" /\ logged = 0
        /\ slow_logged' = [slow_logged EXCEPT ![child] = copy.accepted]
        /\ tracer' = tracer \cup {child}
        /\ orders' = [orders EXCEPT ![child] = Append(@, copy.accepted)]
        /\ UNCHANGED doomed
     \/ /\ "terminate" \in Conduct /\ copy.stage \in Running
        /\ slow_logged' = [slow_logged EXCEPT ![child] = logged]
        /\ doomed' = IF status[child] = "dead" THEN doomed ELSE doomed \cup {child}
        /\ UNCHANGED <<tracer, orders>>
  /\ copy' = FreshSlot /\ child' = Master
  /\ UNCHANGED <<boardVars, slot, upd, tmp, workerVars, seen, rounds, status,
                 history, whole>>

(* fpm_pctl_perform_idle_server_maintenance: fpm_request_is_idle reads one *)
(* stage after the other, without a lock.                                  *)
Maintain ==
  /\ MasterGoes("loop", "sample")
  /\ rounds < MaxRounds /\ rounds' = rounds + 1
  /\ seen' = [idle |-> 0, left |-> Worker]
  /\ UNCHANGED <<boardVars, slot, upd, tmp, workerVars, tracer, slow_logged,
                 child, copy, endVars, pastVars>>

Sample(c) ==
  LET idle == IF slot[c].stage = "accepting" THEN seen.idle + 1 ELSE seen.idle
  IN
  /\ pc[Master] = "sample" /\ c \in seen.left
  /\ IF seen.left = {c}
     THEN /\ seen' = [idle |-> 0, left |-> {}]
          /\ upd' = [upd EXCEPT ![Master] =
                       [NoUpdate EXCEPT !.action = "set", !.idle = idle,
                          !.active = Cardinality(Worker) - idle]]
          /\ pc' = [pc EXCEPT ![Master] = "count"]
     ELSE /\ seen' = [idle |-> idle, left |-> seen.left \ {c}]
          /\ UNCHANGED <<upd, pc>>
  /\ UNCHANGED <<boardVars, slot, tmp, workerVars, tracer, slow_logged, child,
                 copy, rounds, endVars, pastVars>>

(* fpm_children_bury, for a child that has stopped: fpm_php_trace          *)
Trace(c) ==
  /\ MasterGoes("loop", "count")
  /\ c \in tracer /\ status[c] = "stopped"
  /\ child' = c
  /\ upd' = [upd EXCEPT ![Master] = Inc(0, 0, 0, 1)]
  /\ UNCHANGED <<boardVars, slot, tmp, workerVars, tracer, slow_logged, copy,
                 seen, rounds, endVars, pastVars>>

(* Only a trace has a child to go on with.                                 *)
MasterCounted ==
  /\ LeaveBoard(Master)
  /\ pc' = [pc EXCEPT ![Master] = IF child = Master THEN "loop" ELSE "dump"]
  /\ UNCHANGED <<slot, workerVars, masterVars, endVars, pastVars>>

(* The rest of fpm_php_trace: the child goes on.                           *)
Dump ==
  /\ MasterGoes("dump", "loop")
  /\ status' = [status EXCEPT ![child] = "up"]
  /\ tracer' = tracer \ {child} /\ child' = Master
  /\ UNCHANGED <<boardVars, slot, upd, tmp, workerVars, slow_logged, copy,
                 seen, rounds, doomed, history, pastVars>>

(* Slip: only the fields of the request are reset.                         *)
Freed_StillLocked(s) == [FreshSlot EXCEPT !.lock = s.lock]

(* fpm_scoreboard_proc_free: memset                                        *)
Freed(s) == FreshSlot

(* fpm_children_bury, for a child that is dead, and fpm_children_make for  *)
(* the one that follows it in its slot.                                    *)
Bury(c) ==
  /\ pc[Master] = "loop" /\ status[c] = "dead"
  /\ slot' = [slot EXCEPT ![c] = Freed(@)]
  /\ whole' = [whole EXCEPT ![c] = Shown(slot'[c])]
  /\ orders' = [orders EXCEPT ![c] = <<>>]
  /\ status' = [status EXCEPT ![c] = "up"]
  /\ slow_logged' = [slow_logged EXCEPT ![c] = 0]
  /\ tracer' = tracer \ {c}
  /\ UNCHANGED <<boardVars, pc, upd, tmp, workerVars, child, copy, seen, rounds,
                 doomed, history>>

-----------------------------------------------------------------------------
(* What happens to workers.                                                *)

(* SIGTERM ends a worker where it stands: its locks stay as they are.      *)
Die(w) ==
  /\ w \in doomed /\ status[w] = "up" /\ deaths < MaxDeaths
  /\ status' = [status EXCEPT ![w] = "dead"]
  /\ forgotten' = forgotten + upd[w].requests
  /\ pc' = [pc EXCEPT ![w] = "loop"]
  /\ todo' = [todo EXCEPT ![w] = <<>>]
  /\ upd' = [upd EXCEPT ![w] = NoUpdate] /\ tmp' = [tmp EXCEPT ![w] = Counters]
  /\ load' = [load EXCEPT ![w] = 0]
  /\ script' = script \ {w} /\ doomed' = doomed \ {w}
  /\ deaths' = deaths + 1 /\ orphaned' = (orphaned \/ InBoard(w))
  /\ UNCHANGED <<boardVars, slot, served, masterVars, pastVars>>

(* PTRACE_ATTACH stops a worker where it stands.                           *)
Stop(w) ==
  /\ w \in tracer /\ status[w] = "up"
  /\ status' = [status EXCEPT ![w] = "stopped"]
  /\ UNCHANGED <<boardVars, slot, pc, upd, tmp, workerVars, masterVars, doomed,
                 history, pastVars>>

Hook(w) == \/ EnterSlot(w) \/ WriteRest(w) \/ Counted(w)
           \/ TryStatus(w) \/ CopyStatus(w)
Callback(w) == \/ Arrive(w) \/ Resume(w) \/ ClientGone(w) \/ Yield(w)
               \/ EndScript(w) \/ FinishEarly(w)

Next ==
  \/ \E p \in Process : EnterBoard(p) \/ StoreBoard(p)
  \/ \E w \in Worker : Hook(w) \/ Callback(w) \/ Die(w) \/ Stop(w)
  \/ \E c \in Worker : Look(c) \/ Sample(c) \/ Trace(c) \/ Bury(c)
  \/ CopyRest \/ Judge \/ Maintain
  \/ MasterCounted \/ Dump

Spec == Init /\ [][Next]_vars

-----------------------------------------------------------------------------
TypeOK ==
  /\ lock \in {0, 1}
  /\ board \in [idle : Nat, active : Nat, active_max : Nat, requests : Nat,
                slow_rq : Nat]
  /\ slot \in [Worker -> [lock : {0, 1},
                          stage : {"none", "accepting", "finished"} \cup Running,
                          accepted : Nat, requests : Nat]]
  /\ status \in [Worker -> {"up", "stopped", "dead"}]
  /\ load \in [Worker -> Nat]
  /\ script \subseteq Worker /\ doomed \subseteq Worker /\ tracer \subseteq Worker
  /\ child \in Process
  /\ served \in Nat /\ forgotten \in Nat

(* Never are two processes between the taking and the giving back of the   *)
(* same lock, and a lock that is taken is one that somebody there will     *)
(* give back, or burying the worker that died there.  Only the board's     *)
(* lock stays taken when a worker dies with it, and that the master, which *)
(* waits for it without a bound, does not survive (fpm_spinlock,           *)
(* fpm_unlock, fpm_scoreboard_proc_free).                                  *)
LocksKept ==
  /\ \A p, q \in Process : InBoard(p) /\ InBoard(q) => p = q
  /\ lock = 1 <=> orphaned \/ \E p \in Process : InBoard(p)
  /\ \A w \in Worker :
       /\ ~(InSlot(w, w) /\ InSlot(Master, w))
       /\ slot[w].lock = 1 =>
            InSlot(w, w) \/ InSlot(Master, w) \/ status[w] = "dead"

(* Every request a worker has entered in its slot is counted on the board, *)
(* or is about to be, unless the worker died in between: no count is lost  *)
(* to another process that updates at the same time, nor to the master's   *)
(* overwriting (fpm_scoreboard_update).                                    *)
RequestsCounted ==
  served = board.requests + forgotten
           + Cardinality({w \in Worker : upd[w].requests = 1})

(* What the master judges a child by is what one hook of its worker, run   *)
(* to its end, left in the slot, or the slot of a child newly forked:      *)
(* never the stage of one hook with the time stamps of another, whatever   *)
(* the worker does while the slot is copied (fpm_request_check_timed_out,  *)
(* fpm_scoreboard_proc_acquire).                                           *)
SnapshotWhole ==
  [][pc[Master] = "copy" /\ pc'[Master] = "judge"
       => Shown(copy') = whole[child]]_vars

(* A child is stopped for tracing at most once per time stamp, and never   *)
(* for an earlier one again, although slow_logged forgets the stamp as     *)
(* soon as the slot shows another (fpm_request_check_timed_out).  This     *)
(* says nothing of requests: one that is resumed runs under the stamp of   *)
(* the request its worker accepted last.                                   *)
TracedOnce ==
  \A w \in Worker : \A i, j \in DOMAIN orders[w] :
    i < j => orders[w][i] < orders[w][j]

(* A worker that is back in its loop shows a stage that request timeouts   *)
(* apply to only if it has a request suspended: the end of each request,   *)
(* whichever way it ends, is entered in the one slot they all share        *)
(* (fpm_request_end in close_request).                                     *)
StageMeansWork ==
  \A w \in Worker :
    pc[w] = "loop" /\ slot[w].stage \in Running => load[w] > 0 \/ status[w] = "dead"
==============================================================================
