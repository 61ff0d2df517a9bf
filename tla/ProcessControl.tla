--------------------------- MODULE ProcessControl ---------------------------
(***************************************************************************)
(* The php-fpm master and the children of one worker pool                  *)
(* (sapi/fpm/fpm: fpm_process_ctl.c, fpm_children.c, fpm_events.c,         *)
(* fpm_scoreboard.c, fpm_request.c, fpm_signals.c).                        *)
(*                                                                         *)
(* The master is one thread: a loop over the signals written to a pipe and *)
(* over timers.  What it does between two looks at a child, burying the    *)
(* dead and forking, is a step each, because children run on meanwhile.    *)
(***************************************************************************)
EXTENDS Integers, FiniteSets

CONSTANTS
  Pid,            (* process ids, more of them than children               *)
  Pm,             (* pm: "static", "dynamic" or "ondemand"                 *)
  MaxChildren,    (* pm.max_children                                       *)
  StartServers,   (* pm.start_servers                                      *)
  MinSpare,       (* pm.min_spare_servers                                  *)
  MaxSpare,       (* pm.max_spare_servers                                  *)
  ProcessMax,     (* process.max, 0 for no limit                           *)
  MaxSpawnRate,   (* FPM_MAX_SPAWN_RATE                                    *)
  MaxLoad,        (* bound: requests one child has open                    *)
  Conduct         (* what children and administrator may do, see below     *)

(* The orders: signals the administrator sends the master (SIGINT does what *)
(* SIGTERM does).  "crash": a child dies of a fault; "leave": a child       *)
(* exits, at pm.max_requests or because it could not initialise;            *)
(* "request_timeout": request_terminate_timeout is set; "emergency":        *)
(* emergency_restart_threshold is; "fork_failure".                          *)
Order    == {"TERM", "QUIT", "USR2"}
Conducts == Order \cup {"crash", "leave", "request_timeout", "emergency",
                        "fork_failure"}

ASSUME ConfigurationAssumption ==
  /\ IsFiniteSet(Pid)
  /\ Pm \in {"static", "dynamic", "ondemand"}
  /\ MaxChildren \in Nat \ {0}
  /\ StartServers \in Nat /\ StartServers <= MaxChildren
  /\ MinSpare \in Nat /\ MaxSpare \in Nat
  /\ ProcessMax \in Nat /\ MaxSpawnRate \in Nat \ {0} /\ MaxLoad \in Nat
  /\ Conduct \subseteq Conducts

VARIABLES
  (* the master *)
  fpm_state, fpm_signal_sent,
  timer,            (* pctl_event is in fpm_event_queue_timer              *)
  pipe,             (* signals written to the pipe and not yet read        *)
  at,               (* what the master is in: "loop", "bury", "make", or   *)
                    (* "gone", after exit or exec                          *)
  goal, back,       (* fpm_children_make: its max, and where it returns to *)
  idle_spawn_rate,
  (* the children and their slots of the scoreboard *)
  children,         (* wp->children                                        *)
  idle_kill,        (* those with child->idle_kill                         *)
  slot,             (* child->scoreboard_i                                 *)
  used, free_proc,  (* the slots in use, the one to be tried first         *)
  stage,            (* proc->request_stage of each slot                    *)
  (* the processes *)
  proc,             (* "starting", before fpm_signals_init_child; "up";    *)
                    (* how it ended, until waitpid; "none"                 *)
  fatal,            (* processes with a signal pending that will end them  *)
  quit,             (* processes that have handled SIGQUIT                 *)
  load              (* requests a process has open                         *)

masterVars == <<fpm_state, fpm_signal_sent, timer, at, goal, back,
                idle_spawn_rate>>
boardVars  == <<children, idle_kill, slot, used, free_proc>>
procVars   == <<fatal, quit, load>>
vars == <<masterVars, pipe, boardVars, stage, proc, procVars>>

Slot  == 0 .. MaxChildren - 1
Ended == {"exited", "signaled", "fault"}
NoSlot == -1

running_children == Cardinality(children)

(* Above reading headers and below FPM_REQUEST_END, "running" stands for   *)
(* the stages of a request being served.                                   *)
TypeOK ==
  /\ fpm_state \in {"normal", "reloading", "finishing", "terminating"}
  /\ fpm_signal_sent \in {"none", "QUIT", "TERM", "KILL"}
  /\ timer \in BOOLEAN
  /\ pipe \subseteq Order \cup {"CHLD"}
  /\ at \in {"loop", "bury", "make", "gone"}
  /\ goal \in Nat /\ back \in {"start", "loop", "bury"}
  /\ idle_spawn_rate \in 1 .. 2 * MaxSpawnRate
  /\ children \subseteq Pid /\ idle_kill \subseteq children
  /\ slot \in [Pid -> Slot \cup {NoSlot}]
  /\ used \subseteq Slot /\ free_proc \in Slot
  /\ stage \in [Slot -> {"none", "accepting", "running", "finished"}]
  /\ proc \in [Pid -> {"none", "starting", "up"} \cup Ended]
  /\ fatal \subseteq Pid /\ quit \subseteq Pid
  /\ load \in [Pid -> 0 .. MaxLoad]

Init ==
  /\ fpm_state = "normal" /\ fpm_signal_sent = "none"
  /\ timer = FALSE /\ pipe = {}
  /\ at = "make" /\ back = "start"
  /\ goal = CASE Pm = "static" -> MaxChildren
              [] Pm = "dynamic" -> StartServers
              [] Pm = "ondemand" -> 0
  /\ idle_spawn_rate = 1
  /\ children = {} /\ idle_kill = {}
  /\ slot = [p \in Pid |-> NoSlot]
  /\ used = {} /\ free_proc = 0
  /\ stage = [s \in Slot |-> "none"]
  /\ proc = [p \in Pid |-> "none"]
  /\ fatal = {} /\ quit = {}
  /\ load = [p \in Pid |-> 0]

-----------------------------------------------------------------------------
(* Processes.                                                              *)

Alive(p) == proc[p] \in {"starting", "up"}

(* A process that has not set up its handlers yet runs the master's, which *)
(* returns in any other process: it may lose the signal.                   *)
Send(sig, P) ==
  LET heard == {p \in P : proc[p] = "up"}
      maybe == {p \in P : proc[p] = "starting"}
  IN  CASE sig = "KILL" -> fatal' = fatal \cup heard \cup maybe /\ quit' = quit
        [] sig = "TERM" -> /\ \E L \in SUBSET maybe : fatal' = fatal \cup heard \cup L
                           /\ quit' = quit
        [] sig = "QUIT" -> /\ \E L \in SUBSET maybe : quit' = quit \cup heard \cup L
                           /\ fatal' = fatal

(* fpm_child_init up to fpm_signals_init_child *)
ChildReady(p) ==
  /\ proc[p] = "starting"
  /\ proc' = [proc EXCEPT ![p] = "up"]
  /\ UNCHANGED <<masterVars, pipe, boardVars, stage, procVars>>

(* A process ends; the kernel signals its parent. *)
End(p, how) ==
  /\ proc' = [proc EXCEPT ![p] = how]
  /\ pipe' = pipe \cup {"CHLD"}
  /\ fatal' = fatal \ {p} /\ quit' = quit \ {p}
  /\ load' = [load EXCEPT ![p] = 0]
  /\ UNCHANGED <<masterVars, boardVars, stage>>

ChildKilled(p) == p \in fatal /\ End(p, "signaled")
ChildLeaves(p) == "leave" \in Conduct /\ Alive(p) /\ End(p, "exited")
ChildCrashes(p) == "crash" \in Conduct /\ Alive(p) /\ End(p, "fault")

(* The hooks of init_request_callback: fpm_request_accepting, then at once *)
(* fpm_request_reading_headers.  The master may look in between.  SIGQUIT  *)
(* does not stop this: connections accepted earlier have requests yet.     *)
ChildAccepts(p) ==
  /\ proc[p] = "up" /\ load[p] < MaxLoad
  /\ stage[slot[p]] # "accepting"
  /\ stage' = [stage EXCEPT ![slot[p]] = "accepting"]
  /\ UNCHANGED <<masterVars, pipe, boardVars, proc, procVars>>

ChildReads(p) ==
  /\ proc[p] = "up" /\ stage[slot[p]] = "accepting"
  /\ stage' = [stage EXCEPT ![slot[p]] = "running"]
  /\ load' = [load EXCEPT ![p] = @ + 1]
  /\ UNCHANGED <<masterVars, pipe, boardVars, proc, fatal, quit>>

(* fpm_request_executing, when a script is resumed *)
ChildResumes(p) ==
  /\ proc[p] = "up" /\ load[p] > 0 /\ stage[slot[p]] = "finished"
  /\ stage' = [stage EXCEPT ![slot[p]] = "running"]
  /\ UNCHANGED <<masterVars, pipe, boardVars, proc, procVars>>

(* Slip: a request is ended that was never begun, or once too often.       *)
ChildEndsRequest_Unbegun(p) ==
  /\ proc[p] = "up" /\ stage[slot[p]] \in {"running", "finished"}
  /\ stage' = [stage EXCEPT ![slot[p]] = "finished"]
  /\ load' = [load EXCEPT ![p] = @ - 1]
  /\ UNCHANGED <<masterVars, pipe, boardVars, proc, fatal, quit>>

(* fpm_request_end, called by close_request for whichever request ends     *)
ChildEndsRequest(p) ==
  /\ proc[p] = "up" /\ load[p] > 0 /\ stage[slot[p]] \in {"running", "finished"}
  /\ stage' = [stage EXCEPT ![slot[p]] = "finished"]
  /\ load' = [load EXCEPT ![p] = @ - 1]
  /\ UNCHANGED <<masterVars, pipe, boardVars, proc, fatal, quit>>

-----------------------------------------------------------------------------
(* fpm_pctl                                                                *)

(* Slip: any order overrides any other.                                    *)
Overrides_Any(new, old) == new # old

(* 'reloading' can be overridden by 'finishing', both by 'terminating'.    *)
Overrides(new, old) ==
  \/ old = "normal" /\ new # "normal"
  \/ old = "reloading" /\ new = "finishing"
  \/ old \in {"reloading", "finishing"} /\ new = "terminating"

(* Slip: the escalation ends with SIGTERM.                                 *)
NextSignal_NoKill(state, sent) ==
  IF sent = "none" /\ state # "terminating" THEN "QUIT" ELSE "TERM"

(* The signal fpm_pctl_action_next sends after sent.                       *)
NextSignal(state, sent) ==
  CASE sent = "none" /\ state = "terminating" -> "TERM"
    [] sent = "none" /\ state # "terminating" -> "QUIT"
    [] sent = "QUIT" -> "TERM"
    [] OTHER -> "KILL"

(* fpm_pctl_action_next and fpm_pctl_kill_all for the children live; queued *)
(* says whether pctl_event is in the queue once the current event has been *)
(* dealt with.  Without children the master exits or execs (Stay).         *)
ActionNext(state, sent, live, queued) ==
  \/ /\ live = {}
     /\ timer' = FALSE
     /\ UNCHANGED <<fpm_signal_sent, fatal, quit>>
  \/ /\ live # {}
     /\ fpm_signal_sent' = NextSignal(state, sent)
     /\ Send(NextSignal(state, sent), live)
     /\ timer' = queued

(* Slip: the master leaves at once.                                        *)
Stay_Never(state, live, here) == IF state # "normal" THEN "gone" ELSE here

(* Where the master is after fpm_pctl, unless it has called exit or exec.  *)
Stay(state, live, here) == IF state # "normal" /\ live = {} THEN "gone" ELSE here

(* fpm_pctl with FPM_PCTL_ACTION_SET *)
Set(new, live) ==
  IF Overrides(new, fpm_state)
  THEN fpm_state' = new /\ ActionNext(new, "none", live, TRUE)
  ELSE UNCHANGED <<fpm_state, fpm_signal_sent, timer, fatal, quit>>

-----------------------------------------------------------------------------
(* Events of the master's loop.                                            *)

StateFor(order) == CASE order = "TERM" -> "terminating"
                     [] order = "QUIT" -> "finishing"
                     [] order = "USR2" -> "reloading"

(* The administrator signals the master; its handler writes to the pipe.   *)
Tell(order) ==
  /\ order \in Conduct /\ at # "gone" /\ order \notin pipe
  /\ pipe' = pipe \cup {order}
  /\ UNCHANGED <<masterVars, boardVars, stage, proc, procVars>>

(* fpm_got_signal, for one of the orders *)
GotOrder(order) ==
  /\ at = "loop" /\ order \in pipe
  /\ pipe' = pipe \ {order}
  /\ Set(StateFor(order), children)
  /\ at' = IF Overrides(StateFor(order), fpm_state)
           THEN Stay(StateFor(order), children, "loop") ELSE "loop"
  /\ UNCHANGED <<goal, back, idle_spawn_rate, boardVars, stage, proc, load>>

(* fpm_got_signal, for SIGCHLD *)
GotChild ==
  /\ at = "loop" /\ "CHLD" \in pipe
  /\ pipe' = pipe \ {"CHLD"}
  /\ at' = "bury"
  /\ UNCHANGED <<fpm_state, fpm_signal_sent, timer, goal, back,
                 idle_spawn_rate, boardVars, stage, proc, procVars>>

(* fpm_pctl_timeout_set in the timer's own callback adds nothing, since    *)
(* the timer is still in the queue, and fpm_event_loop then deletes it.    *)
FiredTimerQueued == FALSE

(* fpm_pctl_action *)
Timeout ==
  /\ at = "loop" /\ timer
  /\ ActionNext(fpm_state, fpm_signal_sent, children, FiredTimerQueued)
  /\ at' = Stay(fpm_state, children, "loop")
  /\ UNCHANGED <<fpm_state, pipe, goal, back, idle_spawn_rate, boardVars,
                 stage, proc, load>>

(* fpm_request_check_timed_out, for a child that has been at it too long   *)
RequestTimeout(c) ==
  /\ "request_timeout" \in Conduct
  /\ at = "loop" /\ c \in children /\ stage[slot[c]] = "running"
  /\ Send("TERM", {c})
  /\ UNCHANGED <<masterVars, pipe, boardVars, stage, proc, load>>
-----------------------------------------------------------------------------
(* Slots of the scoreboard.                                                *)

(* fpm_scoreboard_proc_alloc: the slot remembered, or a search.            *)
FirstFree ==
  IF free_proc \notin used THEN free_proc
  ELSE CHOOSE i \in Slot \ used : \A j \in Slot \ used : i <= j

AllocSlot(p) ==
  /\ slot' = [slot EXCEPT ![p] = FirstFree]
  /\ used' = used \cup {FirstFree}
  /\ free_proc' = (FirstFree + 1) % MaxChildren

(* Slip: the slot stays in use.                                            *)
FreeSlot_Kept(p) ==
  /\ slot' = [slot EXCEPT ![p] = NoSlot]
  /\ free_proc' = slot[p]
  /\ stage' = [stage EXCEPT ![slot[p]] = "none"]
  /\ UNCHANGED used

(* fpm_scoreboard_proc_free *)
FreeSlot(p) ==
  /\ slot' = [slot EXCEPT ![p] = NoSlot]
  /\ used' = used \ {slot[p]}
  /\ free_proc' = slot[p]
  /\ stage' = [stage EXCEPT ![slot[p]] = "none"]

-----------------------------------------------------------------------------
(* fpm_children_make                                                       *)

Target(live, n) == IF Pm = "static" THEN MaxChildren ELSE Cardinality(live) + n

(* Slips: process.max, or the state, is not looked at.                     *)
MaySpawn_Unlimited == fpm_state = "normal" /\ running_children < goal
MaySpawn_AnyState ==
  running_children < goal /\ (ProcessMax = 0 \/ running_children < ProcessMax)

(* The condition of its loop, with fpm_pctl_can_spawn_children.            *)
MaySpawn ==
  /\ fpm_state = "normal"
  /\ running_children < goal
  /\ ProcessMax = 0 \/ running_children < ProcessMax

Return == IF back = "bury" THEN "bury" ELSE "loop"

Fork(p) ==
  /\ at = "make" /\ MaySpawn /\ used # Slot /\ proc[p] = "none"
  /\ AllocSlot(p)
  /\ proc' = [proc EXCEPT ![p] = "starting"]
  /\ children' = children \cup {p}
  /\ UNCHANGED <<masterVars, pipe, idle_kill, stage, procVars>>

(* Slip: the slot prepared for the child is not given back.                *)
ForkFails_SlotKept ==
  /\ at = "make" /\ MaySpawn /\ "fork_failure" \in Conduct /\ back # "start"
  /\ used' = used \cup {FirstFree : s \in Slot \ used}
  /\ at' = Return /\ goal' = 0 /\ back' = "loop"
  /\ UNCHANGED <<fpm_state, fpm_signal_sent, timer, idle_spawn_rate, pipe,
                 children, idle_kill, slot, free_proc, stage, proc, procVars>>

(* No slot, no memory or no process: what was prepared is discarded, the   *)
(* slot among it.  fpm_run gives up when this happens to initial children. *)
ForkFails ==
  /\ at = "make" /\ MaySpawn /\ "fork_failure" \in Conduct
  /\ free_proc' \in {free_proc} \cup {FirstFree : s \in Slot \ used}
  /\ IF back = "start"
     THEN /\ Set("terminating", children)
          /\ at' = Stay("terminating", children, "loop")
     ELSE /\ at' = Return
          /\ UNCHANGED <<fpm_state, fpm_signal_sent, timer, fatal, quit>>
  /\ goal' = 0 /\ back' = "loop"
  /\ UNCHANGED <<pipe, idle_spawn_rate, children, idle_kill, slot, used,
                 stage, proc, load>>

MakeDone ==
  /\ at = "make" /\ ~MaySpawn
  /\ at' = Return
  /\ goal' = 0 /\ back' = "loop"
  /\ UNCHANGED <<fpm_state, fpm_signal_sent, timer, idle_spawn_rate, pipe,
                 boardVars, stage, proc, procVars>>

-----------------------------------------------------------------------------
(* fpm_children_bury                                                       *)

Zombies == {c \in children : proc[c] \in Ended}

(* Killed by the process management, it is not started again.  (No child   *)
(* dies of SIGQUIT, the other case: sig_soft_quit handles it.)             *)
Replaced(c) == ~(proc[c] = "exited" /\ c \in idle_kill)

(* One turn of its loop: waitpid returns c. *)
Bury(c) ==
  LET rest == children \ {c}
      next == IF Replaced(c) THEN "make" ELSE "bury"
  IN
  /\ at = "bury" /\ c \in Zombies
  /\ proc' = [proc EXCEPT ![c] = "none"]
  /\ children' = rest
  /\ idle_kill' = idle_kill \ {c}
  /\ FreeSlot(c)
  /\ \/ "emergency" \in Conduct /\ proc[c] = "fault" /\ Set("reloading", rest)
     \/ UNCHANGED <<fpm_state, fpm_signal_sent, timer, fatal, quit>>
  /\ at' = Stay(fpm_state', rest, next)
  /\ goal' = IF at' = "make" THEN Target(rest, 1) ELSE 0
  /\ back' = IF at' = "make" THEN "bury" ELSE "loop"
  /\ UNCHANGED <<idle_spawn_rate, pipe, load>>

(* Slip: one child is buried for every SIGCHLD.                            *)
NoneLeft_Once == TRUE
NoneLeft == Zombies = {}

BuryDone ==
  /\ at = "bury" /\ NoneLeft
  /\ at' = "loop"
  /\ UNCHANGED <<fpm_state, fpm_signal_sent, timer, goal, back,
                 idle_spawn_rate, pipe, boardVars, stage, proc, procVars>>

-----------------------------------------------------------------------------
(* fpm_pctl_perform_idle_server_maintenance and the ondemand event.        *)

SeenIdle == {c \in children : stage[slot[c]] = "accepting"}
Idle == Cardinality(SeenIdle)

(* One of those seen idle; which of them started first is left open.       *)
KillIdle(c) ==
  /\ c \in SeenIdle
  /\ idle_kill' = idle_kill \cup {c}
  /\ Send("QUIT", {c})
  /\ UNCHANGED <<children, slot, used, free_proc>>

Make(n) ==
  /\ at' = "make" /\ back' = "loop"
  /\ goal' = Target(children, n)

MinOf(S) == CHOOSE i \in S : \A j \in S : i <= j

ChildrenToFork ==
  MinOf({idle_spawn_rate, MinSpare - Idle, MaxChildren - running_children})

Maintain ==
  /\ at = "loop" /\ fpm_state = "normal" /\ Pm = "dynamic"
  /\ \/ /\ Idle > MaxSpare
        /\ \E c \in SeenIdle : KillIdle(c)
        /\ idle_spawn_rate' = 1
        /\ UNCHANGED <<at, goal, back>>
     \/ /\ Idle <= MaxSpare /\ Idle < MinSpare
        /\ running_children < MaxChildren
        /\ Make(ChildrenToFork)
        /\ idle_spawn_rate' = IF idle_spawn_rate < MaxSpawnRate
                              THEN 2 * idle_spawn_rate ELSE idle_spawn_rate
        /\ UNCHANGED <<boardVars, fatal, quit>>
     \/ /\ Idle <= MaxSpare
        /\ Idle >= MinSpare \/ running_children >= MaxChildren
        /\ idle_spawn_rate' = 1
        /\ UNCHANGED <<at, goal, back, boardVars, fatal, quit>>
  /\ UNCHANGED <<fpm_state, fpm_signal_sent, timer, pipe, stage, proc, load>>

(* A child seen idle whose last activity, read after its stage, is older   *)
(* than pm.process_idle_timeout. *)
MaintainOnDemand ==
  /\ at = "loop" /\ fpm_state = "normal" /\ Pm = "ondemand"
  /\ \E c \in SeenIdle : KillIdle(c)
  /\ UNCHANGED <<masterVars, pipe, stage, proc, load>>

(* fpm_pctl_on_socket_accept, when a connection is waiting                 *)
OnSocketAccept ==
  /\ at = "loop" /\ Pm = "ondemand"
  /\ running_children < MaxChildren /\ SeenIdle = {}
  /\ Make(1)
  /\ UNCHANGED <<fpm_state, fpm_signal_sent, timer, idle_spawn_rate, pipe,
                 boardVars, stage, proc, procVars>>

-----------------------------------------------------------------------------
Child(p) == \/ ChildReady(p) \/ ChildAccepts(p) \/ ChildReads(p)
            \/ ChildResumes(p) \/ ChildEndsRequest(p)
            \/ ChildKilled(p) \/ ChildLeaves(p) \/ ChildCrashes(p)

Next ==
  \/ \E order \in Order : Tell(order) \/ GotOrder(order)
  \/ GotChild \/ Timeout
  \/ \E p \in Pid : Child(p) \/ RequestTimeout(p) \/ Fork(p) \/ Bury(p)
  \/ ForkFails \/ MakeDone \/ BuryDone
  \/ Maintain \/ MaintainOnDemand \/ OnSocketAccept

(* The master never blocks outside its loop, and the loop comes to every   *)
(* signal in the pipe and to every timer; waitpid comes to every child, the *)
(* oldest first; processes are scheduled, and signals get to them.         *)
Fairness ==
  /\ WF_vars(\E p \in Pid : Fork(p)) /\ WF_vars(MakeDone)
  /\ WF_vars(BuryDone)
  /\ \A p \in Pid : SF_vars(Bury(p))
  /\ SF_vars(GotChild) /\ \A order \in Order : SF_vars(GotOrder(order))
  /\ SF_vars(Timeout)
  /\ \A p \in Pid : WF_vars(ChildReady(p)) /\ WF_vars(ChildKilled(p))

Spec     == Init /\ [][Next]_vars
FairSpec == Spec /\ Fairness

-----------------------------------------------------------------------------
(* Every child has a slot of the scoreboard to itself, and no slot is used *)
(* by anybody else (fpm_scoreboard_proc_alloc and _free on every path of   *)
(* fpm_children_make and fpm_children_bury).                               *)
SlotsOwned ==
  /\ used = {slot[c] : c \in children}
  /\ \A c, d \in children : slot[c] = slot[d] => c = d

(* The master never has more children than process.max allows, and         *)
(* whichever of its four callers runs fpm_children_make never lets it fork *)
(* past pm.max_children, the size of the scoreboard.                       *)
WithinLimits ==
  /\ ProcessMax > 0 => running_children <= ProcessMax
  /\ at = "make" /\ MaySpawn => used # Slot

(* The master does not exit or exec while a child is left.                 *)
NoOrphans == at = "gone" => \A p \in Pid : proc[p] = "none"

Rank(s) == CASE s = "normal" -> 0 [] s = "reloading" -> 1
             [] s = "finishing" -> 2 [] s = "terminating" -> 3
Severity(sig) == CASE sig = "none" -> 0 [] sig = "QUIT" -> 1
                [] sig = "TERM" -> 2 [] sig = "KILL" -> 3

(* An order to stop is never downgraded, and while it stands the signals   *)
(* sent for it only get harder (fpm_pctl, fpm_pctl_action_next).           *)
OnlyEscalates ==
  [][/\ Rank(fpm_state') >= Rank(fpm_state)
     /\ fpm_state' = fpm_state => Severity(fpm_signal_sent') >= Severity(fpm_signal_sent)]_vars

(* No child is forked for a master that is on its way out.                 *)
NoForkWhileStopping ==
  [][fpm_state' # "normal" => children' \subseteq children]_vars

(* Dead children are buried, however many signals became one.              *)
DeadAreBuried ==
  \A p \in Pid : proc[p] \in Ended ~> proc[p] \notin Ended \/ at = "gone"

(* SIGTERM to the master stops everything, whatever went on before.        *)
TerminateStops == fpm_state = "terminating" ~> at = "gone"

(* SIGUSR2 leads to a new master.                                          *)
ReloadCompletes ==
  fpm_state = "reloading" ~> fpm_state # "reloading" \/ at = "gone"
=============================================================================
