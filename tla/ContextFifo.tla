----------------------------- MODULE ContextFifo -----------------------------
(***************************************************************************)
(* What the coroutine pool promises: contexts wait in a first-in first-out *)
(* queue, the one idle for longest is handed out first, and connections    *)
(* are accepted exactly while the queue is not empty.                      *)
(***************************************************************************)
EXTENDS Sequences

CONSTANT Context

VARIABLES idle,     (* the idle contexts, the next to be handed out first  *)
          busy,     (* the contexts in use                                 *)
          stopped   (* no connection is being accepted                     *)

fifoVars == <<idle, busy, stopped>>

Known == busy \cup {idle[i] : i \in DOMAIN idle}

Init == idle = <<>> /\ busy = {} /\ stopped = FALSE

Add(c) ==
  /\ c \notin Known
  /\ idle' = <<c>> \o idle
  /\ UNCHANGED <<busy, stopped>>

Take ==
  /\ Known = Context /\ idle # <<>>
  /\ busy' = busy \cup {Head(idle)}
  /\ idle' = Tail(idle)
  /\ stopped' = (Tail(idle) = <<>>)

Give(c) ==
  /\ c \in busy
  /\ busy' = busy \ {c}
  /\ idle' = Append(idle, c)
  /\ stopped' = FALSE

Next ==
  \/ \E c \in Context : Add(c) \/ Give(c)
  \/ Take

Spec == Init /\ [][Next]_fifoVars
=============================================================================
