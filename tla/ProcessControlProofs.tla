------------------------ MODULE ProcessControlProofs ------------------------
(***************************************************************************)
(* Proofs about the master and its children, for any configuration.        *)
(***************************************************************************)
EXTENDS ProcessControl, FiniteSetTheorems, WellFoundedInduction, TLAPS

(* The part of TypeOK that the safety properties rest on.                  *)
Typed ==
  /\ fpm_state \in {"normal", "reloading", "finishing", "terminating"}
  /\ fpm_signal_sent \in {"none", "QUIT", "TERM", "KILL"}
  /\ children \in SUBSET Pid
  /\ slot \in [Pid -> Slot \cup {NoSlot}]
  /\ used \in SUBSET Slot
  /\ free_proc \in Slot
  /\ proc \in [Pid -> {"none", "starting", "up"} \cup Ended]
  /\ goal \in Nat
  /\ idle_spawn_rate \in Nat \ {0}

(* The master knows every process there is, and has no other children.     *)
Known ==
  /\ \A p \in Pid : proc[p] # "none" <=> p \in children
  /\ at = "gone" => children = {}

(* No turn of fpm_children_make aims past the scoreboard.                  *)
Bounded ==
  /\ Cardinality(children) <= MaxChildren
  /\ goal <= MaxChildren
  /\ ProcessMax > 0 => Cardinality(children) <= ProcessMax

(* Signals are pending for living processes only.                          *)
Pending == \A p \in Pid : p \in fatal => Alive(p)

Inv == Typed /\ SlotsOwned /\ Known /\ Bounded /\ Pending

-----------------------------------------------------------------------------
(* Every non-empty set of naturals has a least element.                    *)
LEMMA Least ==
  ASSUME NEW S \in SUBSET Nat, S # {}
  PROVE  /\ MinOf(S) \in S
         /\ \A j \in S : MinOf(S) <= j
<1> DEFINE R == OpToRel(<, Nat)
<1>1. IsWellFoundedOn(R, Nat)
  BY NatLessThanWellFounded
<1>2. PICK i \in S : \A j \in S : ~ (<<j, i>> \in R)
  <2> HIDE DEF R
  <2> QED BY <1>1, WFMin
<1>3. \A j \in S : ~ (j < i)
  BY <1>2 DEF OpToRel
<1>4. \A j \in S : i <= j
  BY <1>3
<1> QED BY <1>4 DEF MinOf

(* fpm_scoreboard_proc_alloc finds a slot nobody uses, if there is one.    *)
LEMMA FirstFreeIsFree ==
  ASSUME Typed, used # Slot
  PROVE  FirstFree \in Slot \ used
<1>1. CASE free_proc \notin used
  BY <1>1 DEF FirstFree, Typed
<1>2. CASE free_proc \in used
  <2> DEFINE S == Slot \ used
  <2>1. S \in SUBSET Nat /\ S # {}
    <3>1. Slot \subseteq Nat
      BY ConfigurationAssumption DEF Slot
    <3> QED BY <3>1 DEF Typed
  <2>2. MinOf(S) \in S /\ \A j \in S : MinOf(S) <= j
    BY <2>1, Least
  <2>3. FirstFree = CHOOSE i \in S : \A j \in S : i <= j
    BY <1>2 DEF FirstFree
  <2> QED BY <2>2, <2>3
<1> QED BY <1>1, <1>2

(* Children are finite in number, and the process that is forked is new.   *)
LEMMA CountChildren ==
  ASSUME Typed
  PROVE  /\ IsFiniteSet(children)
         /\ Cardinality(children) \in Nat
         /\ \A c \in children :
              Cardinality(children \ {c}) = Cardinality(children) - 1
         /\ \A p \in Pid \ children :
              Cardinality(children \cup {p}) = Cardinality(children) + 1
<1>1. IsFiniteSet(children)
  BY FS_Subset, ConfigurationAssumption DEF Typed
<1> QED BY <1>1, FS_CardinalityType, FS_RemoveElement, FS_AddElement

(* A scoreboard of pm.max_children slots is not full while fewer children  *)
(* than that own one each.                                                 *)
LEMMA SlotsLeft ==
  ASSUME Typed, SlotsOwned, Cardinality(children) < MaxChildren
  PROVE  used # Slot
<1>1. IsFiniteSet(children) /\ Cardinality(children) \in Nat
  BY CountChildren
<1>2. used = {slot[c] : c \in children}
  BY DEF SlotsOwned
<1>3. Cardinality(used) <= Cardinality(children)
  <2> DEFINE f == [c \in children |-> slot[c]]
  <2>1. f \in [children -> used]
    BY <1>2
  <2>2. \A s \in used : \E c \in children : f[c] = s
    BY <1>2
  <2>3. f \in Surjection(children, used)
    BY <2>1, <2>2 DEF Surjection
  <2> QED BY <1>1, <2>3, FS_Surjection
<1>4. Cardinality(Slot) = MaxChildren
  BY FS_Interval, ConfigurationAssumption DEF Slot
<1> QED BY <1>1, <1>3, <1>4, ConfigurationAssumption

-----------------------------------------------------------------------------
LEMMA InitInv == Init => Inv
<1> SUFFICES ASSUME Init PROVE Inv
  OBVIOUS
<1> USE ConfigurationAssumption DEF Init
<1>1. goal \in Nat /\ goal <= MaxChildren
  OBVIOUS
<1>2. Typed
  BY <1>1 DEF Typed, Slot, NoSlot
<1>3. SlotsOwned
  BY DEF SlotsOwned
<1>4. Known
  BY DEF Known
<1>5. Bounded
  BY <1>1, FS_EmptySet DEF Bounded
<1>6. Pending
  BY DEF Pending
<1> QED BY <1>2, <1>3, <1>4, <1>5, <1>6 DEF Inv

(* What every step but forking and burying does: children keep their slots, *)
(* and the master leaves only when it has no children.                     *)
LEMMA KeepBoard ==
  ASSUME Inv, UNCHANGED <<children, slot, used>>,
         free_proc' \in Slot,
         goal' \in 0 .. MaxChildren,
         idle_spawn_rate' \in Nat \ {0},
         fpm_state' \in {"normal", "reloading", "finishing", "terminating"},
         fpm_signal_sent' \in {"none", "QUIT", "TERM", "KILL"},
         proc' \in [Pid -> {"none", "starting", "up"} \cup Ended],
         \A p \in Pid : proc'[p] = "none" <=> proc[p] = "none",
         at' = "gone" => at = "gone" \/ children = {},
         Pending'
  PROVE  Inv'
<1>1. Typed'
  BY DEF Inv, Typed
<1>2. SlotsOwned'
  BY DEF Inv, SlotsOwned
<1>3. Known'
  BY DEF Inv, Known
<1>4. Bounded'
  BY DEF Inv, Bounded
<1> QED BY <1>1, <1>2, <1>3, <1>4 DEF Inv

(* What fpm_children_make aims at while it runs is within its bounds.      *)
LEMMA GoalInRange ==
  ASSUME Inv
  PROVE  goal \in 0 .. MaxChildren
BY ConfigurationAssumption DEF Inv, Typed, Bounded

(* fpm_pctl_action_next leaves the signal within its range.                *)
LEMMA ActionTyped ==
  ASSUME Typed, NEW live, NEW queued, NEW state,
         NEW sent \in {"none", "QUIT", "TERM", "KILL"},
         ActionNext(state, sent, live, queued)
  PROVE  fpm_signal_sent' \in {"none", "QUIT", "TERM", "KILL"}
BY DEF ActionNext, NextSignal, Typed

(* fpm_pctl leaves state and signal within their ranges.                   *)
LEMMA SetTyped ==
  ASSUME Typed, NEW new \in {"reloading", "finishing", "terminating"},
         NEW live, Set(new, live)
  PROVE  /\ fpm_state' \in {"normal", "reloading", "finishing", "terminating"}
         /\ fpm_signal_sent' \in {"none", "QUIT", "TERM", "KILL"}
BY ActionTyped DEF Set, Typed

-----------------------------------------------------------------------------
(* A signal is pending only for a process that was alive when it was sent. *)
LEMMA SendPending ==
  ASSUME Pending, NEW sig \in {"QUIT", "TERM", "KILL"}, NEW P, Send(sig, P)
  PROVE  \A p \in Pid : p \in fatal' => Alive(p) /\ (p \in fatal \/ p \in P)
BY DEF Send, Pending, Alive

LEMMA ActionPending ==
  ASSUME Pending, NEW state, NEW sent, NEW live, NEW queued,
         ActionNext(state, sent, live, queued)
  PROVE  \A p \in Pid : p \in fatal' => Alive(p) /\ (p \in fatal \/ p \in live)
<1>1. NextSignal(state, sent) \in {"QUIT", "TERM", "KILL"}
  BY DEF NextSignal
<1> QED BY <1>1, SendPending DEF ActionNext, Pending

LEMMA SetPending ==
  ASSUME Pending, NEW new, NEW live, Set(new, live)
  PROVE  \A p \in Pid : p \in fatal' => Alive(p) /\ (p \in fatal \/ p \in live)
BY ActionPending DEF Set, Pending

-----------------------------------------------------------------------------
(* The master's signals and timers.                                        *)
LEMMA EventInv ==
  ASSUME Inv,
         \/ \E order \in Order : Tell(order) \/ GotOrder(order)
         \/ GotChild \/ Timeout \/ BuryDone \/ MakeDone
         \/ \E p \in Pid : RequestTimeout(p)
  PROVE  Inv'
<1>0. Pending
  BY DEF Inv
<1> USE GoalInRange, ConfigurationAssumption
<1>1. ASSUME NEW order \in Order, Tell(order) PROVE Inv'
  <2>1. Pending'
    BY <1>0, <1>1 DEF Tell, procVars, Pending, Alive
  <2> QED BY <1>1, <2>1, KeepBoard
          DEF Tell, masterVars, boardVars, procVars, Inv, Typed
<1>2. ASSUME NEW order \in Order, GotOrder(order) PROVE Inv'
  <2>1. StateFor(order) \in {"reloading", "finishing", "terminating"}
    BY DEF Order, StateFor
  <2>2. Set(StateFor(order), children)
    BY <1>2 DEF GotOrder
  <2>3. /\ fpm_state' \in {"normal", "reloading", "finishing", "terminating"}
        /\ fpm_signal_sent' \in {"none", "QUIT", "TERM", "KILL"}
    BY <2>1, <2>2, SetTyped DEF Inv
  <2>4. at' = "gone" => children = {}
    BY <1>2 DEF GotOrder, Stay
  <2>5. Pending'
    BY <1>0, <1>2, <2>2, SetPending DEF GotOrder, Pending, Alive
  <2> QED BY <1>2, <2>3, <2>4, <2>5, KeepBoard
          DEF GotOrder, boardVars, Inv, Typed
<1>3. CASE GotChild
  <2>1. Pending'
    BY <1>0, <1>3 DEF GotChild, procVars, Pending, Alive
  <2> QED BY <1>3, <2>1, KeepBoard DEF GotChild, boardVars, Inv, Typed
<1>4. CASE Timeout
  <2>1. fpm_signal_sent' \in {"none", "QUIT", "TERM", "KILL"}
    BY <1>4, ActionTyped DEF Timeout, Inv, Typed
  <2>2. at' = "gone" => children = {}
    BY <1>4 DEF Timeout, Stay
  <2>3. Pending'
    BY <1>0, <1>4, ActionPending DEF Timeout, Pending, Alive
  <2> QED BY <1>4, <2>1, <2>2, <2>3, KeepBoard
          DEF Timeout, boardVars, Inv, Typed
<1>5. CASE BuryDone
  <2>1. Pending'
    BY <1>0, <1>5 DEF BuryDone, procVars, Pending, Alive
  <2> QED BY <1>5, <2>1, KeepBoard DEF BuryDone, boardVars, Inv, Typed
<1>6. CASE MakeDone
  <2>1. Pending'
    BY <1>0, <1>6 DEF MakeDone, procVars, Pending, Alive
  <2> QED BY <1>6, <2>1, KeepBoard DEF MakeDone, Return, boardVars, Inv, Typed
<1>7. ASSUME NEW p \in Pid, RequestTimeout(p) PROVE Inv'
  <2>1. Pending'
    BY <1>0, <1>7, SendPending DEF RequestTimeout, Pending, Alive
  <2> QED BY <1>7, <2>1, KeepBoard
          DEF RequestTimeout, masterVars, boardVars, Inv, Typed
<1> QED BY <1>1, <1>2, <1>3, <1>4, <1>5, <1>6, <1>7

(* The processes: a child ends, but the master goes on owning it until it  *)
(* has buried it.                                                          *)
LEMMA ChildInv ==
  ASSUME Inv, NEW p \in Pid, Child(p)
  PROVE  Inv'
<1> USE GoalInRange DEF Inv, Typed
<1>1. CASE \/ ChildAccepts(p) \/ ChildReads(p) \/ ChildResumes(p)
           \/ ChildEndsRequest(p)
  <2>1. Pending'
    BY <1>1 DEF ChildAccepts, ChildReads, ChildResumes, ChildEndsRequest,
                procVars, Pending, Alive
  <2> QED BY <1>1, <2>1, KeepBoard
          DEF ChildAccepts, ChildReads, ChildResumes, ChildEndsRequest,
              masterVars, boardVars
<1>2. CASE ChildReady(p)
  <2>1. Pending'
    BY <1>2 DEF ChildReady, procVars, Pending, Alive
  <2> QED BY <1>2, <2>1, KeepBoard DEF ChildReady, masterVars, boardVars
<1>3. ASSUME NEW how \in Ended, Alive(p), End(p, how) PROVE Inv'
  <2>1. Pending'
    BY <1>3 DEF End, Pending, Alive
  <2> QED BY <1>3, <2>1, KeepBoard
          DEF End, Alive, Ended, masterVars, boardVars
<1> QED BY <1>1, <1>2, <1>3
        DEF Child, ChildKilled, ChildLeaves, ChildCrashes, Ended, Pending
-----------------------------------------------------------------------------
(* A child that is forked gets a slot that nobody has, and the board has   *)
(* one because the goal is within pm.max_children.                         *)
LEMMA ForkInv ==
  ASSUME Inv, NEW p \in Pid, Fork(p)
  PROVE  Inv'
<1> USE ConfigurationAssumption
<1> DEFINE s == FirstFree
<1>1. s \in Slot \ used
  BY FirstFreeIsFree DEF Inv, Fork
<1>2. /\ p \notin children /\ proc[p] = "none"
      /\ children' = children \cup {p}
      /\ proc' = [proc EXCEPT ![p] = "starting"]
  BY DEF Fork, Inv, Known
<1>3. /\ slot' = [slot EXCEPT ![p] = s]
      /\ used' = used \cup {s}
      /\ free_proc' = (s + 1) % MaxChildren
  BY DEF Fork, AllocSlot
<1>4. free_proc' \in Slot
  <2> HIDE DEF s
  <2>1. s \in Nat
    BY <1>1 DEF Slot
  <2> QED BY <1>3, <2>1 DEF Slot
<1>5. Typed'
  BY <1>1, <1>2, <1>3, <1>4 DEF Fork, masterVars, Inv, Typed
<1>6. SlotsOwned'
  <2>1. \A c \in children : slot'[c] = slot[c] /\ slot[c] \in used
    BY <1>2, <1>3 DEF Inv, Typed, SlotsOwned
  <2>2. slot'[p] = s
    BY <1>3 DEF Inv, Typed
  <2>3. used' = {slot'[c] : c \in children'}
    BY <1>2, <1>3, <2>1, <2>2 DEF Inv, SlotsOwned
  <2>4. \A c, d \in children' : slot'[c] = slot'[d] => c = d
    BY <1>1, <1>2, <2>1, <2>2 DEF Inv, SlotsOwned
  <2> QED BY <2>3, <2>4 DEF SlotsOwned
<1>7. Known'
  BY <1>2 DEF Fork, masterVars, Inv, Typed, Known
<1>8. Bounded'
  <2>1. Cardinality(children') = Cardinality(children) + 1
    BY <1>2, CountChildren DEF Inv
  <2>2. Cardinality(children) \in Nat
    BY CountChildren DEF Inv
  <2> QED BY <2>1, <2>2
          DEF Fork, MaySpawn, masterVars, running_children, Inv, Typed, Bounded
<1>9. Pending'
  BY <1>2 DEF Fork, procVars, Inv, Typed, Pending, Alive
<1> QED BY <1>5, <1>6, <1>7, <1>8, <1>9 DEF Inv

(* A fork that fails gives back the slot it took.                          *)
LEMMA ForkFailsInv ==
  ASSUME Inv, ForkFails
  PROVE  Inv'
<1> USE ConfigurationAssumption
<1>1. free_proc' \in Slot
  <2>1. CASE free_proc' = free_proc
    BY <2>1 DEF Inv, Typed
  <2>2. CASE free_proc' \in {FirstFree : s \in Slot \ used}
    BY <2>2, FirstFreeIsFree DEF Inv
  <2> QED BY <2>1, <2>2 DEF ForkFails
<1>2. /\ fpm_state' \in {"normal", "reloading", "finishing", "terminating"}
      /\ fpm_signal_sent' \in {"none", "QUIT", "TERM", "KILL"}
  BY SetTyped DEF ForkFails, Inv, Typed
<1>3. at' = "gone" => children = {}
  BY DEF ForkFails, Stay, Return
<1>4. Pending'
  <2>1. CASE back = "start"
    BY <2>1, SetPending DEF ForkFails, Inv, Pending, Alive
  <2>2. CASE back # "start"
    BY <2>2 DEF ForkFails, Inv, Pending, Alive
  <2> QED BY <2>1, <2>2
<1> QED BY <1>1, <1>2, <1>3, <1>4, KeepBoard DEF ForkFails, Inv, Typed

(* A turn of fpm_children_bury takes one child and its slot away, and the  *)
(* child forked in its place finds room.                                   *)
LEMMA BuryInv ==
  ASSUME Inv, NEW c \in Pid, Bury(c)
  PROVE  Inv'
<1> USE ConfigurationAssumption
<1> DEFINE rest == children \ {c}
<1>1. /\ c \in children
      /\ children' = rest
      /\ proc' = [proc EXCEPT ![c] = "none"]
      /\ \/ Set("reloading", rest)
         \/ UNCHANGED <<fpm_state, fpm_signal_sent, timer, fatal, quit>>
  BY DEF Bury, Zombies
<1>2. /\ slot' = [slot EXCEPT ![c] = NoSlot]
      /\ used' = used \ {slot[c]}
      /\ free_proc' = slot[c]
  BY DEF Bury, FreeSlot
<1>3. slot[c] \in used /\ slot[c] \in Slot
  BY <1>1 DEF Inv, Typed, SlotsOwned
<1>4. /\ Cardinality(rest) = Cardinality(children) - 1
      /\ Cardinality(rest) \in Nat
  <2>1. IsFiniteSet(rest)
    BY CountChildren, FS_Subset DEF Inv
  <2> QED BY <1>1, <2>1, CountChildren, FS_CardinalityType DEF Inv
<1>5. goal' \in Nat /\ goal' <= MaxChildren
  <2>1. Target(rest, 1) \in Nat /\ Target(rest, 1) <= MaxChildren
    BY <1>4, CountChildren DEF Target, Inv, Bounded
  <2> QED BY <2>1 DEF Bury
<1>6. Typed'
  <2>1. /\ fpm_state' \in {"normal", "reloading", "finishing", "terminating"}
        /\ fpm_signal_sent' \in {"none", "QUIT", "TERM", "KILL"}
    BY <1>1, SetTyped DEF Inv, Typed
  <2> QED BY <1>1, <1>2, <1>3, <1>5, <2>1 DEF Bury, Inv, Typed
<1>7. SlotsOwned'
  <2>1. \A d \in rest : slot'[d] = slot[d] /\ slot[d] # slot[c]
    BY <1>1, <1>2 DEF Inv, Typed, SlotsOwned
  <2>2. used' = {slot'[d] : d \in rest}
    BY <1>1, <1>2, <2>1 DEF Inv, SlotsOwned
  <2>3. \A d, e \in rest : slot'[d] = slot'[e] => d = e
    BY <1>1, <2>1 DEF Inv, SlotsOwned
  <2> QED BY <1>1, <2>2, <2>3 DEF SlotsOwned
<1>8. Known'
  <2>1. at' = "gone" => rest = {}
    BY DEF Bury, Stay
  <2> QED BY <1>1, <2>1 DEF Inv, Typed, Known
<1>9. Bounded'
  BY <1>1, <1>4, <1>5, CountChildren DEF Inv, Bounded
<1>10. Pending'
  <2>1. ~ Alive(c)
    BY DEF Bury, Zombies, Alive, Ended
  <2>2. \A p \in Pid : p \in fatal' => Alive(p)
    <3>1. CASE Set("reloading", rest)
      BY <3>1, SetPending DEF Inv
    <3>2. CASE UNCHANGED fatal
      BY <3>2 DEF Inv, Pending
    <3> QED BY <1>1, <3>1, <3>2
  <2> QED BY <1>1, <2>1, <2>2 DEF Inv, Typed, Pending, Alive
<1> QED BY <1>6, <1>7, <1>8, <1>9, <1>10 DEF Inv

-----------------------------------------------------------------------------
(* The maintenance asks for no more children than the scoreboard takes.    *)
LEMMA ForkWithinMax ==
  ASSUME Inv, Idle < MinSpare, running_children < MaxChildren
  PROVE  /\ ChildrenToFork \in Nat
         /\ running_children + ChildrenToFork <= MaxChildren
<1> USE ConfigurationAssumption
<1> DEFINE S == {idle_spawn_rate, MinSpare - Idle, MaxChildren - running_children}
<1>1. running_children \in Nat
  BY CountChildren DEF running_children, Inv
<1>2. Idle \in Nat
  <2>1. IsFiniteSet(SeenIdle)
    BY CountChildren, FS_Subset DEF SeenIdle, Inv
  <2> QED BY <2>1, FS_CardinalityType DEF Idle
<1>3. S \in SUBSET Nat /\ S # {}
  BY <1>1, <1>2 DEF Inv, Typed
<1>4. MinOf(S) \in S /\ \A j \in S : MinOf(S) <= j
  BY <1>3, Least
<1>5. ChildrenToFork = MinOf(S)
  BY DEF ChildrenToFork
<1> QED BY <1>1, <1>3, <1>4, <1>5

(* What is forked next is within pm.max_children, whoever asks for it.     *)
LEMMA TargetInRange ==
  ASSUME Inv, NEW n \in Nat, running_children + n <= MaxChildren
  PROVE  Target(children, n) \in 0 .. MaxChildren
BY ConfigurationAssumption, CountChildren DEF Target, running_children, Inv

(* A child found idle is told to quit.                                     *)
LEMMA KillIdlePending ==
  ASSUME Inv, NEW c \in children, KillIdle(c), UNCHANGED proc
  PROVE  Pending'
BY SendPending DEF KillIdle, Inv, Pending, Alive

LEMMA MaintainInv ==
  ASSUME Inv, Maintain \/ MaintainOnDemand \/ OnSocketAccept
  PROVE  Inv'
<1> USE ConfigurationAssumption, GoalInRange DEF Inv, Typed
<1>1. CASE MaintainOnDemand
  <2>1. PICK c \in SeenIdle : KillIdle(c)
    BY <1>1 DEF MaintainOnDemand
  <2>2. Pending'
    BY <1>1, <2>1, KillIdlePending DEF MaintainOnDemand, SeenIdle
  <2> QED BY <1>1, <2>1, <2>2, KeepBoard
          DEF MaintainOnDemand, KillIdle, masterVars
<1>2. CASE OnSocketAccept
  <2>1. Target(children, 1) \in 0 .. MaxChildren
    <3>1. running_children + 1 <= MaxChildren
      BY <1>2, CountChildren DEF OnSocketAccept, running_children
    <3> QED BY <3>1, TargetInRange
  <2>2. Pending'
    BY <1>2 DEF OnSocketAccept, procVars, Pending, Alive
  <2> QED BY <1>2, <2>1, <2>2, KeepBoard DEF OnSocketAccept, Make, boardVars
<1>3. CASE Maintain
  <2>1. ASSUME NEW c \in SeenIdle, KillIdle(c), idle_spawn_rate' = 1,
               UNCHANGED <<at, goal, back>>
        PROVE  Inv'
    <3>1. Pending'
      BY <1>3, <2>1, KillIdlePending DEF Maintain, SeenIdle
    <3> QED BY <1>3, <2>1, <3>1, KeepBoard DEF Maintain, KillIdle
  <2>2. ASSUME Idle < MinSpare, running_children < MaxChildren,
               Make(ChildrenToFork),
               idle_spawn_rate' = IF idle_spawn_rate < MaxSpawnRate
                                  THEN 2 * idle_spawn_rate
                                  ELSE idle_spawn_rate,
               UNCHANGED <<boardVars, fatal, quit>>
        PROVE  Inv'
    <3>1. goal' \in 0 .. MaxChildren
      BY <2>2, ForkWithinMax, TargetInRange DEF Make
    <3>2. idle_spawn_rate' \in Nat \ {0}
      BY <2>2
    <3>3. Pending'
      BY <1>3, <2>2 DEF Maintain, Pending, Alive
    <3> QED BY <1>3, <2>2, <3>1, <3>2, <3>3, KeepBoard
            DEF Maintain, Make, boardVars
  <2>3. ASSUME idle_spawn_rate' = 1,
               UNCHANGED <<at, goal, back, boardVars, fatal, quit>>
        PROVE  Inv'
    <3>1. Pending'
      BY <1>3, <2>3 DEF Maintain, Pending, Alive
    <3> QED BY <1>3, <2>3, <3>1, KeepBoard DEF Maintain, boardVars
  <2> QED BY <1>3, <2>1, <2>2, <2>3 DEF Maintain
<1> QED BY <1>1, <1>2, <1>3

-----------------------------------------------------------------------------
(* Every step keeps the invariant.                                         *)
LEMMA NextInv ==
  ASSUME Inv, [Next]_vars
  PROVE  Inv'
<1>1. CASE Next
  BY <1>1, EventInv, ChildInv, ForkInv, ForkFailsInv, BuryInv, MaintainInv
     DEF Next
<1>2. CASE UNCHANGED vars
  BY <1>2 DEF vars, masterVars, boardVars, procVars,
     Inv, Typed, SlotsOwned, Known, Bounded, Pending, Alive
<1> QED BY <1>1, <1>2

(* The invariant holds in every reachable state.                           *)
THEOREM Invariance == Spec => []Inv
BY InitInv, NextInv, PTL DEF Spec

(* What fpm_pctl does to the sets of processes that have a signal pending. *)
LEMMA SendTyped ==
  ASSUME TypeOK, NEW sig \in {"QUIT", "TERM", "KILL"}, NEW P \in SUBSET Pid,
         Send(sig, P)
  PROVE  fatal' \subseteq Pid /\ quit' \subseteq Pid
BY DEF Send, TypeOK

LEMMA ActionTypeOK ==
  ASSUME TypeOK, NEW state, NEW sent, NEW live \in SUBSET Pid,
         NEW queued \in BOOLEAN, ActionNext(state, sent, live, queued)
  PROVE  timer' \in BOOLEAN /\ fatal' \subseteq Pid /\ quit' \subseteq Pid
<1>1. NextSignal(state, sent) \in {"QUIT", "TERM", "KILL"}
  BY DEF NextSignal
<1> QED BY <1>1, SendTyped DEF ActionNext, TypeOK

LEMMA SetTypeOK ==
  ASSUME TypeOK, NEW new, NEW live \in SUBSET Pid, Set(new, live)
  PROVE  timer' \in BOOLEAN /\ fatal' \subseteq Pid /\ quit' \subseteq Pid
BY ActionTypeOK DEF Set, TypeOK

(* The types of the master's variables, and of what it keeps of children;  *)
(* those of the scoreboard and of the processes' states come with Inv.     *)
LEMMA MasterTypeNext ==
  ASSUME Inv, TypeOK, Inv', Next
  PROVE  /\ timer' \in BOOLEAN
         /\ fatal' \subseteq Pid /\ quit' \subseteq Pid
         /\ at' \in {"loop", "bury", "make", "gone"}
         /\ back' \in {"start", "loop", "bury"}
         /\ pipe' \subseteq Order \cup {"CHLD"}
         /\ idle_kill' \subseteq children'
         /\ idle_spawn_rate' \in 1 .. 2 * MaxSpawnRate
<1> DEFINE G == /\ timer' \in BOOLEAN
                /\ fatal' \subseteq Pid /\ quit' \subseteq Pid
                /\ at' \in {"loop", "bury", "make", "gone"}
                /\ back' \in {"start", "loop", "bury"}
                /\ pipe' \subseteq Order \cup {"CHLD"}
                /\ idle_kill' \subseteq children'
                /\ idle_spawn_rate' \in 1 .. 2 * MaxSpawnRate
<1> SUFFICES G
  OBVIOUS
<1> USE ConfigurationAssumption DEF TypeOK
<1>1. ASSUME NEW order \in Order, Tell(order) PROVE G
  BY <1>1 DEF Tell, masterVars, boardVars, procVars
<1>2. ASSUME NEW order \in Order, GotOrder(order) PROVE G
  BY <1>2, SetTypeOK DEF GotOrder, Stay, boardVars
<1>3. CASE GotChild \/ BuryDone \/ MakeDone
  BY <1>3 DEF GotChild, BuryDone, MakeDone, Return, boardVars, procVars
<1>4. CASE Timeout
  BY <1>4, ActionTypeOK DEF Timeout, FiredTimerQueued, Stay, boardVars
<1>5. ASSUME NEW p \in Pid, RequestTimeout(p) PROVE G
  BY <1>5, SendTyped DEF RequestTimeout, masterVars, boardVars
<1>6. ASSUME NEW p \in Pid, Child(p) PROVE G
  BY <1>6 DEF Child, ChildReady, ChildAccepts, ChildReads, ChildResumes,
     ChildEndsRequest, ChildKilled, ChildLeaves, ChildCrashes, End,
     masterVars, boardVars, procVars
<1>7. ASSUME NEW p \in Pid, Fork(p) PROVE G
  BY <1>7 DEF Fork, masterVars, procVars
<1>8. CASE ForkFails
  <2>1. timer' \in BOOLEAN /\ fatal' \subseteq Pid /\ quit' \subseteq Pid
    BY <1>8, SetTypeOK DEF ForkFails
  <2> QED BY <1>8, <2>1 DEF ForkFails, Stay, Return
<1>9. ASSUME NEW c \in Pid, Bury(c) PROVE G
  <2>1. timer' \in BOOLEAN /\ fatal' \subseteq Pid /\ quit' \subseteq Pid
    BY <1>9, SetTypeOK DEF Bury
  <2> QED BY <1>9, <2>1 DEF Bury, Stay
<1>10. CASE MaintainOnDemand
  <2>1. PICK c \in SeenIdle : KillIdle(c)
    BY <1>10 DEF MaintainOnDemand
  <2> QED BY <1>10, <2>1, SendTyped
          DEF MaintainOnDemand, KillIdle, SeenIdle, masterVars
<1>11. CASE OnSocketAccept
  BY <1>11 DEF OnSocketAccept, Make, boardVars, procVars
<1>12. CASE Maintain
  <2>1. /\ idle_spawn_rate' \in 1 .. 2 * MaxSpawnRate
        /\ at' \in {"loop", "make"} /\ back' \in {"start", "loop", "bury"}
    BY <1>12 DEF Maintain, Make
  <2>2. ASSUME NEW c \in SeenIdle, KillIdle(c) PROVE G
    BY <1>12, <2>1, <2>2, SendTyped DEF Maintain, KillIdle, SeenIdle
  <2>3. CASE UNCHANGED <<boardVars, fatal, quit>>
    BY <1>12, <2>1, <2>3 DEF Maintain, boardVars
  <2> QED BY <1>12, <2>2, <2>3 DEF Maintain
<1> QED BY <1>1, <1>2, <1>3, <1>4, <1>5, <1>6, <1>7, <1>8, <1>9, <1>10,
           <1>11, <1>12 DEF Next

(* A slot is blank until its child serves, and a child that accepts has    *)
(* room for the request.                                                   *)
Room ==
  /\ \A s \in Slot : s \notin used => stage[s] = "none"
  /\ \A c \in children : proc[c] = "starting" => stage[slot[c]] = "none"
  /\ \A c \in children :
       proc[c] = "up" /\ stage[slot[c]] = "accepting" => load[c] < MaxLoad

(* Only the owner of a slot, and the burial, write to it.                  *)
LEMMA RoomNext ==
  ASSUME Inv, TypeOK, Room, Next
  PROVE  Room'
<1> USE DEF Room
<1>0. \A c \in children : slot[c] \in used /\ slot[c] \in Slot
  BY DEF Inv, SlotsOwned, TypeOK
<1>1. CASE UNCHANGED <<children, slot, used, stage, proc, load>>
  BY <1>1
<1>2. ASSUME NEW p \in Pid, Child(p) PROVE Room'
  <2>1. UNCHANGED <<children, slot, used>>
    BY <1>2 DEF Child, ChildReady, ChildAccepts, ChildReads, ChildResumes,
       ChildEndsRequest, ChildKilled, ChildLeaves, ChildCrashes, End, boardVars
  <2>2. p \in children
    BY <1>2 DEF Child, ChildReady, ChildAccepts, ChildReads, ChildResumes,
       ChildEndsRequest, ChildKilled, ChildLeaves, ChildCrashes, Alive,
       Inv, Known, Pending
  <2>3. \A c \in children : c # p => slot[c] # slot[p]
    BY <2>2 DEF Inv, SlotsOwned
  <2>4. CASE ChildReady(p)
    BY <1>0, <2>1, <2>2, <2>4 DEF ChildReady, procVars, TypeOK
  <2>5. CASE ChildAccepts(p)
    BY <1>0, <2>1, <2>2, <2>3, <2>5 DEF ChildAccepts, procVars, TypeOK
  <2>6. CASE ChildReads(p)
    BY <1>0, <2>1, <2>2, <2>3, <2>6 DEF ChildReads, TypeOK
  <2>7. CASE ChildResumes(p)
    BY <1>0, <2>1, <2>2, <2>3, <2>7 DEF ChildResumes, procVars, TypeOK
  <2>8. CASE ChildEndsRequest(p)
    BY <1>0, <2>1, <2>2, <2>3, <2>8 DEF ChildEndsRequest, TypeOK
  <2>9. ASSUME NEW how \in Ended, End(p, how) PROVE Room'
    BY <1>0, <2>1, <2>2, <2>9 DEF End, Ended, TypeOK
  <2> QED BY <1>2, <2>4, <2>5, <2>6, <2>7, <2>8, <2>9
          DEF Child, ChildKilled, ChildLeaves, ChildCrashes, Ended
<1>3. ASSUME NEW p \in Pid, Fork(p) PROVE Room'
  <2>1. FirstFree \in Slot \ used
    BY <1>3, FirstFreeIsFree DEF Fork, Inv
  <2>2. p \notin children
    BY <1>3 DEF Fork, Inv, Known
  <2>3. /\ used' = used \cup {FirstFree}
        /\ slot' = [slot EXCEPT ![p] = FirstFree]
        /\ proc' = [proc EXCEPT ![p] = "starting"]
        /\ children' = children \cup {p}
        /\ UNCHANGED <<stage, load>>
    BY <1>3 DEF Fork, AllocSlot, procVars
  <2> QED BY <2>1, <2>2, <2>3 DEF TypeOK
<1>4. ASSUME NEW c \in Pid, Bury(c) PROVE Room'
  <2>1. c \in children
    BY <1>4 DEF Bury, Zombies
  <2>2. /\ used' = used \ {slot[c]}
        /\ slot' = [slot EXCEPT ![c] = NoSlot]
        /\ stage' = [stage EXCEPT ![slot[c]] = "none"]
        /\ proc' = [proc EXCEPT ![c] = "none"]
        /\ children' = children \ {c}
        /\ UNCHANGED load
    BY <1>4 DEF Bury, FreeSlot
  <2>3. \A d \in children : d # c => slot[d] # slot[c]
    BY <2>1 DEF Inv, SlotsOwned
  <2> QED BY <1>0, <2>1, <2>2, <2>3 DEF TypeOK
<1>5. ASSUME ~ (\E p \in Pid : Child(p) \/ Fork(p) \/ Bury(p))
      PROVE  UNCHANGED <<children, slot, used, stage, proc, load>>
  BY <1>5 DEF Next, Tell, GotOrder, GotChild, Timeout, RequestTimeout,
     ForkFails, MakeDone, BuryDone, Maintain, MaintainOnDemand, KillIdle,
     OnSocketAccept, boardVars, procVars
<1> QED BY <1>1, <1>2, <1>3, <1>4, <1>5

(* The stages the master reads and the requests a process has open.        *)
LEMMA RequestTypeNext ==
  ASSUME Inv, TypeOK, Room, Next
  PROVE  /\ stage' \in [Slot -> {"none", "accepting", "running", "finished"}]
         /\ load' \in [Pid -> 0 .. MaxLoad]
<1> DEFINE G == /\ stage' \in [Slot -> {"none", "accepting", "running", "finished"}]
                /\ load' \in [Pid -> 0 .. MaxLoad]
<1> SUFFICES G
  OBVIOUS
<1> USE ConfigurationAssumption DEF TypeOK
<1>1. CASE UNCHANGED <<stage, load>>
  BY <1>1
<1>2. ASSUME NEW p \in Pid, Child(p) PROVE G
  <2>1. CASE ChildReads(p)
    <3>1. load[p] < MaxLoad
      BY <2>1 DEF ChildReads, Room, Inv, Known
    <3>2. load[p] + 1 \in 0 .. MaxLoad
      BY <3>1
    <3> QED BY <2>1, <3>2 DEF ChildReads
  <2>2. CASE ChildEndsRequest(p)
    <3>1. load[p] - 1 \in 0 .. MaxLoad
      BY <2>2 DEF ChildEndsRequest
    <3> QED BY <2>2, <3>1 DEF ChildEndsRequest
  <2>3. CASE ChildReady(p) \/ ChildAccepts(p) \/ ChildResumes(p)
    BY <2>3 DEF ChildReady, ChildAccepts, ChildResumes, procVars
  <2>4. ASSUME NEW how, End(p, how) PROVE G
    BY <2>4 DEF End
  <2> QED BY <1>2, <2>1, <2>2, <2>3, <2>4
          DEF Child, ChildKilled, ChildLeaves, ChildCrashes
<1>3. ASSUME NEW c \in Pid, Bury(c) PROVE G
  BY <1>3 DEF Bury, FreeSlot
<1> HIDE DEF G
<1>4. ASSUME ~ (\E p \in Pid : Child(p) \/ Bury(p)) PROVE UNCHANGED <<stage, load>>
  BY <1>4 DEF Next, Tell, GotOrder, GotChild, Timeout, RequestTimeout, Fork,
     ForkFails, MakeDone, BuryDone, Maintain, MaintainOnDemand,
     OnSocketAccept, procVars
<1> QED BY <1>1, <1>2, <1>3, <1>4

(* Every variable of the master, the scoreboard and the processes keeps to *)
(* its range, the free slot remembered within the scoreboard among them.   *)
THEOREM TypeCorrect == Spec => []TypeOK
<1>1. Init => TypeOK
  <2> SUFFICES ASSUME Init PROVE TypeOK
    OBVIOUS
  <2>1. Typed
    BY InitInv DEF Inv
  <2>2. idle_spawn_rate \in 1 .. 2 * MaxSpawnRate
    BY ConfigurationAssumption DEF Init
  <2>3. load \in [Pid -> 0 .. MaxLoad]
    BY ConfigurationAssumption DEF Init
  <2> QED BY <2>1, <2>2, <2>3 DEF Init, Typed, TypeOK
<1>2. ASSUME Inv, TypeOK, Room, Inv', [Next]_vars PROVE TypeOK'
  <2>1. CASE Next
    <3>1. Typed'
      BY <1>2 DEF Inv
    <3> QED BY <1>2, <2>1, <3>1, MasterTypeNext, RequestTypeNext
            DEF TypeOK, Typed
  <2>2. CASE UNCHANGED vars
    BY <1>2, <2>2 DEF TypeOK, vars, masterVars, boardVars, procVars
  <2> QED BY <1>2, <2>1, <2>2
<1>3. Init => Room
  BY DEF Init, Room
<1>4. ASSUME Inv, TypeOK, Room, [Next]_vars PROVE Room'
  <2>1. CASE UNCHANGED vars
    BY <1>4, <2>1 DEF Room, vars, boardVars, procVars
  <2> QED BY <1>4, <2>1, RoomNext
<1>5. Inv /\ TypeOK /\ Room /\ Inv' /\ [Next]_vars => TypeOK' /\ Room'
  BY <1>2, <1>4
<1> QED BY <1>1, <1>3, <1>5, Invariance, PTL DEF Spec

(* Every child has a slot of the scoreboard to itself: alloc and free on   *)
(* every path of fpm_children_make and fpm_children_bury.                  *)
THEOREM SlotsAreOwned == Spec => []SlotsOwned
<1>1. Inv => SlotsOwned
  BY DEF Inv
<1> QED BY <1>1, Invariance, PTL

(* Neither process.max nor the scoreboard is ever exceeded, whichever of   *)
(* the callers of fpm_children_make asked for children.                    *)
THEOREM LimitsRespected == Spec => []WithinLimits
<1>1. Inv => WithinLimits
  <2> SUFFICES ASSUME Inv PROVE WithinLimits
    OBVIOUS
  <2>1. ASSUME MaySpawn PROVE used # Slot
    <3>1. Cardinality(children) < MaxChildren
      BY <2>1, CountChildren, ConfigurationAssumption
         DEF MaySpawn, running_children, Inv, Typed, Bounded
    <3> QED BY <3>1, SlotsLeft DEF Inv
  <2> QED BY <2>1 DEF WithinLimits, running_children, Inv, Bounded
<1> QED BY <1>1, Invariance, PTL

(* When the master has left by exit or exec, no process is left.           *)
THEOREM NobodyOrphaned == Spec => []NoOrphans
<1>1. Inv => NoOrphans
  BY DEF Inv, Known, NoOrphans
<1> QED BY <1>1, Invariance, PTL

(* fpm_children_make forks only in the normal state, so a master on its    *)
(* way out has ever fewer children.                                        *)
THEOREM StoppingForksNobody == Spec => NoForkWhileStopping
<1>1. ASSUME Next PROVE fpm_state' # "normal" => children' \subseteq children
  BY <1>1 DEF Next, Tell, GotOrder, GotChild, Timeout, Child, ChildReady,
     ChildAccepts, ChildReads, ChildResumes, ChildEndsRequest, ChildKilled,
     ChildLeaves, ChildCrashes, End, RequestTimeout, Fork, MaySpawn, Bury,
     ForkFails, MakeDone, BuryDone, Maintain, MaintainOnDemand, KillIdle,
     OnSocketAccept, masterVars, boardVars
<1>2. [Next]_vars => [fpm_state' # "normal" => children' \subseteq children]_vars
  BY <1>1
<1> QED BY <1>2, PTL DEF Spec, NoForkWhileStopping

(* fpm_pctl changes the state as its switch allows, and the timer sends    *)
(* ever harder signals.                                                    *)
THEOREM NeverDowngraded == Spec => OnlyEscalates
<1> DEFINE E == /\ Rank(fpm_state') >= Rank(fpm_state)
                /\ fpm_state' = fpm_state
                     => Severity(fpm_signal_sent') >= Severity(fpm_signal_sent)
<1>1. ASSUME Typed, UNCHANGED <<fpm_state, fpm_signal_sent>> PROVE E
  BY <1>1 DEF Typed, Rank, Severity
<1>2. ASSUME Typed, NEW new \in {"reloading", "finishing", "terminating"},
             NEW live, Set(new, live)
      PROVE  E
  <2>1. CASE Overrides(new, fpm_state)
    <3>1. fpm_state' = new
      BY <1>2, <2>1 DEF Set
    <3>2. fpm_state' # fpm_state /\ Rank(fpm_state') >= Rank(fpm_state)
      BY <1>2, <2>1, <3>1 DEF Overrides, Typed, Rank
    <3> QED BY <3>2
  <2>2. CASE ~ Overrides(new, fpm_state)
    BY <1>1, <1>2, <2>2 DEF Set
  <2> QED BY <2>1, <2>2
<1>3. ASSUME Typed, Timeout PROVE E
  <2>1. CASE UNCHANGED fpm_signal_sent
    BY <1>1, <1>3, <2>1 DEF Timeout
  <2>2. CASE fpm_signal_sent' = NextSignal(fpm_state, fpm_signal_sent)
    BY <1>3, <2>2 DEF Timeout, NextSignal, Typed, Rank, Severity
  <2> QED BY <1>3, <2>1, <2>2 DEF Timeout, ActionNext
<1>4. ASSUME Typed, NEW order \in Order, GotOrder(order) PROVE E
  <2>1. StateFor(order) \in {"reloading", "finishing", "terminating"}
    BY DEF Order, StateFor
  <2> QED BY <1>2, <1>4, <2>1 DEF GotOrder
<1>5. ASSUME Typed, Next PROVE E
  <2> HIDE DEF E
  <2>1. CASE \/ UNCHANGED <<fpm_state, fpm_signal_sent>>
             \/ \E live : Set("reloading", live) \/ Set("terminating", live)
    BY <1>1, <1>2, <1>5, <2>1
  <2>2. CASE Timeout
    BY <1>3, <1>5, <2>2
  <2>3. CASE \E order \in Order : GotOrder(order)
    BY <1>4, <1>5, <2>3
  <2> QED
    BY <1>5, <2>1, <2>2, <2>3 DEF Next, Tell, GotChild, Child, ChildReady,
       ChildAccepts, ChildReads, ChildResumes, ChildEndsRequest, ChildKilled,
       ChildLeaves, ChildCrashes, End, RequestTimeout, Fork, Bury,
       ForkFails, MakeDone, BuryDone, Maintain, MaintainOnDemand,
       OnSocketAccept, masterVars
<1>6. Typed /\ [Next]_vars => [E]_vars
  BY <1>5
<1>7. Inv => Typed
  BY DEF Inv
<1> QED BY <1>6, <1>7, Invariance, PTL DEF Spec, OnlyEscalates
=============================================================================
