--------------------------- MODULE ScoreboardProofs ---------------------------
(***************************************************************************)
(* Proofs about the memory the master and its workers share, for any       *)
(* number of workers, requests and deaths.                                 *)
(***************************************************************************)
EXTENDS Scoreboard, FiniteSetTheorems, TLAPS

-----------------------------------------------------------------------------
(* The inductive invariant.                                                *)

Places == {"loop", "run", "status", "slot", "rest", "count", "store", "unlock",
           "status_copy", "copy", "judge", "sample", "dump"}

Shaped(s) == s = [lock |-> s.lock, stage |-> s.stage, accepted |-> s.accepted,
                  requests |-> s.requests]

LockTypes ==
  /\ lock \in {0, 1} /\ orphaned \in BOOLEAN
  /\ pc \in [Process -> Places]
  /\ status \in [Worker -> {"up", "stopped", "dead"}]
  /\ slot = [w \in Worker |-> slot[w]]
  /\ \A w \in Worker : Shaped(slot[w]) /\ slot[w].lock \in {0, 1}
  /\ upd = [p \in Process |-> upd[p]]
  /\ child \in Process

(* One process at most is behind the board's lock, and none once one has   *)
(* died there.                                                             *)
BoardLock ==
  /\ \A p, q \in Process : InBoard(p) /\ InBoard(q) => p = q
  /\ lock = 1 <=> orphaned \/ \E p \in Process : InBoard(p)
  /\ orphaned => \A p \in Process : ~InBoard(p)

(* Who is in a slot has its lock.                                          *)
SlotLocks ==
  \A w \in Worker :
    /\ ~(InSlot(w, w) /\ InSlot(Master, w))
    /\ (InSlot(w, w) \/ InSlot(Master, w)) => slot[w].lock = 1
    /\ slot[w].lock = 1 =>
         InSlot(w, w) \/ InSlot(Master, w) \/ status[w] = "dead"

(* fpm_php_trace is counting the slow request.                             *)
Traces == pc[Master] \in {"count", "store", "unlock"} /\ child # Master

(* The dead are nowhere, the master is at nobody's work, it has a child    *)
(* only while it looks at one or traces one, and that one stays stopped    *)
(* until it has been counted and dumped.                                   *)
Attended ==
  /\ \A w \in Worker : status[w] = "dead" => pc[w] = "loop"
  /\ \A w \in Worker : pc[w] \notin {"copy", "judge", "sample", "dump"}
  /\ pc[Master] \notin {"rest", "status_copy", "run", "slot", "status"}
  /\ pc[Master] \in {"loop", "sample"} => child = Master
  /\ pc[Master] \in {"copy", "judge"} => child \in Worker
  /\ (pc[Master] = "dump" \/ Traces)
       => child \in Worker /\ status[child] = "stopped"

LInv == LockTypes /\ BoardLock /\ SlotLocks /\ Attended

LEMMA MasterIsNoWorker ==
  /\ Master \notin Worker /\ Master \in Process
  /\ \A w \in Worker : w \in Process /\ w # Master /\ (Runs(w) <=> status[w] = "up")
BY BoardAssumption DEF Process, Runs

LEMMA EntryPlace ==
  ASSUME NEW hooks, NEW w, NEW in
  PROVE  Entry(hooks, w, in) \in {"loop", "run", "status", "slot"}
BY DEF Entry

LEMMA InitLInv == Init => LInv
<1> SUFFICES ASSUME Init PROVE LInv OBVIOUS
<1> USE MasterIsNoWorker DEF Init
<1>1. LockTypes BY DEF LockTypes, Places, FreshSlot, Shaped
<1>2. BoardLock BY DEF BoardLock, InBoard
<1>3. SlotLocks BY DEF SlotLocks, InSlot, FreshSlot
<1>4. Attended BY DEF Attended, Traces
<1> QED BY <1>1, <1>2, <1>3, <1>4 DEF LInv

(* A worker that goes from one place outside all locks to another.         *)
LEMMA WorkerWalks ==
  ASSUME LInv, NEW w \in Worker, status[w] = "up",
         NEW place \in {"loop", "run", "status", "slot", "count"},
         pc[w] \notin {"rest", "store", "unlock", "status_copy"},
         pc' = [pc EXCEPT ![w] = place],
         UNCHANGED <<lock, slot, status, orphaned, child, upd>>
  PROVE  LInv'
<1> USE MasterIsNoWorker DEF LInv
<1>1. LockTypes' BY DEF LockTypes, Places, Shaped
<1>2. \A p \in Process : InBoard(p)' <=> InBoard(p) BY DEF InBoard, LockTypes
<1>3. BoardLock' BY <1>2 DEF BoardLock
<1>4. \A v \in Worker : /\ InSlot(v, v)' <=> InSlot(v, v)
                        /\ InSlot(Master, v)' <=> InSlot(Master, v)
  BY DEF InSlot, LockTypes
<1>5. SlotLocks' BY <1>4 DEF SlotLocks
<1>6. Attended' BY DEF Attended, Traces, LockTypes
<1> QED BY <1>1, <1>3, <1>5, <1>6

(* A process takes the board's lock, to count or to copy.                  *)
LEMMA BoardTaken ==
  ASSUME LInv, NEW p \in Process, pc[p] \in {"count", "status"},
         NEW place \in {"store", "status_copy"},
         p = Master => pc[p] = "count" /\ place = "store",
         p # Master => status[p] = "up",
         Spun(lock), lock' = 1,
         pc' = [pc EXCEPT ![p] = place],
         UNCHANGED <<slot, status, orphaned, child, upd>>
  PROVE  LInv'
<1> USE MasterIsNoWorker DEF LInv
<1>1. LockTypes' BY DEF LockTypes, Places, Shaped
<1>2. lock = 0 BY DEF Spun
<1>3. ~orphaned /\ \A q \in Process : ~InBoard(q) BY <1>2 DEF BoardLock
<1>4. \A q \in Process : InBoard(q)' <=> q = p
  BY <1>3 DEF InBoard, LockTypes
<1>5. BoardLock' BY <1>3, <1>4 DEF BoardLock
<1>6. \A v \in Worker : /\ InSlot(v, v)' <=> InSlot(v, v)
                        /\ InSlot(Master, v)' <=> InSlot(Master, v)
  BY DEF InSlot, LockTypes
<1>7. SlotLocks' BY <1>6 DEF SlotLocks
<1>8. Attended'
  <2>1. Traces' <=> Traces BY DEF Traces, LockTypes
  <2>2. \A q \in Process : q # p => pc'[q] = pc[q] BY DEF LockTypes
  <2>3. pc'[p] = place BY DEF LockTypes
  <2> QED BY <2>1, <2>2, <2>3 DEF Attended, Process
<1> QED BY <1>1, <1>5, <1>7, <1>8

(* A process writes the counters it has read and added to.                 *)
LEMMA StoreBoardLInv ==
  ASSUME LInv, NEW p \in Process, StoreBoard(p)
  PROVE  LInv'
<1> USE MasterIsNoWorker DEF LInv
<1>1. /\ pc[p] = "store" /\ pc' = [pc EXCEPT ![p] = "unlock"] /\ Runs(p)
      /\ upd' = [upd EXCEPT ![p] = NoUpdate]
      /\ UNCHANGED <<lock, slot, status, orphaned, child>>
  BY DEF StoreBoard, masterVars, endVars, history
<1>2. p # Master => status[p] = "up" BY <1>1 DEF Process
<1>3. LockTypes' BY <1>1 DEF LockTypes, Places, Shaped
<1>4. \A q \in Process : InBoard(q)' <=> InBoard(q)
  BY <1>1 DEF InBoard, LockTypes
<1>5. BoardLock' BY <1>1, <1>4 DEF BoardLock
<1>6. \A v \in Worker : /\ InSlot(v, v)' <=> InSlot(v, v)
                        /\ InSlot(Master, v)' <=> InSlot(Master, v)
  BY <1>1 DEF InSlot, LockTypes
<1>7. SlotLocks' BY <1>1, <1>6 DEF SlotLocks
<1>8. Attended'
  <2>1. Traces' <=> Traces BY <1>1 DEF Traces, LockTypes
  <2>2. \A q \in Process : q # p => pc'[q] = pc[q] BY <1>1 DEF LockTypes
  <2>3. pc'[p] = "unlock" BY <1>1 DEF LockTypes
  <2> QED BY <1>1, <1>2, <2>1, <2>2, <2>3 DEF Attended, Process
<1> QED BY <1>3, <1>5, <1>7, <1>8

(* A process gives the board's lock back.                                  *)
LEMMA BoardGiven ==
  ASSUME LInv, NEW p \in Process, InBoard(p), NEW place \in Places,
         p # Master => place \in {"loop", "run", "status", "slot"},
         p # Master => status[p] = "up",
         p = Master => \/ place = "loop" /\ child = Master
                       \/ place = "dump" /\ Traces,
         lock' = Unlocked,
         pc' = [pc EXCEPT ![p] = place],
         UNCHANGED <<slot, status, orphaned, child, upd>>
  PROVE  LInv'
<1> USE MasterIsNoWorker DEF LInv
<1>1. LockTypes' BY DEF LockTypes, Shaped, Unlocked
<1>2. ~orphaned /\ \A q \in Process : InBoard(q) => q = p BY DEF BoardLock
<1>3. place \notin {"store", "unlock", "status_copy"} OBVIOUS
<1>4. \A q \in Process : ~InBoard(q)' BY <1>2, <1>3 DEF InBoard, LockTypes
<1>5. BoardLock' BY <1>2, <1>4 DEF BoardLock, Unlocked
<1>6. pc[p] \notin {"rest", "copy"} /\ place \notin {"rest", "copy"}
  BY DEF InBoard
<1>7. \A v \in Worker : /\ InSlot(v, v)' <=> InSlot(v, v)
                        /\ InSlot(Master, v)' <=> InSlot(Master, v)
  BY <1>6 DEF InSlot, LockTypes
<1>8. SlotLocks' BY <1>7 DEF SlotLocks
<1>9. Attended'
  <2>1. \A q \in Process : q # p => pc'[q] = pc[q] BY DEF LockTypes
  <2>2. pc'[p] = place BY DEF LockTypes
  <2>3. CASE p = Master
    BY <2>1, <2>2, <2>3 DEF Attended, Traces, Process
  <2>4. CASE p # Master
    <3>1. Traces' <=> Traces BY <2>1, <2>4 DEF Traces
    <3> QED BY <3>1, <2>1, <2>2, <2>4 DEF Attended, Process
  <2> QED BY <2>3, <2>4
<1> QED BY <1>1, <1>5, <1>8, <1>9

(* A process takes the lock of a slot: its worker, or the master.          *)
LEMMA SlotTaken ==
  ASSUME LInv, NEW p \in Process, NEW w \in Worker, NEW place,
         \/ p = w /\ pc[p] = "slot" /\ place = "rest" /\ status[w] = "up"
                  /\ child' = child
         \/ p = Master /\ pc[p] = "loop" /\ place = "copy" /\ child' = w,
         slot[w].lock = 0, NEW new, Shaped(new), new.lock = 1,
         slot' = [slot EXCEPT ![w] = new],
         pc' = [pc EXCEPT ![p] = place],
         UNCHANGED <<lock, status, orphaned, upd>>
  PROVE  LInv'
<1> USE MasterIsNoWorker DEF LInv
<1>1. /\ \A v \in Worker : v # w => slot'[v] = slot[v]
      /\ slot'[w] = new /\ slot' = [v \in Worker |-> slot'[v]]
  BY DEF LockTypes
<1>2. LockTypes'
  <2>1. pc' \in [Process -> Places] BY DEF LockTypes, Places
  <2>2. \A v \in Worker : Shaped(slot[v])' <=> Shaped(slot'[v])
    BY DEF Shaped
  <2>3. \A v \in Worker : Shaped(slot'[v]) /\ slot'[v].lock \in {0, 1}
    BY <1>1 DEF LockTypes
  <2> QED BY <2>1, <2>2, <2>3, <1>1 DEF LockTypes
<1>3. \A q \in Process : InBoard(q)' <=> InBoard(q) BY DEF InBoard, LockTypes
<1>4. BoardLock' BY <1>3 DEF BoardLock
<1>5. ~InSlot(w, w) /\ ~InSlot(Master, w) BY DEF SlotLocks
<1>6. \A v \in Worker : v # w =>
         /\ InSlot(v, v)' <=> InSlot(v, v)
         /\ InSlot(Master, v)' <=> InSlot(Master, v)
  BY DEF InSlot, LockTypes
<1>7. \/ InSlot(w, w)' /\ ~InSlot(Master, w)'
      \/ InSlot(Master, w)' /\ ~InSlot(w, w)'
  BY <1>5 DEF InSlot, LockTypes
<1>8. SlotLocks' BY <1>1, <1>6, <1>7 DEF SlotLocks
<1>9. Attended' BY DEF Attended, Traces, LockTypes
<1> QED BY <1>2, <1>4, <1>8, <1>9

(* It gives the lock back.                                                 *)
LEMMA SlotGiven ==
  ASSUME LInv, NEW p \in Process, NEW w \in Worker, InSlot(p, w),
         p = Master \/ p = w, NEW place,
         p = w => /\ place \in {"loop", "run", "status", "slot", "count"}
                  /\ status[w] = "up",
         p = Master => place = "judge",
         NEW new, Shaped(new), new.lock = 0,
         slot' = [slot EXCEPT ![w] = new],
         pc' = [pc EXCEPT ![p] = place],
         \/ UNCHANGED upd
         \/ p = w /\ \E u : upd' = [upd EXCEPT ![p] = u],
         UNCHANGED <<lock, status, orphaned, child>>
  PROVE  LInv'
<1> USE MasterIsNoWorker DEF LInv
<1>1. /\ \A v \in Worker : v # w => slot'[v] = slot[v]
      /\ slot'[w] = new /\ slot' = [v \in Worker |-> slot'[v]]
  BY DEF LockTypes
<1>2. /\ upd' = [q \in Process |-> upd'[q]] /\ upd'[Master] = upd[Master]
  BY DEF LockTypes
<1>3. LockTypes'
  <2>1. pc' \in [Process -> Places] BY DEF LockTypes, Places
  <2>2. \A v \in Worker : Shaped(slot[v])' <=> Shaped(slot'[v])
    BY DEF Shaped
  <2>3. \A v \in Worker : Shaped(slot'[v]) /\ slot'[v].lock \in {0, 1}
    BY <1>1 DEF LockTypes
  <2> QED BY <2>1, <2>2, <2>3, <1>1, <1>2 DEF LockTypes
<1>4. \A q \in Process : InBoard(q)' <=> InBoard(q)
  BY DEF InBoard, InSlot, LockTypes
<1>5. BoardLock' BY <1>4 DEF BoardLock
<1>6. \A v \in Worker : v # w =>
         /\ InSlot(v, v)' <=> InSlot(v, v)
         /\ InSlot(Master, v)' <=> InSlot(Master, v)
  BY DEF InSlot, LockTypes
<1>7. ~InSlot(w, w)' /\ ~InSlot(Master, w)'
  BY DEF SlotLocks, InSlot, LockTypes
<1>8. SlotLocks' BY <1>1, <1>6, <1>7 DEF SlotLocks
<1>9. Attended' BY <1>2 DEF Attended, Traces, LockTypes, InSlot
<1> QED BY <1>3, <1>5, <1>8, <1>9

(* The master goes on without a lock, before and after.                    *)
LEMMA MasterWalks ==
  ASSUME LInv, pc[Master] \in {"loop", "judge", "sample"},
         NEW place \in {"loop", "sample", "count"},
         pc' = [pc EXCEPT ![Master] = place],
         \/ child' = Master
         \/ place = "count" /\ child' \in Worker /\ status[child'] = "stopped",
         \/ UNCHANGED upd
         \/ \E u : upd' = [upd EXCEPT ![Master] = u],
         UNCHANGED <<lock, slot, status, orphaned>>
  PROVE  LInv'
<1> USE MasterIsNoWorker DEF LInv
<1>1. /\ upd' = [q \in Process |-> upd'[q]]
      /\ pc' \in [Process -> Places] /\ pc'[Master] = place
      /\ \A q \in Process : q # Master => pc'[q] = pc[q]
  BY DEF LockTypes, Places
<1>2. LockTypes' BY <1>1 DEF LockTypes, Shaped
<1>3. \A q \in Process : InBoard(q)' <=> InBoard(q) BY <1>1 DEF InBoard
<1>4. BoardLock' BY <1>3 DEF BoardLock
<1>5. \A v \in Worker : /\ InSlot(v, v)' <=> InSlot(v, v)
                        /\ ~InSlot(Master, v) /\ ~InSlot(Master, v)'
  BY <1>1 DEF InSlot
<1>6. SlotLocks' BY <1>5 DEF SlotLocks
<1>7. Attended' BY <1>1 DEF Attended, Traces
<1> QED BY <1>2, <1>4, <1>6, <1>7

-----------------------------------------------------------------------------
(* The steps.                                                              *)

LEMMA CallbackLInv ==
  ASSUME LInv, NEW w \in Worker, Callback(w)
  PROVE  LInv'
<1> USE MasterIsNoWorker
<1>1. CASE \E hooks : Call(w, hooks) /\ pc[w] \in {"loop", "run"} /\ Runs(w)
                      /\ UNCHANGED <<lock, slot, status, orphaned, child, upd>>
  <2>1. PICK hooks : Call(w, hooks) /\ pc[w] \in {"loop", "run"} /\ Runs(w)
                     /\ UNCHANGED <<lock, slot, status, orphaned, child, upd>>
    BY <1>1
  <2>2. Entry(hooks, w, script) \in {"loop", "run", "status", "slot"}
    BY EntryPlace
  <2>3. pc' = [pc EXCEPT ![w] = Entry(hooks, w, script)] BY <2>1 DEF Call
  <2>4. status[w] = "up" BY <2>1
  <2> QED BY <2>1, <2>2, <2>3, <2>4, WorkerWalks
<1>2. CASE Arrive(w)
  BY <1>1, <1>2 DEF Arrive, boardVars, masterVars, endVars, history
<1>3. CASE Resume(w)
  BY <1>1, <1>3 DEF Resume, boardVars, masterVars, endVars, history
<1>4. CASE ClientGone(w)
  BY <1>1, <1>4 DEF ClientGone, boardVars, masterVars, endVars, history
<1>5. CASE Yield(w)
  BY <1>5, WorkerWalks DEF Yield, boardVars, masterVars, endVars, history
<1>6. CASE EndScript(w)
  BY <1>1, <1>6 DEF EndScript, boardVars, masterVars, endVars, history
<1>7. CASE FinishEarly(w)
  BY <1>1, <1>7 DEF FinishEarly, boardVars, masterVars, endVars, history
<1> QED BY <1>2, <1>3, <1>4, <1>5, <1>6, <1>7 DEF Callback

(* The rest of the hooks leads to one place outside all locks.             *)
LEMMA GoOnPlace ==
  ASSUME NEW w \in Worker, GoOn(w)
  PROVE  \E place \in {"loop", "run", "status", "slot"} :
           pc' = [pc EXCEPT ![w] = place]
BY EntryPlace DEF GoOn

(* Setting one field of a slot leaves the others.                          *)
LEMMA FieldSet ==
  ASSUME NEW s, Shaped(s), NEW x
  PROVE  /\ [s EXCEPT !.lock = x] =
              [lock |-> x, stage |-> s.stage, accepted |-> s.accepted,
               requests |-> s.requests]
         /\ [s EXCEPT !.stage = x] =
              [lock |-> s.lock, stage |-> x, accepted |-> s.accepted,
               requests |-> s.requests]
         /\ [s EXCEPT !.accepted = x] =
              [lock |-> s.lock, stage |-> s.stage, accepted |-> x,
               requests |-> s.requests]
         /\ [s EXCEPT !.requests = x] =
              [lock |-> s.lock, stage |-> s.stage, accepted |-> s.accepted,
               requests |-> x]
<1>1. [s EXCEPT !.lock = x] =
              [lock |-> x, stage |-> s.stage, accepted |-> s.accepted,
               requests |-> s.requests] BY DEF Shaped
<1>2. [s EXCEPT !.stage = x] =
              [lock |-> s.lock, stage |-> x, accepted |-> s.accepted,
               requests |-> s.requests] BY DEF Shaped
<1>3. [s EXCEPT !.accepted = x] =
              [lock |-> s.lock, stage |-> s.stage, accepted |-> x,
               requests |-> s.requests] BY DEF Shaped
<1>4. [s EXCEPT !.requests = x] =
              [lock |-> s.lock, stage |-> s.stage, accepted |-> s.accepted,
               requests |-> x] BY DEF Shaped
<1> QED BY <1>1, <1>2, <1>3, <1>4

(* What a hook writes in a slot, first and last.                           *)
Entered(s, t, a) == [s EXCEPT !.lock = 1, !.stage = t, !.accepted = a]
Left(s, r) == [s EXCEPT !.lock = 0, !.requests = r]

LEMMA SlotEntered ==
  ASSUME NEW s, Shaped(s), NEW t, NEW a
  PROVE  /\ Shaped(Entered(s, t, a)) /\ Entered(s, t, a).lock = 1
         /\ Entered(s, t, a).stage = t /\ Entered(s, t, a).accepted = a
         /\ Entered(s, t, a).requests = s.requests
<1> DEFINE m1 == [s EXCEPT !.lock = 1]
           m2 == [m1 EXCEPT !.stage = t]
           m3 == [m2 EXCEPT !.accepted = a]
<1>0. m3 = Entered(s, t, a) BY DEF Entered
<1>1. m1 = [lock |-> 1, stage |-> s.stage, accepted |-> s.accepted,
            requests |-> s.requests]
  BY FieldSet
<1> HIDE DEF m1
<1>2. m2 = [lock |-> 1, stage |-> t, accepted |-> s.accepted,
            requests |-> s.requests]
  <2>1. Shaped(m1) BY <1>1 DEF Shaped
  <2>2. m2 = [lock |-> m1.lock, stage |-> t, accepted |-> m1.accepted,
              requests |-> m1.requests]
    BY <2>1, FieldSet, Zenon
  <2> QED BY <1>1, <2>2
<1> HIDE DEF m2
<1>3. m3 = [lock |-> 1, stage |-> t, accepted |-> a,
            requests |-> s.requests]
  <2>1. Shaped(m2) BY <1>2 DEF Shaped
  <2>2. m3 = [lock |-> m2.lock, stage |-> m2.stage, accepted |-> a,
              requests |-> m2.requests]
    BY <2>1, FieldSet, Zenon
  <2> QED BY <1>2, <2>2
<1> HIDE DEF m3
<1>4. /\ Shaped(m3) /\ m3.lock = 1 /\ m3.stage = t /\ m3.accepted = a
      /\ m3.requests = s.requests
  BY <1>3 DEF Shaped
<1> QED BY <1>0, <1>4, Zenon

LEMMA SlotLeft ==
  ASSUME NEW s, Shaped(s), NEW r
  PROVE  /\ Shaped(Left(s, r)) /\ Left(s, r).lock = 0
         /\ Left(s, r).stage = s.stage
         /\ Left(s, r).accepted = s.accepted /\ Left(s, r).requests = r
<1> DEFINE m1 == [s EXCEPT !.lock = 0]
           m2 == [m1 EXCEPT !.requests = r]
<1>0. m2 = Left(s, r) BY DEF Left
<1>1. m1 = [lock |-> 0, stage |-> s.stage, accepted |-> s.accepted,
            requests |-> s.requests]
  BY FieldSet
<1> HIDE DEF m1
<1>2. m2 = [lock |-> 0, stage |-> s.stage, accepted |-> s.accepted,
            requests |-> r]
  <2>1. Shaped(m1) BY <1>1 DEF Shaped
  <2>2. m2 = [lock |-> m1.lock, stage |-> m1.stage,
              accepted |-> m1.accepted, requests |-> r]
    BY <2>1, FieldSet, Zenon
  <2> QED BY <1>1, <2>2
<1> HIDE DEF m2
<1>3. /\ Shaped(m2) /\ m2.lock = 0 /\ m2.stage = s.stage
      /\ m2.accepted = s.accepted /\ m2.requests = r
  BY <1>2 DEF Shaped
<1> QED BY <1>0, <1>3, Zenon

LEMMA EnterSlotLInv ==
  ASSUME LInv, NEW w \in Worker, EnterSlot(w)
  PROVE  LInv'
<1> USE MasterIsNoWorker
<1> DEFINE a   == IF Head(todo[w]) = "reading" THEN slot[w].requests + 1
                  ELSE slot[w].accepted
           new == Entered(slot[w], StageOf(Head(todo[w])), a)
<1>0. Shaped(slot[w]) BY DEF LInv, LockTypes
<1>1. Shaped(new) /\ new.lock = 1 BY <1>0, SlotEntered
<1>2. slot' = [slot EXCEPT ![w] = new] BY Zenon DEF EnterSlot, Entered
<1>3. slot[w].lock = 0 BY DEF EnterSlot, Spun
<1>4. /\ pc[w] = "slot" /\ status[w] = "up"
      /\ pc' = [pc EXCEPT ![w] = "rest"]
      /\ UNCHANGED <<lock, status, orphaned, upd, child>>
  BY DEF EnterSlot, boardVars, masterVars, endVars, history
<1> HIDE DEF new
<1> QED BY <1>1, <1>2, <1>3, <1>4, SlotTaken

LEMMA WriteRestLInv ==
  ASSUME LInv, NEW w \in Worker, WriteRest(w)
  PROVE  LInv'
<1> USE MasterIsNoWorker
<1> DEFINE r   == IF Head(todo[w]) = "reading" THEN slot[w].requests + 1
                  ELSE slot[w].requests
           new == Left(slot[w], r)
<1>0. Shaped(slot[w]) BY DEF LInv, LockTypes
<1>1. Shaped(new) /\ new.lock = 0 BY <1>0, SlotLeft
<1>2. slot' = [slot EXCEPT ![w] = new] BY Zenon DEF WriteRest, Unlocked, Left
<1>3. /\ pc[w] = "rest" /\ status[w] = "up"
      /\ UNCHANGED <<lock, status, orphaned, child>>
  BY DEF WriteRest, boardVars, masterVars, endVars, history
<1>4. \E place \in {"loop", "run", "status", "slot", "count"} :
        /\ pc' = [pc EXCEPT ![w] = place]
        /\ UNCHANGED upd \/ \E u : upd' = [upd EXCEPT ![w] = u]
  <2>1. CASE Head(todo[w]) \in {"accepting", "reading"}
    <3>1. /\ pc' = [pc EXCEPT ![w] = "count"]
          /\ \E u : upd' = [upd EXCEPT ![w] = u]
      BY <2>1, Zenon DEF WriteRest
    <3> QED BY <3>1
  <2>2. CASE Head(todo[w]) \notin {"accepting", "reading"}
    <3>1. GoOn(w) /\ UNCHANGED upd BY <2>2, Zenon DEF WriteRest
    <3> QED BY <3>1, GoOnPlace
  <2> QED BY <2>1, <2>2
<1>5. InSlot(w, w) BY <1>3 DEF InSlot
<1> HIDE DEF new
<1> QED BY <1>1, <1>2, <1>3, <1>4, <1>5, SlotGiven

LEMMA HookLInv ==
  ASSUME LInv, NEW w \in Worker, Hook(w)
  PROVE  LInv'
<1> USE MasterIsNoWorker
<1>1. CASE Counted(w)
  <2>1. GoOn(w) /\ InBoard(w) /\ status[w] = "up" /\ lock' = Unlocked
    BY <1>1 DEF Counted, LeaveBoard, InBoard
  <2>2. UNCHANGED <<upd, slot, status, orphaned, child>>
    BY <1>1 DEF Counted, LeaveBoard, masterVars, endVars, history
  <2> QED BY <2>1, <2>2, GoOnPlace, BoardGiven DEF Places
<1>2. CASE TryStatus(w)
  <2>1. /\ pc[w] = "status" /\ status[w] = "up"
        /\ UNCHANGED <<slot, status, orphaned, child, upd>>
    BY <1>2 DEF TryStatus, masterVars, endVars, history
  <2>2. CASE Tried(lock)
    BY <1>2, <2>1, <2>2, BoardTaken DEF TryStatus, Tried, Spun
  <2>3. CASE ~Tried(lock)
    <3>1. GoOn(w) /\ UNCHANGED lock BY <1>2, <2>3 DEF TryStatus
    <3> QED BY <2>1, <3>1, GoOnPlace, WorkerWalks
  <2> QED BY <2>2, <2>3
<1>3. CASE CopyStatus(w)
  <2>1. GoOn(w) /\ InBoard(w) /\ status[w] = "up" /\ lock' = Unlocked
    BY <1>3 DEF CopyStatus, InBoard
  <2>2. UNCHANGED <<upd, slot, status, orphaned, child>>
    BY <1>3 DEF CopyStatus, masterVars, endVars, history
  <2> QED BY <2>1, <2>2, GoOnPlace, BoardGiven DEF Places
<1> QED BY <1>1, <1>2, <1>3, EnterSlotLInv, WriteRestLInv DEF Hook

LEMMA EnterBoardLInv ==
  ASSUME LInv, NEW p \in Process, EnterBoard(p)
  PROVE  LInv'
<1>1. /\ pc[p] = "count" /\ Runs(p) /\ Spun(lock) /\ lock' = 1
      /\ pc' = [pc EXCEPT ![p] = "store"]
      /\ UNCHANGED <<slot, status, orphaned, child, upd>>
  BY DEF EnterBoard, masterVars, endVars, history
<1>2. p # Master => status[p] = "up" BY <1>1, MasterIsNoWorker DEF Process
<1> QED BY <1>1, <1>2, BoardTaken

(* What the master does, and what is done to workers.                      *)
LEMMA LookLInv ==
  ASSUME LInv, NEW c \in Worker, Look(c)
  PROVE  LInv'
<1> USE MasterIsNoWorker
<1> DEFINE new == [slot[c] EXCEPT !.lock = 1]
<1>1. Shaped(slot[c]) BY DEF LInv, LockTypes
<1>2. Shaped(new) /\ new.lock = 1
  <2>1. ASSUME NEW s, Shaped(s)
        PROVE  LET n == [s EXCEPT !.lock = 1] IN Shaped(n) /\ n.lock = 1
    BY <2>1 DEF Shaped
  <2> QED BY <1>1, <2>1
<1>3. slot' = [slot EXCEPT ![c] = new] BY Zenon DEF Look
<1>4. slot[c].lock = 0 BY DEF Look, Tried
<1>5. /\ pc[Master] = "loop" /\ child' = c
      /\ pc' = [pc EXCEPT ![Master] = "copy"]
      /\ UNCHANGED <<lock, status, orphaned, upd>>
  BY DEF Look, MasterGoes, boardVars, endVars, history
<1> HIDE DEF new
<1> QED BY <1>2, <1>3, <1>4, <1>5, SlotTaken

LEMMA CopyRestLInv ==
  ASSUME LInv, CopyRest
  PROVE  LInv'
<1> USE MasterIsNoWorker
<1> DEFINE new == [slot[child] EXCEPT !.lock = 0]
<1>1. /\ pc[Master] = "copy" /\ pc' = [pc EXCEPT ![Master] = "judge"]
      /\ UNCHANGED <<lock, status, orphaned, upd, child>>
  BY DEF CopyRest, MasterGoes, boardVars, endVars, history
<1>2. child \in Worker /\ Shaped(slot[child])
  BY <1>1 DEF LInv, LockTypes, Attended
<1>3. Shaped(new) /\ new.lock = 0
  <2>1. ASSUME NEW s, Shaped(s)
        PROVE  LET n == [s EXCEPT !.lock = 0] IN Shaped(n) /\ n.lock = 0
    BY <2>1 DEF Shaped
  <2> QED BY <1>2, <2>1
<1>4. slot' = [slot EXCEPT ![child] = new] BY Zenon DEF CopyRest, Unlocked
<1>5. InSlot(Master, child) BY <1>1 DEF InSlot
<1> HIDE DEF new
<1> QED BY <1>1, <1>2, <1>3, <1>4, <1>5, SlotGiven

LEMMA BuryLInv ==
  ASSUME LInv, NEW c \in Worker, Bury(c)
  PROVE  LInv'
<1> USE MasterIsNoWorker DEF LInv
<1>1. /\ pc[Master] = "loop" /\ status[c] = "dead"
      /\ slot' = [slot EXCEPT ![c] = FreshSlot]
      /\ status' = [status EXCEPT ![c] = "up"]
      /\ UNCHANGED <<lock, orphaned, child, pc, upd>>
  <2>1. /\ pc[Master] = "loop" /\ status[c] = "dead"
        /\ slot' = [slot EXCEPT ![c] = FreshSlot]
        /\ status' = [status EXCEPT ![c] = "up"]
    BY Zenon DEF Bury, Freed
  <2>2. UNCHANGED <<lock, orphaned, child, pc, upd>>
    BY DEF Bury, boardVars, history
  <2> QED BY <2>1, <2>2
<1>2. /\ \A v \in Worker : v # c => slot'[v] = slot[v]
      /\ slot'[c] = FreshSlot /\ slot' = [v \in Worker |-> slot'[v]]
  BY <1>1 DEF LockTypes
<1>3. LockTypes'
  <2>1. Shaped(FreshSlot) /\ FreshSlot.lock = 0 BY DEF Shaped, FreshSlot
  <2>2. \A v \in Worker : Shaped(slot[v])' <=> Shaped(slot'[v])
    BY DEF Shaped
  <2>3. \A v \in Worker : Shaped(slot'[v]) /\ slot'[v].lock \in {0, 1}
    BY <1>2, <2>1 DEF LockTypes
  <2>4. status' \in [Worker -> {"up", "stopped", "dead"}]
    BY <1>1 DEF LockTypes
  <2> QED BY <1>1, <1>2, <2>2, <2>3, <2>4 DEF LockTypes
<1>4. \A q \in Process : InBoard(q)' <=> InBoard(q) BY <1>1 DEF InBoard
<1>5. BoardLock' BY <1>1, <1>4 DEF BoardLock
<1>6. \A v \in Worker : /\ InSlot(v, v)' <=> InSlot(v, v)
                        /\ ~InSlot(Master, v) /\ ~InSlot(Master, v)'
  BY <1>1 DEF InSlot
<1>7. ~InSlot(c, c) BY <1>1 DEF InSlot, Attended
<1>8. slot'[c].lock = 0 BY <1>2 DEF FreshSlot
<1>9. \A v \in Worker : v # c => status'[v] = status[v]
  BY <1>1 DEF LockTypes
<1>10. SlotLocks' BY <1>2, <1>6, <1>7, <1>8, <1>9 DEF SlotLocks
<1>11. Attended'
  <2>1. Traces' <=> Traces BY <1>1 DEF Traces
  <2>2. status'[c] = "up" BY <1>1 DEF LockTypes
  <2> QED BY <1>1, <1>9, <2>1, <2>2 DEF Attended, Traces
<1> QED BY <1>3, <1>5, <1>10, <1>11

LEMMA DieLInv ==
  ASSUME LInv, NEW w \in Worker, Die(w)
  PROVE  LInv'
<1> USE MasterIsNoWorker DEF LInv
<1>1. /\ status[w] = "up" /\ status' = [status EXCEPT ![w] = "dead"]
      /\ pc' = [pc EXCEPT ![w] = "loop"]
      /\ upd' = [upd EXCEPT ![w] = NoUpdate]
      /\ orphaned' = (orphaned \/ InBoard(w))
      /\ UNCHANGED <<lock, slot, child>>
  BY DEF Die, boardVars, masterVars
<1>2. /\ \A q \in Process : q # w => pc'[q] = pc[q] /\ upd'[q] = upd[q]
      /\ \A v \in Worker : v # w => status'[v] = status[v]
      /\ pc'[w] = "loop" /\ status'[w] = "dead"
  BY <1>1 DEF LockTypes
<1>3. LockTypes'
  <2>1. pc' \in [Process -> Places] BY <1>1 DEF LockTypes, Places
  <2>2. status' \in [Worker -> {"up", "stopped", "dead"}]
    BY <1>1 DEF LockTypes
  <2>3. orphaned' \in BOOLEAN BY <1>1 DEF LockTypes
  <2> QED BY <1>1, <2>1, <2>2, <2>3 DEF LockTypes, Shaped
<1>4. /\ \A q \in Process : q # w => (InBoard(q)' <=> InBoard(q))
      /\ ~InBoard(w)'
  BY <1>2 DEF InBoard
<1>5. BoardLock' BY <1>1, <1>4 DEF BoardLock
<1>6. /\ \A v \in Worker : InSlot(Master, v)' <=> InSlot(Master, v)
      /\ \A v \in Worker : v # w => (InSlot(v, v)' <=> InSlot(v, v))
      /\ ~InSlot(w, w)'
  BY <1>1, <1>2 DEF InSlot
<1>7. SlotLocks' BY <1>1, <1>2, <1>6 DEF SlotLocks
<1>8. Attended'
  <2>1. Traces' <=> Traces BY <1>1, <1>2 DEF Traces
  <2> QED BY <1>1, <1>2, <2>1 DEF Attended
<1> QED BY <1>3, <1>5, <1>7, <1>8

LEMMA StopLInv ==
  ASSUME LInv, NEW w \in Worker, Stop(w)
  PROVE  LInv'
<1> USE MasterIsNoWorker DEF LInv
<1>1. /\ status[w] = "up" /\ status' = [status EXCEPT ![w] = "stopped"]
      /\ UNCHANGED <<lock, slot, child, pc, upd, orphaned>>
  BY DEF Stop, boardVars, masterVars, history
<1>2. /\ \A v \in Worker : v # w => status'[v] = status[v]
      /\ status'[w] = "stopped"
      /\ status' \in [Worker -> {"up", "stopped", "dead"}]
  BY <1>1 DEF LockTypes
<1>3. LockTypes' BY <1>1, <1>2 DEF LockTypes, Shaped
<1>4. BoardLock' BY <1>1 DEF BoardLock, InBoard
<1>5. SlotLocks' BY <1>1, <1>2 DEF SlotLocks, InSlot
<1>6. Attended' BY <1>1, <1>2 DEF Attended, Traces
<1> QED BY <1>3, <1>4, <1>5, <1>6

LEMMA DumpLInv ==
  ASSUME LInv, Dump
  PROVE  LInv'
<1> USE MasterIsNoWorker DEF LInv
<1>1. /\ pc[Master] = "dump" /\ pc' = [pc EXCEPT ![Master] = "loop"]
      /\ status' = [status EXCEPT ![child] = "up"] /\ child' = Master
      /\ UNCHANGED <<lock, slot, upd, orphaned>>
  BY DEF Dump, MasterGoes, boardVars, history
<1>2. child \in Worker /\ status[child] = "stopped" BY <1>1 DEF Attended
<1>3. /\ \A q \in Process : q # Master => pc'[q] = pc[q]
      /\ pc'[Master] = "loop" /\ pc' \in [Process -> Places]
      /\ \A v \in Worker : v # child => status'[v] = status[v]
      /\ status'[child] = "up"
      /\ status' \in [Worker -> {"up", "stopped", "dead"}]
  BY <1>1, <1>2 DEF LockTypes, Places
<1>4. LockTypes' BY <1>1, <1>3 DEF LockTypes, Shaped
<1>5. \A q \in Process : InBoard(q)' <=> InBoard(q) BY <1>1, <1>3 DEF InBoard
<1>6. BoardLock' BY <1>1, <1>5 DEF BoardLock
<1>7. \A v \in Worker : /\ InSlot(v, v)' <=> InSlot(v, v)
                        /\ ~InSlot(Master, v) /\ ~InSlot(Master, v)'
  BY <1>1, <1>3 DEF InSlot
<1>8. SlotLocks' BY <1>1, <1>2, <1>3, <1>7 DEF SlotLocks
<1>9. Attended' BY <1>1, <1>2, <1>3 DEF Attended, Traces
<1> QED BY <1>4, <1>6, <1>8, <1>9

LEMMA MasterLInv ==
  ASSUME LInv, \/ Judge \/ Maintain \/ MasterCounted \/ Dump
               \/ \E c \in Worker : Sample(c) \/ Trace(c)
  PROVE  LInv'
<1> USE MasterIsNoWorker
<1>0. /\ child \in Process
      /\ pc[Master] \in {"loop", "sample"} => child = Master
  BY DEF LInv, LockTypes, Attended
<1>1. CASE Judge
  <2>1. /\ pc[Master] = "judge" /\ pc' = [pc EXCEPT ![Master] = "loop"]
        /\ child' = Master
        /\ UNCHANGED <<upd, lock, slot, status, orphaned>>
    BY <1>1 DEF Judge, MasterGoes, boardVars, history
  <2> QED BY <2>1, MasterWalks
<1>2. CASE Maintain
  <2>1. /\ pc[Master] = "loop" /\ pc' = [pc EXCEPT ![Master] = "sample"]
        /\ UNCHANGED <<child, upd, lock, slot, status, orphaned>>
    BY <1>2 DEF Maintain, MasterGoes, boardVars, endVars, history
  <2> QED BY <1>0, <2>1, MasterWalks
<1>3. ASSUME NEW c \in Worker, Sample(c) PROVE LInv'
  <2>1. /\ pc[Master] = "sample"
        /\ UNCHANGED <<child, lock, slot, status, orphaned>>
    BY <1>3 DEF Sample, boardVars, endVars, history
  <2>2. CASE seen.left = {c}
    <3>1. /\ \E u : upd' = [upd EXCEPT ![Master] = u]
          /\ pc' = [pc EXCEPT ![Master] = "count"]
      BY <1>3, <2>2, Zenon DEF Sample
    <3> QED BY <1>0, <2>1, <3>1, MasterWalks
  <2>3. CASE seen.left # {c}
    <3>1. UNCHANGED <<upd, pc>> BY <1>3, <2>3, Zenon DEF Sample
    <3>2. pc' = [pc EXCEPT ![Master] = "sample"]
      BY <2>1, <3>1 DEF LInv, LockTypes
    <3> QED BY <1>0, <2>1, <3>1, <3>2, MasterWalks
  <2> QED BY <2>2, <2>3
<1>4. ASSUME NEW c \in Worker, Trace(c) PROVE LInv'
  <2>1. /\ pc[Master] = "loop" /\ pc' = [pc EXCEPT ![Master] = "count"]
        /\ child' = c /\ status[c] = "stopped"
        /\ upd' = [upd EXCEPT ![Master] = Inc(0, 0, 0, 1)]
        /\ UNCHANGED <<lock, slot, status, orphaned>>
    BY <1>4 DEF Trace, MasterGoes, boardVars, endVars, history
  <2> QED BY <2>1, MasterWalks
<1>5. CASE MasterCounted
  <2>1. /\ pc[Master] = "unlock" /\ lock' = Unlocked
        /\ pc' = [pc EXCEPT ![Master] = IF child = Master THEN "loop"
                                        ELSE "dump"]
        /\ UNCHANGED <<upd, slot, status, orphaned, child>>
    BY <1>5 DEF MasterCounted, LeaveBoard, masterVars, endVars, history
  <2>2. InBoard(Master) BY <2>1 DEF InBoard
  <2>3. CASE child = Master BY <2>1, <2>2, <2>3, BoardGiven DEF Places
  <2>4. CASE child # Master
    <3>1. Traces BY <2>1, <2>4 DEF Traces
    <3> QED BY <2>1, <2>2, <2>4, <3>1, BoardGiven DEF Places
  <2> QED BY <2>3, <2>4
<1> QED BY <1>1, <1>2, <1>3, <1>4, <1>5, DumpLInv

LEMMA StutterLInv ==
  ASSUME LInv, UNCHANGED vars
  PROVE  LInv'
<1>1. UNCHANGED <<lock, slot, status, pc, upd, child, orphaned>>
  BY DEF vars, boardVars, masterVars, endVars, history
<1>2. LockTypes' BY <1>1 DEF LInv, LockTypes, Shaped
<1>3. BoardLock' BY <1>1 DEF LInv, BoardLock, InBoard
<1>4. SlotLocks' BY <1>1 DEF LInv, SlotLocks, InSlot
<1>5. Attended' BY <1>1 DEF LInv, Attended, Traces
<1> QED BY <1>2, <1>3, <1>4, <1>5 DEF LInv

LEMMA NextLInv == LInv /\ [Next]_vars => LInv'
<1> SUFFICES ASSUME LInv, [Next]_vars PROVE LInv' OBVIOUS
<1>1. CASE UNCHANGED vars BY <1>1, StutterLInv
<1>2. CASE \E p \in Process : EnterBoard(p) \/ StoreBoard(p)
  BY <1>2, EnterBoardLInv, StoreBoardLInv
<1>3. CASE \E w \in Worker : Hook(w) \/ Callback(w) \/ Die(w) \/ Stop(w)
  BY <1>3, HookLInv, CallbackLInv, DieLInv, StopLInv
<1>4. CASE \E c \in Worker : Look(c) \/ Sample(c) \/ Trace(c) \/ Bury(c)
  BY <1>4, LookLInv, BuryLInv, MasterLInv
<1>5. CASE CopyRest BY <1>5, CopyRestLInv
<1>6. CASE Judge \/ Maintain \/ MasterCounted \/ Dump
  BY <1>6, MasterLInv
<1> QED BY <1>1, <1>2, <1>3, <1>4, <1>5, <1>6 DEF Next

(* The locks exclude and are given back, by whomever they are taken and    *)
(* whoever dies or is stopped meanwhile (fpm_spinlock, fpm_unlock,         *)
(* fpm_scoreboard_proc_acquire, fpm_scoreboard_proc_free).                 *)
THEOREM LocksAreKept == Spec => []LocksKept
<1>1. LInv => LocksKept BY DEF LInv, BoardLock, SlotLocks, LocksKept
<1> QED BY <1>1, InitLInv, NextLInv, PTL DEF Spec

-----------------------------------------------------------------------------
(* Counting.  What a process in the critical section has read is still on  *)
(* the board, and a worker has a request to count only on its way there.   *)
Uncounted == {w \in Worker : upd[w].requests = 1}

Counting ==
  /\ tmp = [p \in Process |-> tmp[p]]
  /\ {served, forgotten, board.requests} \subseteq Nat
  /\ upd[Master].requests = 0
  /\ \A w \in Worker :
       /\ upd[w].requests \in {0, 1}
       /\ upd[w].requests = 1 => pc[w] \in {"count", "store"}
  /\ \A p \in Process : pc[p] = "store" => tmp[p].requests = board.requests

CInv == LInv /\ Counting /\ RequestsCounted

LEMMA UncountedFinite ==
  /\ IsFiniteSet(Uncounted) /\ Cardinality(Uncounted) \in Nat
<1>1. IsFiniteSet(Worker) BY BoardAssumption
<1>2. IsFiniteSet(Uncounted) BY <1>1, FS_Subset DEF Uncounted
<1> QED BY <1>2, FS_CardinalityType

LEMMA InitCInv == Init => CInv
<1> SUFFICES ASSUME Init PROVE CInv OBVIOUS
<1> USE MasterIsNoWorker DEF Init
<1>1. {w \in Worker : upd[w].requests = 1} = {} BY DEF NoUpdate
<1>2. Cardinality({}) = 0 BY FS_EmptySet
<1>3. Counting BY DEF Counting, NoUpdate, Counters
<1>4. RequestsCounted
  <2>1. served = 0 /\ forgotten = 0 /\ board.requests = 0 BY DEF Counters
  <2>2. Cardinality({w \in Worker : upd[w].requests = 1}) = 0 BY <1>1, <1>2
  <2> HIDE DEF Init
  <2> QED BY <2>1, <2>2 DEF RequestsCounted
<1> QED BY <1>3, <1>4, InitLInv DEF CInv

(* Most steps count nothing.                                               *)
LEMMA NothingCounted ==
  ASSUME Counting, RequestsCounted,
         UNCHANGED <<served, forgotten, board, tmp>>,
         \A p \in Process : upd'[p].requests = upd[p].requests,
         \A p \in Process : \/ pc'[p] = pc[p]
                            \/ /\ pc[p] \notin {"count", "store"}
                               /\ pc'[p] # "store"
  PROVE  Counting' /\ RequestsCounted'
<1> USE MasterIsNoWorker
<1>1. Counting' BY DEF Counting
<1>2. {w \in Worker : upd'[w].requests = 1} = {w \in Worker : upd[w].requests = 1}
  OBVIOUS
<1>3. RequestsCounted' BY <1>2 DEF RequestsCounted
<1> QED BY <1>1, <1>3

(* A process that has one request to count, or none, stores the counters.  *)
LEMMA StoreBoardCounts ==
  ASSUME CInv, NEW p \in Process, StoreBoard(p)
  PROVE  Counting' /\ RequestsCounted'
<1> USE MasterIsNoWorker DEF CInv
<1> DEFINE n == upd[p].requests
<1>0. /\ pc[p] = "store" /\ pc' = [pc EXCEPT ![p] = "unlock"]
      /\ board' = Updated(tmp[p], upd[p])
      /\ upd' = [upd EXCEPT ![p] = NoUpdate]
      /\ tmp' = [tmp EXCEPT ![p] = Counters]
      /\ UNCHANGED <<served, forgotten>>
  BY DEF StoreBoard, workerVars, endVars, history
<1>1. n \in {0, 1} /\ (p = Master => n = 0) BY DEF Counting, Process
<1>2. board'.requests = board.requests + n
  <2>1. tmp[p].requests = board.requests BY <1>0 DEF Counting
  <2>2. board'.requests = tmp[p].requests + n BY <1>0, Zenon DEF Updated
  <2> QED BY <2>1, <2>2
<1>3. /\ \A q \in Process : q # p => upd'[q] = upd[q] /\ pc'[q] = pc[q]
      /\ upd'[p].requests = 0 /\ pc'[p] = "unlock"
  BY <1>0 DEF LInv, LockTypes, NoUpdate
<1>4. \A q \in Process : pc'[q] # "store"
  BY <1>0, <1>3 DEF LInv, BoardLock, InBoard
<1>5. Counting'
  <2>1. tmp' = [q \in Process |-> tmp'[q]] BY <1>0 DEF Counting
  <2>2. {served', forgotten', board'.requests} \subseteq Nat
    BY <1>0, <1>1, <1>2 DEF Counting
  <2> QED BY <1>3, <1>4, <2>1, <2>2 DEF Counting
<1>6. Uncounted' = Uncounted \ {p} /\ (p \in Uncounted <=> n = 1)
  BY <1>1, <1>3 DEF Uncounted, Process
<1>7. Cardinality(Uncounted') = Cardinality(Uncounted) - n
  <2>1. CASE n = 1 BY <1>6, <2>1, UncountedFinite, FS_RemoveElement
  <2>2. CASE n = 0 
    <3>1. Uncounted' = Uncounted BY <1>6, <2>2
    <3> QED BY <2>2, <3>1, UncountedFinite
  <2> QED BY <1>1, <2>1, <2>2
<1>8. RequestsCounted'
  BY <1>0, <1>1, <1>2, <1>7, UncountedFinite
     DEF RequestsCounted, Counting, Uncounted
<1> QED BY <1>5, <1>8

LEMMA CallbackCounts ==
  ASSUME CInv, NEW w \in Worker, Callback(w)
  PROVE  Counting' /\ RequestsCounted'
<1> USE MasterIsNoWorker
<1>1. /\ pc[w] \in {"loop", "run"}
      /\ UNCHANGED <<served, forgotten, board, tmp, upd>>
  BY DEF Callback, Arrive, Resume, ClientGone, Yield, EndScript, FinishEarly,
         boardVars, endVars, history
<1>2. \E place \in {"loop", "run", "status", "slot"} :
        pc' = [pc EXCEPT ![w] = place]
  <2>1. CASE Yield(w) BY <2>1 DEF Yield
  <2>2. CASE ~Yield(w)
    <3>1. \E hooks, in : pc' = [pc EXCEPT ![w] = Entry(hooks, w, in)]
      BY <2>2 DEF Callback, Arrive, Resume, ClientGone, EndScript, FinishEarly,
                  Call
    <3>2. PICK hooks, in : pc' = [pc EXCEPT ![w] = Entry(hooks, w, in)]
      BY <3>1
    <3>3. Entry(hooks, w, in) \in {"loop", "run", "status", "slot"}
      BY EntryPlace
    <3> QED BY <3>2, <3>3
  <2> QED BY <2>1, <2>2
<1>3. \A p \in Process : \/ pc'[p] = pc[p]
                         \/ /\ pc[p] \notin {"count", "store"}
                            /\ pc'[p] # "store"
  BY <1>1, <1>2 DEF CInv, LInv, LockTypes
<1> QED BY <1>1, <1>3, NothingCounted DEF CInv

LEMMA WriteRestCounts ==
  ASSUME CInv, NEW w \in Worker, WriteRest(w)
  PROVE  Counting' /\ RequestsCounted'
<1> USE MasterIsNoWorker
<1>1. /\ pc[w] = "rest" /\ UNCHANGED <<forgotten, board, tmp>>
  BY DEF WriteRest, boardVars, endVars, history
<1>2. upd[w].requests = 0 BY <1>1 DEF CInv, Counting
<1>3. CASE Head(todo[w]) = "reading"
  <2>1. /\ served' = served + 1 /\ pc' = [pc EXCEPT ![w] = "count"]
        /\ upd' = [upd EXCEPT ![w] = Inc(-1, 1, 1, 0)]
    BY <1>3, Zenon DEF WriteRest
  <2>2. /\ \A q \in Process : q # w => upd'[q] = upd[q] /\ pc'[q] = pc[q]
        /\ upd'[w].requests = 1 /\ pc'[w] = "count"
    BY <2>1 DEF CInv, LInv, LockTypes, Inc
  <2>3. served' \in Nat BY <2>1 DEF CInv, Counting
  <2>4. Counting' BY <1>1, <2>2, <2>3 DEF CInv, Counting
  <2>5. Uncounted' = Uncounted \cup {w} /\ w \notin Uncounted
    BY <1>2, <2>2 DEF Uncounted
  <2>6. Cardinality(Uncounted') = Cardinality(Uncounted) + 1
    BY <2>5, UncountedFinite, FS_AddElement
  <2>7. RequestsCounted'
    BY <1>1, <2>1, <2>6, UncountedFinite
       DEF CInv, RequestsCounted, Counting, Uncounted
  <2> QED BY <2>4, <2>7
<1>4. CASE Head(todo[w]) # "reading"
  <2>1. served' = served BY <1>4, Zenon DEF WriteRest
  <2>2. CASE Head(todo[w]) = "accepting"
    <3>1. /\ pc' = [pc EXCEPT ![w] = "count"]
          /\ upd' = [upd EXCEPT ![w] = Inc(1, -1, 0, 0)]
      BY <2>2, Zenon DEF WriteRest
    <3>2. \A p \in Process : upd'[p].requests = upd[p].requests
      BY <1>2, <3>1 DEF CInv, LInv, LockTypes, Inc
    <3>3. \A p \in Process : \/ pc'[p] = pc[p]
                             \/ /\ pc[p] \notin {"count", "store"}
                                /\ pc'[p] # "store"
      BY <1>1, <3>1 DEF CInv, LInv, LockTypes
    <3> QED BY <1>1, <2>1, <3>2, <3>3, NothingCounted DEF CInv
  <2>3. CASE Head(todo[w]) # "accepting"
    <3>1. GoOn(w) /\ UNCHANGED upd BY <1>4, <2>3, Zenon DEF WriteRest
    <3>2. \A p \in Process : \/ pc'[p] = pc[p]
                             \/ /\ pc[p] \notin {"count", "store"}
                                /\ pc'[p] # "store"
      BY <1>1, <3>1, GoOnPlace DEF CInv, LInv, LockTypes
    <3> QED BY <1>1, <2>1, <3>1, <3>2, NothingCounted DEF CInv
  <2> QED BY <2>2, <2>3
<1> QED BY <1>3, <1>4

LEMMA HookCounts ==
  ASSUME CInv, NEW w \in Worker, Hook(w)
  PROVE  Counting' /\ RequestsCounted'
<1> USE MasterIsNoWorker
<1>1. CASE Counted(w)
  <2>1. /\ pc[w] = "unlock" /\ GoOn(w)
        /\ UNCHANGED <<served, forgotten, board, tmp, upd>>
    BY <1>1 DEF Counted, LeaveBoard, endVars, history
  <2>2. \A p \in Process : \/ pc'[p] = pc[p]
                           \/ /\ pc[p] \notin {"count", "store"}
                              /\ pc'[p] # "store"
    BY <2>1, GoOnPlace DEF CInv, LInv, LockTypes
  <2> QED BY <2>1, <2>2, NothingCounted DEF CInv
<1>2. CASE EnterSlot(w)
  <2>1. /\ pc[w] = "slot" /\ pc' = [pc EXCEPT ![w] = "rest"]
        /\ UNCHANGED <<served, forgotten, board, tmp, upd>>
    BY <1>2 DEF EnterSlot, boardVars, workerVars, endVars, history
  <2>2. \A p \in Process : \/ pc'[p] = pc[p]
                           \/ /\ pc[p] \notin {"count", "store"}
                              /\ pc'[p] # "store"
    BY <2>1 DEF CInv, LInv, LockTypes
  <2> QED BY <2>1, <2>2, NothingCounted DEF CInv
<1>3. CASE TryStatus(w) \/ CopyStatus(w)
  <2>1. /\ pc[w] \in {"status", "status_copy"}
        /\ UNCHANGED <<served, forgotten, board, tmp, upd>>
    BY <1>3 DEF TryStatus, CopyStatus, endVars, history
  <2>2. pc' = [pc EXCEPT ![w] = "status_copy"] \/ GoOn(w)
    BY <1>3, Zenon DEF TryStatus, CopyStatus
  <2>3. \A p \in Process : \/ pc'[p] = pc[p]
                           \/ /\ pc[p] \notin {"count", "store"}
                              /\ pc'[p] # "store"
    BY <2>1, <2>2, GoOnPlace DEF CInv, LInv, LockTypes
  <2> QED BY <2>1, <2>3, NothingCounted DEF CInv
<1> QED BY <1>1, <1>2, <1>3, WriteRestCounts DEF Hook

LEMMA EnterBoardCounts ==
  ASSUME CInv, NEW p \in Process, EnterBoard(p)
  PROVE  Counting' /\ RequestsCounted'
<1> USE MasterIsNoWorker
<1>1. /\ pc[p] = "count" /\ pc' = [pc EXCEPT ![p] = "store"]
      /\ tmp' = [tmp EXCEPT ![p] = board]
      /\ UNCHANGED <<served, forgotten, board, upd>>
  BY DEF EnterBoard, workerVars, endVars, history
<1>2. /\ tmp' = [q \in Process |-> tmp'[q]] /\ tmp'[p] = board
      /\ \A q \in Process : q # p => tmp'[q] = tmp[q] /\ pc'[q] = pc[q]
      /\ pc'[p] = "store"
  BY <1>1 DEF CInv, Counting, LInv, LockTypes
<1>3. Counting' BY <1>1, <1>2 DEF CInv, Counting
<1>4. RequestsCounted' BY <1>1 DEF CInv, RequestsCounted
<1> QED BY <1>3, <1>4

LEMMA DieCounts ==
  ASSUME CInv, NEW w \in Worker, Die(w)
  PROVE  Counting' /\ RequestsCounted'
<1> USE MasterIsNoWorker
<1> DEFINE n == upd[w].requests
<1>1. /\ forgotten' = forgotten + n
      /\ pc' = [pc EXCEPT ![w] = "loop"]
      /\ upd' = [upd EXCEPT ![w] = NoUpdate]
      /\ tmp' = [tmp EXCEPT ![w] = Counters]
      /\ UNCHANGED <<board, served>>
  BY DEF Die, boardVars
<1>2. n \in {0, 1} BY DEF CInv, Counting
<1>3. /\ \A q \in Process : q # w => /\ upd'[q] = upd[q] /\ pc'[q] = pc[q]
                                     /\ tmp'[q] = tmp[q]
      /\ upd'[w].requests = 0 /\ pc'[w] = "loop"
      /\ tmp' = [q \in Process |-> tmp'[q]]
  BY <1>1 DEF CInv, Counting, LInv, LockTypes, NoUpdate
<1>4. forgotten' \in Nat BY <1>1, <1>2 DEF CInv, Counting
<1>5. Counting' BY <1>1, <1>3, <1>4 DEF CInv, Counting
<1>6. Uncounted' = Uncounted \ {w} /\ (w \in Uncounted <=> n = 1)
  BY <1>3 DEF Uncounted
<1>7. Cardinality(Uncounted') = Cardinality(Uncounted) - n
  <2>1. CASE n = 1 BY <1>6, <2>1, UncountedFinite, FS_RemoveElement
  <2>2. CASE n = 0
    <3>1. Uncounted' = Uncounted BY <1>6, <2>2
    <3> QED BY <2>2, <3>1, UncountedFinite
  <2> QED BY <1>2, <2>1, <2>2
<1>8. RequestsCounted'
  BY <1>1, <1>2, <1>7, UncountedFinite
     DEF CInv, RequestsCounted, Counting, Uncounted
<1> QED BY <1>5, <1>8

LEMMA MasterCounts ==
  ASSUME CInv, \/ CopyRest \/ Judge \/ Maintain \/ MasterCounted \/ Dump
               \/ \E c \in Worker : Look(c) \/ Sample(c) \/ Trace(c)
  PROVE  Counting' /\ RequestsCounted'
<1> USE MasterIsNoWorker
<1>1. UNCHANGED <<served, forgotten, board, tmp>>
  BY DEF CopyRest, Judge, Maintain, MasterCounted, LeaveBoard, Dump, Look,
         Sample, Trace, boardVars, workerVars, endVars, history
<1>2. /\ pc[Master] \in {"loop", "copy", "judge", "sample", "unlock", "dump"}
      /\ \/ UNCHANGED pc
         \/ \E place \in {"loop", "copy", "judge", "sample", "count", "dump"} :
              pc' = [pc EXCEPT ![Master] = place]
  <2>1. CASE MasterCounted BY <2>1 DEF MasterCounted, LeaveBoard
  <2>2. CASE ~MasterCounted
    BY <2>2 DEF CopyRest, Judge, Maintain, Dump, Look, Sample, Trace, MasterGoes
  <2> QED BY <2>1, <2>2
<1>3. \/ UNCHANGED upd
      \/ \E u : upd' = [upd EXCEPT ![Master] = u] /\ u.requests = 0
  <2>1. ASSUME NEW c \in Worker, Sample(c), ~UNCHANGED upd
        PROVE  \E u : upd' = [upd EXCEPT ![Master] = u] /\ u.requests = 0
    <3> DEFINE i == IF slot[c].stage = "accepting" THEN seen.idle + 1
                    ELSE seen.idle
               u == [NoUpdate EXCEPT !.action = "set", !.idle = i,
                       !.active = Cardinality(Worker) - i]
    <3>1. upd' = [upd EXCEPT ![Master] = u] BY <2>1, Zenon DEF Sample
    <3>2. u.requests = 0 BY DEF NoUpdate
    <3> HIDE DEF u
    <3> QED BY <3>1, <3>2
  <2>2. ASSUME NEW c \in Worker, Trace(c)
        PROVE  \E u : upd' = [upd EXCEPT ![Master] = u] /\ u.requests = 0
    <3>1. upd' = [upd EXCEPT ![Master] = Inc(0, 0, 0, 1)]
      BY <2>2 DEF Trace
    <3>2. Inc(0, 0, 0, 1).requests = 0 BY DEF Inc
    <3> QED BY <3>1, <3>2
  <2>3. CASE \/ CopyRest \/ Judge \/ Maintain \/ MasterCounted \/ Dump
             \/ \E c \in Worker : Look(c)
    BY <2>3 DEF CopyRest, Judge, Maintain, MasterCounted, LeaveBoard, Dump, Look
  <2> QED BY <2>1, <2>2, <2>3
<1>4. \A p \in Process : upd'[p].requests = upd[p].requests
  BY <1>3 DEF CInv, Counting, LInv, LockTypes
<1>5. \A p \in Process : \/ pc'[p] = pc[p]
                         \/ /\ pc[p] \notin {"count", "store"}
                            /\ pc'[p] # "store"
  BY <1>2 DEF CInv, LInv, LockTypes
<1> QED BY <1>1, <1>4, <1>5, NothingCounted DEF CInv

LEMMA NextCInv == CInv /\ [Next]_vars => CInv'
<1> SUFFICES ASSUME CInv, [Next]_vars PROVE CInv' OBVIOUS
<1>1. LInv' BY NextLInv DEF CInv
<1>2. ASSUME \/ UNCHANGED vars
             \/ \E c \in Worker : Bury(c) \/ Stop(c)
      PROVE  Counting' /\ RequestsCounted'
  <2>1. UNCHANGED <<served, forgotten, board, tmp, upd, pc>>
    BY <1>2 DEF vars, Bury, Stop, boardVars, workerVars, endVars, history
  <2> QED BY <2>1, NothingCounted DEF CInv
<1>3. ASSUME NEW p \in Process, EnterBoard(p) \/ StoreBoard(p)
      PROVE  Counting' /\ RequestsCounted'
  BY <1>3, EnterBoardCounts, StoreBoardCounts
<1>4. ASSUME NEW w \in Worker, Hook(w) \/ Callback(w) \/ Die(w)
      PROVE  Counting' /\ RequestsCounted'
  BY <1>4, HookCounts, CallbackCounts, DieCounts
<1>5. ASSUME \/ CopyRest \/ Judge \/ Maintain \/ MasterCounted \/ Dump
             \/ \E c \in Worker : Look(c) \/ Sample(c) \/ Trace(c)
      PROVE  Counting' /\ RequestsCounted'
  BY <1>5, MasterCounts
<1>6. Counting' /\ RequestsCounted'
  BY <1>2, <1>3, <1>4, <1>5 DEF Next
<1> QED BY <1>1, <1>6 DEF CInv

(* A request that has been entered in a slot is on the board, about to be  *)
(* added, or its worker died in between, whatever else is counted at the   *)
(* same time (fpm_scoreboard_update).                                      *)
THEOREM RequestsAreCounted == Spec => []RequestsCounted
<1>1. CInv => RequestsCounted BY DEF CInv
<1> QED BY <1>1, InitCInv, NextCInv, PTL DEF Spec
================================================================================
