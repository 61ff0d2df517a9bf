------------------------------ MODULE SlotProofs ------------------------------
(***************************************************************************)
(* Proofs about what the slots of the scoreboard say of their workers, and *)
(* what the master can conclude from one, to kill a worker or to trace it, *)
(* for any number of workers, requests and deaths.                         *)
(***************************************************************************)
EXTENDS ScoreboardProofs

-----------------------------------------------------------------------------
(* What a worker may have left to call: a rest of an arrival, or a single  *)
(* hook.                                                                   *)
Agenda ==
  {<<>>, <<"end">>, <<"executing">>, <<"finished">>,
   <<"status", "end">>, <<"executing", "status", "end">>,
   <<"info", "executing">>, <<"info", "end">>, <<"info", "finished">>,
   <<"info", "executing", "status", "end">>,
   <<"reading", "info", "executing">>, <<"reading", "info", "end">>,
   <<"reading", "info", "finished">>,
   <<"reading", "info", "executing", "status", "end">>,
   <<"accepting", "reading", "info", "executing">>,
   <<"accepting", "reading", "info", "end">>,
   <<"accepting", "reading", "info", "finished">>,
   <<"accepting", "reading", "info", "executing", "status", "end">>}

(* Those that end in a script.                                             *)
ToScript ==
  {<<"executing">>, <<"info", "executing">>,
   <<"reading", "info", "executing">>,
   <<"accepting", "reading", "info", "executing">>}

(* What is left of a request for the status page.                          *)
StatusPage == {<<"status", "end">>, <<"end">>}

AtHook(w) == pc[w] \notin {"loop", "run"}

(* Where a worker is and what it has left to call.                         *)
Working(w) ==
  /\ todo[w] \in Agenda /\ load[w] \in Nat
  /\ status[w] = "dead" => load[w] = 0 /\ pc[w] = "loop"
  /\ todo[w] = <<>> <=> ~AtHook(w)
  /\ pc[w] = "loop" => w \notin script
  /\ pc[w] = "run" => w \in script /\ load[w] > 0
  /\ w \in script => load[w] > 0 \/ todo[w] \in StatusPage
  /\ todo[w] \in ToScript => load[w] > 0
  /\ pc[w] \in {"slot", "rest"} => Head(todo[w]) # "status"
  /\ pc[w] \in {"status", "status_copy"} => Head(todo[w]) = "status"
  /\ pc[w] \in {"count", "store", "unlock"}
       => Head(todo[w]) \in {"accepting", "reading"}

(* A worker that has work has entered a request, unless this is its first  *)
(* and on its way.                                                         *)
Entering(w) ==
  /\ slot[w].requests \in Nat
  /\ status[w] # "dead" /\ ~Unentered(w)
       => \/ slot[w].requests > 0
          \/ load[w] = 0 /\ todo[w] \in {<<>>, <<"end">>}

(* The slot shows the hook the worker is in; in the loop it shows no       *)
(* request, or the worker has one.                                         *)
Showing(w) ==
  status[w] # "dead" =>
    /\ pc[w] = "rest" => slot[w].stage = StageOf(Head(todo[w]))
    /\ pc[w] = "loop" /\ slot[w].stage \in Running => load[w] > 0

(* Stage and time stamps belong together while nobody writes them.         *)
Together(s) ==
  /\ s.accepted = s.requests
  /\ s.stage \in Running => s.requests > 0

Stamped(w) ==
  status[w] # "dead" \/ slot[w].lock = 0 \/ InSlot(Master, w) =>
    IF pc[w] = "rest" /\ Head(todo[w]) = "reading"
    THEN slot[w].accepted = slot[w].requests + 1
    ELSE Together(slot[w])

Fine(w) == Working(w) /\ Entering(w) /\ Showing(w) /\ Stamped(w)

(* The master's copy is the slot's, as far as it has come.                 *)
Copying ==
  /\ Shaped(copy)
  /\ pc[Master] = "copy" => copy.stage = slot[child].stage
  /\ pc[Master] = "judge" => Together(copy)

Lists ==
  /\ todo = [w \in Worker |-> todo[w]]
  /\ load = [w \in Worker |-> load[w]]

WInv == LInv /\ Lists /\ (\A w \in Worker : Fine(w)) /\ Copying

(* What follows a hook.                                                    *)
LEMMA Onward ==
  ASSUME NEW a \in Agenda, a # <<>>
  PROVE  /\ Tail(a) \in Agenda
         /\ Head(a) \in {"accepting", "reading", "info", "executing", "status",
                         "end", "finished"}
         /\ Tail(a) = <<>> \/ Head(Tail(a)) \in
              {"reading", "info", "executing", "status", "end", "finished"}
         /\ Tail(a) # <<>> /\ Head(Tail(a)) = "reading" => Head(a) = "accepting"
         /\ Tail(a) = <<>> => Head(a) \in {"end", "executing", "finished"}
         /\ Tail(a) \in ToScript => a \in ToScript
         /\ Head(a) = "accepting" => Tail(a) # <<>> /\ Head(Tail(a)) = "reading"
         /\ Head(a) \in {"end", "finished"} => Tail(a) = <<>>
         /\ Head(a) = "executing" => a \in ToScript \/ Tail(a) \in StatusPage
         /\ a = <<"status", "end">> => Tail(a) \in StatusPage
         /\ Head(a) = "end" => a = <<"end">>
<1>1. CASE a = <<"end">>
  <2>1. Head(a) = "end" /\ Tail(a) = <<>> BY <1>1
  <2> QED BY <1>1, <2>1 DEF Agenda, ToScript, StatusPage
<1>2. CASE a = <<"executing">>
  <2>1. Head(a) = "executing" /\ Tail(a) = <<>> BY <1>2
  <2> QED BY <1>2, <2>1 DEF Agenda, ToScript, StatusPage
<1>3. CASE a = <<"finished">>
  <2>1. Head(a) = "finished" /\ Tail(a) = <<>> BY <1>3
  <2> QED BY <1>3, <2>1 DEF Agenda, ToScript, StatusPage
<1>4. CASE a = <<"status", "end">>
  <2>1. /\ Head(a) = "status" /\ Tail(a) = <<"end">>
        /\ Head(Tail(a)) = "end"
    BY <1>4
  <2> QED BY <1>4, <2>1 DEF Agenda, ToScript, StatusPage
<1>5. CASE a = <<"executing", "status", "end">>
  <2>1. /\ Head(a) = "executing" /\ Tail(a) = <<"status", "end">>
        /\ Head(Tail(a)) = "status"
    BY <1>5
  <2> QED BY <1>5, <2>1 DEF Agenda, ToScript, StatusPage
<1>6. CASE a = <<"info", "executing">>
  <2>1. /\ Head(a) = "info" /\ Tail(a) = <<"executing">>
        /\ Head(Tail(a)) = "executing"
    BY <1>6
  <2> QED BY <1>6, <2>1 DEF Agenda, ToScript, StatusPage
<1>7. CASE a = <<"info", "end">>
  <2>1. /\ Head(a) = "info" /\ Tail(a) = <<"end">>
        /\ Head(Tail(a)) = "end"
    BY <1>7
  <2> QED BY <1>7, <2>1 DEF Agenda, ToScript, StatusPage
<1>8. CASE a = <<"info", "finished">>
  <2>1. /\ Head(a) = "info" /\ Tail(a) = <<"finished">>
        /\ Head(Tail(a)) = "finished"
    BY <1>8
  <2> QED BY <1>8, <2>1 DEF Agenda, ToScript, StatusPage
<1>9. CASE a = <<"info", "executing", "status", "end">>
  <2>1. /\ Head(a) = "info" /\ Tail(a) = <<"executing", "status", "end">>
        /\ Head(Tail(a)) = "executing"
    BY <1>9
  <2> QED BY <1>9, <2>1 DEF Agenda, ToScript, StatusPage
<1>10. CASE a = <<"reading", "info", "executing">>
  <2>1. /\ Head(a) = "reading" /\ Tail(a) = <<"info", "executing">>
        /\ Head(Tail(a)) = "info"
    BY <1>10
  <2> QED BY <1>10, <2>1 DEF Agenda, ToScript, StatusPage
<1>11. CASE a = <<"reading", "info", "end">>
  <2>1. /\ Head(a) = "reading" /\ Tail(a) = <<"info", "end">>
        /\ Head(Tail(a)) = "info"
    BY <1>11
  <2> QED BY <1>11, <2>1 DEF Agenda, ToScript, StatusPage
<1>12. CASE a = <<"reading", "info", "finished">>
  <2>1. /\ Head(a) = "reading" /\ Tail(a) = <<"info", "finished">>
        /\ Head(Tail(a)) = "info"
    BY <1>12
  <2> QED BY <1>12, <2>1 DEF Agenda, ToScript, StatusPage
<1>13. CASE a = <<"reading", "info", "executing", "status", "end">>
  <2>1. /\ Head(a) = "reading" /\ Tail(a) = <<"info", "executing", "status", "end">>
        /\ Head(Tail(a)) = "info"
    BY <1>13
  <2> QED BY <1>13, <2>1 DEF Agenda, ToScript, StatusPage
<1>14. CASE a = <<"accepting", "reading", "info", "executing">>
  <2>1. /\ Head(a) = "accepting" /\ Tail(a) = <<"reading", "info", "executing">>
        /\ Head(Tail(a)) = "reading"
    BY <1>14
  <2> QED BY <1>14, <2>1 DEF Agenda, ToScript, StatusPage
<1>15. CASE a = <<"accepting", "reading", "info", "end">>
  <2>1. /\ Head(a) = "accepting" /\ Tail(a) = <<"reading", "info", "end">>
        /\ Head(Tail(a)) = "reading"
    BY <1>15
  <2> QED BY <1>15, <2>1 DEF Agenda, ToScript, StatusPage
<1>16. CASE a = <<"accepting", "reading", "info", "finished">>
  <2>1. /\ Head(a) = "accepting" /\ Tail(a) = <<"reading", "info", "finished">>
        /\ Head(Tail(a)) = "reading"
    BY <1>16
  <2> QED BY <1>16, <2>1 DEF Agenda, ToScript, StatusPage
<1>17. CASE a = <<"accepting", "reading", "info", "executing", "status", "end">>
  <2>1. /\ Head(a) = "accepting" /\ Tail(a) = <<"reading", "info", "executing", "status", "end">>
        /\ Head(Tail(a)) = "reading"
    BY <1>17
  <2> QED BY <1>17, <2>1 DEF Agenda, ToScript, StatusPage
<1> QED
  BY <1>1, <1>2, <1>3, <1>4, <1>5, <1>6, <1>7, <1>8,
     <1>9, <1>10, <1>11, <1>12, <1>13, <1>14, <1>15, <1>16, <1>17
  DEF Agenda

LEMMA InitWInv == Init => WInv
<1> SUFFICES ASSUME Init PROVE WInv OBVIOUS
<1> USE MasterIsNoWorker
<1>1. Lists BY DEF Lists, Init
<1>2. ASSUME NEW w \in Worker PROVE Fine(w)
  <2>1. /\ todo[w] = <<>> /\ load[w] = 0 /\ pc[w] = "loop" /\ script = {}
        /\ slot[w].stage = "none" /\ slot[w].accepted = 0 /\ slot[w].requests = 0
    BY DEF Init, FreshSlot
  <2>2. Working(w) BY <2>1 DEF Working, Agenda, ToScript, AtHook
  <2>3. Entering(w) /\ Showing(w) /\ Stamped(w)
    BY <2>1 DEF Entering, Showing, Stamped, Together, Running
  <2> QED BY <2>2, <2>3 DEF Fine
<1>3. Copying BY DEF Copying, Shaped, Init, FreshSlot
<1> QED BY <1>1, <1>2, <1>3, InitLInv DEF WInv

(* A worker that is left alone stays as it was, even if the master takes   *)
(* the lock of its slot and gives it back, stops it or lets it go on.      *)
LEMMA LeftAlone ==
  ASSUME NEW w \in Worker, Fine(w),
         todo'[w] = todo[w], load'[w] = load[w], pc'[w] = pc[w],
         w \in script' <=> w \in script,
         status'[w] = "dead" <=> status[w] = "dead",
         slot'[w].stage = slot[w].stage,
         slot'[w].accepted = slot[w].accepted,
         slot'[w].requests = slot[w].requests,
         slot'[w].lock = 0 \/ InSlot(Master, w)'
           => slot[w].lock = 0 \/ InSlot(Master, w)
  PROVE  Fine(w)'
<1>1. Working(w)' BY DEF Fine, Working, AtHook
<1>2. Entering(w)' BY DEF Fine, Entering, Unentered
<1>3. Showing(w)' BY DEF Fine, Showing
<1>4. Stamped(w)' BY DEF Fine, Stamped, Together
<1> QED BY <1>1, <1>2, <1>3, <1>4 DEF Fine

(* The same, for a worker of which nothing changes.                        *)
LEMMA Untouched ==
  ASSUME NEW w \in Worker, Fine(w),
         todo'[w] = todo[w], load'[w] = load[w], pc'[w] = pc[w],
         w \in script' <=> w \in script,
         status'[w] = status[w], slot'[w] = slot[w],
         InSlot(Master, w)' <=> InSlot(Master, w)
  PROVE  Fine(w)'
BY LeftAlone

(* A worker calls the first of some hooks, or is through with all.         *)
LEMMA Turns ==
  ASSUME NEW w \in Worker, NEW h \in Agenda,
         todo'[w] = h, pc'[w] = Entry(h, w, script'),
         load'[w] \in Nat, status'[w] # "dead",
         slot'[w].requests \in Nat, Together(slot'[w]),
         h = <<>> /\ slot'[w].stage \in Running => load'[w] > 0,
         w \in script' => load'[w] > 0 \/ h \in StatusPage,
         h \in ToScript => load'[w] > 0,
         \/ h # <<>> /\ Head(h) \in {"accepting", "reading"}
         \/ slot'[w].requests > 0
         \/ load'[w] = 0 /\ h \in {<<>>, <<"end">>}
  PROVE  Fine(w)'
<1>1. /\ h = <<>> /\ w \in script' => pc'[w] = "run"
      /\ h = <<>> /\ w \notin script' => pc'[w] = "loop"
      /\ h # <<>> /\ Head(h) = "status" => pc'[w] = "status"
      /\ h # <<>> /\ Head(h) # "status" => pc'[w] = "slot"
  BY DEF Entry
<1>2. Working(w)' BY <1>1 DEF Working, AtHook, StatusPage
<1>3. Entering(w)' BY <1>1 DEF Entering, Unentered
<1>4. Showing(w)' BY <1>1 DEF Showing
<1>5. Stamped(w)' BY <1>1 DEF Stamped, Together
<1> QED BY <1>2, <1>3, <1>4, <1>5 DEF Fine

-----------------------------------------------------------------------------
(* The workers' steps.                                                     *)

(* What else a step of one worker leaves alone.                            *)
OnlyAt(w) ==
  /\ \A v \in Worker \ {w} :
       /\ todo'[v] = todo[v] /\ load'[v] = load[v] /\ pc'[v] = pc[v]
       /\ v \in script' <=> v \in script
       /\ status'[v] = status[v] /\ slot'[v] = slot[v]
  /\ pc'[Master] = pc[Master] /\ child' = child /\ copy' = copy
  /\ pc[Master] = "copy" /\ child = w => slot'[w].stage = slot[w].stage
  /\ Lists'

LEMMA OthersAreFine ==
  ASSUME WInv, LInv', NEW w \in Worker, OnlyAt(w), Fine(w)'
  PROVE  WInv'
<1> USE MasterIsNoWorker
<1>1. ASSUME NEW v \in Worker PROVE Fine(v)'
  <2>1. CASE v = w BY <2>1
  <2>2. CASE v # w
    <3>1. InSlot(Master, v)' <=> InSlot(Master, v) BY DEF OnlyAt, InSlot
    <3>2. v \in Worker \ {w} BY <2>2
    <3>3. /\ todo'[v] = todo[v] /\ load'[v] = load[v] /\ pc'[v] = pc[v]
          /\ v \in script' <=> v \in script
          /\ status'[v] = status[v] /\ slot'[v] = slot[v]
      BY <3>2 DEF OnlyAt
    <3> QED BY <3>1, <3>3, Untouched DEF WInv
  <2> QED BY <2>1, <2>2
<1>2. Copying'
  <2>1. Shaped(copy)' <=> Shaped(copy) BY DEF OnlyAt, Shaped
  <2>2. pc[Master] = "copy" => slot'[child].stage = slot[child].stage
    <3> SUFFICES ASSUME pc[Master] = "copy"
                 PROVE  slot'[child].stage = slot[child].stage OBVIOUS
    <3>1. child \in Worker BY DEF WInv, LInv, Attended
    <3> QED BY <3>1 DEF OnlyAt
  <2>3. pc'[Master] = "judge" => Together(copy')
    BY DEF WInv, Copying, OnlyAt
  <2> QED BY <2>1, <2>2, <2>3 DEF WInv, Copying, OnlyAt
<1> QED BY <1>1, <1>2 DEF WInv, OnlyAt

(* A worker in its loop or in a script is at no hook and in no slot.       *)
LEMMA Between ==
  ASSUME WInv, NEW w \in Worker, pc[w] \in {"loop", "run"}, status[w] = "up"
  PROVE  /\ todo[w] = <<>> /\ load[w] \in Nat
         /\ slot[w].requests \in Nat /\ Together(slot[w])
         /\ slot[w].requests > 0 \/ load[w] = 0
         /\ pc[w] = "loop" /\ slot[w].stage \in Running => load[w] > 0
         /\ pc[w] = "run" => load[w] > 0 /\ w \in script
         /\ pc[w] = "loop" => w \notin script
<1>1. Working(w) /\ Entering(w) /\ Showing(w) /\ Stamped(w)
  BY DEF WInv, Fine
<1>2. todo[w] = <<>> /\ ~Unentered(w) BY <1>1 DEF Working, AtHook, Unentered
<1> QED BY <1>1, <1>2 DEF Working, Entering, Showing, Stamped

LEMMA CallbackKeeps ==
  ASSUME WInv, LInv', NEW w \in Worker, Callback(w)
  PROVE  WInv'
<1> USE MasterIsNoWorker
<1>1. /\ pc[w] \in {"loop", "run"} /\ status[w] = "up"
      /\ UNCHANGED <<slot, status, child, copy>>
  BY DEF Callback, Arrive, Resume, ClientGone, Yield, EndScript, FinishEarly,
         masterVars, endVars
<1>2. /\ todo[w] = <<>> /\ load[w] \in Nat
      /\ slot'[w].requests \in Nat /\ Together(slot'[w])
      /\ slot[w].requests > 0 \/ load[w] = 0
      /\ pc[w] = "loop" /\ slot[w].stage \in Running => load[w] > 0
      /\ pc[w] = "run" => load[w] > 0 /\ w \in script
      /\ pc[w] = "loop" => w \notin script
  BY <1>1, Between
<1>3. /\ todo = [v \in Worker |-> todo[v]] /\ load = [v \in Worker |-> load[v]]
      /\ pc \in [Process -> Places]
  BY DEF WInv, Lists, LInv, LockTypes
<1>4. ASSUME NEW h \in Agenda, NEW n \in Nat,
             todo' = [todo EXCEPT ![w] = h],
             pc' = [pc EXCEPT ![w] = Entry(h, w, script')],
             load' = [load EXCEPT ![w] = n],
             \A v \in Worker \ {w} : v \in script' <=> v \in script,
             h = <<>> => n > 0,
             w \in script' => n > 0 \/ h \in StatusPage,
             h \in ToScript => n > 0,
             \/ h # <<>> /\ Head(h) \in {"accepting", "reading"}
             \/ slot[w].requests > 0
             \/ n = 0 /\ h \in {<<>>, <<"end">>}
      PROVE  WInv'
  <2>1. /\ todo'[w] = h /\ load'[w] = n /\ pc'[w] = Entry(h, w, script')
    BY <1>3, <1>4
  <2>2. OnlyAt(w) BY <1>1, <1>3, <1>4 DEF OnlyAt, Lists
  <2>3. Fine(w)' BY <1>1, <1>2, <1>4, <2>1, Turns
  <2> QED BY <2>2, <2>3, OthersAreFine
<1>5. ASSUME NEW h, h # <<>>, Call(w, h)
      PROVE  /\ todo' = [todo EXCEPT ![w] = h]
             /\ pc' = [pc EXCEPT ![w] = Entry(h, w, script')]
  <2>1. Entry(h, w, script) = Entry(h, w, script') BY <1>5 DEF Entry
  <2> QED BY <1>5, <2>1 DEF Call
<1>6. load = [load EXCEPT ![w] = load[w]] BY <1>3
<1>7. CASE Arrive(w)
  <2>1. PICK h \in Arrivals :
          /\ Call(w, h)
          /\ load' = [load EXCEPT ![w] = IF h[Len(h)] = "executing"
                                         THEN @ + 1 ELSE @]
    BY <1>7 DEF Arrive
  <2>2. /\ h \in Agenda /\ h # <<>> /\ Head(h) = "accepting"
        /\ h \in ToScript => h[Len(h)] = "executing"
    <3>1. CASE h = <<"accepting", "reading", "info", "executing">>
      BY <3>1 DEF Agenda
    <3>2. CASE h = <<"accepting", "reading", "info", "end">>
      BY <3>2 DEF Agenda, ToScript
    <3>3. CASE h = <<"accepting", "reading", "info", "finished">>
      BY <3>3 DEF Agenda, ToScript
    <3>4. CASE h = <<"accepting", "reading", "info", "executing", "status", "end">>
      BY <3>4 DEF Agenda, ToScript
    <3> QED BY <3>1, <3>2, <3>3, <3>4 DEF Arrivals
  <2> DEFINE n == IF h[Len(h)] = "executing" THEN load[w] + 1 ELSE load[w]
  <2>3. load' = [load EXCEPT ![w] = n] BY <2>1
  <2>4. n \in Nat /\ (h \in ToScript => n > 0) BY <1>2, <2>2
  <2>5. script' = script /\ w \notin script BY <1>2, <1>7 DEF Arrive
  <2> HIDE DEF n
  <2> QED BY <1>4, <1>5, <2>1, <2>2, <2>3, <2>4, <2>5 DEF Call
<1>8. CASE Resume(w)
  <2>1. /\ Call(w, <<"executing">>) /\ load[w] > 0
        /\ script' = script /\ load' = load
    BY <1>8 DEF Resume
  <2>2. <<"executing">> \in Agenda /\ <<"executing">> # <<>>
    BY DEF Agenda
  <2>3. slot[w].requests > 0 BY <1>2, <2>1
  <2>4. load' = [load EXCEPT ![w] = load[w]] BY <1>6, <2>1
  <2>5. /\ todo' = [todo EXCEPT ![w] = <<"executing">>]
        /\ pc' = [pc EXCEPT ![w] = Entry(<<"executing">>, w, script')]
    BY <1>5, <2>1, <2>2
  <2> QED BY <1>2, <1>4, <2>1, <2>2, <2>3, <2>4, <2>5
<1>9. CASE ClientGone(w)
  <2>1. PICK gone \in {0} \cup {1 : s \in 1 .. load[w]} :
          load' = [load EXCEPT ![w] = @ - gone]
    BY <1>9 DEF ClientGone
  <2>2. /\ Call(w, <<"end">>) /\ script' = script
    BY <1>9 DEF ClientGone
  <2>3. /\ load[w] - gone \in Nat
        /\ load[w] = 0 => load[w] - gone = 0
    BY <1>2, <2>1
  <2>4. /\ <<"end">> \in Agenda /\ <<"end">> # <<>> /\ <<"end">> \in StatusPage
        /\ <<"end">> \notin ToScript
    BY DEF Agenda, ToScript, StatusPage
  <2>5. load' = [load EXCEPT ![w] = load[w] - gone] BY <2>1
  <2> QED BY <1>2, <1>4, <1>5, <2>2, <2>3, <2>4, <2>5 DEF Call
<1>10. CASE Yield(w)
  <2>1. /\ pc[w] = "run" /\ script' = script \ {w}
        /\ pc' = [pc EXCEPT ![w] = "loop"] /\ UNCHANGED <<todo, load>>
    BY <1>10 DEF Yield
  <2>2. Entry(<<>>, w, script') = "loop" BY <2>1 DEF Entry
  <2>3. <<>> \in Agenda /\ <<>> \notin ToScript BY DEF Agenda, ToScript
  <2>4. todo = [todo EXCEPT ![w] = <<>>] BY <1>2, <1>3
  <2> QED BY <1>2, <1>4, <1>6, <2>1, <2>2, <2>3, <2>4
<1>11. CASE EndScript(w)
  <2>1. /\ pc[w] = "run" /\ script' = script \ {w}
        /\ load' = [load EXCEPT ![w] = load[w] - 1] /\ Call(w, <<"end">>)
    BY <1>11 DEF EndScript
  <2>2. load[w] - 1 \in Nat BY <1>2, <2>1
  <2>3. /\ <<"end">> \in Agenda /\ <<"end">> # <<>> /\ <<"end">> \in StatusPage
        /\ <<"end">> \notin ToScript
    BY DEF Agenda, ToScript, StatusPage
  <2>4. slot[w].requests > 0 BY <1>2, <2>1
  <2>5. /\ todo' = [todo EXCEPT ![w] = <<"end">>]
        /\ pc' = [pc EXCEPT ![w] = Entry(<<"end">>, w, script')]
    BY <1>5, <2>1, <2>3
  <2> QED BY <1>2, <1>4, <2>1, <2>2, <2>3, <2>4, <2>5
<1>12. CASE FinishEarly(w)
  <2>1. /\ pc[w] = "run" /\ script' = script /\ load' = load
        /\ Call(w, <<"finished">>)
    BY <1>12 DEF FinishEarly
  <2>2. /\ <<"finished">> \in Agenda /\ <<"finished">> # <<>>
        /\ <<"finished">> \notin ToScript
    BY DEF Agenda, ToScript
  <2>3. slot[w].requests > 0 BY <1>2, <2>1
  <2>4. load' = [load EXCEPT ![w] = load[w]] BY <1>6, <2>1
  <2>5. /\ todo' = [todo EXCEPT ![w] = <<"finished">>]
        /\ pc' = [pc EXCEPT ![w] = Entry(<<"finished">>, w, script')]
    BY <1>5, <2>1, <2>2
  <2>6. w \in script' /\ load[w] > 0 /\ load[w] \in Nat BY <1>2, <2>1
  <2> QED BY <1>4, <2>1, <2>2, <2>3, <2>4, <2>5, <2>6
<1> QED BY <1>7, <1>8, <1>9, <1>10, <1>11, <1>12 DEF Callback

(* What holds of a worker at a hook.                                       *)
LEMMA AtWork ==
  ASSUME WInv, NEW w \in Worker, status[w] = "up", AtHook(w)
  PROVE  /\ todo[w] \in Agenda /\ todo[w] # <<>> /\ load[w] \in Nat
         /\ slot[w].requests \in Nat
         /\ pc[w] = "rest" /\ Head(todo[w]) = "reading"
              => slot[w].accepted = slot[w].requests + 1
         /\ ~(pc[w] = "rest" /\ Head(todo[w]) = "reading") => Together(slot[w])
         /\ ~Unentered(w) => \/ slot[w].requests > 0
                             \/ load[w] = 0 /\ todo[w] = <<"end">>
         /\ todo[w] \in ToScript => load[w] > 0
         /\ w \in script => load[w] > 0 \/ todo[w] \in StatusPage
         /\ pc[w] = "rest" => slot[w].stage = StageOf(Head(todo[w]))
         /\ pc[w] \in {"slot", "rest"} => Head(todo[w]) # "status"
         /\ pc[w] \in {"status", "status_copy"} => Head(todo[w]) = "status"
         /\ pc[w] \in {"count", "store", "unlock"}
              => Head(todo[w]) \in {"accepting", "reading"}
<1>1. Working(w) /\ Entering(w) /\ Showing(w) /\ Stamped(w)
  BY DEF WInv, Fine
<1>2. todo[w] # <<>> BY <1>1 DEF Working
<1> QED BY <1>1, <1>2 DEF Working, Entering, Showing, Stamped

(* A hook is through.                                                      *)
LEMMA GoesOn ==
  ASSUME WInv, LInv', NEW w \in Worker, status[w] = "up", GoOn(w),
         pc[w] \in {"rest", "unlock", "status", "status_copy"},
         pc[w] = "rest" => Head(todo[w]) \notin {"accepting", "reading"},
         UNCHANGED <<load, status, child, copy>>,
         \A v \in Worker \ {w} : slot'[v] = slot[v],
         slot'[w].stage = slot[w].stage,
         slot'[w].accepted = slot[w].accepted,
         slot'[w].requests = slot[w].requests
  PROVE  WInv'
<1> USE MasterIsNoWorker
<1> DEFINE a == todo[w]
           h == Tail(a)
<1>1. /\ a \in Agenda /\ a # <<>> /\ load[w] \in Nat
      /\ slot[w].requests \in Nat /\ Together(slot[w])
      /\ ~Unentered(w) => slot[w].requests > 0 \/ (load[w] = 0 /\ a = <<"end">>)
      /\ a \in ToScript => load[w] > 0
      /\ w \in script => load[w] > 0 \/ a \in StatusPage
      /\ pc[w] = "rest" => slot[w].stage = StageOf(Head(a))
      /\ pc[w] = "rest" => Head(a) # "status"
      /\ pc[w] \in {"status", "status_copy"} => Head(a) = "status"
      /\ pc[w] = "unlock" => Head(a) \in {"accepting", "reading"}
  BY AtWork DEF AtHook
<1>2. /\ todo' = [todo EXCEPT ![w] = h]
      /\ script' = IF Head(a) = "executing" THEN script \cup {w}
                   ELSE IF Head(a) = "end" THEN script \ {w} ELSE script
      /\ pc' = [pc EXCEPT ![w] = Entry(h, w, script')]
  BY DEF GoOn
<1>3. /\ todo = [v \in Worker |-> todo[v]] /\ load = [v \in Worker |-> load[v]]
      /\ pc \in [Process -> Places]
  BY DEF WInv, Lists, LInv, LockTypes
<1>4. /\ todo'[w] = h /\ pc'[w] = Entry(h, w, script')
      /\ load'[w] = load[w] /\ status'[w] # "dead"
  BY <1>2, <1>3
<1>5. /\ h \in Agenda
      /\ h = <<>> \/ Head(h) \in {"reading", "info", "executing", "status", "end",
                                 "finished"}
      /\ h # <<>> /\ Head(h) = "reading" => Head(a) = "accepting"
      /\ h = <<>> => Head(a) \in {"end", "executing", "finished"}
      /\ h \in ToScript => a \in ToScript
      /\ Head(a) = "accepting" => h # <<>> /\ Head(h) = "reading"
      /\ Head(a) = "executing" => a \in ToScript \/ h \in StatusPage
      /\ a = <<"status", "end">> => h \in StatusPage
      /\ a = <<"end">> => h = <<>> /\ Head(a) = "end"
  <2>1. a = <<"end">> => Head(a) = "end" /\ h = <<>> OBVIOUS
  <2> QED BY <1>1, <2>1, Onward
<1> HIDE DEF h
<1>6. h = <<>> => pc[w] = "rest" /\ slot[w].stage = StageOf(Head(a))
  BY <1>1, <1>5
<1>7. h = <<>> /\ slot'[w].stage \in Running => load'[w] > 0
  <2> SUFFICES ASSUME h = <<>>, slot[w].stage \in Running PROVE load[w] > 0
    BY <1>4
  <2>1. CASE Head(a) = "end" BY <1>6, <2>1 DEF StageOf, Running
  <2>2. CASE Head(a) = "executing" BY <1>1, <1>5, <2>2 DEF StatusPage
  <2>3. CASE Head(a) = "finished" BY <1>6, <2>3 DEF StageOf, Running
  <2> QED BY <1>5, <2>1, <2>2, <2>3
<1>8. w \in script' => load'[w] > 0 \/ h \in StatusPage
  <2> SUFFICES ASSUME w \in script' PROVE load[w] > 0 \/ h \in StatusPage
    BY <1>4
  <2>1. CASE Head(a) = "end" BY <1>2, <2>1
  <2>2. CASE Head(a) = "executing" BY <1>1, <1>5, <2>2
  <2>3. CASE Head(a) \notin {"end", "executing"}
    <3>1. w \in script BY <1>2, <2>3
    <3> QED BY <1>1, <1>5, <2>3, <3>1 DEF StatusPage
  <2> QED BY <2>1, <2>2, <2>3
<1>9. \/ h # <<>> /\ Head(h) \in {"accepting", "reading"}
      \/ slot'[w].requests > 0
      \/ load'[w] = 0 /\ h \in {<<>>, <<"end">>}
  <2>1. CASE Unentered(w)
    <3>1. Head(a) = "accepting" BY <2>1 DEF Unentered
    <3> QED BY <1>5, <3>1
  <2>2. CASE ~Unentered(w) BY <1>1, <1>4, <1>5, <2>2
  <2> QED BY <2>1, <2>2
<1>10. Together(slot'[w]) /\ slot'[w].requests \in Nat
  BY <1>1 DEF Together
<1>11. Fine(w)'
  BY <1>1, <1>4, <1>5, <1>7, <1>8, <1>9, <1>10, Turns
<1>12. OnlyAt(w) BY <1>2, <1>3 DEF OnlyAt, Lists
<1> QED BY <1>11, <1>12, OthersAreFine

LEMMA EnterSlotKeeps ==
  ASSUME WInv, LInv', NEW w \in Worker, EnterSlot(w)
  PROVE  WInv'
<1> USE MasterIsNoWorker
<1> DEFINE hook == Head(todo[w])
           a    == IF hook = "reading" THEN slot[w].requests + 1
                   ELSE slot[w].accepted
           new  == Entered(slot[w], StageOf(hook), a)
<1>1. /\ pc[w] = "slot" /\ status[w] = "up" /\ slot[w].lock = 0
      /\ pc' = [pc EXCEPT ![w] = "rest"]
      /\ UNCHANGED <<todo, load, script, status, child, copy>>
  BY DEF EnterSlot, Spun, workerVars, masterVars, endVars
<1>2. slot' = [slot EXCEPT ![w] = new] BY Zenon DEF EnterSlot, Entered
<1>3. Shaped(slot[w]) BY DEF WInv, LInv, LockTypes
<1>4. /\ new.stage = StageOf(hook) /\ new.accepted = a
      /\ new.requests = slot[w].requests
  BY <1>3, SlotEntered
<1> HIDE DEF new
<1>5. /\ slot'[w] = new /\ pc'[w] = "rest" /\ pc'[Master] = pc[Master]
      /\ \A v \in Worker \ {w} : slot'[v] = slot[v] /\ pc'[v] = pc[v]
  BY <1>1, <1>2 DEF WInv, LInv, LockTypes
<1>6. /\ todo[w] \in Agenda /\ todo[w] # <<>> /\ hook # "status"
      /\ slot[w].requests \in Nat /\ Together(slot[w])
      /\ ~Unentered(w) => slot[w].requests > 0 \/ todo[w] = <<"end">>
  BY <1>1, AtWork DEF AtHook
<1>7. Working(w)'
  <2>1. Working(w) /\ AtHook(w) BY <1>1 DEF WInv, Fine, AtHook
  <2>2. AtHook(w)' BY <1>5 DEF AtHook
  <2> QED BY <1>1, <1>5, <1>6, <2>1, <2>2 DEF Working
<1>8. Entering(w)'
  <2>1. Entering(w) BY DEF WInv, Fine
  <2>2. Unentered(w)' <=> Unentered(w) BY <1>1, <1>5 DEF Unentered
  <2> QED BY <1>1, <1>4, <1>5, <2>1, <2>2 DEF Entering
<1>9. Showing(w)' BY <1>1, <1>4, <1>5 DEF Showing
<1>10. Stamped(w)'
  <2>1. CASE hook = "reading" BY <1>1, <1>4, <1>5, <2>1 DEF Stamped
  <2>2. CASE hook # "reading"
    <3>1. new.accepted = new.requests BY <1>4, <1>6, <2>2 DEF Together
    <3>2. new.stage \in Running => new.requests > 0
      <4> SUFFICES ASSUME new.stage \in Running PROVE new.requests > 0 OBVIOUS
      <4>1. hook # "accepting" /\ hook # "end"
        BY <1>4 DEF StageOf, Running
      <4>2. todo[w] # <<"end">> BY <4>1
      <4>3. ~Unentered(w) BY <2>2, <4>1 DEF Unentered
      <4> QED BY <1>4, <1>6, <4>2, <4>3
    <3> QED BY <1>1, <1>5, <2>2, <3>1, <3>2 DEF Stamped, Together
  <2> QED BY <2>1, <2>2
<1>11. Fine(w)' BY <1>7, <1>8, <1>9, <1>10 DEF Fine
<1>12. ~InSlot(Master, w) BY <1>1 DEF WInv, LInv, SlotLocks
<1>13. OnlyAt(w) BY <1>1, <1>5, <1>12 DEF OnlyAt, Lists, InSlot, WInv
<1> QED BY <1>11, <1>13, OthersAreFine

LEMMA WriteRestKeeps ==
  ASSUME WInv, LInv', NEW w \in Worker, WriteRest(w)
  PROVE  WInv'
<1> USE MasterIsNoWorker
<1> DEFINE hook == Head(todo[w])
           r    == IF hook = "reading" THEN slot[w].requests + 1
                   ELSE slot[w].requests
           new  == Left(slot[w], r)
<1>1. /\ pc[w] = "rest" /\ status[w] = "up"
      /\ UNCHANGED <<load, status, child, copy>>
  BY DEF WriteRest, masterVars, endVars
<1>2. slot' = [slot EXCEPT ![w] = new] BY Zenon DEF WriteRest, Unlocked, Left
<1>3. Shaped(slot[w]) BY DEF WInv, LInv, LockTypes
<1>4. /\ new.stage = slot[w].stage /\ new.accepted = slot[w].accepted
      /\ new.requests = r
  BY <1>3, SlotLeft
<1> HIDE DEF new
<1>5. /\ slot'[w] = new
      /\ \A v \in Worker \ {w} : slot'[v] = slot[v]
  BY <1>2 DEF WInv, LInv, LockTypes
<1>6. CASE hook \in {"accepting", "reading"}
  <2>1. pc' = [pc EXCEPT ![w] = "count"] /\ UNCHANGED <<todo, script>>
    BY <1>6, Zenon DEF WriteRest
  <2>2. /\ pc'[w] = "count" /\ pc'[Master] = pc[Master]
        /\ \A v \in Worker \ {w} : pc'[v] = pc[v]
    BY <2>1 DEF WInv, LInv, LockTypes
  <2>3. /\ todo[w] # <<>> /\ slot[w].requests \in Nat
        /\ hook = "reading" => slot[w].accepted = slot[w].requests + 1
        /\ hook # "reading" => Together(slot[w])
    BY <1>1, AtWork DEF AtHook
  <2>4. Working(w)'
    <3>1. Working(w) /\ AtHook(w) BY <1>1 DEF WInv, Fine, AtHook
    <3>2. AtHook(w)' BY <2>2 DEF AtHook
    <3> QED BY <1>1, <1>6, <2>1, <2>2, <3>1, <3>2 DEF Working
  <2>5. CASE hook = "reading"
    <3>1. new.requests = slot[w].requests + 1 BY <1>4, <2>5
    <3>2. new.requests \in Nat /\ new.requests > 0
          /\ new.accepted = new.requests
      BY <1>4, <2>3, <2>5, <3>1
    <3>3. Entering(w)' BY <1>5, <3>2 DEF Entering
    <3>4. Showing(w)' BY <2>2 DEF Showing
    <3>5. Stamped(w)' BY <1>5, <2>2, <3>2 DEF Stamped, Together
    <3>6. Fine(w)' BY <2>4, <3>3, <3>4, <3>5 DEF Fine
    <3>7. OnlyAt(w) BY <1>1, <1>4, <1>5, <2>1, <2>2 DEF OnlyAt, Lists, WInv
    <3> QED BY <3>6, <3>7, OthersAreFine
  <2>6. CASE hook # "reading"
    <3>1. new.requests = slot[w].requests BY <1>4, <2>6
    <3>2. Entering(w)'
      <4>1. Unentered(w)' BY <1>6, <2>1, <2>3, <2>6 DEF Unentered
      <4> QED BY <1>5, <2>3, <3>1, <4>1 DEF Entering
    <3>3. Showing(w)' BY <2>2 DEF Showing
    <3>4. Stamped(w)'
      BY <1>4, <1>5, <2>2, <2>3, <2>6, <3>1 DEF Stamped, Together
    <3>5. Fine(w)' BY <2>4, <3>2, <3>3, <3>4 DEF Fine
    <3>6. OnlyAt(w) BY <1>1, <1>4, <1>5, <2>1, <2>2 DEF OnlyAt, Lists, WInv
    <3> QED BY <3>5, <3>6, OthersAreFine
  <2> QED BY <2>5, <2>6
<1>7. CASE hook \notin {"accepting", "reading"}
  <2>1. GoOn(w) BY <1>7, Zenon DEF WriteRest
  <2>2. r = slot[w].requests BY <1>7
  <2> QED BY <1>1, <1>4, <1>5, <1>7, <2>1, <2>2, GoesOn
<1> QED BY <1>6, <1>7

(* A worker goes from one place at a hook to another.                      *)
LEMMA StaysAtHook ==
  ASSUME WInv, LInv', NEW w \in Worker, status[w] = "up",
         NEW place,
         \/ pc[w] = "count" /\ place = "store"
         \/ pc[w] = "store" /\ place = "unlock"
         \/ pc[w] = "status" /\ place = "status_copy",
         pc' = [pc EXCEPT ![w] = place],
         UNCHANGED <<todo, load, script, slot, status, child, copy>>
  PROVE  WInv'
<1> USE MasterIsNoWorker
<1>1. /\ pc'[w] = place /\ pc'[Master] = pc[Master]
      /\ \A v \in Worker \ {w} : pc'[v] = pc[v]
  BY DEF WInv, LInv, LockTypes
<1>2. Working(w) /\ Entering(w) /\ Showing(w) /\ Stamped(w)
  BY DEF WInv, Fine
<1>3. Working(w)' BY <1>1, <1>2 DEF Working, AtHook
<1>4. Entering(w)' BY <1>1, <1>2 DEF Entering, Unentered
<1>5. Showing(w)' BY <1>1 DEF Showing
<1>6. Stamped(w)' BY <1>1, <1>2 DEF Stamped, Together
<1>7. Fine(w)' BY <1>3, <1>4, <1>5, <1>6 DEF Fine
<1>8. OnlyAt(w) BY <1>1 DEF OnlyAt, Lists, WInv
<1> QED BY <1>7, <1>8, OthersAreFine

LEMMA HookKeeps ==
  ASSUME WInv, LInv', NEW w \in Worker, Hook(w)
  PROVE  WInv'
<1> USE MasterIsNoWorker
<1>1. CASE Counted(w)
  <2>1. /\ GoOn(w) /\ pc[w] = "unlock" /\ status[w] = "up"
        /\ UNCHANGED <<slot, load, status, child, copy>>
    BY <1>1 DEF Counted, LeaveBoard, masterVars, endVars
  <2> QED BY <2>1, GoesOn
<1>2. CASE CopyStatus(w)
  <2>1. /\ GoOn(w) /\ pc[w] = "status_copy" /\ status[w] = "up"
        /\ UNCHANGED <<slot, load, status, child, copy>>
    BY <1>2 DEF CopyStatus, masterVars, endVars
  <2> QED BY <2>1, GoesOn
<1>3. CASE TryStatus(w)
  <2>1. /\ pc[w] = "status" /\ status[w] = "up"
        /\ UNCHANGED <<slot, load, status, child, copy>>
    BY <1>3 DEF TryStatus, masterVars, endVars
  <2>2. CASE Tried(lock)
    <3>1. pc' = [pc EXCEPT ![w] = "status_copy"] /\ UNCHANGED <<todo, script>>
      BY <1>3, <2>2 DEF TryStatus
    <3> QED BY <2>1, <3>1, StaysAtHook
  <2>3. CASE ~Tried(lock)
    <3>1. GoOn(w) BY <1>3, <2>3 DEF TryStatus
    <3> QED BY <2>1, <3>1, GoesOn
  <2> QED BY <2>2, <2>3
<1> QED BY <1>1, <1>2, <1>3, EnterSlotKeeps, WriteRestKeeps DEF Hook

-----------------------------------------------------------------------------
(* Deaths, and the master's steps.                                         *)

LEMMA DieKeeps ==
  ASSUME WInv, LInv', NEW w \in Worker, Die(w)
  PROVE  WInv'
<1> USE MasterIsNoWorker
<1>1. /\ status[w] = "up" /\ status' = [status EXCEPT ![w] = "dead"]
      /\ pc' = [pc EXCEPT ![w] = "loop"]
      /\ todo' = [todo EXCEPT ![w] = <<>>]
      /\ load' = [load EXCEPT ![w] = 0]
      /\ script' = script \ {w}
      /\ UNCHANGED <<slot, child, copy>>
  BY DEF Die, masterVars
<1>2. /\ todo = [v \in Worker |-> todo[v]] /\ load = [v \in Worker |-> load[v]]
      /\ pc \in [Process -> Places]
      /\ status \in [Worker -> {"up", "stopped", "dead"}]
  BY DEF WInv, Lists, LInv, LockTypes
<1>3. /\ todo'[w] = <<>> /\ load'[w] = 0 /\ pc'[w] = "loop"
      /\ status'[w] = "dead" /\ w \notin script'
  BY <1>1, <1>2
<1>4. OnlyAt(w) BY <1>1, <1>2 DEF OnlyAt, Lists
<1>5. Working(w)'
  <2>1. <<>> \in Agenda /\ <<>> \notin ToScript BY DEF Agenda, ToScript
  <2> QED BY <1>3, <2>1 DEF Working, AtHook
<1>6. Entering(w)' /\ Showing(w)'
  BY <1>1, <1>3 DEF Entering, Showing, WInv, Fine
<1>7. Stamped(w)'
  <2> SUFFICES ASSUME slot[w].lock = 0 \/ InSlot(Master, w)
               PROVE  Together(slot[w])
    <3>1. InSlot(Master, w)' <=> InSlot(Master, w)
      BY <1>1, <1>2 DEF InSlot
    <3> QED BY <1>1, <1>3, <3>1 DEF Stamped, Together
  <2>1. pc[w] # "rest" BY DEF WInv, LInv, SlotLocks, InSlot
  <2>2. Stamped(w) BY DEF WInv, Fine
  <2> QED BY <1>1, <2>1, <2>2 DEF Stamped
<1>8. Fine(w)' BY <1>5, <1>6, <1>7 DEF Fine
<1> QED BY <1>4, <1>8, OthersAreFine

(* A child gets a slot that was cleared.                                   *)
LEMMA BuryKeeps ==
  ASSUME WInv, LInv', NEW c \in Worker, Bury(c)
  PROVE  WInv'
<1> USE MasterIsNoWorker
<1>1. /\ pc[Master] = "loop" /\ status[c] = "dead"
      /\ slot' = [slot EXCEPT ![c] = FreshSlot]
      /\ status' = [status EXCEPT ![c] = "up"]
  BY Zenon DEF Bury, Freed
<1>2. UNCHANGED <<pc, todo, load, script, child, copy>>
  BY DEF Bury, workerVars
<1>3. /\ slot'[c] = FreshSlot /\ status'[c] = "up"
      /\ \A v \in Worker \ {c} : slot'[v] = slot[v] /\ status'[v] = status[v]
  BY <1>1 DEF WInv, LInv, LockTypes
<1>4. OnlyAt(c) BY <1>1, <1>2, <1>3 DEF OnlyAt, Lists, WInv
<1>5. load[c] = 0 /\ pc[c] = "loop" /\ Working(c)
  BY <1>1 DEF WInv, Fine, Working
<1>6. todo[c] = <<>> BY <1>5 DEF Working, AtHook
<1>7. /\ FreshSlot.stage = "none" /\ FreshSlot.accepted = 0
      /\ FreshSlot.requests = 0
  BY DEF FreshSlot
<1>8. Working(c)' BY <1>2, <1>3, <1>5 DEF Working, AtHook
<1>9. Entering(c)' BY <1>2, <1>3, <1>5, <1>6, <1>7 DEF Entering
<1>10. Showing(c)' BY <1>2, <1>3, <1>5, <1>7 DEF Showing, Running
<1>11. Stamped(c)'
  BY <1>2, <1>3, <1>5, <1>7 DEF Stamped, Together, Running
<1>12. Fine(c)' BY <1>8, <1>9, <1>10, <1>11 DEF Fine
<1> QED BY <1>4, <1>12, OthersAreFine

LEMMA LookKeeps ==
  ASSUME WInv, LInv', NEW c \in Worker, Look(c)
  PROVE  WInv'
<1> USE MasterIsNoWorker
<1> DEFINE new == [slot[c] EXCEPT !.lock = 1]
<1>1. /\ slot[c].lock = 0 /\ pc[Master] = "loop"
      /\ pc' = [pc EXCEPT ![Master] = "copy"]
      /\ child' = c /\ copy' = [copy EXCEPT !.stage = slot[c].stage]
      /\ UNCHANGED <<todo, load, script, status>>
  BY DEF Look, MasterGoes, Tried, workerVars, endVars
<1>2. slot' = [slot EXCEPT ![c] = new] BY Zenon DEF Look
<1>3. /\ new.stage = slot[c].stage /\ new.accepted = slot[c].accepted
      /\ new.requests = slot[c].requests
  <2>1. Shaped(slot[c]) BY DEF WInv, LInv, LockTypes
  <2> QED BY <2>1, FieldSet
<1> HIDE DEF new
<1>4. /\ slot'[c] = new /\ pc'[Master] = "copy"
      /\ \A v \in Worker : pc'[v] = pc[v]
      /\ \A v \in Worker \ {c} : slot'[v] = slot[v]
  BY <1>1, <1>2 DEF WInv, LInv, LockTypes
<1>5. ASSUME NEW v \in Worker PROVE Fine(v)'
  <2>0. Fine(v) BY DEF WInv
  <2>1. CASE v = c BY <1>1, <1>3, <1>4, <2>0, <2>1, LeftAlone
  <2>2. CASE v # c
    <3>1. ~InSlot(Master, v) /\ ~InSlot(Master, v)'
      BY <1>1, <2>2 DEF InSlot
    <3> QED BY <1>1, <1>4, <2>0, <2>2, <3>1, Untouched
  <2> QED BY <2>1, <2>2
<1>6. Copying'
  <2>1. Shaped(copy) BY DEF WInv, Copying
  <2>2. copy' = [lock |-> copy.lock, stage |-> slot[c].stage,
                 accepted |-> copy.accepted, requests |-> copy.requests]
    BY <1>1, <2>1, FieldSet
  <2>3. Shaped(copy)' /\ copy'.stage = slot[c].stage BY <2>2 DEF Shaped
  <2> QED BY <1>1, <1>3, <1>4, <2>3 DEF Copying
<1>7. Lists' BY <1>1 DEF WInv, Lists
<1> QED BY <1>5, <1>6, <1>7 DEF WInv

(* What CopyRest reads: nobody else is in the slot, so stage and stamps    *)
(* belong together.                                                        *)
LEMMA CopyRead ==
  ASSUME WInv, CopyRest
  PROVE  /\ child \in Worker /\ Together(slot[child]) /\ Shaped(copy)'
         /\ copy'.stage = slot[child].stage
         /\ copy'.accepted = slot[child].accepted
         /\ copy'.requests = slot[child].requests
<1> USE MasterIsNoWorker
<1> DEFINE c == child
<1>1. pc[Master] = "copy" BY DEF CopyRest, MasterGoes
<1>2. InSlot(Master, c) /\ c \in Worker
  BY <1>1 DEF InSlot, WInv, LInv, Attended
<1>3. Together(slot[c])
  <2>1. pc[c] # "rest" BY <1>2 DEF WInv, LInv, SlotLocks, InSlot
  <2>2. Stamped(c) BY <1>2 DEF WInv, Fine
  <2> QED BY <1>2, <2>1, <2>2 DEF Stamped
<1> DEFINE m == [copy EXCEPT !.accepted = slot[c].accepted]
           n == [m EXCEPT !.requests = slot[c].requests]
<1>4. copy' = n BY Zenon DEF CopyRest
<1>5. Shaped(copy) /\ copy.stage = slot[c].stage BY <1>1 DEF WInv, Copying
<1>6. m = [lock |-> copy.lock, stage |-> copy.stage,
           accepted |-> slot[c].accepted, requests |-> copy.requests]
  BY <1>5, FieldSet
<1> HIDE DEF m
<1>7. /\ Shaped(m) /\ m.stage = copy.stage
      /\ m.accepted = slot[c].accepted
  BY <1>6 DEF Shaped
<1>8. n = [lock |-> m.lock, stage |-> m.stage, accepted |-> m.accepted,
           requests |-> slot[c].requests]
  BY <1>7, FieldSet
<1> HIDE DEF n
<1>9. /\ Shaped(n) /\ n.stage = slot[c].stage
      /\ n.accepted = slot[c].accepted /\ n.requests = slot[c].requests
  BY <1>5, <1>7, <1>8 DEF Shaped
<1> QED BY <1>2, <1>3, <1>4, <1>9 DEF Shaped

LEMMA CopyRestKeeps ==
  ASSUME WInv, LInv', CopyRest
  PROVE  WInv'
<1> USE MasterIsNoWorker
<1> DEFINE c   == child
           new == [slot[c] EXCEPT !.lock = 0]
<1>1. /\ pc[Master] = "copy" /\ pc' = [pc EXCEPT ![Master] = "judge"]
      /\ UNCHANGED <<todo, load, script, status, child>>
  BY DEF CopyRest, MasterGoes, workerVars, endVars
<1>2. slot' = [slot EXCEPT ![c] = new] BY Zenon DEF CopyRest, Unlocked
<1>3. c \in Worker /\ Shaped(slot[c])
  BY <1>1 DEF WInv, LInv, LockTypes, Attended
<1>4. /\ new.stage = slot[c].stage /\ new.accepted = slot[c].accepted
      /\ new.requests = slot[c].requests
  BY <1>3, FieldSet
<1> HIDE DEF new
<1>5. /\ slot'[c] = new /\ pc'[Master] = "judge"
      /\ \A v \in Worker : pc'[v] = pc[v]
      /\ \A v \in Worker \ {c} : slot'[v] = slot[v]
  BY <1>1, <1>2, <1>3 DEF WInv, LInv, LockTypes
<1>6. InSlot(Master, c) BY <1>1 DEF InSlot
<1>7. ASSUME NEW v \in Worker PROVE Fine(v)'
  <2>0. Fine(v) BY DEF WInv
  <2>1. CASE v = c BY <1>1, <1>4, <1>5, <1>6, <2>0, <2>1, LeftAlone
  <2>2. CASE v # c
    <3>1. ~InSlot(Master, v) /\ ~InSlot(Master, v)'
      BY <1>1, <1>5, <2>2 DEF InSlot
    <3> QED BY <1>1, <1>5, <2>0, <2>2, <3>1, Untouched
  <2> QED BY <2>1, <2>2
<1>8. Copying'
  <2>1. /\ Together(slot[c]) /\ Shaped(copy)'
        /\ copy'.stage = slot[c].stage
        /\ copy'.accepted = slot[c].accepted
        /\ copy'.requests = slot[c].requests
    BY CopyRead
  <2>2. Together(copy') BY <2>1 DEF Together
  <2> QED BY <1>5, <2>1, <2>2 DEF Copying
<1>9. Lists' BY <1>1 DEF WInv, Lists
<1> QED BY <1>7, <1>8, <1>9 DEF WInv

(* The rest of the steps are no worker's and at no slot.                   *)
LEMMA ElsewhereKeeps ==
  ASSUME WInv, LInv',
         UNCHANGED <<todo, load, script, slot>>,
         \A w \in Worker : /\ pc'[w] = pc[w]
                           /\ status'[w] = "dead" <=> status[w] = "dead",
         \/ /\ UNCHANGED <<child, copy>> /\ pc'[Master] = pc[Master]
         \/ /\ pc[Master] # "copy" /\ pc'[Master] \notin {"copy", "judge"}
            /\ copy' \in {copy, FreshSlot}
  PROVE  WInv'
<1> USE MasterIsNoWorker
<1>1. ASSUME NEW w \in Worker PROVE Fine(w)'
  <2>1. InSlot(Master, w)' <=> InSlot(Master, w) BY DEF InSlot
  <2> QED BY <2>1, LeftAlone DEF WInv
<1>2. Copying'
  <2>1. Shaped(FreshSlot) BY DEF Shaped, FreshSlot
  <2>2. Shaped(copy)' BY <2>1 DEF WInv, Copying, Shaped
  <2>3. pc'[Master] = "judge" => Together(copy') BY DEF WInv, Copying
  <2> QED BY <2>2, <2>3 DEF WInv, Copying
<1>3. Lists' BY DEF WInv, Lists
<1> QED BY <1>1, <1>2, <1>3 DEF WInv

LEMMA MasterKeeps ==
  ASSUME WInv, LInv',
         \/ Judge \/ Maintain \/ MasterCounted \/ Dump
         \/ \E c \in Worker : Sample(c) \/ Trace(c)
  PROVE  WInv'
<1> USE MasterIsNoWorker
<1>1. UNCHANGED <<todo, load, script, slot>>
  BY DEF Judge, Maintain, MasterCounted, Dump, Sample, Trace, workerVars
<1>2. \A w \in Worker : status'[w] = "dead" <=> status[w] = "dead"
  <2>1. CASE Dump
    <3>1. pc[Master] = "dump" /\ status' = [status EXCEPT ![child] = "up"]
      BY <2>1 DEF Dump, MasterGoes
    <3>2. child \in Worker /\ status[child] = "stopped"
      BY <3>1 DEF WInv, LInv, Attended
    <3> QED BY <3>1, <3>2 DEF WInv, LInv, LockTypes
  <2>2. CASE ~Dump
    BY <2>2 DEF Judge, Maintain, MasterCounted, Sample, Trace, endVars
  <2> QED BY <2>1, <2>2
<1>3. \/ UNCHANGED pc
      \/ \E place \in {"loop", "sample", "count", "dump"} :
           pc' = [pc EXCEPT ![Master] = place]
  BY DEF Judge, Maintain, MasterCounted, Dump, Sample, Trace, MasterGoes
<1>4. \A w \in Worker : pc'[w] = pc[w] BY <1>3 DEF WInv, LInv, LockTypes
<1>5. \/ UNCHANGED <<child, copy>> /\ UNCHANGED pc
      \/ pc[Master] # "copy" /\ copy' \in {copy, FreshSlot}
         /\ \E place \in {"loop", "sample", "count", "dump"} :
              pc' = [pc EXCEPT ![Master] = place]
  BY <1>3 DEF Judge, Maintain, MasterCounted, LeaveBoard, Dump, Sample, Trace,
              MasterGoes, masterVars
<1>6. \/ UNCHANGED <<child, copy>> /\ pc'[Master] = pc[Master]
      \/ /\ pc[Master] # "copy" /\ pc'[Master] \notin {"copy", "judge"}
         /\ copy' \in {copy, FreshSlot}
  BY <1>5 DEF WInv, LInv, LockTypes
<1> QED BY <1>1, <1>2, <1>4, <1>6, ElsewhereKeeps

LEMMA BoardKeeps ==
  ASSUME WInv, LInv', NEW p \in Process, EnterBoard(p) \/ StoreBoard(p)
  PROVE  WInv'
<1> USE MasterIsNoWorker
<1>1. /\ Runs(p)
      /\ \/ pc[p] = "count" /\ pc' = [pc EXCEPT ![p] = "store"]
         \/ pc[p] = "store" /\ pc' = [pc EXCEPT ![p] = "unlock"]
      /\ UNCHANGED <<todo, load, script, slot, status, child, copy>>
  BY DEF EnterBoard, StoreBoard, workerVars, masterVars, endVars
<1>2. CASE p = Master
  <2>1. /\ \A w \in Worker : pc'[w] = pc[w]
        /\ pc[Master] # "copy" /\ pc'[Master] \in {"store", "unlock"}
    BY <1>1, <1>2 DEF WInv, LInv, LockTypes
  <2> QED BY <1>1, <1>2, <2>1, ElsewhereKeeps
<1>3. CASE p # Master
  <2>1. p \in Worker /\ status[p] = "up" BY <1>1, <1>3 DEF Process
  <2> QED BY <1>1, <2>1, StaysAtHook
<1> QED BY <1>2, <1>3

LEMMA NextWInv == WInv /\ [Next]_vars => WInv'
<1> SUFFICES ASSUME WInv, [Next]_vars PROVE WInv' OBVIOUS
<1>0. LInv' BY NextLInv DEF WInv
<1>1. CASE UNCHANGED vars
  <2>1. UNCHANGED <<todo, load, script, slot, pc, status, child, copy>>
    BY <1>1 DEF vars, workerVars, masterVars, endVars
  <2> QED BY <1>0, <2>1, ElsewhereKeeps
<1>2. ASSUME NEW p \in Process, EnterBoard(p) \/ StoreBoard(p) PROVE WInv'
  BY <1>0, <1>2, BoardKeeps
<1>3. ASSUME NEW w \in Worker, Hook(w) \/ Callback(w) \/ Die(w) PROVE WInv'
  BY <1>0, <1>3, HookKeeps, CallbackKeeps, DieKeeps
<1>4. ASSUME NEW w \in Worker, Stop(w) PROVE WInv'
  <2>1. /\ status[w] = "up" /\ status' = [status EXCEPT ![w] = "stopped"]
        /\ UNCHANGED <<todo, load, script, slot, pc, child, copy>>
    BY <1>4 DEF Stop, workerVars, masterVars
  <2>2. \A v \in Worker : status'[v] = "dead" <=> status[v] = "dead"
    BY <2>1 DEF WInv, LInv, LockTypes
  <2> QED BY <1>0, <2>1, <2>2, ElsewhereKeeps
<1>5. ASSUME NEW c \in Worker, Look(c) \/ Bury(c) PROVE WInv'
  BY <1>0, <1>5, LookKeeps, BuryKeeps
<1>6. CASE CopyRest BY <1>0, <1>6, CopyRestKeeps
<1>7. CASE \/ Judge \/ Maintain \/ MasterCounted \/ Dump
           \/ \E c \in Worker : Sample(c) \/ Trace(c)
  BY <1>0, <1>7, MasterKeeps
<1> QED BY <1>1, <1>2, <1>3, <1>4, <1>5, <1>6, <1>7 DEF Next

(* A worker in its loop shows a stage that timeouts apply to only while a  *)
(* request of its is suspended, whichever way its other requests ended     *)
(* (fpm_request_end in close_request).                                     *)
THEOREM StagesMeanWork == Spec => []StageMeansWork
<1>1. WInv => StageMeansWork BY DEF WInv, Fine, Showing, StageMeansWork
<1> QED BY <1>1, InitWInv, NextWInv, PTL DEF Spec

-----------------------------------------------------------------------------
(* Types.  What is written on the board is what was read of it and an      *)
(* update, and the counts of a maintenance do not exceed the workers.      *)
BoardType == [idle : Nat, active : Nat, active_max : Nat, requests : Nat,
              slow_rq : Nat]
Stages == {"none", "accepting", "finished"} \cup Running

Countable(u) ==
  /\ u.requests \in Nat /\ u.slow_rq \in Nat
  /\ u.idle \in Int /\ u.active \in Int
  /\ u.action = "set" => u.idle \in Nat /\ u.active \in Nat

BoardTyped ==
  /\ board \in BoardType
  /\ \A p \in Process :
       /\ pc[p] = "store" => tmp[p] \in BoardType
       /\ pc[p] \in {"count", "store"} => Countable(upd[p])

SlotsTyped == \A w \in Worker : slot[w].stage \in Stages /\ slot[w].accepted \in Nat

SetsTyped == {script, doomed, tracer} \subseteq SUBSET Worker

Sampled ==
  pc[Master] = "sample" =>
    /\ seen.left \subseteq Worker /\ seen.idle \in Nat
    /\ seen.idle + Cardinality(seen.left) <= Cardinality(Worker)

TInv == WInv /\ CInv /\ BoardTyped /\ SlotsTyped /\ SetsTyped /\ Sampled

LEMMA TypesFollow == TInv => TypeOK
<1> SUFFICES ASSUME TInv PROVE TypeOK OBVIOUS
<1>1. \A w \in Worker : load[w] \in Nat /\ slot[w].requests \in Nat
  BY DEF TInv, WInv, Fine, Working, Entering
<1>2. load \in [Worker -> Nat] BY <1>1 DEF TInv, WInv, Lists
<1>3. slot \in [Worker -> [lock : {0, 1},
                          stage : {"none", "accepting", "finished"} \cup Running,
                          accepted : Nat, requests : Nat]]
  BY <1>1 DEF TInv, WInv, LInv, LockTypes, Shaped, SlotsTyped, Stages
<1>4. /\ lock \in {0, 1} /\ status \in [Worker -> {"up", "stopped", "dead"}]
      /\ child \in Process
  BY DEF TInv, WInv, LInv, LockTypes
<1>5. served \in Nat /\ forgotten \in Nat BY DEF TInv, CInv, Counting
<1> QED BY <1>2, <1>3, <1>4, <1>5
        DEF TypeOK, TInv, BoardTyped, BoardType, SetsTyped

LEMMA InitTInv == Init => TInv
<1> SUFFICES ASSUME Init PROVE TInv OBVIOUS
<1>1. BoardTyped BY MasterIsNoWorker DEF Init, BoardTyped, BoardType, Counters
<1>2. SlotsTyped BY DEF Init, SlotsTyped, FreshSlot, Stages
<1>3. SetsTyped BY DEF Init, SetsTyped
<1>4. Sampled BY MasterIsNoWorker DEF Init, Sampled
<1> QED BY <1>1, <1>2, <1>3, <1>4, InitWInv, InitCInv DEF TInv

(* The counters after an update are counts again.                          *)
LEMMA UpdatedIsTyped ==
  ASSUME NEW b \in BoardType, NEW u, Countable(u)
  PROVE  Updated(b, u) \in BoardType
<1> DEFINE i == IF u.action = "set" THEN u.idle ELSE AtLeastZero(b.idle + u.idle)
           a == IF u.action = "set" THEN u.active
                ELSE AtLeastZero(b.active + u.active)
<1>1. i \in Nat /\ a \in Nat BY DEF BoardType, Countable, AtLeastZero
<1>2. Larger(b.active_max, a) \in Nat BY <1>1 DEF BoardType, Larger
<1>3. b.requests + u.requests \in Nat /\ b.slow_rq + u.slow_rq \in Nat
  BY DEF BoardType, Countable
<1>4. Updated(b, u) = [idle |-> i, active |-> a,
                       active_max |-> Larger(b.active_max, a),
                       requests |-> b.requests + u.requests,
                       slow_rq |-> b.slow_rq + u.slow_rq]
  BY Zenon DEF Updated
<1> HIDE DEF i, a
<1> QED BY <1>1, <1>2, <1>3, <1>4 DEF BoardType

(* Most steps leave the board and what is to be counted there.             *)
LEMMA BoardUnchanged ==
  ASSUME BoardTyped, UNCHANGED <<board, tmp, upd>>,
         \A p \in Process : \/ pc'[p] = pc[p]
                            \/ pc'[p] \notin {"count", "store"}
  PROVE  BoardTyped'
BY DEF BoardTyped, Countable

LEMMA StoredIsTyped ==
  ASSUME WInv, BoardTyped, NEW p \in Process, StoreBoard(p)
  PROVE  BoardTyped'
<1>1. /\ pc[p] = "store" /\ pc' = [pc EXCEPT ![p] = "unlock"]
      /\ board' = Updated(tmp[p], upd[p])
      /\ upd' = [upd EXCEPT ![p] = NoUpdate]
      /\ tmp' = [tmp EXCEPT ![p] = Counters]
  BY DEF StoreBoard
<1>2. board' \in BoardType BY <1>1, UpdatedIsTyped DEF BoardTyped
<1>3. /\ pc'[p] = "unlock"
      /\ \A q \in Process : q # p => pc'[q] = pc[q]
  BY <1>1 DEF WInv, LInv, LockTypes
<1>4. \A q \in Process : q # p => pc'[q] # "store"
  BY <1>1, <1>3 DEF WInv, LInv, BoardLock, InBoard
<1>5. \A q \in Process : q # p => upd'[q] = upd[q]
  BY <1>1 DEF WInv, LInv, LockTypes
<1> QED BY <1>2, <1>3, <1>4, <1>5 DEF BoardTyped, Countable

(* A process has something new to count.                                   *)
LEMMA ToCountIsTyped ==
  ASSUME WInv, BoardTyped, NEW p \in Process, NEW u, Countable(u),
         upd' = [upd EXCEPT ![p] = u],
         pc' = [pc EXCEPT ![p] = "count"],
         UNCHANGED <<board, tmp>>
  PROVE  BoardTyped'
<1>1. /\ pc'[p] = "count" /\ upd'[p] = u
      /\ \A q \in Process : q # p => pc'[q] = pc[q] /\ upd'[q] = upd[q]
  BY DEF WInv, LInv, LockTypes
<1> QED BY <1>1 DEF BoardTyped, Countable

LEMMA NextBoardTyped ==
  ASSUME TInv, [Next]_vars
  PROVE  BoardTyped'
<1> USE MasterIsNoWorker
<1>0. WInv /\ BoardTyped /\ pc \in [Process -> Places]
  BY DEF TInv, WInv, LInv, LockTypes
<1>1. CASE UNCHANGED vars
  BY <1>0, <1>1, BoardUnchanged DEF vars, boardVars
<1>2. ASSUME NEW p \in Process, EnterBoard(p) PROVE BoardTyped'
  <2>1. /\ pc[p] = "count" /\ pc' = [pc EXCEPT ![p] = "store"]
        /\ tmp' = [tmp EXCEPT ![p] = board] /\ UNCHANGED <<board, upd>>
    BY <1>2 DEF EnterBoard
  <2>2. /\ \A q \in Process : q # p => pc'[q] = pc[q] /\ tmp'[q] = tmp[q]
        /\ tmp'[p] = board
    BY <1>0, <2>1 DEF TInv, CInv, Counting
  <2> QED BY <1>0, <2>1, <2>2 DEF BoardTyped, Countable
<1>3. ASSUME NEW w \in Worker, Callback(w) PROVE BoardTyped'
  <2>1. UNCHANGED <<board, tmp, upd>>
    BY <1>3 DEF Callback, Arrive, Resume, ClientGone, Yield, EndScript,
                FinishEarly, boardVars
  <2>2. \E place \in {"loop", "run", "status", "slot"} :
          pc' = [pc EXCEPT ![w] = place]
    <3>1. CASE Yield(w) BY <3>1 DEF Yield
    <3>2. CASE ~Yield(w)
      <4>1. \E hooks : pc' = [pc EXCEPT ![w] = Entry(hooks, w, script)]
        BY <1>3, <3>2 DEF Callback, Arrive, Resume, ClientGone, EndScript,
                          FinishEarly, Call
      <4> QED BY <4>1, EntryPlace
    <3> QED BY <3>1, <3>2
  <2> QED BY <1>0, <2>1, <2>2, BoardUnchanged
<1>4. ASSUME NEW w \in Worker, WriteRest(w) PROVE BoardTyped'
  <2>1. UNCHANGED <<board, tmp>> BY <1>4 DEF WriteRest, boardVars
  <2>2. CASE Head(todo[w]) \in {"accepting", "reading"}
    <3> DEFINE u == IF Head(todo[w]) = "reading" THEN Inc(-1, 1, 1, 0)
                    ELSE Inc(1, -1, 0, 0)
    <3>1. /\ upd' = [upd EXCEPT ![w] = u]
          /\ pc' = [pc EXCEPT ![w] = "count"]
      BY <1>4, <2>2, Zenon DEF WriteRest
    <3>2. Countable(u) BY DEF Countable, Inc
    <3> HIDE DEF u
    <3> QED BY <1>0, <2>1, <3>1, <3>2, ToCountIsTyped
  <2>3. CASE Head(todo[w]) \notin {"accepting", "reading"}
    <3>1. GoOn(w) /\ UNCHANGED upd BY <1>4, <2>3, Zenon DEF WriteRest
    <3> QED BY <1>0, <2>1, <3>1, GoOnPlace, BoardUnchanged
  <2> QED BY <2>2, <2>3
<1>5. ASSUME NEW w \in Worker, EnterSlot(w) \/ TryStatus(w) \/ CopyStatus(w)
      PROVE  BoardTyped'
  <2>1. UNCHANGED <<board, tmp, upd>>
    BY <1>5 DEF EnterSlot, TryStatus, CopyStatus, boardVars
  <2>2. \/ GoOn(w)
        \/ \E place \in {"rest", "status_copy"} : pc' = [pc EXCEPT ![w] = place]
    BY <1>5, Zenon DEF EnterSlot, TryStatus, CopyStatus
  <2> QED BY <1>0, <2>1, <2>2, GoOnPlace, BoardUnchanged
<1>6. ASSUME NEW w \in Worker, Counted(w) PROVE BoardTyped'
  <2>1. GoOn(w) /\ UNCHANGED <<board, tmp, upd>>
    BY <1>6 DEF Counted, LeaveBoard
  <2> QED BY <1>0, <2>1, GoOnPlace, BoardUnchanged
<1>7. CASE MasterCounted
  <2>1. /\ UNCHANGED <<board, tmp, upd>>
        /\ \E place \in {"loop", "dump"} : pc' = [pc EXCEPT ![Master] = place]
    BY <1>7 DEF MasterCounted, LeaveBoard
  <2> QED BY <1>0, <2>1, BoardUnchanged
<1>8. ASSUME NEW w \in Worker, Die(w) PROVE BoardTyped'
  <2>1. /\ pc' = [pc EXCEPT ![w] = "loop"]
        /\ upd' = [upd EXCEPT ![w] = NoUpdate]
        /\ tmp' = [tmp EXCEPT ![w] = Counters] /\ board' = board
    BY <1>8 DEF Die, boardVars
  <2>2. /\ pc'[w] = "loop"
        /\ \A q \in Process : q # w => /\ pc'[q] = pc[q] /\ tmp'[q] = tmp[q]
                                       /\ upd'[q] = upd[q]
    BY <1>0, <2>1 DEF TInv, CInv, LInv, LockTypes, Counting
  <2> QED BY <1>0, <2>1, <2>2 DEF BoardTyped, Countable
<1>9. ASSUME NEW c \in Worker, Trace(c) PROVE BoardTyped'
  <2>1. /\ pc' = [pc EXCEPT ![Master] = "count"]
        /\ upd' = [upd EXCEPT ![Master] = Inc(0, 0, 0, 1)]
        /\ UNCHANGED <<board, tmp>>
    BY <1>9 DEF Trace, MasterGoes, boardVars
  <2>2. Countable(Inc(0, 0, 0, 1)) BY DEF Countable, Inc
  <2> QED BY <1>0, <2>1, <2>2, ToCountIsTyped
<1>10. ASSUME NEW c \in Worker, Sample(c) PROVE BoardTyped'
  <2>1. UNCHANGED <<board, tmp>> BY <1>10 DEF Sample, boardVars
  <2>2. CASE seen.left = {c}
    <3> DEFINE i == IF slot[c].stage = "accepting" THEN seen.idle + 1
                    ELSE seen.idle
               u == [NoUpdate EXCEPT !.action = "set", !.idle = i,
                       !.active = Cardinality(Worker) - i]
    <3>1. /\ upd' = [upd EXCEPT ![Master] = u]
          /\ pc' = [pc EXCEPT ![Master] = "count"]
      BY <1>10, <2>2, Zenon DEF Sample
    <3>2. /\ seen.idle \in Nat
          /\ seen.idle + Cardinality({c}) <= Cardinality(Worker)
      BY <1>10, <2>2 DEF Sample, TInv, Sampled
    <3>3. Cardinality({c}) = 1 BY FS_Singleton
    <3>4. Cardinality(Worker) \in Nat BY BoardAssumption, FS_CardinalityType
    <3>5. i \in Nat /\ Cardinality(Worker) - i \in Nat BY <3>2, <3>3, <3>4
    <3> HIDE DEF i
    <3>6. Countable(u) BY <3>5 DEF Countable, NoUpdate
    <3> HIDE DEF u
    <3> QED BY <1>0, <2>1, <3>1, <3>6, ToCountIsTyped
  <2>3. CASE seen.left # {c}
    <3>1. UNCHANGED <<upd, pc>> BY <1>10, <2>3, Zenon DEF Sample
    <3> QED BY <1>0, <2>1, <3>1, BoardUnchanged
  <2> QED BY <2>2, <2>3
<1>11. CASE \/ CopyRest \/ Judge \/ Maintain \/ Dump
            \/ \E c \in Worker : Look(c) \/ Bury(c) \/ Stop(c)
  <2>1. UNCHANGED <<board, tmp, upd>>
    BY <1>11 DEF CopyRest, Judge, Maintain, Dump, Look, Bury, Stop, boardVars
  <2>2. \/ UNCHANGED pc
        \/ \E place \in {"loop", "copy", "judge", "sample"} :
             pc' = [pc EXCEPT ![Master] = place]
    BY <1>11 DEF CopyRest, Judge, Maintain, Dump, Look, Bury, Stop, MasterGoes
  <2> QED BY <1>0, <2>1, <2>2, BoardUnchanged
<1> QED
  BY <1>0, <1>1, <1>2, <1>3, <1>4, <1>5, <1>6, <1>7, <1>8, <1>9, <1>10, <1>11,
     StoredIsTyped
     DEF Next, Hook

LEMMA SlotWritten ==
  ASSUME WInv, SlotsTyped, NEW w \in Worker, NEW new,
         new.stage \in Stages, new.accepted \in Nat,
         slot' = [slot EXCEPT ![w] = new]
  PROVE  SlotsTyped'
<1>1. slot'[w] = new /\ \A v \in Worker : v # w => slot'[v] = slot[v]
  BY DEF WInv, LInv, LockTypes
<1> QED BY <1>1 DEF SlotsTyped

LEMMA NextSlotsTyped ==
  ASSUME TInv, [Next]_vars
  PROVE  SlotsTyped'
<1> USE MasterIsNoWorker
<1>0. /\ WInv /\ SlotsTyped
      /\ \A w \in Worker : Shaped(slot[w])
  BY DEF TInv, WInv, LInv, LockTypes
<1>1. ASSUME NEW w \in Worker, EnterSlot(w) PROVE SlotsTyped'
  <2> DEFINE a   == IF Head(todo[w]) = "reading" THEN slot[w].requests + 1
                    ELSE slot[w].accepted
             new == Entered(slot[w], StageOf(Head(todo[w])), a)
  <2>1. slot' = [slot EXCEPT ![w] = new] BY <1>1, Zenon DEF EnterSlot, Entered
  <2>2. new.stage = StageOf(Head(todo[w])) /\ new.accepted = a
    BY <1>0, SlotEntered
  <2> HIDE DEF new
  <2>3. pc[w] = "slot" /\ status[w] = "up" BY <1>1 DEF EnterSlot
  <2>4. /\ todo[w] \in Agenda /\ todo[w] # <<>> /\ slot[w].requests \in Nat
        /\ Head(todo[w]) # "status"
    BY <1>0, <2>3, AtWork DEF AtHook
  <2>5. new.stage \in Stages
    BY <2>2, <2>4, Onward DEF StageOf, Stages, Running
  <2>6. new.accepted \in Nat BY <1>0, <2>2, <2>4 DEF SlotsTyped
  <2> QED BY <1>0, <2>1, <2>5, <2>6, SlotWritten
<1>2. ASSUME NEW w \in Worker, WriteRest(w) PROVE SlotsTyped'
  <2> DEFINE new == Left(slot[w], IF Head(todo[w]) = "reading"
                                  THEN slot[w].requests + 1
                                  ELSE slot[w].requests)
  <2>1. slot' = [slot EXCEPT ![w] = new]
    BY <1>2, Zenon DEF WriteRest, Unlocked, Left
  <2>2. new.stage = slot[w].stage /\ new.accepted = slot[w].accepted
    BY <1>0, SlotLeft
  <2> HIDE DEF new
  <2> QED BY <1>0, <2>1, <2>2, SlotWritten DEF SlotsTyped
<1>3. ASSUME NEW c \in Worker, NEW l, slot' = [slot EXCEPT ![c].lock = l]
      PROVE  SlotsTyped'
  <2> DEFINE new == [slot[c] EXCEPT !.lock = l]
  <2>1. slot' = [slot EXCEPT ![c] = new] BY <1>3, Zenon
  <2>2. new.stage = slot[c].stage /\ new.accepted = slot[c].accepted
    BY <1>0, FieldSet
  <2> HIDE DEF new
  <2> QED BY <1>0, <2>1, <2>2, SlotWritten DEF SlotsTyped
<1>4. ASSUME NEW c \in Worker, Look(c) PROVE SlotsTyped'
  BY <1>3, <1>4 DEF Look
<1>5. CASE CopyRest
  <2>1. child \in Worker
    BY <1>0, <1>5 DEF CopyRest, MasterGoes, WInv, LInv, Attended
  <2> QED BY <1>3, <1>5, <2>1 DEF CopyRest
<1>6. ASSUME NEW c \in Worker, Bury(c) PROVE SlotsTyped'
  <2>1. slot' = [slot EXCEPT ![c] = FreshSlot] BY <1>6, Zenon DEF Bury, Freed
  <2>2. FreshSlot.stage \in Stages /\ FreshSlot.accepted \in Nat
    BY DEF FreshSlot, Stages
  <2> QED BY <1>0, <2>1, <2>2, SlotWritten
<1>7. ASSUME UNCHANGED slot PROVE SlotsTyped' BY <1>0, <1>7 DEF SlotsTyped
<1>8. CASE UNCHANGED vars BY <1>7, <1>8 DEF vars
<1>9. ASSUME NEW p \in Process, EnterBoard(p) \/ StoreBoard(p)
      PROVE  SlotsTyped'
  BY <1>7, <1>9 DEF EnterBoard, StoreBoard
<1>10. ASSUME NEW w \in Worker,
              \/ Counted(w) \/ TryStatus(w) \/ CopyStatus(w) \/ Callback(w)
              \/ Die(w) \/ Stop(w) \/ Sample(w) \/ Trace(w)
       PROVE  SlotsTyped'
  BY <1>7, <1>10 DEF Counted, TryStatus, CopyStatus, Callback, Arrive, Resume,
       ClientGone, Yield, EndScript, FinishEarly, Die, Stop, Sample, Trace
<1>11. CASE Judge \/ Maintain \/ MasterCounted \/ Dump
  BY <1>7, <1>11 DEF Judge, Maintain, MasterCounted, Dump
<1> QED BY <1>1, <1>2, <1>4, <1>5, <1>6, <1>8, <1>9, <1>10, <1>11
        DEF Next, Hook

LEMMA NextSetsTyped ==
  ASSUME TInv, [Next]_vars
  PROVE  SetsTyped'
<1>0. script \subseteq Worker /\ doomed \subseteq Worker /\ tracer \subseteq Worker
  BY DEF TInv, SetsTyped
<1>1. CASE UNCHANGED vars
  BY <1>0, <1>1 DEF vars, workerVars, masterVars, endVars, SetsTyped
<1>2. ASSUME NEW p \in Process, EnterBoard(p) \/ StoreBoard(p)
      PROVE  SetsTyped'
  BY <1>0, <1>2 DEF EnterBoard, StoreBoard, workerVars, masterVars, endVars,
       SetsTyped
<1>3. ASSUME NEW w \in Worker, Hook(w) PROVE SetsTyped'
  <2>1. UNCHANGED <<tracer, doomed>>
    BY <1>3 DEF Hook, EnterSlot, WriteRest, Counted, TryStatus, CopyStatus,
                masterVars, endVars
  <2>2. UNCHANGED script \/ GoOn(w)
    BY <1>3, Zenon DEF Hook, EnterSlot, WriteRest, Counted, TryStatus,
                       CopyStatus, workerVars
  <2>3. script' \subseteq Worker BY <1>0, <2>2 DEF GoOn
  <2> QED BY <1>0, <2>1, <2>3 DEF SetsTyped
<1>4. ASSUME NEW w \in Worker, Callback(w) PROVE SetsTyped'
  BY <1>0, <1>4 DEF Callback, Arrive, Resume, ClientGone, Yield, EndScript,
       FinishEarly, masterVars, endVars, SetsTyped
<1>5. ASSUME NEW w \in Worker, Die(w) \/ Stop(w) PROVE SetsTyped'
  BY <1>0, <1>5 DEF Die, Stop, workerVars, masterVars, SetsTyped
<1>6. ASSUME NEW c \in Worker, Look(c) \/ Sample(c) \/ Trace(c) \/ Bury(c)
      PROVE  SetsTyped'
  BY <1>0, <1>6 DEF Look, Sample, Trace, Bury, workerVars, endVars, SetsTyped
<1>7. CASE Judge
  <2>1. child \in Worker
    BY <1>7 DEF Judge, MasterGoes, TInv, WInv, LInv, Attended
  <2> QED BY <1>0, <1>7, <2>1 DEF Judge, workerVars, SetsTyped
<1>8. CASE CopyRest \/ Maintain \/ MasterCounted \/ Dump
  BY <1>0, <1>8 DEF CopyRest, Maintain, MasterCounted, Dump, workerVars,
       masterVars, endVars, SetsTyped
<1> QED BY <1>1, <1>2, <1>3, <1>4, <1>5, <1>6, <1>7, <1>8 DEF Next

LEMMA NextSampled ==
  ASSUME TInv, [Next]_vars
  PROVE  Sampled'
<1> USE MasterIsNoWorker
<1>0. pc \in [Process -> Places] BY DEF TInv, WInv, LInv, LockTypes
<1>1. ASSUME UNCHANGED seen, pc'[Master] = "sample" => pc[Master] = "sample"
      PROVE  Sampled'
  BY <1>1 DEF TInv, Sampled
<1>2. CASE Maintain
  <2>1. seen' = [idle |-> 0, left |-> Worker] BY <1>2 DEF Maintain
  <2>2. Cardinality(Worker) \in Nat BY BoardAssumption, FS_CardinalityType
  <2> QED BY <2>1, <2>2 DEF Sampled
<1>3. ASSUME NEW c \in Worker, Sample(c) PROVE Sampled'
  <2>1. pc[Master] = "sample" /\ c \in seen.left BY <1>3 DEF Sample
  <2>2. /\ seen.left \subseteq Worker /\ seen.idle \in Nat
        /\ seen.idle + Cardinality(seen.left) <= Cardinality(Worker)
    BY <2>1 DEF TInv, Sampled
  <2>3. CASE seen.left = {c}
    <3>1. pc' = [pc EXCEPT ![Master] = "count"] BY <1>3, <2>3, Zenon DEF Sample
    <3>2. pc'[Master] # "sample" BY <1>0, <3>1
    <3> QED BY <3>2 DEF Sampled
  <2>4. CASE seen.left # {c}
    <3> DEFINE i == IF slot[c].stage = "accepting" THEN seen.idle + 1
                    ELSE seen.idle
               l == seen.left \ {c}
    <3>1. seen' = [idle |-> i, left |-> l] BY <1>3, <2>4, Zenon DEF Sample
    <3>2. IsFiniteSet(seen.left) BY <2>2, BoardAssumption, FS_Subset
    <3>3. Cardinality(l) = Cardinality(seen.left) - 1
      BY <2>1, <3>2, FS_RemoveElement
    <3>4. Cardinality(seen.left) \in Nat /\ Cardinality(Worker) \in Nat
      BY <3>2, BoardAssumption, FS_CardinalityType
    <3>5. i \in Nat /\ i + Cardinality(l) <= Cardinality(Worker)
      BY <2>2, <3>3, <3>4
    <3>6. l \subseteq Worker BY <2>2
    <3> HIDE DEF i, l
    <3> QED BY <3>1, <3>5, <3>6 DEF Sampled
  <2> QED BY <2>3, <2>4
<1>4. ASSUME NEW w \in Worker, Hook(w) \/ Callback(w) \/ Die(w) \/ Stop(w)
      PROVE  Sampled'
  <2>1. UNCHANGED seen
    BY <1>4 DEF Hook, EnterSlot, WriteRest, Counted, TryStatus, CopyStatus,
         Callback, Arrive, Resume, ClientGone, Yield, EndScript, FinishEarly,
         Die, Stop, masterVars
  <2>2. UNCHANGED pc \/ \E place : pc' = [pc EXCEPT ![w] = place]
    BY <1>4, Zenon DEF Hook, EnterSlot, WriteRest, Counted, TryStatus,
         CopyStatus, Callback, Arrive, Resume, ClientGone, Yield, EndScript,
         FinishEarly, Die, Stop, Call, GoOn
  <2>3. pc'[Master] = pc[Master] BY <1>0, <2>2
  <2> QED BY <1>1, <2>1, <2>3
<1>5. ASSUME NEW p \in Process, EnterBoard(p) \/ StoreBoard(p)
      PROVE  Sampled'
  <2>1. /\ UNCHANGED seen
        /\ \E place \in {"store", "unlock"} : pc' = [pc EXCEPT ![p] = place]
    BY <1>5 DEF EnterBoard, StoreBoard, masterVars
  <2>2. pc'[Master] = "sample" => pc[Master] = "sample" BY <1>0, <2>1
  <2> QED BY <1>1, <2>1, <2>2
<1>6. CASE \/ CopyRest \/ Judge \/ MasterCounted \/ Dump \/ UNCHANGED vars
           \/ \E c \in Worker : Look(c) \/ Trace(c) \/ Bury(c)
  <2>1. UNCHANGED seen
    BY <1>6 DEF CopyRest, Judge, MasterCounted, Dump, Look, Trace, Bury, vars,
                masterVars
  <2>2. \/ UNCHANGED pc
        \/ \E place \in {"loop", "copy", "judge", "count", "dump"} :
             pc' = [pc EXCEPT ![Master] = place]
    BY <1>6 DEF CopyRest, Judge, MasterCounted, Dump, Look, Trace, Bury, vars,
                MasterGoes
  <2>3. pc'[Master] = "sample" => pc[Master] = "sample" BY <1>0, <2>2
  <2> QED BY <1>1, <2>1, <2>3
<1> QED BY <1>2, <1>3, <1>4, <1>5, <1>6 DEF Next

LEMMA NextTInv == TInv /\ [Next]_vars => TInv'
<1> SUFFICES ASSUME TInv, [Next]_vars PROVE TInv' OBVIOUS
<1>1. WInv' /\ CInv' BY NextWInv, NextCInv DEF TInv
<1> QED BY <1>1, NextBoardTyped, NextSlotsTyped, NextSetsTyped, NextSampled
        DEF TInv

(* Every variable keeps its type: no counter of the board falls below zero,*)
(* the master's SET included, which subtracts the idle from all workers    *)
(* (fpm_scoreboard_update, fpm_pctl_perform_idle_server_maintenance).      *)
THEOREM TypeCorrect == Spec => []TypeOK
<1> QED BY NextTInv, InitTInv, TypesFollow, PTL DEF Spec

-----------------------------------------------------------------------------
(* Snapshots.  A slot that is not being written says what the last hook    *)
(* that was through with it left there.                                    *)
SlotsWhole ==
  /\ whole = [w \in Worker |-> whole[w]]
  /\ \A w \in Worker :
       slot[w].lock = 0 \/ InSlot(Master, w) => Shown(slot[w]) = whole[w]

HInv == TInv /\ SlotsWhole

(* Most steps are at no slot, and leave the master where it is or take it  *)
(* from one place outside the slots to another.                            *)
Aside ==
  /\ UNCHANGED <<slot, whole, orders, slow_logged>>
  /\ \/ UNCHANGED <<child, copy>> /\ pc'[Master] = pc[Master]
     \/ {pc[Master], pc'[Master]} \cap {"copy", "judge"} = {}

LEMMA WorkersAside ==
  ASSUME LInv, NEW w \in Worker, Hook(w) \/ Callback(w) \/ Die(w) \/ Stop(w)
  PROVE  /\ UNCHANGED <<child, copy, slow_logged, orders>>
         /\ pc'[Master] = pc[Master]
         /\ EnterSlot(w) \/ WriteRest(w) \/ UNCHANGED slot
         /\ WriteRest(w) \/ UNCHANGED whole
<1> USE MasterIsNoWorker
<1>1. UNCHANGED pc \/ \E place : pc' = [pc EXCEPT ![w] = place]
  BY Zenon DEF Hook, EnterSlot, WriteRest, Counted, TryStatus, CopyStatus,
       Callback, Arrive, Resume, ClientGone, Yield, EndScript, FinishEarly,
       Die, Stop, Call, GoOn
<1>2. UNCHANGED <<child, copy, slow_logged, orders>>
  BY DEF Hook, EnterSlot, WriteRest, Counted, TryStatus, CopyStatus,
       Callback, Arrive, Resume, ClientGone, Yield, EndScript, FinishEarly,
       Die, Stop, masterVars, pastVars
<1>3. /\ EnterSlot(w) \/ WriteRest(w) \/ UNCHANGED slot
      /\ WriteRest(w) \/ UNCHANGED whole
  BY DEF Hook, EnterSlot, Counted, TryStatus, CopyStatus, Callback, Arrive,
       Resume, ClientGone, Yield, EndScript, FinishEarly, Die, Stop, pastVars
<1> QED BY <1>1, <1>2, <1>3 DEF LInv, LockTypes

LEMMA AtSlotOrAside ==
  ASSUME LInv, [Next]_vars
  PROVE  \/ \E w \in Worker : /\ EnterSlot(w) \/ WriteRest(w)
                              /\ UNCHANGED <<child, copy, slow_logged, orders>>
                              /\ pc'[Master] = pc[Master]
         \/ \E c \in Worker : Look(c) \/ Bury(c)
         \/ CopyRest \/ Judge \/ Aside
<1> USE MasterIsNoWorker
<1>0. pc \in [Process -> Places] BY DEF LInv, LockTypes
<1>1. CASE UNCHANGED vars
  BY <1>1 DEF vars, masterVars, pastVars, Aside
<1>2. ASSUME NEW p \in Process, EnterBoard(p) \/ StoreBoard(p) PROVE Aside
  <2>1. /\ UNCHANGED <<slot, whole, orders, slow_logged, child, copy>>
        /\ pc[p] \in {"count", "store"}
        /\ \E place \in {"store", "unlock"} : pc' = [pc EXCEPT ![p] = place]
    BY <1>2 DEF EnterBoard, StoreBoard, masterVars, pastVars
  <2> QED BY <1>0, <2>1 DEF Aside
<1>3. ASSUME NEW w \in Worker, Hook(w) \/ Callback(w) \/ Die(w) \/ Stop(w)
      PROVE  \/ /\ EnterSlot(w) \/ WriteRest(w)
                /\ UNCHANGED <<child, copy, slow_logged, orders>>
                /\ pc'[Master] = pc[Master]
             \/ Aside
  BY <1>3, WorkersAside DEF Aside
<1>4. ASSUME NEW c \in Worker, Sample(c) \/ Trace(c) PROVE Aside
  <2>1. /\ UNCHANGED <<slot, whole, orders, slow_logged>>
        /\ pc[Master] \in {"loop", "sample"}
        /\ \/ UNCHANGED pc
           \/ \E place \in {"sample", "count"} : pc' = [pc EXCEPT ![Master] = place]
    BY <1>4 DEF Sample, Trace, MasterGoes, pastVars
  <2> QED BY <1>0, <2>1 DEF Aside
<1>5. CASE Maintain \/ MasterCounted \/ Dump
  <2>1. /\ UNCHANGED <<slot, whole, orders, slow_logged>>
        /\ pc[Master] \in {"loop", "unlock", "dump"}
        /\ \E place \in {"sample", "loop", "dump"} :
             pc' = [pc EXCEPT ![Master] = place]
    BY <1>5 DEF Maintain, MasterCounted, LeaveBoard, Dump, MasterGoes, pastVars,
                masterVars
  <2> QED BY <1>0, <2>1 DEF Aside
<1> QED BY <1>1, <1>2, <1>3, <1>4, <1>5 DEF Next

LEMMA InitHInv == Init => HInv
<1> SUFFICES ASSUME Init PROVE HInv OBVIOUS
<1>1. SlotsWhole BY MasterIsNoWorker DEF SlotsWhole, Init, Shown, FreshSlot
<1> QED BY <1>1, InitTInv DEF HInv

(* One slot is written at most, and the master enters no other.            *)
LEMMA SlotsWholeAfter ==
  ASSUME HInv, NEW c \in Worker,
         \E new : slot' = [slot EXCEPT ![c] = new],
         UNCHANGED whole \/ \E m : whole' = [whole EXCEPT ![c] = m],
         slot'[c].lock = 0 \/ InSlot(Master, c)'
           => whole'[c] = [stage |-> slot'[c].stage,
                           accepted |-> slot'[c].accepted,
                           requests |-> slot'[c].requests],
         \A w \in Worker : w # c => (InSlot(Master, w)' => InSlot(Master, w))
  PROVE  SlotsWhole'
<1>1. \A w \in Worker : w # c => slot'[w] = slot[w] /\ whole'[w] = whole[w]
  BY DEF HInv, TInv, WInv, LInv, LockTypes, SlotsWhole
<1>2. whole' = [w \in Worker |-> whole'[w]] BY DEF HInv, SlotsWhole
<1>3. slot'[c].lock = 0 \/ InSlot(Master, c)' => Shown(slot'[c]) = whole'[c]
  BY DEF Shown
<1>4. \A w \in Worker : w # c => Shown(slot'[w]) = Shown(slot[w])
  BY <1>1 DEF Shown
<1>5. \A w \in Worker : Shown(slot[w])' = Shown(slot'[w]) BY DEF Shown
<1> QED BY <1>1, <1>2, <1>3, <1>4, <1>5 DEF HInv, SlotsWhole

LEMMA NextHInv == HInv /\ [Next]_vars => HInv'
<1> SUFFICES ASSUME HInv, [Next]_vars PROVE HInv' OBVIOUS
<1> USE MasterIsNoWorker
<1>0. LInv /\ LInv' /\ TInv' /\ \A w \in Worker : Shaped(slot[w])
  BY NextTInv DEF HInv, TInv, WInv, LInv, LockTypes
<1> SUFFICES SlotsWhole' BY <1>0 DEF HInv
<1>1. ASSUME NEW w \in Worker, EnterSlot(w), UNCHANGED child,
             pc'[Master] = pc[Master]
      PROVE  SlotsWhole'
  <2> DEFINE a   == IF Head(todo[w]) = "reading" THEN slot[w].requests + 1
                    ELSE slot[w].accepted
             new == Entered(slot[w], StageOf(Head(todo[w])), a)
  <2>1. slot' = [slot EXCEPT ![w] = new] BY <1>1, Zenon DEF EnterSlot, Entered
  <2>2. new.lock = 1 BY <1>0, SlotEntered
  <2>3. /\ UNCHANGED whole /\ pc[w] = "slot"
        /\ pc' = [pc EXCEPT ![w] = "rest"]
    BY <1>1 DEF EnterSlot, pastVars
  <2>4. InSlot(w, w)' BY <1>0, <2>3 DEF InSlot, LInv, LockTypes
  <2>5. ~InSlot(Master, w)' BY <1>0, <2>4 DEF LInv, SlotLocks
  <2>6. \A v \in Worker : InSlot(Master, v)' => InSlot(Master, v)
    BY <1>1 DEF InSlot
  <2> HIDE DEF new
  <2>7. slot'[w].lock # 0 BY <1>0, <2>1, <2>2 DEF LInv, LockTypes
  <2> QED BY <2>1, <2>3, <2>5, <2>6, <2>7, SlotsWholeAfter
<1>2. ASSUME NEW w \in Worker, WriteRest(w), UNCHANGED child,
             pc'[Master] = pc[Master]
      PROVE  SlotsWhole'
  <2> DEFINE new == Left(slot[w], IF Head(todo[w]) = "reading"
                                  THEN slot[w].requests + 1
                                  ELSE slot[w].requests)
  <2>1. /\ slot' = [slot EXCEPT ![w] = new]
        /\ whole' = [whole EXCEPT ![w] = Shown(slot'[w])]
    BY <1>2, Zenon DEF WriteRest, Unlocked, Left
  <2>2. whole'[w] = [stage |-> slot'[w].stage, accepted |-> slot'[w].accepted,
                     requests |-> slot'[w].requests]
    BY <2>1 DEF HInv, SlotsWhole, Shown
  <2> HIDE DEF new
  <2>3. \A v \in Worker : InSlot(Master, v)' => InSlot(Master, v)
    BY <1>2 DEF InSlot
  <2> QED BY <2>1, <2>2, <2>3, SlotsWholeAfter
<1>3. ASSUME NEW c \in Worker, Look(c) PROVE SlotsWhole'
  <2> DEFINE new == [slot[c] EXCEPT !.lock = 1]
  <2>1. slot' = [slot EXCEPT ![c] = new] BY <1>3, Zenon DEF Look
  <2>2. /\ new.stage = slot[c].stage /\ new.accepted = slot[c].accepted
        /\ new.requests = slot[c].requests
    BY <1>0, FieldSet
  <2> HIDE DEF new
  <2>3. /\ UNCHANGED whole /\ child' = c /\ slot[c].lock = 0
        /\ pc[Master] = "loop"
    BY <1>3 DEF Look, MasterGoes, Tried, pastVars
  <2>4. slot'[c] = new BY <1>0, <2>1 DEF LInv, LockTypes
  <2>5. whole'[c] = [stage |-> slot'[c].stage, accepted |-> slot'[c].accepted,
                     requests |-> slot'[c].requests]
    BY <2>2, <2>3, <2>4 DEF HInv, SlotsWhole, Shown
  <2>6. \A w \in Worker : w # c => ~InSlot(Master, w)' BY <2>3 DEF InSlot
  <2> QED BY <2>1, <2>3, <2>5, <2>6, SlotsWholeAfter
<1>4. ASSUME NEW c \in Worker, c = child, CopyRest PROVE SlotsWhole'
  <2> DEFINE new == [slot[c] EXCEPT !.lock = 0]
  <2>1. slot' = [slot EXCEPT ![c] = new] BY <1>4, Zenon DEF CopyRest, Unlocked
  <2>2. /\ UNCHANGED whole /\ pc[Master] = "copy"
        /\ pc' = [pc EXCEPT ![Master] = "judge"]
    BY <1>4 DEF CopyRest, MasterGoes, pastVars
  <2>3. InSlot(Master, c) BY <1>4, <2>2 DEF InSlot
  <2>4. /\ new.stage = slot[c].stage /\ new.accepted = slot[c].accepted
        /\ new.requests = slot[c].requests
    BY <1>0, FieldSet
  <2> HIDE DEF new
  <2>5. slot'[c] = new BY <1>0, <2>1 DEF LInv, LockTypes
  <2>6. whole'[c] = [stage |-> slot'[c].stage, accepted |-> slot'[c].accepted,
                     requests |-> slot'[c].requests]
    BY <2>2, <2>3, <2>4, <2>5 DEF HInv, SlotsWhole, Shown
  <2>7. \A w \in Worker : ~InSlot(Master, w)'
    BY <1>0, <2>2 DEF InSlot, LInv, LockTypes
  <2> QED BY <2>1, <2>2, <2>6, <2>7, SlotsWholeAfter
<1>5. ASSUME NEW c \in Worker, Bury(c) PROVE SlotsWhole'
  <2>1. /\ slot' = [slot EXCEPT ![c] = FreshSlot]
        /\ whole' = [whole EXCEPT ![c] = Shown(slot'[c])]
    BY <1>5, Zenon DEF Bury, Freed
  <2>2. whole'[c] = [stage |-> slot'[c].stage, accepted |-> slot'[c].accepted,
                     requests |-> slot'[c].requests]
    BY <2>1 DEF HInv, SlotsWhole, Shown
  <2>3. UNCHANGED <<pc, child>> BY <1>5 DEF Bury
  <2>4. \A w \in Worker : InSlot(Master, w)' => InSlot(Master, w)
    BY <2>3 DEF InSlot
  <2> QED BY <2>1, <2>2, <2>4, SlotsWholeAfter
<1>6. ASSUME UNCHANGED <<slot, whole>>,
             pc'[Master] = "copy" => pc[Master] = "copy" /\ child' = child
      PROVE  SlotsWhole'
  <2>1. \A w \in Worker : InSlot(Master, w)' => InSlot(Master, w)
    BY <1>6 DEF InSlot
  <2>2. \A w \in Worker : Shown(slot[w])' = Shown(slot[w]) BY <1>6 DEF Shown
  <2> QED BY <1>6, <2>1, <2>2 DEF HInv, SlotsWhole
<1>7. CASE Judge
  <2>1. UNCHANGED <<slot, whole>> /\ pc' = [pc EXCEPT ![Master] = "loop"]
    BY <1>7 DEF Judge, MasterGoes
  <2>2. pc'[Master] = "loop" BY <1>0, <2>1 DEF LInv, LockTypes
  <2> QED BY <1>6, <2>1, <2>2
<1>8. CASE Aside BY <1>6, <1>8 DEF Aside
<1>9. CASE CopyRest
  <2>1. child \in Worker BY <1>0, <1>9 DEF CopyRest, MasterGoes, LInv, Attended
  <2> QED BY <1>4, <1>9, <2>1
<1> QED BY <1>0, <1>1, <1>2, <1>3, <1>5, <1>7, <1>8, <1>9, AtSlotOrAside

(* What the master judges a child by, to kill or to trace it, is what one  *)
(* hook of the child left in its slot, stage and time stamps together,     *)
(* whatever the child does while it is copied, dies or is stopped at       *)
(* (fpm_request_check_timed_out).                                          *)
THEOREM SnapshotsAreWhole == Spec => SnapshotWhole
<1>1. ASSUME HInv, [Next]_vars, pc[Master] = "copy", pc'[Master] = "judge"
      PROVE  Shown(copy') = whole[child]
  <2> USE MasterIsNoWorker
  <2>1. WInv /\ LInv BY <1>1 DEF HInv, TInv, WInv
  <2>2. ~Aside BY <1>1 DEF Aside
  <2>3. ~Judge /\ \A c \in Worker : ~Look(c) /\ ~Bury(c)
    BY <1>1 DEF Judge, Look, Bury, MasterGoes
  <2>4. CopyRest BY <1>1, <2>1, <2>2, <2>3, AtSlotOrAside
  <2>5. /\ child \in Worker /\ copy'.stage = slot[child].stage
        /\ copy'.accepted = slot[child].accepted
        /\ copy'.requests = slot[child].requests
    BY <2>1, <2>4, CopyRead
  <2>6. Shown(slot[child]) = whole[child]
    BY <1>1, <2>5 DEF HInv, SlotsWhole, InSlot
  <2> QED BY <2>5, <2>6 DEF Shown
<1>2. HInv /\ [Next]_vars
        => [pc[Master] = "copy" /\ pc'[Master] = "judge"
              => Shown(copy') = whole[child]]_vars
  BY <1>1
<1> QED BY <1>2, InitHInv, NextHInv, PTL DEF Spec, SnapshotWhole

-----------------------------------------------------------------------------
(* Tracing.  A child was stopped for stamps its slot has shown, one later  *)
(* than the other, and the last of them is remembered for as long as the   *)
(* slot shows it.                                                          *)
Behind(w) ==
  /\ orders[w] \in Seq(Nat)
  /\ \A i, j \in DOMAIN orders[w] : i < j => orders[w][i] < orders[w][j]
  /\ \A i \in DOMAIN orders[w] :
       /\ orders[w][i] <= slot[w].accepted
       /\ orders[w][i] = slot[w].accepted => slow_logged[w] = slot[w].accepted

(* The copy the master judges a child by is no earlier than these either.  *)
Judged ==
  pc[Master] = "judge" =>
    /\ copy.accepted \in Nat /\ copy.accepted <= slot[child].accepted
    /\ \A i \in DOMAIN orders[child] :
         /\ orders[child][i] <= copy.accepted
         /\ orders[child][i] = copy.accepted => slow_logged[child] = copy.accepted

RInv ==
  /\ TInv
  /\ slow_logged = [w \in Worker |-> slow_logged[w]]
  /\ orders = [w \in Worker |-> orders[w]]
  /\ \A w \in Worker : Behind(w)
  /\ Judged

LEMMA InitRInv == Init => RInv
<1> SUFFICES ASSUME Init PROVE RInv OBVIOUS
<1> USE MasterIsNoWorker
<1>1. \A w \in Worker : orders[w] = <<>> BY DEF Init
<1>2. <<>> \in Seq(Nat) /\ \A i : i \notin DOMAIN <<>> OBVIOUS
<1>5. \A w \in Worker : Behind(w) BY <1>1, <1>2, Zenon DEF Behind
<1>3. Judged BY DEF Init, Judged
<1>4. /\ slow_logged = [w \in Worker |-> slow_logged[w]]
      /\ orders = [w \in Worker |-> orders[w]]
  BY DEF Init
<1> QED BY <1>3, <1>4, <1>5, InitTInv DEF RInv

(* While the master judges nobody else, the stamps may only grow.          *)
LEMMA StampsGrow ==
  ASSUME RInv, TInv', UNCHANGED <<orders, slow_logged>>,
         \A w \in Worker : slot[w].accepted <= slot'[w].accepted,
         pc'[Master] = "judge" =>
           pc[Master] = "judge" /\ UNCHANGED <<child, copy>>
  PROVE  RInv'
<1>1. \A w \in Worker : slot[w].accepted \in Nat /\ slot'[w].accepted \in Nat
  BY DEF RInv, TInv, SlotsTyped
<1>2. ASSUME NEW w \in Worker PROVE Behind(w)'
  <2>1. Behind(w) BY DEF RInv
  <2>2. \A i \in DOMAIN orders[w] : orders[w][i] \in Nat BY <2>1 DEF Behind
  <2> QED BY <1>1, <2>1, <2>2 DEF Behind
<1>3. Judged'
  <2> SUFFICES ASSUME pc'[Master] = "judge" PROVE Judged' BY DEF Judged
  <2>1. /\ pc[Master] = "judge" /\ UNCHANGED <<child, copy>> /\ Judged
        /\ child \in Worker
    BY DEF RInv, TInv, WInv, LInv, Attended
  <2> QED BY <1>1, <2>1 DEF Judged
<1> QED BY <1>2, <1>3 DEF RInv

(* The stamp a hook writes is later than the one it replaces.              *)
LEMMA EnterSlotTraces ==
  ASSUME RInv, TInv', NEW w \in Worker, EnterSlot(w),
         UNCHANGED <<child, copy, slow_logged, orders>>, pc'[Master] = pc[Master]
  PROVE  RInv'
<1> USE MasterIsNoWorker
<1> DEFINE a   == IF Head(todo[w]) = "reading" THEN slot[w].requests + 1
                  ELSE slot[w].accepted
           new == Entered(slot[w], StageOf(Head(todo[w])), a)
<1>0. WInv /\ SlotsTyped /\ Shaped(slot[w])
  BY DEF RInv, TInv, WInv, LInv, LockTypes
<1>1. slot' = [slot EXCEPT ![w] = new] BY Zenon DEF EnterSlot, Entered
<1>2. new.accepted = a BY <1>0, SlotEntered
<1> HIDE DEF new
<1>3. slot'[w] = new /\ \A v \in Worker : v # w => slot'[v] = slot[v]
  BY <1>0, <1>1 DEF WInv, LInv, LockTypes
<1>4. pc[w] = "slot" /\ status[w] = "up" BY DEF EnterSlot
<1>5. slot[w].requests \in Nat /\ slot[w].accepted = slot[w].requests
  BY <1>0, <1>4, AtWork DEF AtHook, Together
<1>6. slot[w].accepted <= a BY <1>5
<1> HIDE DEF a
<1>7. \A v \in Worker : slot[v].accepted <= slot'[v].accepted
  BY <1>0, <1>2, <1>3, <1>6 DEF SlotsTyped
<1> QED BY <1>7, StampsGrow

(* Taking the lock of a slot and giving it back writes no stamp.           *)
LEMMA WriteRestTraces ==
  ASSUME RInv, TInv', NEW w \in Worker, WriteRest(w),
         UNCHANGED <<child, copy, slow_logged, orders>>, pc'[Master] = pc[Master]
  PROVE  RInv'
<1> DEFINE new == Left(slot[w], IF Head(todo[w]) = "reading"
                                THEN slot[w].requests + 1
                                ELSE slot[w].requests)
<1>0. SlotsTyped /\ Shaped(slot[w]) BY DEF RInv, TInv, WInv, LInv, LockTypes
<1>1. slot' = [slot EXCEPT ![w] = new] BY Zenon DEF WriteRest, Unlocked, Left
<1>2. new.accepted = slot[w].accepted BY <1>0, SlotLeft
<1> HIDE DEF new
<1>3. slot'[w] = new /\ \A v \in Worker : v # w => slot'[v] = slot[v]
  BY <1>1 DEF RInv, TInv, WInv, LInv, LockTypes
<1>4. \A v \in Worker : slot[v].accepted <= slot'[v].accepted
  BY <1>0, <1>2, <1>3 DEF SlotsTyped
<1> QED BY <1>4, StampsGrow

LEMMA LookTraces ==
  ASSUME RInv, TInv', NEW c \in Worker, Look(c)
  PROVE  RInv'
<1> USE MasterIsNoWorker
<1> DEFINE new == [slot[c] EXCEPT !.lock = 1]
<1>0. SlotsTyped /\ Shaped(slot[c]) /\ pc \in [Process -> Places]
  BY DEF RInv, TInv, WInv, LInv, LockTypes
<1>1. slot' = [slot EXCEPT ![c] = new] BY Zenon DEF Look
<1>2. new.accepted = slot[c].accepted BY <1>0, FieldSet
<1> HIDE DEF new
<1>3. slot'[c] = new /\ \A v \in Worker : v # c => slot'[v] = slot[v]
  BY <1>1 DEF RInv, TInv, WInv, LInv, LockTypes
<1>4. \A v \in Worker : slot[v].accepted <= slot'[v].accepted
  BY <1>0, <1>2, <1>3 DEF SlotsTyped
<1>5. /\ UNCHANGED <<orders, slow_logged>>
      /\ pc' = [pc EXCEPT ![Master] = "copy"]
  BY DEF Look, MasterGoes, pastVars
<1>6. pc'[Master] = "copy" BY <1>0, <1>5
<1> QED BY <1>4, <1>5, <1>6, StampsGrow

(* The copy is of the slot as it is.                                       *)
LEMMA CopyRestTraces ==
  ASSUME RInv, TInv', CopyRest
  PROVE  RInv'
<1> USE MasterIsNoWorker
<1> DEFINE new == [slot[child] EXCEPT !.lock = 0]
<1>0. WInv /\ SlotsTyped /\ pc \in [Process -> Places]
  BY DEF RInv, TInv, WInv, LInv, LockTypes
<1>1. /\ pc[Master] = "copy" /\ pc' = [pc EXCEPT ![Master] = "judge"]
      /\ UNCHANGED <<orders, slow_logged, child>>
  BY DEF CopyRest, MasterGoes, pastVars
<1>2. child \in Worker /\ copy'.accepted = slot[child].accepted
  BY <1>0, CopyRead
<1>3. slot' = [slot EXCEPT ![child] = new] BY Zenon DEF CopyRest, Unlocked
<1>4. Shaped(slot[child]) BY <1>2 DEF RInv, TInv, WInv, LInv, LockTypes
<1>5. new.accepted = slot[child].accepted BY <1>4, FieldSet
<1> HIDE DEF new
<1>6. \A v \in Worker : slot'[v].accepted = slot[v].accepted
  BY <1>2, <1>3, <1>5 DEF RInv, TInv, WInv, LInv, LockTypes
<1>7. \A w \in Worker : Behind(w)' BY <1>1, <1>6 DEF RInv, Behind
<1>8. Judged'
  <2>1. Behind(child) /\ slot[child].accepted \in Nat
    BY <1>0, <1>2 DEF RInv, SlotsTyped
  <2> QED BY <1>1, <1>2, <1>6, <2>1 DEF Behind, Judged
<1> QED BY <1>1, <1>7, <1>8 DEF RInv

(* A stamp that is the child's last order is remembered; one that is not   *)
(* is later than all of them.                                              *)
LEMMA JudgeTraces ==
  ASSUME RInv, TInv', Judge, NEW c \in Worker, c = child
  PROVE  RInv'
<1> USE MasterIsNoWorker
<1> DEFINE n == copy.accepted
           s == orders[c]
<1>0. /\ WInv /\ pc[Master] = "judge" /\ UNCHANGED slot
      /\ pc' = [pc EXCEPT ![Master] = "loop"]
      /\ \/ /\ slow_logged' = [slow_logged EXCEPT
                               ![c] = StillLogged(slow_logged[c])]
            /\ UNCHANGED orders
         \/ /\ copy.stage = "executing" /\ StillLogged(slow_logged[c]) = 0
            /\ slow_logged' = [slow_logged EXCEPT ![c] = n]
            /\ orders' = [orders EXCEPT ![c] = Append(s, n)]
  BY DEF Judge, MasterGoes, RInv, TInv
<1>1. /\ slot[c].accepted \in Nat /\ n \in Nat /\ n <= slot[c].accepted
      /\ \A i \in DOMAIN s : s[i] <= n /\ (s[i] = n => slow_logged[c] = n)
  BY <1>0 DEF RInv, Judged, TInv, SlotsTyped
<1>2. /\ s \in Seq(Nat)
      /\ \A i, j \in DOMAIN s : i < j => s[i] < s[j]
      /\ \A i \in DOMAIN s : s[i] <= slot[c].accepted
  BY DEF RInv, Behind
<1>3. /\ pc'[Master] = "loop"
      /\ slow_logged' = [w \in Worker |-> slow_logged'[w]]
      /\ orders' = [w \in Worker |-> orders'[w]]
      /\ \A w \in Worker : w # c => /\ slow_logged'[w] = slow_logged[w]
                                    /\ orders'[w] = orders[w]
  <2>1. pc'[Master] = "loop" BY <1>0 DEF WInv, LInv, LockTypes
  <2> QED BY <1>0, <2>1 DEF RInv
<1>4. Behind(c)'
  <2>1. CASE UNCHANGED orders
              /\ slow_logged' = [slow_logged EXCEPT
                                  ![c] = StillLogged(slow_logged[c])]
    <3>1. slow_logged'[c] = StillLogged(slow_logged[c]) BY <2>1 DEF RInv
    <3>2. ASSUME NEW i \in DOMAIN s, s[i] = slot[c].accepted
          PROVE  slow_logged'[c] = slot[c].accepted
      <4>1. s[i] = n BY <1>1, <3>2
      <4> QED BY <1>1, <3>1, <3>2, <4>1 DEF StillLogged
    <3>3. orders'[c] = s /\ slot'[c] = slot[c] BY <1>0, <2>1
    <3> QED BY <1>2, <3>2, <3>3 DEF Behind
  <2>2. CASE /\ copy.stage = "executing" /\ StillLogged(slow_logged[c]) = 0
             /\ slow_logged' = [slow_logged EXCEPT ![c] = n]
             /\ orders' = [orders EXCEPT ![c] = Append(s, n)]
    <3>1. n > 0
      BY <1>0, <1>1, <2>2 DEF WInv, Copying, Together, Running
    <3>2. \A i \in DOMAIN s : s[i] < n
      BY <1>1, <1>2, <2>2, <3>1 DEF StillLogged
    <3> DEFINE t == Append(s, n)
    <3>3. orders'[c] = t /\ slow_logged'[c] = n BY <2>2 DEF RInv
    <3>4. /\ t \in Seq(Nat) /\ DOMAIN t = 1 .. Len(s) + 1
          /\ DOMAIN s = 1 .. Len(s) /\ Len(s) \in Nat
          /\ t[Len(s) + 1] = n /\ \A i \in DOMAIN s : t[i] = s[i]
      BY <1>1, <1>2
    <3> HIDE DEF t
    <3>5. \A i \in DOMAIN t : i \in DOMAIN s \/ i = Len(s) + 1 BY <3>4
    <3>6. \A i, j \in DOMAIN t : i < j => t[i] < t[j]
      <4> SUFFICES ASSUME NEW i \in DOMAIN t, NEW j \in DOMAIN t, i < j
                   PROVE  t[i] < t[j] OBVIOUS
      <4>1. i \in DOMAIN s BY <3>4, <3>5
      <4>2. CASE j \in DOMAIN s BY <1>2, <3>4, <4>1, <4>2
      <4>3. CASE j = Len(s) + 1 BY <3>2, <3>4, <4>1, <4>3
      <4> QED BY <3>5, <4>2, <4>3
    <3>7. ASSUME NEW i \in DOMAIN t
          PROVE  /\ t[i] <= slot[c].accepted
                 /\ t[i] = slot[c].accepted => n = slot[c].accepted
      <4>1. CASE i = Len(s) + 1 BY <1>1, <3>4, <4>1
      <4>2. CASE i \in DOMAIN s
        <5>1. s[i] < n BY <3>2, <4>2
        <5>2. t[i] = s[i] BY <3>4, <4>2
        <5>3. s[i] \in Nat BY <1>2, <4>2
        <5> QED BY <1>1, <5>1, <5>2, <5>3
      <4> QED BY <3>5, <4>1, <4>2
    <3> QED BY <1>0, <3>3, <3>4, <3>6, <3>7 DEF Behind
  <2> QED BY <1>0, <2>1, <2>2
<1>5. \A w \in Worker : Behind(w)' BY <1>0, <1>3, <1>4 DEF RInv, Behind
<1>6. Judged' BY <1>3 DEF Judged
<1> QED BY <1>3, <1>5, <1>6 DEF RInv

LEMMA BuryTraces ==
  ASSUME RInv, TInv', NEW c \in Worker, Bury(c)
  PROVE  RInv'
<1>1. /\ pc[Master] = "loop" /\ UNCHANGED pc
      /\ slot' = [slot EXCEPT ![c] = FreshSlot]
      /\ orders' = [orders EXCEPT ![c] = <<>>]
      /\ slow_logged' = [slow_logged EXCEPT ![c] = 0]
  BY Zenon DEF Bury, Freed
<1>2. /\ orders'[c] = <<>>
      /\ \A w \in Worker : w # c => /\ slot'[w] = slot[w]
                                    /\ orders'[w] = orders[w]
                                    /\ slow_logged'[w] = slow_logged[w]
      /\ slow_logged' = [w \in Worker |-> slow_logged'[w]]
      /\ orders' = [w \in Worker |-> orders'[w]]
  BY <1>1 DEF RInv, TInv, WInv, LInv, LockTypes
<1>3. ASSUME NEW w \in Worker PROVE Behind(w)'
  <2>1. CASE w = c BY <1>2, <2>1 DEF Behind
  <2>2. CASE w # c BY <1>2, <2>2 DEF RInv, Behind
  <2> QED BY <2>1, <2>2
<1>4. Judged' BY <1>1 DEF Judged
<1> QED BY <1>2, <1>3, <1>4 DEF RInv

LEMMA NextRInv == RInv /\ [Next]_vars => RInv'
<1> SUFFICES ASSUME RInv, [Next]_vars PROVE RInv' OBVIOUS
<1>1. TInv' /\ LInv BY NextTInv DEF RInv, TInv, WInv
<1>2. CASE Aside
  <2>1. \A w \in Worker : slot[w].accepted <= slot'[w].accepted
    BY <1>2 DEF Aside, RInv, TInv, SlotsTyped
  <2> QED BY <1>1, <1>2, <2>1, StampsGrow DEF Aside
<1>3. CASE Judge
  <2>1. child \in Worker
    BY <1>1, <1>3 DEF Judge, MasterGoes, LInv, Attended
  <2> QED BY <1>1, <1>3, <2>1, JudgeTraces
<1> QED BY <1>1, <1>2, <1>3, AtSlotOrAside, EnterSlotTraces, WriteRestTraces,
           LookTraces, CopyRestTraces, BuryTraces

(* A child is stopped for tracing once per time stamp at most, and for a   *)
(* stamp its slot has shown, however it goes on, dies or is replaced       *)
(* between the look at its slot and the trace                              *)
(* (fpm_request_check_timed_out).                                          *)
THEOREM StampsAreTracedOnce == Spec => []TracedOnce
<1>1. RInv => TracedOnce BY DEF RInv, Behind, TracedOnce
<1> QED BY <1>1, InitRInv, NextRInv, PTL DEF Spec
================================================================================
