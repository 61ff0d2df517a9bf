--------------------------- MODULE RequestService ---------------------------
(***************************************************************************)
(* What a worker promises its clients: a connection waits in the queue,    *)
(* its script runs and may wait for remote calls, and it is closed either  *)
(* with the response its own script made, or because its client has left,  *)
(* or, where a start-up may fail, with no response before its script runs. *)
(* Connections in service and remote calls that nobody waits for any more  *)
(* use one and the same capacity.                                          *)
(***************************************************************************)
EXTENDS Integers, FiniteSets

CONSTANTS Conn, Capacity,
          MayFail    (* a request's start-up may fail                      *)

VARIABLES stage,     (* "free", "queued", "open" or "waiting" for a reply  *)
          left,      (* connections whose client has closed its end        *)
          pending,   (* connections whose remote call is to be replied to  *)
          response   (* whose data went into each response                 *)

serviceVars == <<stage, left, pending, response>>

InService == {k \in Conn : stage[k] \in {"open", "waiting"}}

Init ==
  /\ stage = [k \in Conn |-> "free"] /\ response = [k \in Conn |-> {}]
  /\ left = {} /\ pending = {}

To(k, s) == stage' = [stage EXCEPT ![k] = s]
Own(k)   == response' = [response EXCEPT ![k] = @ \cup {k}]
Close(k) == To(k, "free") /\ left' = left \ {k}

(* The client's part.                                                      *)
Connect(k) ==
  /\ stage[k] = "free" /\ k \notin pending
  /\ To(k, "queued")
  /\ response' = [response EXCEPT ![k] = {}]
  /\ UNCHANGED <<left, pending>>

Leave(k) ==
  /\ stage[k] # "free"
  /\ left' = left \cup {k}
  /\ UNCHANGED <<stage, pending, response>>

Drop(k) == stage[k] = "queued" /\ Close(k) /\ UNCHANGED <<pending, response>>

(* The worker's part.                                                      *)
Accept(k) ==
  /\ stage[k] = "queued" /\ Cardinality(InService \cup pending) < Capacity
  /\ To(k, "open")
  /\ UNCHANGED <<left, pending, response>>

(* A call that is not sent gets no reply.                                  *)
Suspend(k) ==
  /\ stage[k] = "open" /\ k \notin pending
  /\ To(k, "waiting")
  /\ pending' \in {pending, pending \cup {k}}
  /\ UNCHANGED <<left, response>>

(* The reply leads to another call.                                        *)
GoOn(k) ==
  /\ stage[k] = "waiting" /\ k \in pending
  /\ pending' \in {pending, pending \ {k}}
  /\ Own(k)
  /\ UNCHANGED <<stage, left>>

(* The script ends, without a call or after the last reply.                *)
Finish(k) ==
  /\ \/ stage[k] = "open" /\ UNCHANGED pending
     \/ stage[k] = "waiting" /\ k \in pending /\ pending' = pending \ {k}
  /\ Own(k) /\ Close(k)

(* The script never starts.                                                *)
Fail(k) ==
  /\ MayFail /\ stage[k] = "open"
  /\ Close(k)
  /\ UNCHANGED <<pending, response>>

Abort(k) ==
  /\ k \in left \cap InService
  /\ Close(k)
  /\ UNCHANGED <<pending, response>>

(* The reply to a script that was aborted.                                 *)
Discard(k) ==
  /\ stage[k] = "free" /\ k \in pending
  /\ pending' = pending \ {k}
  /\ UNCHANGED <<stage, left, response>>

Next == \E k \in Conn :
  \/ Connect(k) \/ Leave(k) \/ Drop(k)
  \/ Accept(k) \/ Suspend(k) \/ GoOn(k) \/ Finish(k)
  \/ Fail(k) \/ Abort(k) \/ Discard(k)

Spec == Init /\ [][Next]_serviceVars
=============================================================================
