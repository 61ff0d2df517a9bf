---------------------------- MODULE ResponseStream ----------------------------
(***************************************************************************)
(* What the FastCGI layer promises of a response: two streams of bytes of  *)
(* which the client gets ever longer prefixes, and an end that comes after *)
(* the last byte of both and after which nothing comes.  Only a write that *)
(* the kernel does not take whole releases it from the promise.            *)
(***************************************************************************)
EXTENDS Integers

CONSTANT Stream

VARIABLES
  written,      (* bytes of each stream the script has produced            *)
  delivered,    (* bytes of each stream the client has                     *)
  state         (* "open", "ended" or "broken"                             *)

vars == <<written, delivered, state>>

Init ==
  /\ written = [t \in Stream |-> 0]
  /\ delivered = [t \in Stream |-> 0]
  /\ state = "open"

(* The script writes, or what it has written arrives, or both.             *)
Progress ==
  /\ \A t \in Stream : /\ written[t] <= written'[t]
                       /\ delivered[t] <= delivered'[t]
                       /\ delivered'[t] <= written'[t]
  /\ state' = state

Proceed == state \in {"open", "broken"} /\ Progress

End ==
  /\ state = "open" /\ state' = "ended"
  /\ written' = written /\ delivered' = written

(* What is written after the end goes nowhere.                             *)
Discard ==
  /\ state = "ended" /\ state' = "ended"
  /\ \A t \in Stream : written[t] <= written'[t]
  /\ delivered' = delivered

Break ==
  /\ state = "open" /\ state' = "broken"
  /\ \A t \in Stream : /\ written[t] <= written'[t]
                       /\ delivered[t] <= delivered'[t]
                       /\ delivered'[t] <= written'[t]

Next == Proceed \/ End \/ Discard \/ Break

Spec == Init /\ [][Next]_vars
==============================================================================
