---------------------------- MODULE CoroutinePool ----------------------------
(***************************************************************************)
(* The pool of coroutine contexts of a php-fpm worker                      *)
(* (ext/standard/fpm_coroutine.c), pointer by pointer.                     *)
(*                                                                         *)
(* Two intrusive doubly linked lists share the next and prev fields of the *)
(* contexts: the idle pool, of which the program keeps both ends, and the  *)
(* use list, of which it keeps the head.  A counter says how many contexts *)
(* are idle, and a flag whether the listening socket is out of the event   *)
(* loop because none is.                                                   *)
(***************************************************************************)
EXTENDS Integers, FiniteSets, Sequences

CONSTANTS Context,  (* the contexts main() creates, one per coroutine      *)
          Null      (* the C null pointer                                  *)

ASSUME ContextAssumption ==
         /\ IsFiniteSet(Context)
         /\ Context # {}        (* PHP_COROUTINE_ENGINE_COUNT is positive  *)
         /\ Null \notin Context

VARIABLES
  pool,                 (* global_coroutine_context_pool: head of the pool *)
  pool_end,             (* global_coroutine_context_pool_end               *)
  use,                  (* global_coroutine_context_use: head of use list  *)
  next, prev,           (* the link fields of each context                 *)
  context_count,        (* contexts counted as idle                        *)
  listener_event_stop,  (* the listening event has been event_del'ed       *)
  created,              (* the contexts init_coroutine_context has built   *)
  held                  (* the contexts handed to a caller, not given back *)

listVars == <<pool, pool_end, use, next, prev>>
poolVars == <<listVars, context_count, listener_event_stop, created, held>>

Pointer == Context \cup {Null}

TypeOK ==
  /\ pool \in Pointer /\ pool_end \in Pointer /\ use \in Pointer
  /\ next \in [Context -> Pointer]
  /\ prev \in [Context -> Pointer]
  /\ context_count \in 0 .. Cardinality(Context)
  /\ listener_event_stop \in BOOLEAN
  /\ created \subseteq Context
  /\ held \subseteq created

-----------------------------------------------------------------------------
(* The field f of every context after x->f = v.                            *)
Store(f, x, v) == [y \in Context |-> IF y = x THEN v ELSE f[y]]

(* init_coroutine_static *)
Init ==
  /\ pool = Null /\ pool_end = Null /\ use = Null
  /\ next = [c \in Context |-> Null]
  /\ prev = [c \in Context |-> Null]
  /\ context_count = 0
  /\ listener_event_stop = FALSE
  /\ created = {}
  /\ held = {}

(* Slip: a context is built again, as a start-up loop run once more would. *)
InitContext_Again(c) ==
  /\ created' = created \cup {c}
  /\ pool' = c
  /\ pool_end' = IF pool = Null THEN c ELSE pool_end
  /\ next' = Store(next, c, pool)
  /\ prev' = Store(Store(prev, c, Null), pool, c)
  /\ context_count' = context_count + 1
  /\ UNCHANGED <<use, listener_event_stop, held>>

(* init_coroutine_context: a new context becomes the head of the pool.     *)
InitContext(c) ==
  /\ c \notin created
  /\ created' = created \cup {c}
  /\ pool' = c
  /\ pool_end' = IF pool = Null THEN c ELSE pool_end
  /\ next' = Store(next, c, pool)
  /\ prev' = Store(Store(prev, c, Null), pool, c)
  /\ context_count' = context_count + 1
  /\ UNCHANGED <<use, listener_event_stop, held>>

(* Slip: the comparison of asser_event_stop off by one. *)
StopIfEmpty_Late(n) == listener_event_stop' = (listener_event_stop \/ n < 0)

(* Slip: asser_event_continue is not called. *)
ContinueIfAny_Missing(n) == UNCHANGED listener_event_stop

(* asser_event_stop and asser_event_continue, for the new count n.         *)
StopIfEmpty(n)  == listener_event_stop' = (listener_event_stop \/ n < 1)
ContinueIfAny(n) == listener_event_stop' = (listener_event_stop /\ n <= 0)

(* use_coroutine_context: the head of the pool becomes the head of the use *)
(* list.  The function hands it to its caller.                             *)
UseContext ==
  /\ context_count > 0
  /\ LET second == next[pool] IN
       /\ pool' = second
       /\ pool_end' = IF second = Null THEN Null ELSE pool_end
       /\ next' = Store(next, pool, use)
       /\ prev' = Store(Store(Store(prev, second, Null), pool, Null), use, pool)
  /\ use' = pool
  /\ context_count' = context_count - 1
  /\ StopIfEmpty(context_count - 1)
  /\ held' = held \cup {pool}
  /\ UNCHANGED created

(* Slips: context->next not reset; the next context's prev not updated.    *)
UnlinkedNext_Kept(c) == Store(next, prev[c], next[c])
UnlinkedPrev_Kept(c) == Store(prev, c, Null)

(* The links once c has left the list it is in: the four cases of the first *)
(* half of free_coroutine_context.                                         *)
UnlinkedNext(c) == Store(Store(next, prev[c], next[c]), c, Null)
UnlinkedPrev(c) == Store(Store(prev, next[c], prev[c]), c, Null)

(* Slip: the context goes back to the head of the pool, as init_ does it.   *)
FreeContext_ToHead(c) ==
  /\ use' = IF prev[c] = Null THEN next[c] ELSE use
  /\ pool' = c
  /\ pool_end' = IF pool_end = Null THEN c ELSE pool_end
  /\ next' = Store(UnlinkedNext(c), c, pool)
  /\ prev' = Store(UnlinkedPrev(c), pool, c)
  /\ context_count' = context_count + 1
  /\ ContinueIfAny(context_count + 1)
  /\ held' = held \ {c}
  /\ UNCHANGED created

(* free_coroutine_context: c leaves the use list and becomes the tail of   *)
(* the pool.  Nothing in the function checks that c was in use.            *)
FreeContext(c) ==
  /\ use' = IF prev[c] = Null THEN next[c] ELSE use
  /\ pool_end' = c
  /\ \/ /\ pool_end = Null
        /\ pool' = c
        /\ next' = UnlinkedNext(c)
        /\ prev' = UnlinkedPrev(c)
     \/ /\ pool_end # Null
        /\ pool' = pool
        /\ next' = IF pool_end = pool
                   THEN Store(UnlinkedNext(c), pool, c)
                   ELSE Store(Store(UnlinkedNext(c), pool_end, c), c, Null)
        /\ prev' = Store(UnlinkedPrev(c), c, pool_end)
  /\ context_count' = context_count + 1
  /\ ContinueIfAny(context_count + 1)
  /\ held' = held \ {c}
  /\ UNCHANGED created

(* main() builds every context before it registers the listening event.    *)
Next ==
  \/ \E c \in Context : InitContext(c)
  \/ created = Context /\ UseContext
  \/ \E c \in held : FreeContext(c)

Spec == Init /\ [][Next]_poolVars

-----------------------------------------------------------------------------
(* What the pointers stand for.                                            *)

(* The finite sequences of contexts without repetition live in here.       *)
Lists == UNION {[1 .. n -> Context] : n \in 0 .. Cardinality(Context)}

(* The sequence s of length n is the list that starts at first.            *)
Represents(s, n, first) ==
  /\ first = IF n = 0 THEN Null ELSE s[1]
  /\ \A i \in 1 .. n :
       /\ next[s[i]] = IF i = n THEN Null ELSE s[i + 1]
       /\ prev[s[i]] = IF i = 1 THEN Null ELSE s[i - 1]
  /\ \A i, j \in 1 .. n : s[i] = s[j] => i = j

Members(s) == {s[i] : i \in DOMAIN s}

(* The pool is one well-formed list of exactly the idle contexts, as long  *)
(* as the counter says, and pool_end is its last one (the unlinking of     *)
(* free_coroutine_context picks its case from the links alone, whichever   *)
(* list the context is in).                                                *)
PoolIsList ==
  \E n \in 0 .. Cardinality(Context) : \E s \in [1 .. n -> Context] :
    /\ Represents(s, n, pool)
    /\ pool_end = IF n = 0 THEN Null ELSE s[n]
    /\ Members(s) = created \ held
    /\ context_count = n

(* The use list is one well-formed list of exactly the contexts held.      *)
UseIsList ==
  \E n \in 0 .. Cardinality(Context) : \E u \in [1 .. n -> Context] :
    /\ Represents(u, n, use)
    /\ Members(u) = held

ListIntegrity == PoolIsList /\ UseIsList

(* The listening event is out of the loop exactly while every context is   *)
(* held: it can neither starve with an idle context nor accept without one *)
(* (asser_event_stop and asser_event_continue run on every change).        *)
ListenerMatchesPool ==
  created = Context => (listener_event_stop <=> held = Context)

(* The contexts in the order of their links, from a head on.               *)
Listed(first) == CHOOSE s \in Lists : Represents(s, Len(s), first)

(* idle is read off the links from the head of the pool, busy from the     *)
(* head of the use list.                                                   *)
Fifo == INSTANCE ContextFifo WITH
          idle    <- Listed(pool),
          busy    <- Members(Listed(use)),
          stopped <- listener_event_stop

(* The linked lists implement the queue: contexts come back into use in    *)
(* the order in which they became idle (use_coroutine_context takes the    *)
(* head, free_coroutine_context appends at pool_end).                      *)
ImplementsFifo == Fifo!Spec

(* use_coroutine_context never hands out a context that some connection    *)
(* already has, nor one that was never built.                              *)
TakeIsFresh ==
  [][context_count' < context_count => pool \in created \ held]_poolVars
=============================================================================
