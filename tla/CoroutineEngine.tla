--------------------------- MODULE CoroutineEngine ---------------------------
(***************************************************************************)
(* The event loop of one php-fpm worker: connections are accepted into     *)
(* coroutine contexts, scripts run until they end or make a remote call,   *)
(* and the reply to a remote call resumes the script that made it          *)
(* (sapi/fpm/fpm/fpm_main.c, ext/standard/fpm_coroutine.c,                 *)
(* ext/coro_http/coro_http.c).                                             *)
(*                                                                         *)
(* libevent runs one callback at a time, so every callback is one action.  *)
(* The interleaving is that of the callbacks, the clients and the remote   *)
(* server.                                                                 *)
(***************************************************************************)
EXTENDS Integers, FiniteSets

CONSTANTS
  CoroutineCount, (* PHP_COROUTINE_ENGINE_COUNT                            *)
  Null,           (* the C null pointer                                    *)
  Conn,           (* connections that may exist at the same time           *)
  MaxRequests,    (* pm.max_requests, 0 for no limit                       *)
  MaxCalls,       (* bound: remote calls one script makes                  *)
  Conduct         (* what clients and remote server may do, see below      *)

(* "late_hangup": a client closes after sending its request, before the    *)
(*   response; "early_hangup": it closes before sending anything;          *)
(* "split_body": the request body arrives in a segment of its own;         *)
(* "split_params": so does a part of the parameters;                       *)
(* "startup_failure": php_request_startup fails;                           *)
(* "unsent_call": evhttp_make_request fails, so no reply callback comes;   *)
(* "bailout": a resumed script ends by exit() or a fatal error.            *)
Conducts == {"late_hangup", "early_hangup", "split_body", "split_params",
             "startup_failure", "unsent_call", "bailout"}

ASSUME EngineAssumption ==
  /\ CoroutineCount \in Nat \ {0}
  /\ Null \notin Conn \cup (0 .. CoroutineCount - 1)
  /\ MaxRequests \in Nat /\ MaxCalls \in Nat
  /\ Conduct \subseteq Conducts

VARIABLES
  pool, pool_end, use, next, prev,               (* the variables of       *)
  context_count, listener_event_stop,            (* CoroutinePool          *)
  created, held,
  backlog,     (* connections the kernel holds for accept()                *)
  hup,         (* live connections whose client has closed its end         *)
  sent,        (* what the client of each connection has sent              *)
  inbuf,       (* what of it the worker has not been called back for       *)
  answer,      (* the scripts and remote replies each response came from   *)
  cb,          (* the context each bufferevent's callbacks receive         *)
  fd,          (* context->fd, with the bufferevent of context->bev        *)
  req,         (* the connection of context->request                       *)
  suspended,   (* contexts whose script has yielded and may be resumed     *)
  calls,       (* remote calls whose reply callback is still to come       *)
  ncalls,      (* remote calls made for each connection                    *)
  tls,         (* the context whose TSRM storage is selected               *)
  requests,    (* the counter of close_request                             *)
  loop         (* "running", "exiting", "exited" or "dead"                 *)

(* A context is named by its thread_id, which is its TSRM slot.            *)
Context == 0 .. CoroutineCount - 1

poolVars   == <<pool, pool_end, use, next, prev, context_count,
                listener_event_stop, created, held>>
clientVars == <<backlog, hup, sent, inbuf, answer>>
coroVars   == <<cb, fd, req, suspended, calls, ncalls, tls>>
vars       == <<poolVars, clientVars, coroVars, requests, loop>>

Pool == INSTANCE CoroutinePool

Call == [ctx : Context, conn : Conn]

TypeOK ==
  /\ Pool!TypeOK
  /\ backlog \subseteq Conn /\ hup \subseteq Conn
  /\ sent \in [Conn -> {"nothing", "head", "all"}]
  /\ inbuf \in [Conn -> {"empty", "request", "cut", "rest"}]
  /\ answer \in [Conn -> SUBSET Conn]
  /\ cb \in [Conn -> Context \cup {Null}]
  /\ fd \in [Context -> Conn \cup {Null}]
  /\ req \in [Context -> Conn \cup {Null}]
  /\ suspended \subseteq Context
  /\ calls \subseteq Call
  /\ ncalls \in [Conn -> 0 .. MaxCalls]
  /\ tls \in Context
  /\ requests \in 0 .. MaxRequests + 1
  /\ loop \in {"running", "exiting", "exited", "dead"}

(* The worker inherits from the master the pool main() built, the context  *)
(* built last in front.                                                    *)
Init ==
  /\ created = Context /\ held = {}
  /\ pool = CoroutineCount - 1 /\ pool_end = 0 /\ use = Null
  /\ next = [c \in Context |-> IF c = 0 THEN Null ELSE c - 1]
  /\ prev = [c \in Context |-> IF c = CoroutineCount - 1 THEN Null ELSE c + 1]
  /\ context_count = CoroutineCount
  /\ listener_event_stop = FALSE
  /\ backlog = {} /\ hup = {}
  /\ sent = [k \in Conn |-> "nothing"]
  /\ inbuf = [k \in Conn |-> "empty"]
  /\ answer = [k \in Conn |-> {}]
  /\ cb = [k \in Conn |-> Null]
  /\ fd = [c \in Context |-> Null]
  /\ req = [c \in Context |-> Null]
  /\ suspended = {} /\ calls = {}
  /\ ncalls = [k \in Conn |-> 0]
  /\ tls = CoroutineCount - 1
  /\ requests = 0 /\ loop = "running"

-----------------------------------------------------------------------------
(* Clients and the kernel (external).                                      *)

Live(k) == k \in backlog \/ cb[k] # Null

(* What the worker is called back for, inbuf, is the start of a request    *)
(* with all of its parameters ("request") or not ("cut"), or what is left  *)
(* of one whose start it has read ("rest").                                *)

(* A name in Conn stands for a new connection once nothing refers to the   *)
(* previous one any more.                                                  *)
ClientConnect(k) ==
  /\ ~Live(k) /\ \A call \in calls : call.conn # k
  /\ backlog' = backlog \cup {k}
  /\ answer' = [answer EXCEPT ![k] = {}]
  /\ ncalls' = [ncalls EXCEPT ![k] = 0]
  /\ UNCHANGED <<poolVars, hup, sent, inbuf, cb, fd, req, suspended, calls,
                 tls, requests, loop>>

ClientSend(k) ==
  /\ Live(k) /\ k \notin hup /\ sent[k] = "nothing"
  /\ \/ /\ sent' = [sent EXCEPT ![k] = "all"]
        /\ inbuf' = [inbuf EXCEPT ![k] = "request"]
     \/ /\ "split_body" \in Conduct
        /\ sent' = [sent EXCEPT ![k] = "head"]
        /\ inbuf' = [inbuf EXCEPT ![k] = "request"]
     \/ /\ "split_params" \in Conduct
        /\ sent' = [sent EXCEPT ![k] = "head"]
        /\ inbuf' = [inbuf EXCEPT ![k] = "cut"]
  /\ UNCHANGED <<poolVars, backlog, hup, answer, coroVars, requests, loop>>

ClientSendRest(k) ==
  /\ Live(k) /\ k \notin hup /\ sent[k] = "head"
  /\ sent' = [sent EXCEPT ![k] = "all"]
  /\ inbuf' = [inbuf EXCEPT ![k] = IF @ = "empty" THEN "rest" ELSE "request"]
  /\ UNCHANGED <<poolVars, backlog, hup, answer, coroVars, requests, loop>>

ClientHangUp(k) ==
  /\ Live(k) /\ k \notin hup
  /\ (IF sent[k] = "nothing" THEN "early_hangup" ELSE "late_hangup") \in Conduct
  /\ hup' = hup \cup {k}
  /\ UNCHANGED <<poolVars, backlog, sent, inbuf, answer, coroVars, requests,
                 loop>>

(* Another worker's accept() takes the connection, or the client resets it *)
(* before any does: do_accept returns on a negative descriptor.            *)
ConnectionGone(k) ==
  /\ k \in backlog
  /\ backlog' = backlog \ {k}
  /\ hup' = hup \ {k}
  /\ sent' = [sent EXCEPT ![k] = "nothing"]
  /\ inbuf' = [inbuf EXCEPT ![k] = "empty"]
  /\ UNCHANGED <<poolVars, answer, coroVars, requests, loop>>

-----------------------------------------------------------------------------
(* The pieces the callbacks are made of.                                   *)

Looping == loop \in {"running", "exiting"}

(* Slip: a callback goes on with the storage of whoever ran last. *)
Checkout_Missing(c) == UNCHANGED tls

(* checkout_coroutine_context *)
Checkout(c) == tls' = c

(* Slip: the bufferevents are not freed. *)
CloseConnections_Missing(S) == UNCHANGED <<cb, sent, inbuf, hup>>

(* The connections in S are closed with their bufferevents.                *)
CloseConnections(S) ==
  /\ cb'    = [k \in Conn |-> IF k \in S THEN Null ELSE cb[k]]
  /\ sent'  = [k \in Conn |-> IF k \in S THEN "nothing" ELSE sent[k]]
  /\ inbuf' = [k \in Conn |-> IF k \in S THEN "empty" ELSE inbuf[k]]
  /\ hup'   = hup \ S

(* Slip: the connection is closed, the context not given back.             *)
Release_Unfreed(c) ==
  /\ UNCHANGED poolVars
  /\ CloseConnections({fd[c]} \ {Null})

(* free_coroutine_context, with the bufferevent_free of context->bev.      *)
Release(c) ==
  /\ Pool!FreeContext(c)
  /\ CloseConnections({fd[c]} \ {Null})

(* Slip: the request is counted after the comparison with the limit.       *)
Limit_Late == MaxRequests # 0 /\ requests = MaxRequests

(* close_request counts the request; Limit says it returned 0.  Past the   *)
(* limit the exact count no longer matters.                                *)
Limit == MaxRequests # 0 /\ requests + 1 = MaxRequests
CloseRequest ==
  requests' = IF requests > MaxRequests THEN requests ELSE requests + 1

(* Connection k's response gets what scripts or replies of S made.         *)
Answer(k, S) ==
  answer' = [j \in Conn |-> IF j = k THEN answer[j] \cup S ELSE answer[j]]

(* Slip: after the yield the callback falls through to its closing part.   *)
Yield_FallsThrough(c, k, open) ==
  /\ ncalls[k] < MaxCalls
  /\ ncalls' = [ncalls EXCEPT ![k] = @ + 1]
  /\ calls' = open \cup {[ctx |-> c, conn |-> k]}
  /\ suspended' = suspended \cup {c}
  /\ CloseRequest
  /\ Release(c)
  /\ UNCHANGED loop

(* The script of context c makes a remote call for connection k and yields: *)
(* yield_coroutine_context jumps out of the callback, which returns.       *)
Yield(c, k, open) ==
  /\ k \in Conn /\ ncalls[k] < MaxCalls
  /\ ncalls' = [ncalls EXCEPT ![k] = @ + 1]
  /\ \/ calls' = open \cup {[ctx |-> c, conn |-> k]}
     \/ "unsent_call" \in Conduct /\ calls' = open
  /\ suspended' = suspended \cup {c}
  /\ UNCHANGED <<poolVars, cb, sent, hup, requests, loop>>

-----------------------------------------------------------------------------
(* do_accept *)
DoAccept(k) ==
  /\ Looping /\ ~listener_event_stop /\ k \in backlog
  /\ Pool!UseContext
  /\ Checkout(pool)
  /\ fd' = [fd EXCEPT ![pool] = k]
  /\ cb' = [cb EXCEPT ![k] = pool]
  /\ backlog' = backlog \ {k}
  /\ UNCHANGED <<hup, sent, inbuf, answer, req, suspended, calls, ncalls,
                 requests, loop>>

(* The scripts a request's output can be of when it ends in the callback   *)
(* that read it.  Nobody looks at the result of fcgi_read_request: a cut   *)
(* request is refused, or its script runs with the parameters it has; the  *)
(* rest of a request has no method, so it is refused, and the refusal is   *)
(* nobody's response.                                                      *)
Outcomes(k) ==
  {S \in {{}, {k}} : /\ inbuf[k] = "request" => S = {k}
                     /\ inbuf[k] = "rest" => S = {}}

(* socket_read_cb: a new request object for the context, then              *)
(*  - the request ends in this callback: refused, or a script that makes   *)
(*    no remote call;                                                      *)
(*  - the script yields, and the callback returns without closing;         *)
(*  - php_request_startup fails: the client is sent the end of a response  *)
(*    and the descriptor is closed under the bufferevent, which is not     *)
(*    called back again; the callback returns with the context held.       *)
SocketRead(k) ==
  LET c == cb[k] IN
  /\ Looping /\ c # Null /\ inbuf[k] # "empty"
  /\ Checkout(c)
  /\ req' = [req EXCEPT ![c] = k]
  /\ UNCHANGED <<backlog, fd>>
  /\ \/ /\ \E S \in Outcomes(k) : Answer(k, S)
        /\ suspended' = suspended \ {c}
        /\ CloseRequest
        /\ loop' = IF Limit THEN "exiting" ELSE loop
        /\ Release(c)
        /\ UNCHANGED <<calls, ncalls>>
     \/ /\ inbuf[k] # "rest"
        /\ inbuf' = [inbuf EXCEPT ![k] = "empty"]
        /\ Yield(c, k, calls)
        /\ UNCHANGED answer
     \/ /\ "startup_failure" \in Conduct
        /\ CloseConnections({k})
        /\ loop' \in {loop, "dead"}    (* the modules were shut down *)
        /\ UNCHANGED <<poolVars, answer, suspended, calls, ncalls, requests>>

(* Slip: event_cb frees the context as well. *)
KeepContext_Freed(c) == Pool!FreeContext(c)

(* event_cb keeps the context: only the reply callback gives it back.      *)
KeepContext(c) == UNCHANGED poolVars

(* event_cb: the request ends early.  The result of close_request is not   *)
(* looked at.  With no script suspended, the op_array and the directory    *)
(* it frees are what an earlier request or malloc left there, which the    *)
(* worker survives or not.                                                 *)
ClientGone(k) ==
  LET c == cb[k] IN
  /\ Looping /\ c # Null /\ k \in hup /\ inbuf[k] = "empty"
  /\ Checkout(c)
  /\ fd' = [fd EXCEPT ![c] = Null]
  /\ suspended' = suspended \ {c}
  /\ CloseRequest
  /\ KeepContext(c)
  /\ CloseConnections({k})
  /\ \/ loop' = loop
     \/ c \notin suspended /\ loop' = "dead"
  /\ UNCHANGED <<backlog, answer, req, calls, ncalls>>

(* Slip: resume_coroutine_context just returns. *)
FreeAborted_Missing(c) == UNCHANGED poolVars

(* resume_coroutine_context for a client that is gone.                     *)
FreeAborted(c) == Pool!FreeContext(c)

(* RemoteReadCallback and resume_coroutine_context.  The result goes into  *)
(* the script of the context selected, and from there into the response of *)
(* that context's request.                                                 *)
(*  - The client is gone: the context is free again.  The callback has     *)
(*    given back memory of a request already shut down, which the worker   *)
(*    survives or not.                                                     *)
(*  - The script ends; the result of close_request is not looked at.  If   *)
(*    the script is not the one that made the call, the callback uses      *)
(*    memory of a request already shut down, and a frame that may no       *)
(*    longer exist is executed: the worker may die of it.                  *)
(*  - The script makes another remote call.                                *)
(*  - The script bails out: EG(bailout) is in the frame of a callback that *)
(*    has returned.  The worker dies of the jump, or is as lucky as if the *)
(*    script had ended.                                                    *)
RemoteReply(call) ==
  /\ Looping /\ call \in calls
  /\ Checkout(call.ctx)
  /\ UNCHANGED <<backlog, req>>
  /\ LET c == tls'
         open == calls \ {call}
     IN \/ /\ fd[c] = Null
           /\ FreeAborted(c)
           /\ calls' = open
           /\ loop' \in {loop, "dead"}
           /\ UNCHANGED <<answer, hup, sent, inbuf, cb, fd, suspended, ncalls,
                          requests>>
        \/ /\ fd[c] # Null
           /\ Answer(req[c], {req[c], call.conn})
           /\ calls' = open
           /\ suspended' = suspended \ {c}
           /\ CloseRequest
           /\ Release(c)
           /\ \/ loop' = loop
              \/ /\ c \notin suspended \/ req[c] # call.conn
                 /\ loop' = "dead"
           /\ UNCHANGED <<fd, ncalls>>
        \/ /\ fd[c] # Null
           /\ Answer(req[c], {call.conn})
           /\ Yield(c, req[c], open)
           /\ UNCHANGED <<inbuf, fd>>
        \/ /\ "bailout" \in Conduct /\ fd[c] # Null
           /\ loop' = "dead"
           /\ UNCHANGED <<poolVars, answer, hup, sent, inbuf, cb, fd,
                          suspended, calls, ncalls, requests>>

(* event_base_loopexit lets the pending callbacks run before the dispatch  *)
(* loop, and with it the worker, ends.                                     *)
LoopExit ==
  /\ loop = "exiting"
  /\ loop' = "exited"
  /\ UNCHANGED <<poolVars, clientVars, coroVars, requests>>

Client(k) == \/ ClientConnect(k) \/ ClientSend(k) \/ ClientSendRest(k)
             \/ ClientHangUp(k) \/ ConnectionGone(k)
Worker(k) == DoAccept(k) \/ SocketRead(k) \/ ClientGone(k)

Next == \/ \E k \in Conn : Client(k) \/ Worker(k)
        \/ \E call \in Call : RemoteReply(call)
        \/ LoopExit

(* libevent serves every descriptor that stays ready, and evhttp calls     *)
(* back for every request it has sent, if only with its own timeout.       *)
Fairness ==
  /\ \A k \in Conn : WF_vars(SocketRead(k)) /\ WF_vars(ClientGone(k))
  /\ \A call \in Call : WF_vars(RemoteReply(call))
  /\ WF_vars(LoopExit)

Spec     == Init /\ [][Next]_vars
FairSpec == Spec /\ Fairness

-----------------------------------------------------------------------------
(* A context that something will still come back for, the callbacks of its *)
(* connection or the reply to its remote call, is not in the pool          *)
(* (free_coroutine_context is reached only when neither is left).          *)
ReferredIsHeld ==
  /\ \A k \in Conn : cb[k] # Null => cb[k] \in held
  /\ \A call \in calls : call.ctx \in held

(* A context out of the pool is one something will come back for: none is  *)
(* lost (socket_read_cb and resume_coroutine_context free what event_cb    *)
(* and the yield leave held).                                              *)
HeldIsReferred ==
  loop # "dead" =>
    \A c \in held : \/ \E k \in Conn : cb[k] = c
                    \/ \E call \in calls : call.ctx = c

(* No two connections, and no two pending replies, share a context, and a  *)
(* connection's bufferevent is the one its context would free.             *)
ContextExclusive ==
  /\ \A k \in Conn : cb[k] # Null => fd[cb[k]] = k
  /\ \A a, b \in calls : a.ctx = b.ctx => a = b
  /\ \A call \in calls : fd[call.ctx] \in {Null, call.conn}

(* A response is made from its own script and the replies to its own       *)
(* remote calls (every callback first selects its context's TSRM storage). *)
AnswersAreOwn == \A k \in Conn : answer[k] \subseteq {k}

(* The worker closes a connection only after the response of its script,   *)
(* unless the client has gone (a yield jumps over the closing part of      *)
(* socket_read_cb; start-up failures, which close in its midst, apart).    *)
ClosedWhenAnswered ==
  [][\A k \in Conn : cb[k] # Null /\ cb'[k] = Null
                       => k \in hup \/ k \in answer'[k]]_vars

(* The listening event is never in the loop with no context to hand out:   *)
(* do_accept does not look at the result of use_coroutine_context.         *)
AcceptHasContext == ~listener_event_stop => context_count > 0 /\ pool # Null

(* The worker uses the pool as CoroutinePool has it: it gives back only    *)
(* what it was handed, once.                                               *)
PoolProtocol == [][Pool!Next]_poolVars

(* Where the request of connection k has got to.                           *)
Stage(k) ==
  IF k \in backlog THEN "queued"
  ELSE IF cb[k] = Null THEN "free"
  ELSE IF cb[k] \in suspended THEN "waiting" ELSE "open"

(* The connections whose scripts made the calls.                           *)
Pending == {call.conn : call \in calls}

Service == INSTANCE RequestService WITH
  Capacity <- CoroutineCount,
  MayFail  <- "startup_failure" \in Conduct,
  stage    <- [k \in Conn |-> Stage(k)],
  left     <- hup,
  pending  <- Pending,
  response <- answer

(* Callbacks in whatever order serve each connection as if it were alone:  *)
(* its script is suspended and resumed by its own replies only, it closes  *)
(* with its own response, or with none where its start-up fails, and       *)
(* do_accept finds a context that neither a connection nor a reply still   *)
(* to come is using.                                                       *)
ImplementsService == Service!Spec

(* A script that has yielded, its client gone or not, ends, and its        *)
(* context goes back to the pool.                                          *)
SuspendedReturns ==
  \A c \in Context : c \in suspended ~> c \notin held \/ ~Looping

(* What event_cb leaves held is freed when the remote call returns.        *)
AbortedReturns ==
  \A c \in Context : c \in held /\ fd[c] = Null ~> c \notin held \/ ~Looping

(* Connections beyond the pool wait, not for ever: with a reply to come,   *)
(* the listening event comes back.                                         *)
ListenerResumes ==
  listener_event_stop /\ calls # {} ~> ~listener_event_stop \/ ~Looping

(* pm.max_requests: the worker that has served that many leaves the loop.  *)
LeavesAtLimit == MaxRequests # 0 /\ requests >= MaxRequests ~> ~Looping
=============================================================================
