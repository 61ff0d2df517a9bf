------------------------ MODULE CoroutineEngineProofs ------------------------
(***************************************************************************)
(* Proofs about a worker's event loop, for any number of contexts,         *)
(* connections, remote calls and requests.                                 *)
(***************************************************************************)
EXTENDS CoroutineEngine, FiniteSetTheorems, TLAPS

PoolProofs == INSTANCE CoroutinePoolProofs

(* Clients whose requests come in one piece.                               *)
Undivided == Conduct \cap {"split_body", "split_params"} = {}

(* No part of a request comes after its script has been started, or no     *)
(* script makes a remote call.                                             *)
Orderly == Undivided \/ MaxCalls = 0

-----------------------------------------------------------------------------
(* The pool, as the worker uses it.                                        *)

LEMMA ContextIsPool ==
  IsFiniteSet(Context) /\ Context # {} /\ Null \notin Context
<1>1. /\ CoroutineCount \in Nat \ {0}
      /\ Null \notin Conn \cup (0 .. CoroutineCount - 1)
  BY EngineAssumption
<1>2. IsFiniteSet(0 .. CoroutineCount - 1) BY <1>1, FS_Interval
<1>3. 0 \in 0 .. CoroutineCount - 1 BY <1>1
<1> QED BY <1>1, <1>2, <1>3 DEF Context

(* What CoroutinePoolProofs assumes of its parameters.                     *)
LEMMA PoolAssumption ==
  PoolProofs!IsFiniteSet(Context) /\ Context # {} /\ Null \notin Context
<1>1. IsFiniteSet(Context) BY ContextIsPool
<1>2. PoolProofs!IsFiniteSet(Context)
  BY <1>1 DEF PoolProofs!IsFiniteSet, IsFiniteSet
<1> QED BY <1>2, ContextIsPool

LEMMA PoolKept ==
  ASSUME PoolProofs!Inv, UNCHANGED poolVars
  PROVE  PoolProofs!Inv'
<1>1. UNCHANGED PoolProofs!poolVars
  BY DEF poolVars, PoolProofs!poolVars, PoolProofs!listVars
<1> QED BY <1>1, PoolAssumption, PoolProofs!UnchangedInv
        DEF PoolProofs!UnchangedInv

LEMMA PoolHead ==
  ASSUME PoolProofs!Inv, context_count > 0
  PROVE  pool \in created \ held
BY PoolAssumption, PoolProofs!HeadIsIdle DEF PoolProofs!HeadIsIdle

LEMMA PoolUsed ==
  ASSUME PoolProofs!Inv, created = Context, Pool!UseContext
  PROVE  /\ PoolProofs!Inv' /\ created' = Context
         /\ pool \in Context \ held /\ held' = held \cup {pool}
<1>1. PoolProofs!UseContext
  BY DEF Pool!UseContext, PoolProofs!UseContext, Pool!Store, PoolProofs!Store,
         Pool!StopIfEmpty, PoolProofs!StopIfEmpty
<1>2. PoolProofs!Inv'
  BY <1>1, PoolAssumption, PoolProofs!UseContextInv
     DEF PoolProofs!UseContextInv
<1>3. context_count > 0 /\ created' = created /\ held' = held \cup {pool}
  BY DEF Pool!UseContext
<1>4. pool \in Context \ held BY <1>3, PoolHead
<1> QED BY <1>2, <1>3, <1>4

LEMMA PoolFreed ==
  ASSUME PoolProofs!Inv, created = Context, NEW c \in held,
         Pool!FreeContext(c)
  PROVE  /\ PoolProofs!Inv' /\ created' = Context
         /\ held' = held \ {c}
<1>1. PoolProofs!FreeContext(c)
  BY DEF Pool!FreeContext, PoolProofs!FreeContext,
         Pool!UnlinkedNext, PoolProofs!UnlinkedNext,
         Pool!UnlinkedPrev, PoolProofs!UnlinkedPrev,
         Pool!Store, PoolProofs!Store,
         Pool!ContinueIfAny, PoolProofs!ContinueIfAny
<1>2. PoolProofs!Inv'
  BY <1>1, PoolAssumption, PoolProofs!FreeContextInv
     DEF PoolProofs!FreeContextInv
<1>3. created' = created /\ held' = held \ {c} BY DEF Pool!FreeContext
<1> QED BY <1>2, <1>3

LEMMA SameCardinality == PoolProofs!Cardinality(Context) = CoroutineCount
<1>1. CoroutineCount \in Nat \ {0} BY EngineAssumption
<1>2. Cardinality(0 .. CoroutineCount - 1) = CoroutineCount
  BY <1>1, FS_Interval
<1>3. PoolProofs!Cardinality(Context) = Cardinality(Context)
  BY DEF PoolProofs!Cardinality, Cardinality
<1> QED BY <1>2, <1>3 DEF Context

LEMMA SamePoolTypes == Pool!TypeOK <=> PoolProofs!TypeOK
BY DEF Pool!TypeOK, PoolProofs!TypeOK, Pool!Pointer, PoolProofs!Pointer,
       Pool!Cardinality, PoolProofs!Cardinality

(* The pool a worker is forked with is the one init_coroutine_context      *)
(* leaves: the context built last in front.                                *)
LEMMA PoolInitially == Init => PoolProofs!Inv
<1> SUFFICES ASSUME Init PROVE PoolProofs!Inv OBVIOUS
<1> DEFINE n == CoroutineCount
           s == [i \in 1 .. n |-> n - i]
           e == [i \in 1 .. 0 |-> Null]
<1>1. n \in Nat \ {0} /\ Context = 0 .. n - 1 /\ Null \notin Context
  BY EngineAssumption, PoolAssumption DEF Context
<1>2. PoolProofs!Cardinality(Context) = n BY SameCardinality
<1>3. PoolProofs!TypeOK
  <2>1. \A c \in 0 .. n - 1 : c # 0 => c - 1 \in 0 .. n - 1 BY <1>1
  <2>2. \A c \in 0 .. n - 1 : c # n - 1 => c + 1 \in 0 .. n - 1 BY <1>1
  <2>3. 0 \in 0 .. n - 1 /\ n - 1 \in 0 .. n - 1 /\ n \in 0 .. n BY <1>1
  <2>4. /\ next \in [Context -> PoolProofs!Pointer]
        /\ prev \in [Context -> PoolProofs!Pointer]
    BY <1>1, <2>1, <2>2 DEF Init, PoolProofs!Pointer
  <2> QED BY <1>1, <1>2, <2>3, <2>4
          DEF Init, PoolProofs!TypeOK, PoolProofs!Pointer
<1>4. s \in [1 .. n -> Context] BY <1>1
<1>5. PoolProofs!Represents(s, n, pool)
  <2>1. pool = IF n = 0 THEN Null ELSE s[1] BY <1>1 DEF Init
  <2>2. ASSUME NEW i \in 1 .. n
        PROVE  /\ next[s[i]] = IF i = n THEN Null ELSE s[i + 1]
               /\ prev[s[i]] = IF i = 1 THEN Null ELSE s[i - 1]
    BY <1>1 DEF Init
  <2>3. \A i, j \in 1 .. n : s[i] = s[j] => i = j BY <1>1
  <2> QED BY <2>1, <2>2, <2>3 DEF PoolProofs!Represents
<1>6. PoolProofs!Members(s) = created \ held
  <2>1. ASSUME NEW x \in Context PROVE \E i \in DOMAIN s : x = s[i]
    <3>1. n - x \in 1 .. n /\ s[n - x] = x BY <1>1
    <3> QED BY <3>1
  <2>2. \A i \in DOMAIN s : s[i] \in Context BY <1>4
  <2>3. PoolProofs!Members(s) = Context
    BY <2>1, <2>2 DEF PoolProofs!Members
  <2> QED BY <2>3 DEF Init
<1>7. PoolProofs!PoolIsList
  <2>1. pool_end = IF n = 0 THEN Null ELSE s[n] BY <1>1 DEF Init
  <2>2. context_count = n /\ n \in 0 .. PoolProofs!Cardinality(Context)
    BY <1>1, <1>2 DEF Init
  <2> HIDE DEF s
  <2> QED BY <1>4, <1>5, <1>6, <2>1, <2>2 DEF PoolProofs!PoolIsList
<1>8. PoolProofs!UseIsList
  <2>1. PoolProofs!Represents(e, 0, use)
    BY DEF Init, PoolProofs!Represents
  <2>2. PoolProofs!Members(e) = held BY DEF Init, PoolProofs!Members
  <2>3. e \in [1 .. 0 -> Context] OBVIOUS
  <2>4. 0 \in 0 .. PoolProofs!Cardinality(Context) BY <1>1, <1>2
  <2> HIDE DEF e
  <2> QED BY <2>1, <2>2, <2>3, <2>4 DEF PoolProofs!UseIsList
<1>9. PoolProofs!StopMatchesCount
  BY <1>1 DEF Init, PoolProofs!StopMatchesCount
<1> QED BY <1>3, <1>7, <1>8, <1>9
        DEF PoolProofs!Inv, PoolProofs!ListIntegrity

-----------------------------------------------------------------------------
(* The inductive invariant.                                                *)

(* The types of the variables that are the worker's own.                   *)
WorkerTypes ==
  /\ backlog \subseteq Conn /\ hup \subseteq Conn
  /\ sent \in [Conn -> {"nothing", "head", "all"}]
  /\ inbuf \in [Conn -> {"empty", "request", "cut", "rest"}]
  /\ answer \in [Conn -> SUBSET Conn]
  /\ cb \in [Conn -> Context \cup {Null}]
  /\ fd \in [Context -> Conn \cup {Null}]
  /\ req \in [Context -> Conn \cup {Null}]
  /\ suspended \subseteq Context
  /\ calls \subseteq Call
  /\ ncalls \in [Conn -> 0 .. MaxCalls]
  /\ tls \in Context
  /\ requests \in 0 .. MaxRequests + 1
  /\ loop \in {"running", "exiting", "exited", "dead"}

(* A bufferevent's context is held, and has that bufferevent.              *)
OwnersHold ==
  \A k \in Conn : cb[k] # Null => cb[k] \in held /\ fd[cb[k]] = k

(* A context a reply is to come for is held, has at most the connection    *)
(* the call was made for, and waits for no second reply.                   *)
CallersHold ==
  /\ \A call \in calls : call.ctx \in held /\ fd[call.ctx] \in {Null, call.conn}
  /\ \A a, b \in calls : a.ctx = b.ctx => a = b

(* A caller whose client is there has read the whole of its request.       *)
CallersWait ==
  \A call \in calls : fd[call.ctx] # Null =>
    /\ cb[call.conn] = call.ctx /\ req[call.ctx] = call.conn
    /\ inbuf[call.conn] = "empty" /\ sent[call.conn] = "all"

(* A connection the kernel holds has no bufferevent.                       *)
QueuedHaveNone == \A k \in backlog : cb[k] = Null

(* Nothing is to come after a request whose script makes a remote call.    *)
RequestsAreWhole ==
  MaxCalls > 0 =>
    \A k \in Conn : inbuf[k] \in {"request", "cut"} => sent[k] = "all"

IInv ==
  /\ PoolProofs!Inv /\ created = Context
  /\ WorkerTypes
  /\ OwnersHold /\ CallersHold /\ CallersWait
  /\ QueuedHaveNone /\ RequestsAreWhole /\ AnswersAreOwn

LEMMA InitIInv == Init => IInv
<1> SUFFICES ASSUME Init PROVE IInv OBVIOUS
<1> USE DEF Init
<1>1. PoolProofs!Inv BY PoolInitially
<1>2. /\ CoroutineCount \in Nat \ {0} /\ MaxCalls \in Nat
      /\ MaxRequests \in Nat
  BY EngineAssumption
<1>3. CoroutineCount - 1 \in Context BY <1>2 DEF Context
<1>4. WorkerTypes BY <1>2, <1>3 DEF WorkerTypes
<1>5. OwnersHold /\ CallersHold /\ CallersWait
  BY DEF OwnersHold, CallersHold, CallersWait
<1>6. QueuedHaveNone /\ RequestsAreWhole /\ AnswersAreOwn
  BY DEF QueuedHaveNone, RequestsAreWhole, AnswersAreOwn
<1> QED BY <1>1, <1>4, <1>5, <1>6 DEF IInv

LEMMA NullIsNone == Null \notin Conn /\ Null \notin Context /\ MaxCalls \in Nat
BY EngineAssumption, PoolAssumption

(* What does not touch the pool leaves its part of the invariant.          *)
LEMMA PoolPart ==
  ASSUME IInv, UNCHANGED poolVars
  PROVE  PoolProofs!Inv' /\ created' = Context /\ held' = held
<1>1. created' = created /\ held' = held BY DEF poolVars
<1> QED BY <1>1, PoolKept DEF IInv

LEMMA ClientIInv ==
  ASSUME Orderly, IInv, NEW k \in Conn, Client(k)
  PROVE  IInv'
<1> USE NullIsNone DEF coroVars
<1>1. PoolProofs!Inv' /\ created' = Context /\ held' = held
  <2>1. UNCHANGED poolVars
    BY DEF Client, ClientConnect, ClientSend, ClientSendRest, ClientHangUp,
           ConnectionGone
  <2> QED BY <2>1, PoolPart
<1>2. UNCHANGED <<cb, fd, req, suspended, calls, tls, requests, loop>>
  BY DEF Client, ClientConnect, ClientSend, ClientSendRest, ClientHangUp,
         ConnectionGone
<1>3. OwnersHold' /\ CallersHold'
  BY <1>1, <1>2 DEF IInv, OwnersHold, CallersHold
<1>4. WorkerTypes'
  <2>1. CASE ClientConnect(k)
    BY <1>2, <2>1 DEF IInv, WorkerTypes, ClientConnect
  <2>2. CASE ClientSend(k)
    BY <1>2, <2>2 DEF IInv, WorkerTypes, ClientSend
  <2>3. CASE ClientSendRest(k)
    BY <1>2, <2>3 DEF IInv, WorkerTypes, ClientSendRest
  <2>4. CASE ClientHangUp(k)
    BY <1>2, <2>4 DEF IInv, WorkerTypes, ClientHangUp
  <2>5. CASE ConnectionGone(k)
    BY <1>2, <2>5 DEF IInv, WorkerTypes, ConnectionGone
  <2> QED BY <2>1, <2>2, <2>3, <2>4, <2>5 DEF Client
<1>5. CallersWait'
  <2>1. ASSUME NEW call \in calls, fd[call.ctx] # Null
        PROVE  call.conn = k => sent[k] = "all" /\ k \notin backlog
    <3>1. call.ctx \in Context BY DEF IInv, WorkerTypes, Call
    <3> QED BY <2>1, <3>1 DEF IInv, CallersWait, QueuedHaveNone
  <2>2. \A j \in Conn : j # k => sent'[j] = sent[j] /\ inbuf'[j] = inbuf[j]
    BY DEF Client, ClientConnect, ClientSend, ClientSendRest, ClientHangUp,
           ConnectionGone, IInv, WorkerTypes
  <2>3. sent[k] = "all" /\ k \notin backlog
          => sent'[k] = sent[k] /\ inbuf'[k] = inbuf[k]
    BY DEF Client, ClientConnect, ClientSend, ClientSendRest, ClientHangUp,
           ConnectionGone, IInv, WorkerTypes
  <2>4. \A call \in calls : call.conn \in Conn
    BY DEF IInv, WorkerTypes, Call
  <2> QED BY <1>2, <2>1, <2>2, <2>3, <2>4 DEF IInv, CallersWait
<1>6. QueuedHaveNone'
  BY <1>2 DEF Client, ClientConnect, ClientSend, ClientSendRest, ClientHangUp,
              ConnectionGone, Live, IInv, QueuedHaveNone
<1>7. RequestsAreWhole'
  <2>1. CASE ClientConnect(k) \/ ClientHangUp(k)
    BY <2>1 DEF ClientConnect, ClientHangUp, IInv, RequestsAreWhole
  <2>2. CASE ClientSend(k)
    BY <2>2 DEF ClientSend, IInv, RequestsAreWhole, WorkerTypes, Orderly,
                Undivided
  <2>3. CASE ClientSendRest(k)
    BY <2>3 DEF ClientSendRest, IInv, RequestsAreWhole, WorkerTypes
  <2>4. CASE ConnectionGone(k)
    BY <2>4 DEF ConnectionGone, IInv, RequestsAreWhole, WorkerTypes
  <2> QED BY <2>1, <2>2, <2>3, <2>4 DEF Client
<1>8. AnswersAreOwn'
  <2>1. CASE ClientConnect(k)
    BY <2>1 DEF ClientConnect, IInv, AnswersAreOwn, WorkerTypes
  <2>2. CASE ~ClientConnect(k)
    <3>1. UNCHANGED answer
      BY <2>2 DEF Client, ClientSend, ClientSendRest, ClientHangUp,
                  ConnectionGone
    <3> QED BY <3>1 DEF IInv, AnswersAreOwn
  <2> QED BY <2>1, <2>2
<1> QED BY <1>1, <1>3, <1>4, <1>5, <1>6, <1>7, <1>8 DEF IInv

LEMMA DoAcceptIInv ==
  ASSUME IInv, NEW k \in Conn, DoAccept(k)
  PROVE  IInv'
<1> USE NullIsNone DEF DoAccept, Checkout
<1>1. /\ PoolProofs!Inv' /\ created' = Context
      /\ pool \in Context \ held /\ held' = held \cup {pool}
  BY PoolUsed DEF IInv
<1>2. cb[k] = Null BY DEF IInv, QueuedHaveNone
<1>3. WorkerTypes' BY <1>1 DEF IInv, WorkerTypes
<1>4. OwnersHold' BY <1>1 DEF IInv, OwnersHold, WorkerTypes
<1>5. \A call \in calls : /\ call.ctx \in Context /\ call.conn \in Conn
                          /\ call.ctx # pool
  BY <1>1 DEF IInv, CallersHold, WorkerTypes, Call
<1>6. CallersHold' BY <1>1, <1>5 DEF IInv, CallersHold, WorkerTypes
<1>7. CallersWait'
  <2>1. \A call \in calls : fd[call.ctx] # Null => call.conn # k
    BY <1>2, <1>5 DEF IInv, CallersWait
  <2> QED BY <1>5, <2>1 DEF IInv, CallersWait, WorkerTypes
<1>8. QueuedHaveNone' BY DEF IInv, QueuedHaveNone, WorkerTypes
<1>9. RequestsAreWhole' /\ AnswersAreOwn'
  BY DEF IInv, RequestsAreWhole, AnswersAreOwn
<1> QED BY <1>1, <1>3, <1>4, <1>6, <1>7, <1>8, <1>9 DEF IInv

(* The parts of the invariant that relate contexts and connections.        *)
Related == /\ PoolProofs!Inv /\ created = Context
           /\ OwnersHold /\ CallersHold /\ CallersWait
           /\ QueuedHaveNone /\ RequestsAreWhole

(* A request that ends: its context is given back, its connection closed,  *)
(* and no reply is to come for the context.                                *)
LEMMA RequestEnds ==
  ASSUME IInv, NEW c \in held, NEW k \in Conn, fd[c] = k, cb[k] = c,
         Release(c), UNCHANGED <<backlog, fd>>,
         calls' \subseteq calls, \A call \in calls' : call.ctx # c,
         \A d \in Context \ {c} : req'[d] = req[d]
  PROVE  /\ Related'
         /\ cb' \in [Conn -> Context \cup {Null}]
         /\ sent' \in [Conn -> {"nothing", "head", "all"}]
         /\ inbuf' \in [Conn -> {"empty", "request", "cut", "rest"}]
         /\ hup' \subseteq Conn
<1> USE NullIsNone
<1>1. /\ PoolProofs!Inv' /\ created' = Context /\ held' = held \ {c}
  BY PoolFreed DEF IInv, Release
<1>2. {fd[c]} \ {Null} = {k} OBVIOUS
<1>3. /\ cb'    = [j \in Conn |-> IF j = k THEN Null ELSE cb[j]]
      /\ sent'  = [j \in Conn |-> IF j = k THEN "nothing" ELSE sent[j]]
      /\ inbuf' = [j \in Conn |-> IF j = k THEN "empty" ELSE inbuf[j]]
      /\ hup'   = hup \ {k}
  BY <1>2 DEF Release, CloseConnections
<1>4. \A call \in calls' :
        /\ call \in calls /\ call.ctx \in Context /\ call.conn \in Conn
        /\ call.ctx # c
        /\ fd[call.ctx] # Null => call.conn # k
  BY DEF IInv, WorkerTypes, Call, CallersWait
<1>5. OwnersHold' BY <1>1, <1>3 DEF IInv, OwnersHold
<1>6. CallersHold' BY <1>1, <1>4 DEF IInv, CallersHold
<1>7. CallersWait' BY <1>3, <1>4 DEF IInv, CallersWait
<1>8. QueuedHaveNone' BY <1>3 DEF IInv, QueuedHaveNone, WorkerTypes
<1>9. RequestsAreWhole' BY <1>3 DEF IInv, RequestsAreWhole
<1>10. /\ cb' \in [Conn -> Context \cup {Null}]
       /\ sent' \in [Conn -> {"nothing", "head", "all"}]
       /\ inbuf' \in [Conn -> {"empty", "request", "cut", "rest"}]
       /\ hup' \subseteq Conn
  BY <1>3 DEF IInv, WorkerTypes
<1> QED BY <1>1, <1>5, <1>6, <1>7, <1>8, <1>9, <1>10 DEF Related

(* A script that yields: it has read all of its request, and waits for no  *)
(* other reply.                                                            *)
LEMMA ScriptYields ==
  ASSUME IInv, NEW c \in Context, NEW k \in Conn, NEW open \in SUBSET calls,
         fd[c] = k, cb[k] = c, sent[k] = "all",
         Yield(c, k, open), UNCHANGED <<backlog, fd>>,
         \A call \in open : call.ctx # c,
         req' = [req EXCEPT ![c] = k],
         inbuf' = [inbuf EXCEPT ![k] = "empty"]
  PROVE  /\ Related'
         /\ calls' \subseteq Call
         /\ suspended' \subseteq Context
         /\ ncalls' \in [Conn -> 0 .. MaxCalls]
<1> USE NullIsNone DEF Yield
<1> DEFINE new == [ctx |-> c, conn |-> k]
<1>1. PoolProofs!Inv' /\ created' = Context /\ held' = held BY PoolPart
<1>2. calls' \subseteq open \cup {new} OBVIOUS
<1>3. new \in Call /\ new.ctx = c /\ new.conn = k BY DEF Call
<1>4. \A call \in open :
        /\ call \in calls /\ call.ctx \in Context /\ call.conn \in Conn
        /\ call.ctx # c
        /\ fd[call.ctx] # Null => call.conn # k
  BY DEF IInv, WorkerTypes, Call, CallersWait
<1>5. OwnersHold' BY <1>1 DEF IInv, OwnersHold
<1>6. CallersHold'
  <2>1. c \in held BY DEF IInv, OwnersHold
  <2> HIDE DEF new
  <2> QED BY <1>1, <1>2, <1>3, <1>4, <2>1 DEF IInv, CallersHold
<1>7. CallersWait'
  <2>1. ASSUME NEW call \in calls', fd'[call.ctx] # Null
        PROVE  /\ cb'[call.conn] = call.ctx /\ req'[call.ctx] = call.conn
               /\ inbuf'[call.conn] = "empty" /\ sent'[call.conn] = "all"
    <3> HIDE DEF new
    <3>1. CASE call = new BY <1>3, <3>1 DEF IInv, WorkerTypes
    <3>2. CASE call \in open
      BY <1>4, <2>1, <3>2 DEF IInv, WorkerTypes, CallersWait
    <3> QED BY <1>2, <3>1, <3>2
  <2> QED BY <2>1 DEF CallersWait
<1>8. QueuedHaveNone' BY DEF IInv, QueuedHaveNone
<1>9. RequestsAreWhole' BY DEF IInv, RequestsAreWhole, WorkerTypes
<1>10. calls' \subseteq Call
  <2> HIDE DEF new
  <2> QED BY <1>2, <1>3 DEF IInv, WorkerTypes
<1>11. suspended' \subseteq Context BY DEF IInv, WorkerTypes
<1>12. ncalls' \in [Conn -> 0 .. MaxCalls] BY DEF IInv, WorkerTypes
<1> QED BY <1>1, <1>5, <1>6, <1>7, <1>8, <1>9, <1>10, <1>11, <1>12
        DEF Related

(* No reply is to come for a connection the worker is called back for.     *)
LEMMA ReaderIsAlone ==
  ASSUME IInv, NEW k \in Conn, cb[k] # Null, inbuf[k] # "empty"
  PROVE  /\ cb[k] \in Context /\ cb[k] \in held /\ fd[cb[k]] = k
         /\ \A call \in calls : call.ctx # cb[k]
<1>1. cb[k] \in Context /\ cb[k] \in held /\ fd[cb[k]] = k /\ k # Null
  BY NullIsNone DEF IInv, WorkerTypes, OwnersHold
<1>2. ASSUME NEW call \in calls, call.ctx = cb[k] PROVE FALSE
  <2>1. call.conn = k BY <1>1, <1>2 DEF IInv, CallersHold
  <2>2. inbuf[k] = "empty" BY <1>1, <1>2, <2>1 DEF IInv, CallersWait
  <2> QED BY <2>2
<1> QED BY <1>1, <1>2

LEMMA SocketReadIInv ==
  ASSUME IInv, NEW k \in Conn, SocketRead(k)
  PROVE  IInv'
<1> USE NullIsNone
<1> DEFINE c == cb[k]
<1>1. /\ c # Null /\ inbuf[k] # "empty" /\ tls' = c
      /\ req' = [req EXCEPT ![c] = k] /\ backlog' = backlog /\ fd' = fd
  BY DEF SocketRead, Checkout
<1>2. /\ c \in Context /\ c \in held /\ fd[c] = k
      /\ \A call \in calls : call.ctx # c
  BY <1>1, ReaderIsAlone
<1>3. /\ backlog' \subseteq Conn
      /\ fd' \in [Context -> Conn \cup {Null}]
      /\ req' \in [Context -> Conn \cup {Null}]
      /\ tls' \in Context
  BY <1>1, <1>2 DEF IInv, WorkerTypes
<1>4. CASE /\ \E S \in Outcomes(k) : Answer(k, S)
           /\ suspended' = suspended \ {c}
           /\ CloseRequest
           /\ loop' = IF Limit THEN "exiting" ELSE loop
           /\ Release(c)
           /\ UNCHANGED <<calls, ncalls>>
  <2>1. /\ Related'
        /\ cb' \in [Conn -> Context \cup {Null}]
        /\ sent' \in [Conn -> {"nothing", "head", "all"}]
        /\ inbuf' \in [Conn -> {"empty", "request", "cut", "rest"}]
        /\ hup' \subseteq Conn
    <3>1. \A d \in Context \ {c} : req'[d] = req[d]
      BY <1>1 DEF IInv, WorkerTypes
    <3> HIDE DEF c
    <3> QED BY <1>1, <1>2, <1>4, <3>1, RequestEnds DEF c
  <2>2. answer' \in [Conn -> SUBSET Conn] /\ AnswersAreOwn'
    <3>1. PICK S \in Outcomes(k) : Answer(k, S) BY <1>4
    <3>2. S \subseteq {k} BY DEF Outcomes
    <3> QED BY <3>1, <3>2 DEF Answer, IInv, WorkerTypes, AnswersAreOwn
  <2>3. requests' \in 0 .. MaxRequests + 1
    BY <1>4, EngineAssumption DEF CloseRequest, IInv, WorkerTypes
  <2>4. WorkerTypes'
    BY <1>3, <1>4, <2>1, <2>2, <2>3 DEF IInv, WorkerTypes
  <2> QED BY <2>1, <2>2, <2>4 DEF IInv, Related
<1>5. CASE /\ inbuf[k] # "rest"
           /\ inbuf' = [inbuf EXCEPT ![k] = "empty"]
           /\ Yield(c, k, calls)
           /\ UNCHANGED answer
  <2>1. sent[k] = "all"
    BY <1>1, <1>5 DEF Yield, IInv, WorkerTypes, RequestsAreWhole
  <2>2. /\ Related'
        /\ calls' \subseteq Call
        /\ suspended' \subseteq Context
        /\ ncalls' \in [Conn -> 0 .. MaxCalls]
    <3> HIDE DEF c
    <3> QED BY <1>1, <1>2, <1>5, <2>1, ScriptYields DEF c
  <2>3. WorkerTypes'
    BY <1>3, <1>5, <2>2 DEF Yield, IInv, WorkerTypes
  <2>4. AnswersAreOwn' BY <1>5 DEF IInv, AnswersAreOwn
  <2> QED BY <2>2, <2>3, <2>4 DEF IInv, Related
<1>6. CASE /\ CloseConnections({k})
           /\ loop' \in {loop, "dead"}
           /\ UNCHANGED <<poolVars, answer, suspended, calls, ncalls, requests>>
  <2>1. PoolProofs!Inv' /\ created' = Context /\ held' = held
    BY <1>6, PoolPart
  <2>2. /\ cb'    = [j \in Conn |-> IF j = k THEN Null ELSE cb[j]]
        /\ sent'  = [j \in Conn |-> IF j = k THEN "nothing" ELSE sent[j]]
        /\ inbuf' = [j \in Conn |-> IF j = k THEN "empty" ELSE inbuf[j]]
        /\ hup'   = hup \ {k}
    BY <1>6 DEF CloseConnections
  <2>3. WorkerTypes' BY <1>3, <1>6, <2>2 DEF IInv, WorkerTypes
  <2>4. OwnersHold' BY <1>1, <2>1, <2>2 DEF IInv, OwnersHold
  <2>5. CallersHold' BY <1>1, <1>6, <2>1 DEF IInv, CallersHold
  <2>6. CallersWait'
    <3>1. ASSUME NEW call \in calls, fd[call.ctx] # Null
          PROVE  /\ call.conn \in Conn \ {k} /\ cb[call.conn] = call.ctx
                 /\ req'[call.ctx] = call.conn
                 /\ inbuf[call.conn] = "empty" /\ sent[call.conn] = "all"
      <4>1. call.ctx \in Context \ {c} /\ call.conn \in Conn
        BY <1>2 DEF IInv, WorkerTypes, Call
      <4>2. req'[call.ctx] = req[call.ctx]
        BY <1>1, <4>1 DEF IInv, WorkerTypes
      <4> QED BY <3>1, <4>1, <4>2 DEF IInv, CallersWait
    <3> QED BY <1>1, <1>6, <2>2, <3>1 DEF CallersWait
  <2>7. QueuedHaveNone' BY <1>1, <2>2 DEF IInv, QueuedHaveNone, WorkerTypes
  <2>8. RequestsAreWhole' BY <2>2 DEF IInv, RequestsAreWhole
  <2>9. AnswersAreOwn' BY <1>6 DEF IInv, AnswersAreOwn
  <2> QED BY <2>1, <2>3, <2>4, <2>5, <2>6, <2>7, <2>8, <2>9 DEF IInv
<1> QED BY <1>4, <1>5, <1>6 DEF SocketRead

LEMMA ClientGoneIInv ==
  ASSUME IInv, NEW k \in Conn, ClientGone(k)
  PROVE  IInv'
<1> USE NullIsNone
<1> DEFINE c == cb[k]
<1>1. /\ c # Null /\ tls' = c /\ fd' = [fd EXCEPT ![c] = Null]
      /\ suspended' = suspended \ {c} /\ CloseRequest
      /\ UNCHANGED poolVars /\ CloseConnections({k})
      /\ loop' \in {loop, "dead"}
      /\ UNCHANGED <<backlog, answer, req, calls, ncalls>>
  BY DEF ClientGone, Checkout, KeepContext
<1>2. c \in Context /\ c \in held /\ fd[c] = k
  BY <1>1 DEF IInv, WorkerTypes, OwnersHold
<1>3. /\ cb'    = [j \in Conn |-> IF j = k THEN Null ELSE cb[j]]
      /\ sent'  = [j \in Conn |-> IF j = k THEN "nothing" ELSE sent[j]]
      /\ inbuf' = [j \in Conn |-> IF j = k THEN "empty" ELSE inbuf[j]]
      /\ hup'   = hup \ {k}
  BY <1>1 DEF CloseConnections
<1>4. PoolProofs!Inv' /\ created' = Context /\ held' = held
  BY <1>1, PoolPart
<1>5. WorkerTypes'
  <2>1. requests' \in 0 .. MaxRequests + 1
    BY <1>1, EngineAssumption DEF CloseRequest, IInv, WorkerTypes
  <2> QED BY <1>1, <1>2, <1>3, <2>1 DEF IInv, WorkerTypes
<1>6. \A d \in Context : fd'[d] = IF d = c THEN Null ELSE fd[d]
  BY <1>1 DEF IInv, WorkerTypes
<1>7. OwnersHold'
  <2>1. ASSUME NEW j \in Conn, cb'[j] # Null
        PROVE  cb'[j] \in held /\ fd'[cb'[j]] = j
    <3>1. j # k /\ cb'[j] = cb[j] BY <1>3, <2>1
    <3>2. cb[j] \in Context /\ cb[j] \in held /\ fd[cb[j]] = j
      BY <2>1, <3>1 DEF IInv, OwnersHold, WorkerTypes
    <3> QED BY <1>2, <1>6, <3>1, <3>2
  <2> QED BY <1>4, <2>1 DEF OwnersHold
<1>8. \A call \in calls : call.ctx \in Context /\ call.conn \in Conn
  BY DEF IInv, WorkerTypes, Call
<1>9. CallersHold' BY <1>1, <1>4, <1>6, <1>8 DEF IInv, CallersHold
<1>10. CallersWait'
  <2>1. ASSUME NEW call \in calls, fd'[call.ctx] # Null
        PROVE  call.ctx # c /\ fd[call.ctx] # Null /\ call.conn # k
    BY <1>6, <1>8, <2>1 DEF IInv, CallersWait
  <2> QED BY <1>1, <1>3, <1>8, <2>1 DEF IInv, CallersWait
<1>11. QueuedHaveNone' /\ RequestsAreWhole' /\ AnswersAreOwn'
  BY <1>1, <1>3 DEF IInv, QueuedHaveNone, RequestsAreWhole, AnswersAreOwn,
                    WorkerTypes
<1> QED BY <1>4, <1>5, <1>7, <1>9, <1>10, <1>11 DEF IInv

(* Who a reply finds: its caller, waiting for it alone.                    *)
LEMMA CallerIsFound ==
  ASSUME IInv, NEW call \in calls
  PROVE  /\ call.ctx \in Context /\ call.ctx \in held /\ call.conn \in Conn
         /\ \A other \in calls \ {call} : other.ctx # call.ctx
         /\ fd[call.ctx] # Null =>
              /\ fd[call.ctx] = call.conn /\ cb[call.conn] = call.ctx
              /\ req[call.ctx] = call.conn
              /\ inbuf[call.conn] = "empty" /\ sent[call.conn] = "all"
BY DEF IInv, WorkerTypes, Call, CallersHold, CallersWait

LEMMA RemoteReplyIInv ==
  ASSUME IInv, NEW call \in Call, RemoteReply(call)
  PROVE  IInv'
<1> USE NullIsNone
<1> DEFINE c == call.ctx
           k == call.conn
           open == calls \ {call}
<1>1. /\ call \in calls /\ tls' = c
      /\ backlog' = backlog /\ req' = req
  BY DEF RemoteReply, Checkout
<1>2. /\ c \in Context /\ c \in held /\ k \in Conn
      /\ \A other \in open : other.ctx # c
      /\ fd[c] # Null => /\ fd[c] = k /\ cb[k] = c /\ req[c] = k
                         /\ inbuf[k] = "empty" /\ sent[k] = "all"
  BY <1>1, CallerIsFound
<1>3. CASE /\ fd[c] = Null
           /\ FreeAborted(c)
           /\ calls' = open
           /\ loop' \in {loop, "dead"}
           /\ UNCHANGED <<answer, hup, sent, inbuf, cb, fd, suspended, ncalls,
                          requests>>
  <2>1. PoolProofs!Inv' /\ created' = Context /\ held' = held \ {c}
    <3>1. Pool!FreeContext(c) BY <1>3 DEF FreeAborted
    <3> HIDE DEF c
    <3> QED BY <1>2, <3>1, PoolFreed DEF IInv
  <2>2. WorkerTypes' BY <1>1, <1>2, <1>3 DEF IInv, WorkerTypes
  <2>3. OwnersHold'
    <3>1. \A j \in Conn : cb[j] # Null => cb[j] # c
      BY <1>3 DEF IInv, OwnersHold
    <3> QED BY <1>3, <2>1, <3>1 DEF IInv, OwnersHold
  <2>4. CallersHold' BY <1>2, <1>3, <2>1 DEF IInv, CallersHold
  <2>5. CallersWait' BY <1>1, <1>3 DEF IInv, CallersWait
  <2>6. QueuedHaveNone' /\ RequestsAreWhole' /\ AnswersAreOwn'
    BY <1>1, <1>3 DEF IInv, QueuedHaveNone, RequestsAreWhole, AnswersAreOwn
  <2> QED BY <2>1, <2>2, <2>3, <2>4, <2>5, <2>6 DEF IInv
<1>4. CASE /\ fd[c] # Null
           /\ Answer(req[c], {req[c], k})
           /\ calls' = open
           /\ suspended' = suspended \ {c}
           /\ CloseRequest
           /\ Release(c)
           /\ loop' \in {loop, "dead"}
           /\ UNCHANGED <<fd, ncalls>>
  <2>1. /\ Related'
        /\ cb' \in [Conn -> Context \cup {Null}]
        /\ sent' \in [Conn -> {"nothing", "head", "all"}]
        /\ inbuf' \in [Conn -> {"empty", "request", "cut", "rest"}]
        /\ hup' \subseteq Conn
    <3>1. calls' \subseteq calls /\ \A other \in calls' : other.ctx # c
      BY <1>2, <1>4
    <3> HIDE DEF c, k, open
    <3> QED BY <1>1, <1>2, <1>4, <3>1, RequestEnds
  <2>2. answer' \in [Conn -> SUBSET Conn] /\ AnswersAreOwn'
    BY <1>2, <1>4 DEF Answer, IInv, WorkerTypes, AnswersAreOwn
  <2>3. requests' \in 0 .. MaxRequests + 1
    BY <1>4, EngineAssumption DEF CloseRequest, IInv, WorkerTypes
  <2>4. WorkerTypes'
    BY <1>1, <1>2, <1>4, <2>1, <2>2, <2>3 DEF IInv, WorkerTypes
  <2> QED BY <2>1, <2>2, <2>4 DEF IInv, Related
<1>5. CASE /\ fd[c] # Null
           /\ Answer(req[c], {k})
           /\ Yield(c, req[c], open)
           /\ UNCHANGED <<inbuf, fd>>
  <2>1. /\ req' = [req EXCEPT ![c] = k]
        /\ inbuf' = [inbuf EXCEPT ![k] = "empty"]
    BY <1>1, <1>2, <1>5 DEF IInv, WorkerTypes
  <2>2. /\ Related'
        /\ calls' \subseteq Call
        /\ suspended' \subseteq Context
        /\ ncalls' \in [Conn -> 0 .. MaxCalls]
    <3>1. open \in SUBSET calls OBVIOUS
    <3>2. Yield(c, k, open) BY <1>2, <1>5
    <3> HIDE DEF c, k, open
    <3> QED BY <1>1, <1>2, <1>5, <2>1, <3>1, <3>2, ScriptYields
  <2>3. answer' \in [Conn -> SUBSET Conn] /\ AnswersAreOwn'
    BY <1>2, <1>5 DEF Answer, IInv, WorkerTypes, AnswersAreOwn
  <2>4. UNCHANGED <<cb, sent, hup, requests, loop>> BY <1>5 DEF Yield
  <2>5. WorkerTypes'
    <3> HIDE DEF c, k, open
    <3>1. tls' \in Context BY <1>1, <1>2
    <3>2. UNCHANGED <<backlog, inbuf, fd, req>> BY <1>1, <1>5
    <3> QED BY <2>2, <2>3, <2>4, <3>1, <3>2 DEF IInv, WorkerTypes
  <2> QED BY <2>2, <2>3, <2>5 DEF IInv, Related
<1>6. CASE /\ loop' = "dead"
           /\ UNCHANGED <<poolVars, answer, hup, sent, inbuf, cb, fd,
                          suspended, calls, ncalls, requests>>
  <2>1. PoolProofs!Inv' /\ created' = Context /\ held' = held
    BY <1>6, PoolPart
  <2>2. WorkerTypes' BY <1>1, <1>2, <1>6 DEF IInv, WorkerTypes
  <2>3. OwnersHold' /\ CallersHold' /\ CallersWait'
    BY <1>1, <1>6, <2>1 DEF IInv, OwnersHold, CallersHold, CallersWait
  <2>4. QueuedHaveNone' /\ RequestsAreWhole' /\ AnswersAreOwn'
    BY <1>1, <1>6 DEF IInv, QueuedHaveNone, RequestsAreWhole, AnswersAreOwn
  <2> QED BY <2>1, <2>2, <2>3, <2>4 DEF IInv
<1> QED
  <2>1. loop' = loop => loop' \in {loop, "dead"} OBVIOUS
  <2>2. tls' = c BY <1>1
  <2> QED BY <1>3, <1>4, <1>5, <1>6, <2>2 DEF RemoteReply

LEMMA IdleIInv ==
  ASSUME IInv, UNCHANGED <<poolVars, clientVars, coroVars, requests>>,
         loop' \in {loop, "exited"}
  PROVE  IInv'
<1> USE DEF clientVars, coroVars
<1>1. PoolProofs!Inv' /\ created' = Context /\ held' = held BY PoolPart
<1>2. WorkerTypes' BY DEF IInv, WorkerTypes
<1>3. OwnersHold' /\ CallersHold' /\ CallersWait'
  BY <1>1 DEF IInv, OwnersHold, CallersHold, CallersWait
<1>4. QueuedHaveNone' /\ RequestsAreWhole' /\ AnswersAreOwn'
  BY DEF IInv, QueuedHaveNone, RequestsAreWhole, AnswersAreOwn
<1> QED BY <1>1, <1>2, <1>3, <1>4 DEF IInv

LEMMA NextIInv ==
  ASSUME Orderly, IInv, [Next]_vars
  PROVE  IInv'
<1>1. CASE \E k \in Conn : Client(k) \/ Worker(k)
  BY <1>1, ClientIInv, DoAcceptIInv, SocketReadIInv, ClientGoneIInv DEF Worker
<1>2. CASE \E call \in Call : RemoteReply(call) BY <1>2, RemoteReplyIInv
<1>3. CASE LoopExit BY <1>3, IdleIInv DEF LoopExit
<1>4. CASE UNCHANGED vars BY <1>4, IdleIInv DEF vars
<1> QED BY <1>1, <1>2, <1>3, <1>4 DEF Next

LEMMA Invariance ==
  ASSUME Orderly
  PROVE  Spec => []IInv
<1>1. Init => IInv BY InitIInv
<1>2. IInv /\ [Next]_vars => IInv' BY NextIInv
<1> QED BY <1>1, <1>2, PTL DEF Spec

-----------------------------------------------------------------------------
(* Every variable keeps its type.                                          *)
THEOREM TypeCorrect ==
  ASSUME Orderly
  PROVE  Spec => []TypeOK
<1>1. IInv => TypeOK
  <2>1. PoolProofs!Inv => Pool!TypeOK BY SamePoolTypes DEF PoolProofs!Inv
  <2> QED BY <2>1 DEF IInv, WorkerTypes, TypeOK
<1> QED BY <1>1, Invariance, PTL

(* What a callback or a reply will come back for is out of the pool.       *)
THEOREM ReferredAreHeld ==
  ASSUME Orderly
  PROVE  Spec => []ReferredIsHeld
<1>1. IInv => ReferredIsHeld
  BY DEF IInv, OwnersHold, CallersHold, ReferredIsHeld
<1> QED BY <1>1, Invariance, PTL

(* No two connections and no two replies share a context.                  *)
THEOREM ContextsAreExclusive ==
  ASSUME Orderly
  PROVE  Spec => []ContextExclusive
<1>1. IInv => ContextExclusive
  BY DEF IInv, OwnersHold, CallersHold, ContextExclusive
<1> QED BY <1>1, Invariance, PTL

(* A response is made by its own script and by the replies to its calls.   *)
THEOREM ResponsesAreOwn ==
  ASSUME Orderly
  PROVE  Spec => []AnswersAreOwn
<1>1. IInv => AnswersAreOwn BY DEF IInv
<1> QED BY <1>1, Invariance, PTL

(* do_accept is never called back with no context to hand out.             *)
THEOREM ListenerHasContext ==
  ASSUME Orderly
  PROVE  Spec => []AcceptHasContext
<1>1. ASSUME IInv, ~listener_event_stop
      PROVE  context_count > 0 /\ pool # Null
  <2>1. context_count \in 0 .. PoolProofs!Cardinality(Context)
    BY <1>1 DEF IInv, PoolProofs!Inv, PoolProofs!TypeOK
  <2>2. context_count \in Nat
    BY <2>1, SameCardinality, EngineAssumption
  <2>3. context_count # 0
    BY <1>1 DEF IInv, PoolProofs!Inv, PoolProofs!StopMatchesCount
  <2>4. context_count > 0 BY <2>2, <2>3
  <2>5. pool \in Context BY <1>1, <2>4, PoolHead DEF IInv
  <2> QED BY <2>4, <2>5, NullIsNone
<1>2. IInv => AcceptHasContext BY <1>1 DEF AcceptHasContext
<1> QED BY <1>2, Invariance, PTL

(* The worker takes and gives back contexts as the pool has it: whoever    *)
(* calls free_coroutine_context was handed the context and still has it.   *)
THEOREM WorkerKeepsPoolProtocol ==
  ASSUME Orderly
  PROVE  Spec => PoolProtocol
<1>1. ASSUME IInv, [Next]_vars
      PROVE  [Pool!Next]_poolVars
  <2>1. ASSUME NEW k \in Conn, Client(k) PROVE UNCHANGED poolVars
    BY <2>1 DEF Client, ClientConnect, ClientSend, ClientSendRest,
                ClientHangUp, ConnectionGone
  <2>2. ASSUME NEW k \in Conn, DoAccept(k) PROVE Pool!Next
    BY <1>1, <2>2 DEF DoAccept, IInv, Pool!Next
  <2>3. ASSUME NEW k \in Conn, SocketRead(k)
        PROVE  UNCHANGED poolVars \/ Pool!Next
    <3>1. cb[k] \in held BY <1>1, <2>3, ReaderIsAlone DEF SocketRead
    <3>2. UNCHANGED poolVars \/ Pool!FreeContext(cb[k])
      BY <2>3 DEF SocketRead, Release, Yield
    <3> QED BY <3>1, <3>2 DEF Pool!Next
  <2>4. ASSUME NEW k \in Conn, ClientGone(k) PROVE UNCHANGED poolVars
    BY <2>4 DEF ClientGone, KeepContext
  <2>5. ASSUME NEW call \in Call, RemoteReply(call)
        PROVE  UNCHANGED poolVars \/ Pool!Next
    <3>1. call.ctx \in held
      BY <1>1, <2>5, CallerIsFound DEF RemoteReply
    <3>2. UNCHANGED poolVars \/ Pool!FreeContext(call.ctx)
      <4>1. tls' = call.ctx BY <2>5 DEF RemoteReply, Checkout
      <4> QED BY <2>5, <4>1 DEF RemoteReply, FreeAborted, Release, Yield
    <3> QED BY <3>1, <3>2 DEF Pool!Next
  <2>6. LoopExit \/ UNCHANGED vars => UNCHANGED poolVars
    BY DEF LoopExit, vars
  <2> QED BY <1>1, <2>1, <2>2, <2>3, <2>4, <2>5, <2>6 DEF Next, Worker
<1> QED BY <1>1, Invariance, PTL DEF Spec, PoolProtocol

-----------------------------------------------------------------------------
(* What Undivided means for the worker.                                    *)
NoParts == \A k \in Conn : inbuf[k] \notin {"cut", "rest"} /\ sent[k] # "head"

LEMMA PartlessInvariance ==
  ASSUME Undivided
  PROVE  Spec => [](IInv /\ NoParts)
<1>1. Orderly BY DEF Orderly
<1>2. Init => NoParts BY DEF Init, NoParts
<1>3. ASSUME IInv, NoParts, [Next]_vars PROVE NoParts'
  <2> USE <1>3 DEF IInv, WorkerTypes, NoParts
  <2>1. ASSUME NEW k \in Conn, Client(k) PROVE NoParts'
    BY <2>1 DEF Client, ClientConnect, ClientSend, ClientSendRest,
                ClientHangUp, ConnectionGone, Undivided
  <2>2. ASSUME NEW k \in Conn, Worker(k) PROVE NoParts'
    BY <2>2 DEF Worker, DoAccept, SocketRead, ClientGone, Release,
                CloseConnections, Yield
  <2>3. ASSUME NEW call \in Call, RemoteReply(call) PROVE NoParts'
    BY <2>3 DEF RemoteReply, Release, CloseConnections, Yield
  <2>4. LoopExit \/ UNCHANGED vars => NoParts'
    BY DEF LoopExit, vars, clientVars
  <2> QED BY <2>1, <2>2, <2>3, <2>4 DEF Next
<1> QED BY <1>1, <1>2, <1>3, Invariance, PTL DEF Spec

(* A connection is closed with its response made, or its client gone,      *)
(* where every request is started up.                                      *)
THEOREM ClosedAfterAnswer ==
  ASSUME Undivided, "startup_failure" \notin Conduct
  PROVE  Spec => ClosedWhenAnswered
<1>1. ASSUME IInv, NoParts, [Next]_vars, NEW k \in Conn,
             cb[k] # Null, cb'[k] = Null
      PROVE  k \in hup \/ k \in answer'[k]
  <2> USE <1>1, NullIsNone
  <2>1. ASSUME NEW j \in Conn, Client(j) PROVE FALSE
    BY <2>1 DEF Client, ClientConnect, ClientSend, ClientSendRest,
                ClientHangUp, ConnectionGone, coroVars
  <2>2. ASSUME NEW j \in Conn, DoAccept(j) PROVE FALSE
    <3>1. pool \in Context BY <2>2, PoolUsed DEF DoAccept, IInv
    <3> QED BY <2>2, <3>1 DEF DoAccept, IInv, WorkerTypes
  <2>3. ASSUME NEW j \in Conn, SocketRead(j) PROVE k \in answer'[k]
    <3>1. cb[j] # Null /\ inbuf[j] # "empty" BY <2>3 DEF SocketRead
    <3>2. fd[cb[j]] = j BY <3>1, ReaderIsAlone
    <3>3. Release(cb[j]) /\ Answer(j, {j})
      <4>1. inbuf[j] = "request" BY <3>1 DEF NoParts, IInv, WorkerTypes
      <4>2. \A S \in Outcomes(j) : S = {j} BY <4>1 DEF Outcomes
      <4> QED BY <2>3, <4>2 DEF SocketRead, Yield
    <3>4. k = j BY <3>2, <3>3 DEF Release, CloseConnections
    <3> QED BY <3>3, <3>4 DEF Answer
  <2>4. ASSUME NEW j \in Conn, ClientGone(j) PROVE k \in hup
    BY <2>4 DEF ClientGone, CloseConnections
  <2>5. ASSUME NEW call \in Call, RemoteReply(call) PROVE k \in answer'[k]
    <3>1. tls' = call.ctx /\ call \in calls
      BY <2>5 DEF RemoteReply, Checkout
    <3>2. /\ fd[call.ctx] # Null /\ Release(call.ctx)
          /\ Answer(req[call.ctx], {req[call.ctx], call.conn})
      BY <2>5, <3>1 DEF RemoteReply, Yield
    <3>3. fd[call.ctx] = call.conn /\ req[call.ctx] = call.conn
      BY <3>1, <3>2, CallerIsFound
    <3>4. k = call.conn
      BY <3>2, <3>3 DEF Release, CloseConnections
    <3> QED BY <3>2, <3>3, <3>4 DEF Answer
  <2>6. LoopExit \/ UNCHANGED vars => FALSE
    BY DEF LoopExit, vars, coroVars
  <2> QED BY <2>1, <2>2, <2>3, <2>4, <2>5, <2>6 DEF Next, Worker
<1>2. ASSUME IInv, NoParts, [Next]_vars
      PROVE  [\A k \in Conn : cb[k] # Null /\ cb'[k] = Null
                                => k \in hup \/ k \in answer'[k]]_vars
  BY <1>1, <1>2
<1> QED BY <1>2, PartlessInvariance, PTL DEF Spec, ClosedWhenAnswered

-----------------------------------------------------------------------------
(* No context is lost where nobody goes away before sending, every call is *)
(* sent, and php_request_startup succeeds.                                 *)
Steady ==
  Orderly /\ Conduct \cap {"early_hangup", "unsent_call", "startup_failure"} = {}

Callers == {call.ctx : call \in calls}

(* What the worker has read all of waits for a remote call.                *)
ReadersCall ==
  \A k \in Conn : sent[k] # "nothing" /\ inbuf[k] = "empty"
                    => cb[k] # Null /\ cb[k] \in Callers

LeaversHaveSent == \A k \in hup : sent[k] # "nothing"

AllReferred == \A c \in held : (\E k \in Conn : cb[k] = c) \/ c \in Callers

RInv == IInv /\ ReadersCall /\ LeaversHaveSent /\ AllReferred

(* Connection k is closed with its context, for which no reply is to come, *)
(* or without it, for which one is.                                        *)
LEMMA ClosingKeepsReferred ==
  ASSUME RInv, NEW k \in Conn, NEW c \in Context, fd[c] = k, cb[k] = c,
         CloseConnections({k}),
         \A d \in Context \ {c} : d \in Callers => d \in Callers',
         held' = held \ {c} \/ (held' = held /\ c \in Callers')
  PROVE  ReadersCall' /\ LeaversHaveSent' /\ AllReferred'
<1> USE NullIsNone DEF RInv
<1>1. /\ cb'    = [j \in Conn |-> IF j = k THEN Null ELSE cb[j]]
      /\ sent'  = [j \in Conn |-> IF j = k THEN "nothing" ELSE sent[j]]
      /\ inbuf' = [j \in Conn |-> IF j = k THEN "empty" ELSE inbuf[j]]
      /\ hup'   = hup \ {k}
  BY DEF CloseConnections
<1>2. \A j \in Conn \ {k} : cb[j] # c
  BY DEF IInv, OwnersHold
<1>3. ReadersCall'
  <2>1. ASSUME NEW j \in Conn, sent'[j] # "nothing", inbuf'[j] = "empty"
        PROVE  cb'[j] # Null /\ cb'[j] \in Callers'
    <3>1. j # k /\ cb'[j] = cb[j] /\ sent[j] # "nothing" /\ inbuf[j] = "empty"
      BY <1>1, <2>1
    <3>2. cb[j] # Null /\ cb[j] \in Callers BY <3>1 DEF ReadersCall
    <3>3. cb[j] \in Context \ {c} BY <1>2, <3>1, <3>2 DEF IInv, WorkerTypes
    <3>4. cb[j] \in Callers' BY <3>2, <3>3
    <3> QED BY <3>1, <3>2, <3>4 DEF Callers
  <2> QED BY <2>1 DEF ReadersCall, Callers
<1>4. LeaversHaveSent'
  BY <1>1 DEF LeaversHaveSent, IInv, WorkerTypes
<1>5. AllReferred'
  <2>1. ASSUME NEW d \in held', d # c
        PROVE  (\E j \in Conn : cb'[j] = d) \/ d \in Callers'
    <3>1. d \in held /\ d \in Context
      BY <2>1 DEF IInv, PoolProofs!Inv, PoolProofs!TypeOK
    <3>2. CASE d \in Callers BY <2>1, <3>1, <3>2
    <3>3. CASE \E j \in Conn : cb[j] = d
      <4>1. PICK j \in Conn : cb[j] = d BY <3>3
      <4>2. j # k BY <2>1, <4>1
      <4> QED BY <1>1, <4>1, <4>2
    <3> QED BY <3>1, <3>2, <3>3 DEF AllReferred
  <2>2. c \in held' => c \in Callers' OBVIOUS
  <2> QED BY <2>1, <2>2 DEF AllReferred
<1> QED BY <1>3, <1>4, <1>5

LEMMA ClientReferred ==
  ASSUME Steady, RInv, NEW k \in Conn, Client(k)
  PROVE  ReadersCall' /\ LeaversHaveSent' /\ AllReferred'
<1> USE DEF coroVars, RInv
<1>1. UNCHANGED <<cb, calls, held>>
  BY DEF Client, ClientConnect, ClientSend, ClientSendRest, ClientHangUp,
         ConnectionGone, poolVars
<1>2. AllReferred' BY <1>1 DEF AllReferred, Callers
<1>3. ReadersCall'
  <2>1. \A j \in Conn : sent'[j] # "nothing" /\ inbuf'[j] = "empty"
                         => sent[j] # "nothing" /\ inbuf[j] = "empty"
    BY DEF Client, ClientConnect, ClientSend, ClientSendRest, ClientHangUp,
           ConnectionGone, IInv, WorkerTypes
  <2> QED BY <1>1, <2>1 DEF ReadersCall, Callers
<1>4. LeaversHaveSent'
  BY DEF Client, ClientConnect, ClientSend, ClientSendRest, ClientHangUp,
         ConnectionGone, IInv, WorkerTypes, LeaversHaveSent, Steady
<1> QED BY <1>2, <1>3, <1>4

LEMMA DoAcceptReferred ==
  ASSUME RInv, NEW k \in Conn, DoAccept(k)
  PROVE  ReadersCall' /\ LeaversHaveSent' /\ AllReferred'
<1> USE NullIsNone DEF DoAccept, RInv
<1>1. held' = held \cup {pool} BY PoolUsed DEF IInv
<1>2. cb[k] = Null /\ cb' = [cb EXCEPT ![k] = pool]
  BY DEF IInv, QueuedHaveNone
<1>3. ReadersCall'
  BY <1>2 DEF ReadersCall, Callers, IInv, WorkerTypes
<1>4. LeaversHaveSent' BY DEF LeaversHaveSent
<1>5. AllReferred'
  <2>1. cb'[k] = pool BY <1>2 DEF IInv, WorkerTypes
  <2>2. ASSUME NEW d \in held
        PROVE  (\E j \in Conn : cb'[j] = d) \/ d \in Callers'
    <3>1. d # Null BY DEF IInv, PoolProofs!Inv, PoolProofs!TypeOK
    <3>2. CASE d \in Callers BY <3>2 DEF Callers
    <3>3. CASE \E j \in Conn : cb[j] = d
      BY <1>2, <3>1, <3>3 DEF IInv, WorkerTypes
    <3> QED BY <3>2, <3>3 DEF AllReferred
  <2> QED BY <1>1, <2>1, <2>2 DEF AllReferred
<1> QED BY <1>3, <1>4, <1>5

LEMMA NewCaller ==
  ASSUME NEW c, NEW k, NEW open, calls' = open \cup {[ctx |-> c, conn |-> k]}
  PROVE  Callers' = {call.ctx : call \in open} \cup {c}
<1> DEFINE new == [ctx |-> c, conn |-> k]
<1>1. new.ctx = c OBVIOUS
<1>2. calls' = open \cup {new} OBVIOUS
<1> HIDE DEF new
<1> QED BY <1>1, <1>2 DEF Callers

LEMMA SocketReadReferred ==
  ASSUME Steady, RInv, NEW k \in Conn, SocketRead(k)
  PROVE  ReadersCall' /\ LeaversHaveSent' /\ AllReferred'
<1> USE NullIsNone DEF RInv
<1> DEFINE c == cb[k]
<1>1. /\ c # Null /\ inbuf[k] # "empty" /\ fd' = fd
  BY DEF SocketRead
<1>2. c \in Context /\ c \in held /\ fd[c] = k BY <1>1, ReaderIsAlone
<1>3. CASE Release(c) /\ UNCHANGED calls
  <2>1. CloseConnections({k})
    <3>1. {fd[c]} \ {Null} = {k} BY <1>2
    <3> QED BY <1>3, <3>1 DEF Release
  <2>2. held' = held \ {c} BY <1>3 DEF Release, Pool!FreeContext
  <2>3. Callers' = Callers BY <1>3 DEF Callers
  <2> HIDE DEF c
  <2> QED BY <1>2, <2>1, <2>2, <2>3, ClosingKeepsReferred DEF c
<1>4. CASE Yield(c, k, calls) /\ inbuf' = [inbuf EXCEPT ![k] = "empty"]
  <2>1. /\ calls' = calls \cup {[ctx |-> c, conn |-> k]}
        /\ UNCHANGED <<held, cb, sent, hup>>
    BY <1>4 DEF Yield, Steady, poolVars
  <2>2. Callers' = Callers \cup {c} BY <2>1, NewCaller DEF Callers
  <2>3. AllReferred' BY <2>1, <2>2 DEF AllReferred
  <2>4. LeaversHaveSent' BY <2>1 DEF LeaversHaveSent
  <2>5. ReadersCall'
    BY <1>1, <1>4, <2>1, <2>2 DEF ReadersCall, IInv, WorkerTypes
  <2> QED BY <2>3, <2>4, <2>5
<1> QED BY <1>3, <1>4 DEF SocketRead, Steady

LEMMA ClientGoneReferred ==
  ASSUME RInv, NEW k \in Conn, ClientGone(k)
  PROVE  ReadersCall' /\ LeaversHaveSent' /\ AllReferred'
<1> USE NullIsNone DEF RInv
<1> DEFINE c == cb[k]
<1>1. /\ c # Null /\ k \in hup /\ inbuf[k] = "empty"
      /\ CloseConnections({k}) /\ UNCHANGED <<held, calls>>
  BY DEF ClientGone, KeepContext, poolVars
<1>2. c \in Context /\ fd[c] = k
  BY <1>1 DEF IInv, WorkerTypes, OwnersHold
<1>3. Callers' = Callers BY <1>1 DEF Callers
<1>4. c \in Callers BY <1>1 DEF ReadersCall, LeaversHaveSent
<1> HIDE DEF c
<1> QED BY <1>1, <1>2, <1>3, <1>4, ClosingKeepsReferred DEF c

LEMMA RemoteReplyReferred ==
  ASSUME Steady, RInv, NEW call \in Call, RemoteReply(call)
  PROVE  ReadersCall' /\ LeaversHaveSent' /\ AllReferred'
<1> USE NullIsNone DEF RInv
<1> DEFINE c == call.ctx
           k == call.conn
           open == calls \ {call}
<1>1. call \in calls /\ tls' = c BY DEF RemoteReply, Checkout
<1>2. /\ c \in Context /\ c \in held /\ k \in Conn
      /\ \A other \in open : other.ctx # c
      /\ fd[c] # Null => /\ fd[c] = k /\ cb[k] = c /\ req[c] = k
  BY <1>1, CallerIsFound
<1>3. CASE /\ fd[c] = Null /\ FreeAborted(c) /\ calls' = open
           /\ UNCHANGED <<cb, hup, sent, inbuf>>
  <2>1. held' = held \ {c} BY <1>3 DEF FreeAborted, Pool!FreeContext
  <2>2. Callers' = Callers \ {c} BY <1>1, <1>2, <1>3 DEF Callers
  <2>3. \A j \in Conn : cb[j] # Null => cb[j] # c
    BY <1>3 DEF IInv, OwnersHold
  <2>4. ReadersCall' BY <1>3, <2>2, <2>3 DEF ReadersCall
  <2>5. LeaversHaveSent' BY <1>3 DEF LeaversHaveSent
  <2>6. AllReferred' BY <1>3, <2>1, <2>2 DEF AllReferred
  <2> QED BY <2>4, <2>5, <2>6
<1>4. CASE fd[c] # Null /\ Release(c) /\ calls' = open
  <2>1. CloseConnections({k})
    <3>1. {fd[c]} \ {Null} = {k} BY <1>2, <1>4
    <3> QED BY <1>4, <3>1 DEF Release
  <2>2. held' = held \ {c} BY <1>4 DEF Release, Pool!FreeContext
  <2>3. \A d \in Context \ {c} : d \in Callers => d \in Callers'
    BY <1>4 DEF Callers
  <2> HIDE DEF c, k, open
  <2> QED BY <1>2, <1>4, <2>1, <2>2, <2>3, ClosingKeepsReferred
<1>5. CASE fd[c] # Null /\ Yield(c, req[c], open) /\ UNCHANGED inbuf
  <2>1. /\ calls' = open \cup {[ctx |-> c, conn |-> k]}
        /\ UNCHANGED <<held, cb, sent, hup>>
    BY <1>2, <1>5 DEF Yield, Steady, poolVars
  <2>2. Callers' = Callers
    <3>1. Callers' = {other.ctx : other \in open} \cup {c} BY <2>1, NewCaller
    <3> QED BY <1>1, <3>1 DEF Callers
  <2>3. ReadersCall' /\ LeaversHaveSent' /\ AllReferred'
    BY <1>5, <2>1, <2>2 DEF ReadersCall, LeaversHaveSent, AllReferred
  <2> QED BY <2>3
<1>6. CASE UNCHANGED <<held, cb, hup, sent, inbuf, calls>>
  BY <1>6 DEF ReadersCall, LeaversHaveSent, AllReferred, Callers
<1> QED BY <1>1, <1>3, <1>4, <1>5, <1>6 DEF RemoteReply, poolVars

(* Every context out of the pool is one something will come back for.      *)
THEOREM HeldAreReferred ==
  ASSUME Steady
  PROVE  Spec => []HeldIsReferred
<1>1. Orderly BY DEF Steady
<1>2. Init => RInv
  <2>1. Init => ReadersCall /\ LeaversHaveSent /\ AllReferred
    BY DEF Init, ReadersCall, LeaversHaveSent, AllReferred
  <2> QED BY <2>1, InitIInv DEF RInv
<1>3. ASSUME RInv, [Next]_vars PROVE RInv'
  <2>1. IInv' BY <1>1, <1>3, NextIInv DEF RInv
  <2>2. LoopExit \/ UNCHANGED vars
          => ReadersCall' /\ LeaversHaveSent' /\ AllReferred'
    BY <1>3 DEF LoopExit, vars, poolVars, clientVars, coroVars, RInv,
                ReadersCall, LeaversHaveSent, AllReferred, Callers
  <2>3. ReadersCall' /\ LeaversHaveSent' /\ AllReferred'
    BY <1>3, <2>2, ClientReferred, DoAcceptReferred, SocketReadReferred,
       ClientGoneReferred, RemoteReplyReferred DEF Next, Worker
  <2> QED BY <2>1, <2>3 DEF RInv
<1>4. RInv => HeldIsReferred
  BY DEF RInv, AllReferred, Callers, HeldIsReferred
<1> QED BY <1>2, <1>3, <1>4, PTL DEF Spec

-----------------------------------------------------------------------------
(* The pool inside the worker is the queue of ContextFifo: whatever        *)
(* callbacks come in whatever order, contexts that became idle first are   *)
(* handed out first, and a connection is accepted only when there is one   *)
(* (do_accept, close_request, RemoteReadCallback).                         *)
THEOREM WorkerSeesFifo ==
  ASSUME Orderly
  PROVE  Spec => [][PoolProofs!Fifo!Next]_(PoolProofs!Fifo!fifoVars)
<1>1. ASSUME IInv, IInv', [Pool!Next]_poolVars
      PROVE  [PoolProofs!Fifo!Next]_(PoolProofs!Fifo!fifoVars)
  <2>1. [PoolProofs!Next]_(PoolProofs!poolVars)
    BY <1>1 DEF poolVars, PoolProofs!poolVars, PoolProofs!listVars,
         Pool!Next, PoolProofs!Next, Pool!InitContext, PoolProofs!InitContext,
         Pool!UseContext, PoolProofs!UseContext,
         Pool!StopIfEmpty, PoolProofs!StopIfEmpty,
         Pool!FreeContext, PoolProofs!FreeContext,
         Pool!UnlinkedNext, PoolProofs!UnlinkedNext,
         Pool!UnlinkedPrev, PoolProofs!UnlinkedPrev,
         Pool!Store, PoolProofs!Store,
         Pool!ContinueIfAny, PoolProofs!ContinueIfAny
  <2>2. PoolProofs!Inv /\ PoolProofs!Inv' BY <1>1 DEF IInv
  <2> QED BY <2>1, <2>2, PoolAssumption, PoolProofs!FifoStep
          DEF PoolProofs!FifoStep
<1> QED BY <1>1, Invariance, WorkerKeepsPoolProtocol, PTL DEF PoolProtocol

-----------------------------------------------------------------------------
(* The worker serves each connection as RequestService promises.           *)

(* A suspended script is that of a connection that has sent everything.    *)
SuspendedOwned ==
  \A c \in suspended :
    /\ fd[c] \in Conn /\ cb[fd[c]] = c
    /\ inbuf[fd[c]] = "empty" /\ sent[fd[c]] = "all"

(* A reply whose client is still there finds a suspended script.           *)
CallersSuspended ==
  \A call \in calls : fd[call.ctx] # Null => call.ctx \in suspended

(* A connection waits for one reply at most, and its name is not given to  *)
(* another connection before that has come.                                *)
CallsKnown ==
  /\ \A a, b \in calls : a.conn = b.conn => a = b
  /\ \A call \in calls : /\ call.conn \notin backlog
                         /\ cb[call.conn] # Null => cb[call.conn] = call.ctx

Waiting == SuspendedOwned /\ CallersSuspended /\ CallsKnown

SInv == IInv /\ NoParts /\ Waiting

(* The mapped state of a connection, and of all of them.                   *)
LEMMA StageMoves ==
  ASSUME NEW k \in Conn, NEW s, Stage(k)' = s,
         \A j \in Conn \ {k} : Stage(j)' = Stage(j)
  PROVE  Service!To(k, s)
BY DEF Service!To

LEMMA StagesStay ==
  ASSUME \A j \in Conn : Stage(j)' = Stage(j)
  PROVE  [k \in Conn |-> Stage(k)]' = [k \in Conn |-> Stage(k)]
OBVIOUS

LEMMA OwnAnswer ==
  ASSUME IInv, NEW k \in Conn, NEW S, S = {k}, Answer(k, S)
  PROVE  Service!Own(k)
BY DEF Answer, Service!Own, IInv, WorkerTypes

(* What each stage says of a connection.                                   *)
LEMMA StageFacts ==
  ASSUME IInv, NEW k \in Conn
  PROVE  /\ Stage(k) = "queued" <=> k \in backlog
         /\ Stage(k) = "free" <=> k \notin backlog /\ cb[k] = Null
         /\ Stage(k) = "waiting" <=> cb[k] # Null /\ cb[k] \in suspended
         /\ Stage(k) = "open" <=> cb[k] # Null /\ cb[k] \notin suspended
BY DEF Stage, IInv, QueuedHaveNone

LEMMA ClientServes ==
  ASSUME Undivided, SInv, NEW k \in Conn, Client(k)
  PROVE  /\ Waiting'
         /\ [Service!Next]_(Service!serviceVars)
<1> USE NullIsNone DEF SInv, coroVars
<1>1. UNCHANGED <<cb, fd, req, suspended, calls>> /\ Pending' = Pending
  BY DEF Client, ClientConnect, ClientSend, ClientSendRest, ClientHangUp,
         ConnectionGone, Pending
<1>2. SuspendedOwned'
  <2>1. ASSUME NEW c \in suspended
        PROVE  fd[c] = k => sent[k] = "all" /\ k \notin backlog
    <3>1. cb[fd[c]] = c /\ sent[fd[c]] = "all" /\ fd[c] \in Conn /\ c # Null
      BY DEF Waiting, SuspendedOwned, IInv, WorkerTypes
    <3> QED BY <3>1 DEF IInv, QueuedHaveNone
  <2>2. \A j \in Conn : j # k => sent'[j] = sent[j] /\ inbuf'[j] = inbuf[j]
    BY DEF Client, ClientConnect, ClientSend, ClientSendRest, ClientHangUp,
           ConnectionGone, IInv, WorkerTypes
  <2>3. sent[k] = "all" /\ k \notin backlog
          => sent'[k] = sent[k] /\ inbuf'[k] = inbuf[k]
    BY DEF Client, ClientConnect, ClientSend, ClientSendRest, ClientHangUp,
           ConnectionGone, IInv, WorkerTypes
  <2> QED BY <1>1, <2>1, <2>2, <2>3 DEF Waiting, SuspendedOwned
<1>3. CallersSuspended' BY <1>1 DEF Waiting, CallersSuspended
<1>4. CallsKnown'
  <2>1. \A call \in calls : call.conn = k => k \notin backlog'
    BY DEF Client, ClientConnect, ClientSend, ClientSendRest, ClientHangUp,
           ConnectionGone, Waiting, CallsKnown
  <2>2. backlog' \subseteq backlog \cup {k}
    BY DEF Client, ClientConnect, ClientSend, ClientSendRest, ClientHangUp,
           ConnectionGone
  <2> QED BY <1>1, <2>1, <2>2 DEF Waiting, CallsKnown
<1>5. \A j \in Conn \ {k} : Stage(j)' = Stage(j)
  BY <1>1 DEF Stage, Client, ClientConnect, ClientSend, ClientSendRest,
              ClientHangUp, ConnectionGone
<1>6. CASE ClientConnect(k)
  <2>1. Stage(k) = "free" /\ k \notin Pending
    BY <1>6, StageFacts DEF ClientConnect, Live, Pending
  <2>2. Stage(k)' = "queued" BY <1>6 DEF ClientConnect, Stage
  <2>3. Service!To(k, "queued") BY <1>5, <2>2, StageMoves
  <2>4. Service!Connect(k)
    BY <1>1, <1>6, <2>1, <2>3 DEF Service!Connect, ClientConnect
  <2> QED BY <1>2, <1>3, <1>4, <2>4 DEF Waiting, Service!Next
<1>7. CASE ClientHangUp(k)
  <2>1. Stage(k) # "free" BY <1>7, StageFacts DEF ClientHangUp, Live
  <2>2. Stage(k)' = Stage(k) BY <1>1, <1>7 DEF Stage, ClientHangUp
  <2>3. UNCHANGED [j \in Conn |-> Stage(j)] BY <1>5, <2>2, StagesStay
  <2>4. Service!Leave(k)
    BY <1>1, <1>7, <2>1, <2>3 DEF Service!Leave, ClientHangUp
  <2> QED BY <1>2, <1>3, <1>4, <2>4 DEF Waiting, Service!Next
<1>8. CASE ConnectionGone(k)
  <2>1. Stage(k) = "queued" BY <1>8, StageFacts DEF ConnectionGone
  <2>2. Stage(k)' = "free"
    BY <1>1, <1>8 DEF Stage, ConnectionGone, IInv, QueuedHaveNone
  <2>3. Service!To(k, "free") BY <1>5, <2>2, StageMoves
  <2>4. Service!Drop(k)
    BY <1>1, <1>8, <2>1, <2>3 DEF Service!Drop, Service!Close, ConnectionGone
  <2> QED BY <1>2, <1>3, <1>4, <2>4 DEF Waiting, Service!Next
<1>9. CASE ClientSend(k) \/ ClientSendRest(k)
  <2>1. UNCHANGED <<backlog, hup, answer>>
    BY <1>9 DEF ClientSend, ClientSendRest
  <2>2. UNCHANGED [j \in Conn |-> Stage(j)]
    BY <1>1, <2>1, StagesStay DEF Stage
  <2> QED BY <1>1, <1>2, <1>3, <1>4, <2>1, <2>2
          DEF Waiting, Service!serviceVars
<1> QED BY <1>6, <1>7, <1>8, <1>9 DEF Client

(* The connections in service and the replies to come have contexts of     *)
(* their own: fewer than all of them when one is idle.                     *)
LEMMA RoomToAccept ==
  ASSUME SInv, pool \in Context \ held
  PROVE  Service!Cardinality(Service!InService \cup Pending) < CoroutineCount
<1> USE NullIsNone DEF SInv
<1> DEFINE Uses(k, c) == \/ cb[k] # Null /\ c = cb[k]
                         \/ /\ cb[k] = Null
                            /\ \E call \in calls : call.conn = k /\ call.ctx = c
           U == Service!InService \cup Pending
           T == Context \ {pool}
           f == [k \in U |-> CHOOSE c \in T : Uses(k, c)]
<1>1. \A call \in calls : call.ctx \in Context /\ call.conn \in Conn
  BY DEF IInv, WorkerTypes, Call
<1>2. ASSUME NEW k \in U PROVE k \in Conn /\ \E c \in held : Uses(k, c)
  <2>1. CASE k \in Service!InService
    <3>1. k \in Conn /\ Stage(k) \in {"open", "waiting"}
      BY <2>1 DEF Service!InService
    <3>2. cb[k] # Null BY <3>1, StageFacts
    <3> QED BY <3>1, <3>2 DEF IInv, OwnersHold
  <2>2. CASE k \in Pending
    <3>1. PICK call \in calls : call.conn = k BY <2>2 DEF Pending
    <3>2. call.ctx \in held /\ k \in Conn
      BY <1>1, <3>1 DEF IInv, CallersHold
    <3>3. cb[k] # Null => cb[k] = call.ctx
      BY <3>1 DEF Waiting, CallsKnown
    <3> QED BY <3>1, <3>2, <3>3
  <2> QED BY <2>1, <2>2
<1>3. ASSUME NEW j \in Conn, NEW k \in Conn, NEW c, Uses(j, c), Uses(k, c)
      PROVE  j = k
  <2>1. ASSUME NEW i \in Conn, NEW call \in calls, cb[i] # Null, cb[i] = call.ctx
        PROVE  call.conn = i
    BY <2>1 DEF IInv, OwnersHold, CallersHold
  <2>2. CASE cb[j] # Null /\ cb[k] # Null
    BY <1>3, <2>2 DEF IInv, OwnersHold
  <2>3. CASE cb[j] # Null /\ cb[k] = Null BY <1>3, <2>1, <2>3
  <2>4. CASE cb[j] = Null /\ cb[k] # Null BY <1>3, <2>1, <2>4
  <2>5. CASE cb[j] = Null /\ cb[k] = Null
    BY <1>3, <2>5 DEF IInv, CallersHold
  <2> QED BY <2>2, <2>3, <2>4, <2>5
<1>4. held \subseteq T
  BY DEF IInv, PoolProofs!Inv, PoolProofs!TypeOK
<1> HIDE DEF Uses, U, T
<1>5. \A k \in U : f[k] \in T /\ Uses(k, f[k]) BY <1>2, <1>4
<1>6. f \in Injection(U, T)
  <2>1. f \in [U -> T] BY <1>5
  <2>2. \A j, k \in U : f[j] = f[k] => j = k BY <1>2, <1>3, <1>5
  <2> HIDE DEF f
  <2> QED BY <2>1, <2>2 DEF Injection, IsInjective
<1>7. IsFiniteSet(Context) /\ Cardinality(Context) = CoroutineCount
  <2>1. CoroutineCount \in Nat \ {0} BY EngineAssumption
  <2>2. /\ IsFiniteSet(0 .. CoroutineCount - 1)
        /\ Cardinality(0 .. CoroutineCount - 1) = CoroutineCount
    BY <2>1, FS_Interval
  <2> QED BY <2>2 DEF Context
<1>8. IsFiniteSet(T) /\ Cardinality(T) = CoroutineCount - 1
  BY <1>7, FS_RemoveElement DEF T
<1>9. Cardinality(U) <= CoroutineCount - 1 /\ IsFiniteSet(U)
  BY <1>6, <1>8, FS_Injection
<1>10. Cardinality(U) < CoroutineCount
  <2>1. Cardinality(U) \in Nat BY <1>9, FS_CardinalityType
  <2>2. CoroutineCount \in Nat BY EngineAssumption
  <2> QED BY <1>9, <2>1, <2>2
<1>11. Service!Cardinality(U) = Cardinality(U)
  BY DEF Service!Cardinality, Cardinality
<1> QED BY <1>10, <1>11 DEF U

LEMMA DoAcceptServes ==
  ASSUME SInv, NEW k \in Conn, DoAccept(k)
  PROVE  Waiting' /\ Service!Accept(k)
<1> USE NullIsNone DEF SInv
<1>1. /\ k \in backlog /\ backlog' = backlog \ {k}
      /\ fd' = [fd EXCEPT ![pool] = k] /\ cb' = [cb EXCEPT ![k] = pool]
      /\ UNCHANGED <<hup, sent, inbuf, answer, suspended, calls>>
  BY DEF DoAccept
<1>2. pool \in Context \ held BY PoolUsed DEF DoAccept, IInv
<1>3. cb[k] = Null BY <1>1 DEF IInv, QueuedHaveNone
<1>4. \A call \in calls : call.ctx \in held /\ call.ctx # pool /\ call.conn # k
  BY <1>1, <1>2 DEF IInv, CallersHold, Waiting, CallsKnown
<1>5. \A c \in suspended : c \in Context /\ fd[c] \in Conn /\ cb[fd[c]] = c
  BY DEF Waiting, SuspendedOwned, IInv, WorkerTypes
<1>6. \A c \in suspended : c # pool /\ fd[c] # k
  BY <1>2, <1>3, <1>5 DEF IInv, OwnersHold
<1>7. SuspendedOwned'
  BY <1>1, <1>5, <1>6 DEF Waiting, SuspendedOwned, IInv, WorkerTypes
<1>8. CallersSuspended'
  <2>1. \A call \in calls : call.ctx \in Context
    BY DEF IInv, WorkerTypes, Call
  <2> QED BY <1>1, <1>4, <2>1 DEF Waiting, CallersSuspended, IInv, WorkerTypes
<1>9. CallsKnown'
  <2>1. \A call \in calls : call.conn \in Conn
    BY DEF IInv, WorkerTypes, Call
  <2> QED BY <1>1, <1>4, <2>1 DEF Waiting, CallsKnown, IInv, WorkerTypes
<1>10. Stage(k) = "queued" BY <1>1, StageFacts
<1>11. Stage(k)' = "open"
  BY <1>1, <1>2, <1>6 DEF Stage, IInv, WorkerTypes
<1>12. \A j \in Conn \ {k} : Stage(j)' = Stage(j)
  BY <1>1 DEF Stage, IInv, WorkerTypes
<1>13. Service!To(k, "open") BY <1>11, <1>12, StageMoves
<1>14. Pending' = Pending BY <1>1 DEF Pending
<1>15. Service!Accept(k)
  BY <1>1, <1>2, <1>10, <1>13, <1>14, RoomToAccept DEF Service!Accept
<1> QED BY <1>7, <1>8, <1>9, <1>15 DEF Waiting

(* A connection that closes, its script with it.                           *)
LEMMA ConnectionCloses ==
  ASSUME SInv, NEW k \in Conn, NEW c \in Context, cb[k] = c,
         CloseConnections({k}), suspended' = suspended \ {c},
         backlog' = backlog, \A d \in Context \ {c} : fd'[d] = fd[d],
         calls' \subseteq calls,
         \A call \in calls' : fd'[call.ctx] # Null => call.ctx # c
  PROVE  Waiting' /\ Service!Close(k)
<1> USE NullIsNone DEF SInv
<1>1. /\ cb'    = [j \in Conn |-> IF j = k THEN Null ELSE cb[j]]
      /\ sent'  = [j \in Conn |-> IF j = k THEN "nothing" ELSE sent[j]]
      /\ inbuf' = [j \in Conn |-> IF j = k THEN "empty" ELSE inbuf[j]]
      /\ hup'   = hup \ {k}
  BY DEF CloseConnections
<1>2. \A call \in calls : call.ctx \in Context /\ call.conn \in Conn
  BY DEF IInv, WorkerTypes, Call
<1>3. SuspendedOwned'
  <2>1. ASSUME NEW d \in suspended, d # c
        PROVE  /\ fd'[d] = fd[d] /\ fd[d] \in Conn \ {k}
               /\ cb[fd[d]] = d /\ inbuf[fd[d]] = "empty" /\ sent[fd[d]] = "all"
    BY <2>1 DEF Waiting, SuspendedOwned, IInv, WorkerTypes
  <2> QED BY <1>1, <2>1 DEF SuspendedOwned
<1>4. CallersSuspended' BY <1>2 DEF Waiting, CallersSuspended
<1>5. CallsKnown' BY <1>1, <1>2 DEF Waiting, CallsKnown
<1>6. Stage(k)' = "free"
  BY <1>1 DEF Stage, IInv, QueuedHaveNone
<1>7. ASSUME NEW j \in Conn \ {k} PROVE Stage(j)' = Stage(j)
  <2>1. cb[j] # c BY DEF IInv, OwnersHold
  <2> QED BY <1>1, <2>1 DEF Stage
<1>8. Service!To(k, "free") BY <1>6, <1>7, StageMoves
<1> QED BY <1>1, <1>3, <1>4, <1>5, <1>8 DEF Waiting, Service!Close

(* A script that yields waits, whether its call was sent or not.           *)
LEMMA ScriptWaits ==
  ASSUME SInv, NEW k \in Conn, NEW c \in Context, NEW open \in SUBSET calls,
         fd[c] = k, cb[k] = c, sent[k] = "all",
         Yield(c, k, open), UNCHANGED <<backlog, fd>>,
         inbuf' = [inbuf EXCEPT ![k] = "empty"],
         \A call \in open : call.conn # k
  PROVE  /\ Waiting' /\ Service!To(k, "waiting")
         /\ Pending' \in {{call.conn : call \in open},
                          {call.conn : call \in open} \cup {k}}
<1> USE NullIsNone DEF SInv
<1> DEFINE new == [ctx |-> c, conn |-> k]
<1>1. /\ calls' \in {open, open \cup {new}}
      /\ suspended' = suspended \cup {c} /\ UNCHANGED <<cb, sent>>
  BY DEF Yield
<1>2. new.ctx = c /\ new.conn = k OBVIOUS
<1>3. \A call \in open : /\ call \in calls /\ call.ctx \in Context
                         /\ call.conn \in Conn
  BY DEF IInv, WorkerTypes, Call
<1>4. Pending' \in {{call.conn : call \in open},
                    {call.conn : call \in open} \cup {k}}
  <2> HIDE DEF new
  <2>1. CASE calls' = open BY <2>1 DEF Pending
  <2>2. CASE calls' = open \cup {new} BY <1>2, <2>2 DEF Pending
  <2> QED BY <1>1, <2>1, <2>2
<1> HIDE DEF new
<1>5. SuspendedOwned'
  <2>1. fd'[c] = k /\ cb'[k] = c /\ inbuf'[k] = "empty" /\ sent'[k] = "all"
    BY <1>1 DEF IInv, WorkerTypes
  <2>2. ASSUME NEW d \in suspended, d # c
        PROVE  /\ fd[d] \in Conn /\ cb[fd[d]] = d /\ fd[d] # k
               /\ inbuf[fd[d]] = "empty" /\ sent[fd[d]] = "all"
    BY <2>2 DEF Waiting, SuspendedOwned
  <2>3. ASSUME NEW d \in suspended, d # c
        PROVE  /\ fd'[d] \in Conn /\ cb'[fd'[d]] = d
               /\ inbuf'[fd'[d]] = "empty" /\ sent'[fd'[d]] = "all"
    BY <1>1, <2>2, <2>3
  <2> QED BY <1>1, <2>1, <2>3 DEF SuspendedOwned
<1>6. CallersSuspended'
  BY <1>1, <1>2, <1>3 DEF Waiting, CallersSuspended
<1>7. k \notin backlog BY DEF IInv, QueuedHaveNone
<1>8. CallsKnown'
  <2>1. \A a, b \in calls' : a.conn = b.conn => a = b
    BY <1>1, <1>2, <1>3 DEF Waiting, CallsKnown
  <2>2. \A call \in calls' : /\ call.conn \notin backlog'
                             /\ cb'[call.conn] # Null => cb'[call.conn] = call.ctx
    BY <1>1, <1>2, <1>3, <1>7 DEF Waiting, CallsKnown
  <2> QED BY <2>1, <2>2 DEF CallsKnown
<1>9. Stage(k)' = "waiting" BY <1>1, <1>7 DEF Stage
<1>10. ASSUME NEW j \in Conn \ {k} PROVE Stage(j)' = Stage(j)
  <2>1. cb[j] # c BY DEF IInv, OwnersHold
  <2> QED BY <1>1, <2>1 DEF Stage
<1>11. Service!To(k, "waiting") BY <1>9, <1>10, StageMoves
<1> QED BY <1>4, <1>5, <1>6, <1>8, <1>11 DEF Waiting

LEMMA SocketReadServes ==
  ASSUME SInv, NEW k \in Conn, SocketRead(k)
  PROVE  Waiting' /\ [Service!Next]_(Service!serviceVars)
<1> USE NullIsNone DEF SInv
<1> DEFINE c == cb[k]
<1>1. /\ c # Null /\ inbuf[k] # "empty" /\ inbuf[k] = "request"
      /\ UNCHANGED <<backlog, fd>>
  BY DEF SocketRead, NoParts, IInv, WorkerTypes
<1>2. /\ c \in Context /\ c \in held /\ fd[c] = k
      /\ \A call \in calls : call.ctx # c
  BY <1>1, ReaderIsAlone
<1>3. Stage(k) = "open"
  BY <1>1, <1>2, StageFacts DEF Waiting, SuspendedOwned
<1>4. k \notin Pending BY <1>1, <1>2 DEF Waiting, CallsKnown, Pending
<1>5. CASE /\ \E S \in Outcomes(k) : Answer(k, S)
           /\ suspended' = suspended \ {c}
           /\ Release(c)
           /\ UNCHANGED <<calls, ncalls>>
  <2>1. CloseConnections({k})
    <3>1. {fd[c]} \ {Null} = {k} BY <1>2
    <3> QED BY <1>5, <3>1 DEF Release
  <2>2. Waiting' /\ Service!Close(k)
    <3> HIDE DEF c
    <3> QED BY <1>1, <1>2, <1>5, <2>1, ConnectionCloses DEF c
  <2>3. Answer(k, {k})
    <3>1. \A S \in Outcomes(k) : S = {k} BY <1>1 DEF Outcomes
    <3> QED BY <1>5, <3>1
  <2>4. Service!Own(k) BY <2>3, OwnAnswer
  <2>5. Pending' = Pending BY <1>5 DEF Pending
  <2>6. Service!Finish(k) BY <1>3, <2>2, <2>4, <2>5 DEF Service!Finish
  <2> QED BY <2>2, <2>6 DEF Service!Next
<1>6. CASE /\ inbuf' = [inbuf EXCEPT ![k] = "empty"]
           /\ Yield(c, k, calls)
           /\ UNCHANGED answer
  <2>1. sent[k] = "all"
    BY <1>1, <1>6 DEF Yield, IInv, WorkerTypes, RequestsAreWhole
  <2>2. \A call \in calls : call.conn # k BY <1>4 DEF Pending
  <2>3. calls \in SUBSET calls OBVIOUS
  <2>4. /\ Waiting' /\ Service!To(k, "waiting")
        /\ Pending' \in {Pending, Pending \cup {k}}
    <3>1. Pending = {call.conn : call \in calls} BY DEF Pending
    <3> HIDE DEF c
    <3> QED BY <1>1, <1>2, <1>6, <2>1, <2>2, <2>3, <3>1, ScriptWaits DEF c
  <2>5. UNCHANGED <<hup, answer>> BY <1>6 DEF Yield
  <2>6. Service!Suspend(k)
    BY <1>3, <1>4, <2>4, <2>5 DEF Service!Suspend
  <2> QED BY <2>4, <2>6 DEF Service!Next
<1>7. CASE /\ "startup_failure" \in Conduct
           /\ CloseConnections({k})
           /\ UNCHANGED <<answer, suspended, calls>>
  <2>1. suspended' = suspended \ {c}
    BY <1>3, <1>7, StageFacts
  <2>2. Waiting' /\ Service!Close(k)
    <3> HIDE DEF c
    <3> QED BY <1>1, <1>2, <1>7, <2>1, ConnectionCloses DEF c
  <2>3. Pending' = Pending BY <1>7 DEF Pending
  <2>4. Service!Fail(k) BY <1>3, <1>7, <2>2, <2>3 DEF Service!Fail
  <2> QED BY <2>2, <2>4 DEF Service!Next
<1> QED BY <1>5, <1>6, <1>7 DEF SocketRead

LEMMA ClientGoneServes ==
  ASSUME SInv, NEW k \in Conn, ClientGone(k)
  PROVE  Waiting' /\ Service!Abort(k)
<1> USE NullIsNone DEF SInv
<1> DEFINE c == cb[k]
<1>1. /\ c # Null /\ k \in hup /\ fd' = [fd EXCEPT ![c] = Null]
      /\ suspended' = suspended \ {c} /\ CloseConnections({k})
      /\ UNCHANGED <<backlog, answer, calls>>
  BY DEF ClientGone
<1>2. c \in Context BY <1>1 DEF IInv, WorkerTypes
<1>3. \A d \in Context : fd'[d] = IF d = c THEN Null ELSE fd[d]
  BY <1>1 DEF IInv, WorkerTypes
<1>4. \A call \in calls : call.ctx \in Context
  BY DEF IInv, WorkerTypes, Call
<1>5. k \in Service!InService
  <2>1. Stage(k) \in {"open", "waiting"} BY <1>1, StageFacts
  <2> QED BY <2>1 DEF Service!InService
<1>6. Pending' = Pending BY <1>1 DEF Pending
<1>7. Waiting' /\ Service!Close(k)
  <2> HIDE DEF c
  <2> QED BY <1>1, <1>2, <1>3, <1>4, ConnectionCloses DEF c
<1> QED BY <1>1, <1>5, <1>6, <1>7 DEF Service!Abort

LEMMA RemoteReplyServes ==
  ASSUME SInv, NEW call \in Call, RemoteReply(call)
  PROVE  Waiting' /\ [Service!Next]_(Service!serviceVars)
<1> USE NullIsNone DEF SInv
<1> DEFINE c == call.ctx
           k == call.conn
           open == calls \ {call}
<1>1. call \in calls /\ tls' = c /\ backlog' = backlog
  BY DEF RemoteReply, Checkout
<1>2. /\ c \in Context /\ k \in Conn
      /\ \A other \in open : other.ctx # c /\ other.conn # k
      /\ fd[c] # Null => /\ fd[c] = k /\ cb[k] = c /\ req[c] = k
                         /\ inbuf[k] = "empty" /\ sent[k] = "all"
  BY <1>1, CallerIsFound DEF Waiting, CallsKnown
<1>3. /\ k \in Pending
      /\ {other.conn : other \in open} = Pending \ {k}
  BY <1>1, <1>2 DEF Pending
<1>4. CASE fd[c] = Null /\ calls' = open
           /\ UNCHANGED <<answer, hup, sent, inbuf, cb, fd, suspended>>
  <2>1. cb[k] = Null
    BY <1>1, <1>2, <1>4 DEF Waiting, CallsKnown, IInv, OwnersHold
  <2>2. Stage(k) = "free"
    BY <1>1, <1>2, <2>1, StageFacts DEF Waiting, CallsKnown
  <2>3. UNCHANGED [j \in Conn |-> Stage(j)]
    BY <1>1, <1>4, StagesStay DEF Stage
  <2>4. Pending' = Pending \ {k} BY <1>3, <1>4 DEF Pending
  <2>5. Service!Discard(k)
    <3> HIDE DEF c, k, open
    <3> QED BY <1>2, <1>3, <1>4, <2>2, <2>3, <2>4 DEF Service!Discard
  <2>6. Waiting'
    BY <1>1, <1>4 DEF Waiting, SuspendedOwned, CallersSuspended, CallsKnown
  <2> QED BY <1>2, <2>5, <2>6 DEF Service!Next
<1>5. ASSUME fd[c] # Null PROVE Stage(k) = "waiting"
  BY <1>1, <1>2, <1>5, StageFacts DEF Waiting, CallersSuspended
<1>6. CASE /\ fd[c] # Null
           /\ Answer(req[c], {req[c], k})
           /\ calls' = open
           /\ suspended' = suspended \ {c}
           /\ Release(c)
           /\ UNCHANGED fd
  <2>1. CloseConnections({k})
    <3>1. {fd[c]} \ {Null} = {k} BY <1>2, <1>6
    <3> QED BY <1>6, <3>1 DEF Release
  <2>2. Waiting' /\ Service!Close(k)
    <3>1. calls' \subseteq calls /\ \A other \in calls' : other.ctx # c
      BY <1>2, <1>6
    <3> HIDE DEF c, k, open
    <3> QED BY <1>1, <1>2, <1>6, <2>1, <3>1, ConnectionCloses
  <2>3. Service!Own(k)
    <3>1. Answer(k, {k, k}) /\ {k, k} = {k} BY <1>2, <1>6
    <3> HIDE DEF c, k, open
    <3> QED BY <1>2, <3>1, OwnAnswer
  <2>4. Pending' = Pending \ {k} BY <1>3, <1>6 DEF Pending
  <2>5. Service!Finish(k)
    <3> HIDE DEF c, k, open
    <3> QED BY <1>2, <1>3, <1>5, <1>6, <2>2, <2>3, <2>4 DEF Service!Finish
  <2> QED BY <1>2, <2>2, <2>5 DEF Service!Next
<1>7. CASE /\ fd[c] # Null
           /\ Answer(req[c], {k})
           /\ Yield(c, req[c], open)
           /\ UNCHANGED <<inbuf, fd>>
  <2>1. inbuf' = [inbuf EXCEPT ![k] = "empty"]
    BY <1>2, <1>7 DEF IInv, WorkerTypes
  <2>2. /\ Waiting' /\ Service!To(k, "waiting")
        /\ Pending' \in {Pending \ {k}, (Pending \ {k}) \cup {k}}
    <3>1. open \in SUBSET calls OBVIOUS
    <3>2. Yield(c, k, open) BY <1>2, <1>7
    <3>3. \A other \in open : other.conn # k BY <1>2
    <3> HIDE DEF c, k, open
    <3> QED BY <1>1, <1>2, <1>3, <1>7, <2>1, <3>1, <3>2, <3>3, ScriptWaits
  <2>3. UNCHANGED [j \in Conn |-> Stage(j)]
    <3>1. \A j \in Conn \ {k} : Stage(j)' = Stage(j)
      BY <2>2 DEF Service!To
    <3>2. Stage(k)' = "waiting" BY <1>2, <2>2 DEF Service!To
    <3> QED BY <1>5, <1>7, <3>1, <3>2, StagesStay
  <2>4. Service!Own(k)
    <3>1. Answer(k, {k}) BY <1>2, <1>7
    <3> HIDE DEF c, k, open
    <3> QED BY <1>2, <3>1, OwnAnswer
  <2>5. Pending' \in {Pending, Pending \ {k}} BY <1>3, <2>2
  <2>6. hup' = hup BY <1>7 DEF Yield
  <2>7. Service!GoOn(k)
    <3> HIDE DEF c, k, open
    <3> QED BY <1>2, <1>3, <1>5, <1>7, <2>3, <2>4, <2>5, <2>6 DEF Service!GoOn
  <2> QED BY <1>2, <2>2, <2>7 DEF Service!Next
<1>8. CASE UNCHANGED <<answer, hup, sent, inbuf, cb, fd, suspended, calls>>
  <2>1. Waiting'
    BY <1>1, <1>8 DEF Waiting, SuspendedOwned, CallersSuspended, CallsKnown
  <2>2. UNCHANGED [j \in Conn |-> Stage(j)]
    BY <1>1, <1>8, StagesStay DEF Stage
  <2>3. Pending' = Pending BY <1>8 DEF Pending
  <2> QED BY <1>8, <2>1, <2>2, <2>3 DEF Service!serviceVars
<1> QED
  <2>1. tls' = c BY <1>1
  <2> QED BY <1>4, <1>6, <1>7, <1>8, <2>1 DEF RemoteReply

(* Every connection is served as if it were alone, for any number of       *)
(* contexts, connections and calls, whoever leaves and whatever fails: the *)
(* worker implements RequestService (do_accept, socket_read_cb, event_cb,  *)
(* RemoteReadCallback), as long as requests come in one piece.  Where a    *)
(* start-up may fail, the service may end a request with nothing.          *)
THEOREM ServiceIsImplemented ==
  ASSUME Undivided
  PROVE  Spec => ImplementsService
<1>1. Init => Waiting /\ Service!Init
  <2> SUFFICES ASSUME Init PROVE Waiting /\ Service!Init OBVIOUS
  <2>1. Waiting
    BY DEF Init, Waiting, SuspendedOwned, CallersSuspended, CallsKnown
  <2>2. \A k \in Conn : Stage(k) = "free" BY DEF Init, Stage
  <2>3. Pending = {} BY DEF Init, Pending
  <2> QED BY <2>1, <2>2, <2>3 DEF Init, Service!Init
<1>2. ASSUME SInv, [Next]_vars
      PROVE  Waiting' /\ [Service!Next]_(Service!serviceVars)
  <2>1. ASSUME NEW k \in Conn, Client(k) \/ Worker(k)
        PROVE  Waiting' /\ [Service!Next]_(Service!serviceVars)
    <3>1. CASE Client(k) BY <1>2, <3>1, ClientServes
    <3>2. CASE DoAccept(k)
      BY <1>2, <3>2, DoAcceptServes DEF Service!Next
    <3>3. CASE SocketRead(k) BY <1>2, <3>3, SocketReadServes
    <3>4. CASE ClientGone(k)
      BY <1>2, <3>4, ClientGoneServes DEF Service!Next
    <3> QED BY <2>1, <3>1, <3>2, <3>3, <3>4 DEF Worker
  <2>2. CASE \E call \in Call : RemoteReply(call)
    BY <1>2, <2>2, RemoteReplyServes
  <2>3. CASE LoopExit \/ UNCHANGED vars
    <3>1. UNCHANGED <<clientVars, coroVars>> BY <2>3 DEF LoopExit, vars
    <3>2. Waiting'
      BY <1>2, <3>1 DEF clientVars, coroVars, SInv, Waiting, SuspendedOwned,
                        CallersSuspended, CallsKnown
    <3>3. UNCHANGED [k \in Conn |-> Stage(k)]
      BY <3>1, StagesStay DEF clientVars, coroVars, Stage
    <3> QED BY <3>1, <3>2, <3>3
            DEF clientVars, coroVars, Pending, Service!serviceVars
  <2> QED BY <1>2, <2>1, <2>2, <2>3 DEF Next
<1> QED
  BY <1>1, <1>2, PartlessInvariance, PTL
  DEF Spec, SInv, ImplementsService, Service!Spec
=============================================================================
