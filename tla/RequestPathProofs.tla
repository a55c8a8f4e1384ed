-------------------------- MODULE RequestPathProofs --------------------------
(***************************************************************************)
(* The way of a request, on both sides of the connection: the safety        *)
(* properties of the preflight pool, of the backlog limiter and of the      *)
(* shutdown, for any number of requests and workers, every limit and every  *)
(* capacity of the queue; and those of the client library, for any number   *)
(* of goroutines that share a client.                                       *)
(***************************************************************************)
EXTENDS RequestPath, Client, FiniteSetTheorems, TLAPS

-----------------------------------------------------------------------------
(* The pool.                                                                *)

Holding(w) == worker[w].at \in {"busy", "sending"}

(* Each call that waits is in one place: once in the queue, or with one     *)
(* worker; and whatever is there waits.                                     *)
QueueShape ==
    /\ \A i \in DOMAIN queue : call[queue[i]] = "waiting"
    /\ \A i, j \in DOMAIN queue : queue[i] = queue[j] => i = j

WorkerShape ==
    /\ \A w \in Workers : Holding(w) => worker[w].req \in Requests /\ call[worker[w].req] = "waiting"
    /\ \A w \in Workers : Holding(w) => \A i \in DOMAIN queue : worker[w].req # queue[i]
    /\ \A v, w \in Workers : Holding(v) /\ Holding(w) /\ worker[v].req = worker[w].req => v = w

NoneLost ==
    \A r \in Requests : call[r] = "waiting" =>
        \/ \E i \in DOMAIN queue : queue[i] = r
        \/ \E w \in Workers : Holding(w) /\ worker[w].req = r

(* Workers end when nothing is left and nothing can come any more.          *)
ExitShape ==
    /\ \A w \in Workers : worker[w].at = "exited" => pool \in {"closed", "drained"} /\ queue = <<>>
    /\ pool = "drained" => \A w \in Workers : worker[w].at = "exited"

PoolInv == PoolTypeOK /\ QueueShape /\ WorkerShape /\ NoneLost /\ ExitShape

-----------------------------------------------------------------------------
(* The limiter and the daemon.                                              *)

LimitTypeOK ==
    /\ wait \in [Requests -> {"idle", "waiting", "answered"}]
    /\ reply \in [Requests -> Outcomes]
    /\ go \in [Requests -> GoStates]
    /\ expired \in [Requests -> BOOLEAN]
    /\ pending \in Nat
    /\ phase \in Phases /\ forced \in BOOLEAN

(* A goroutine is started once; finitely many are counted at a time.        *)
BacklogInv ==
    /\ \A r \in Requests : wait[r] = "idle" => go[r] = "idle"
    /\ IsFiniteSet(Counted)
    /\ PendingIsCounted
    /\ ServingWithinLimit

(* The pool is open as long as the server may take requests; unless the     *)
(* server was forced, no one waits for an answer when the pool closes; and  *)
(* only a closed pool is noticed.                                           *)
ShutdownInv ==
    /\ phase \in {"up", "stopping"} => pool = "open"
    /\ phase \in {"stopped", "down"} /\ ~forced => \A r \in Requests : wait[r] # "waiting"
    /\ pool = "open" => \A r \in Requests : outcome[r] \notin {"closed", "panic"}
    /\ GracefulStop

PathInv == PoolInv /\ LimitTypeOK /\ BacklogInv /\ ShutdownInv

-----------------------------------------------------------------------------
LEMMA PoolInitInv == PoolInit => PoolInv
BY QueueCapacityIsPositive DEF PoolInit, PoolInv, PoolTypeOK, PoolStates, Outcomes, Resting, QueueShape,
   WorkerShape, NoneLost, ExitShape, Holding

(* A call that does not wait before nor after the step is no concern of the *)
(* queue and of the workers.                                                *)
LEMMA CallStep ==
    ASSUME PoolInv, NEW r \in Requests, call[r] # "waiting", UNCHANGED <<pool, queue, worker>>,
           NEW c \in {"checked", "returned"}, call' = [call EXCEPT ![r] = c],
           outcome' \in [Requests -> Outcomes]
    PROVE  PoolInv'
<1> USE DEF PoolInv
<1>1. PoolTypeOK'
  BY DEF PoolTypeOK
<1>2. \A d \in Requests : call'[d] = "waiting" <=> call[d] = "waiting"
  BY DEF PoolTypeOK
<1>3. \A i \in DOMAIN queue : queue[i] \in Requests
  BY DEF PoolTypeOK
<1>4. QueueShape' /\ WorkerShape' /\ NoneLost' /\ ExitShape'
  BY <1>2, <1>3 DEF QueueShape, WorkerShape, NoneLost, ExitShape, Holding
<1> QED
  BY <1>1, <1>4

LEMMA CheckClosedStep ==
    ASSUME PoolInv, NEW r \in Requests, CheckClosed(r) PROVE PoolInv'
<1>1. outcome' \in [Requests -> Outcomes]
  BY DEF PoolInv, PoolTypeOK, CheckClosed, Return, Outcomes
<1> QED
  BY <1>1, CallStep DEF CheckClosed, Return

LEMMA ReturnStep ==
    ASSUME PoolInv, NEW r \in Requests, call[r] # "waiting", NEW o \in Outcomes, Return(r, o),
           UNCHANGED <<pool, queue, worker>>
    PROVE  PoolInv'
<1>1. outcome' \in [Requests -> Outcomes]
  BY DEF PoolInv, PoolTypeOK, Return
<1> QED
  BY <1>1, CallStep DEF Return

LEMMA EnqueueStep ==
    ASSUME PoolInv, NEW r \in Requests, Enqueue(r) PROVE PoolInv'
<1>1. call[r] = "checked" /\ UNCHANGED <<pool, worker>>
  BY DEF Enqueue
<1>2. CASE Return(r, "panic") /\ UNCHANGED queue
  BY <1>1, <1>2, ReturnStep DEF Outcomes
<1>3. CASE /\ pool \notin {"closed", "drained"} /\ Len(queue) < QueueCapacity
           /\ queue' = Append(queue, r) /\ call' = [call EXCEPT ![r] = "waiting"]
           /\ UNCHANGED outcome
  <2> USE DEF PoolInv
  <2>1. /\ queue \in Seq(Requests) /\ Len(queue) \in Nat /\ DOMAIN queue = 1 .. Len(queue)
        /\ call \in [Requests -> {"none", "checked", "waiting", "returned"}]
    BY DEF PoolTypeOK
  <2>2. /\ queue' \in Seq(Requests) /\ Len(queue') = Len(queue) + 1
        /\ DOMAIN queue' = 1 .. Len(queue) + 1 /\ queue'[Len(queue) + 1] = r
        /\ \A i \in DOMAIN queue : queue'[i] = queue[i]
    BY <1>3, <2>1
  <2>3. PoolTypeOK'
    BY <1>1, <1>3, <2>2, QueueCapacityIsPositive DEF PoolTypeOK
  <2>4. \A i \in DOMAIN queue : queue[i] # r /\ queue[i] \in Requests
    BY <1>1, <2>1 DEF QueueShape
  <2>5. QueueShape'
    BY <1>3, <2>1, <2>2, <2>4 DEF QueueShape
  <2>6. \A w \in Workers : Holding(w)' <=> Holding(w)
    BY <1>1 DEF Holding
  <2>7. \A w \in Workers : Holding(w) => worker[w].req \in Requests /\ worker[w].req # r
    BY <1>1 DEF WorkerShape
  <2>8. WorkerShape'
    BY <1>1, <1>3, <2>1, <2>2, <2>6, <2>7 DEF WorkerShape
  <2>9. NoneLost'
    <3> SUFFICES ASSUME NEW d \in Requests, call'[d] = "waiting"
                 PROVE  \/ \E i \in DOMAIN queue' : queue'[i] = d
                        \/ \E w \in Workers : Holding(w)' /\ worker'[w].req = d
      BY DEF NoneLost
    <3>1. CASE d = r
      BY <2>1, <2>2, <3>1
    <3>2. CASE d # r
      BY <1>1, <1>3, <2>1, <2>2, <2>6, <3>2 DEF NoneLost
    <3> QED
      BY <3>1, <3>2
  <2>10. ExitShape'
    BY <1>1, <1>3 DEF ExitShape
  <2> QED
    BY <2>3, <2>5, <2>8, <2>9, <2>10
<1> QED
  BY <1>2, <1>3 DEF Enqueue

(* Head and Tail of the queue.                                              *)
LEMMA TakeStep ==
    ASSUME PoolInv, NEW w \in Workers, Take(w) PROVE PoolInv'
<1> USE DEF PoolInv
<1>1. /\ worker[w].at = "idle" /\ queue # <<>> /\ queue' = Tail(queue)
      /\ worker' = [worker EXCEPT ![w] = [at |-> "busy", req |-> Head(queue)]]
      /\ UNCHANGED <<pool, call, outcome>>
  BY DEF Take
<1>2. /\ queue \in Seq(Requests) /\ Len(queue) \in Nat /\ DOMAIN queue = 1 .. Len(queue)
      /\ worker \in [Workers -> [at : {"idle", "busy", "sending", "exited"},
                                 req : Requests \union {NoRequest}]]
  BY DEF PoolTypeOK
<1>3. /\ queue' \in Seq(Requests) /\ Len(queue) # 0 /\ Len(queue') = Len(queue) - 1
      /\ DOMAIN queue' = 1 .. Len(queue) - 1
      /\ \A i \in 1 .. Len(queue) - 1 : queue'[i] = queue[i + 1]
      /\ Head(queue) = queue[1] /\ Head(queue) \in Requests
  BY <1>1, <1>2
<1>4. PoolTypeOK'
  BY <1>1, <1>2, <1>3, QueueCapacityIsPositive DEF PoolTypeOK
<1>5. QueueShape'
  BY <1>1, <1>2, <1>3 DEF QueueShape
<1>6. /\ Holding(w)' /\ worker'[w].req = queue[1] /\ ~Holding(w)
      /\ \A v \in Workers : v # w => worker'[v] = worker[v] /\ (Holding(v)' <=> Holding(v))
  BY <1>1, <1>2, <1>3 DEF Holding
<1>7. \A i \in DOMAIN queue' : queue'[i] # queue[1] /\ \E j \in DOMAIN queue : queue'[i] = queue[j]
  BY <1>2, <1>3 DEF QueueShape
<1>8. WorkerShape'
  <2>1. \A v \in Workers : Holding(v)' => worker'[v].req \in Requests /\ call'[worker'[v].req] = "waiting"
    BY <1>1, <1>2, <1>3, <1>6 DEF WorkerShape, QueueShape
  <2>2. \A v \in Workers : Holding(v)' => \A i \in DOMAIN queue' : worker'[v].req # queue'[i]
    BY <1>2, <1>3, <1>6, <1>7 DEF WorkerShape
  <2>3. \A u, v \in Workers : Holding(u)' /\ Holding(v)' /\ worker'[u].req = worker'[v].req => u = v
    <3>1. \A v \in Workers : Holding(v) => worker[v].req # queue[1]
      BY <1>2, <1>3 DEF WorkerShape
    <3> QED
      BY <1>6, <3>1 DEF WorkerShape
  <2> QED
    BY <2>1, <2>2, <2>3 DEF WorkerShape
<1>9. NoneLost'
  <2> SUFFICES ASSUME NEW d \in Requests, call'[d] = "waiting"
               PROVE  \/ \E i \in DOMAIN queue' : queue'[i] = d
                      \/ \E v \in Workers : Holding(v)' /\ worker'[v].req = d
    BY DEF NoneLost
  <2>1. CASE \E i \in DOMAIN queue : queue[i] = d
    <3>1. PICK i \in DOMAIN queue : queue[i] = d
      BY <2>1
    <3>2. CASE i = 1
      BY <1>6, <3>1, <3>2
    <3>3. CASE i # 1
      <4>1. i - 1 \in DOMAIN queue' /\ queue'[i - 1] = d
        BY <1>2, <1>3, <3>1, <3>3
      <4> QED
        BY <4>1
    <3> QED
      BY <3>2, <3>3
  <2>2. CASE \E v \in Workers : Holding(v) /\ worker[v].req = d
    BY <1>6, <2>2
  <2> QED
    BY <1>1, <2>1, <2>2 DEF NoneLost
<1>10. ExitShape'
  <2>1. \A v \in Workers : worker[v].at # "exited" /\ worker'[v].at # "exited"
    BY <1>1, <1>2, <1>6 DEF ExitShape
  <2> QED
    BY <1>1, <2>1 DEF ExitShape
<1> QED
  BY <1>4, <1>5, <1>8, <1>9, <1>10

LEMMA SimulateStep ==
    ASSUME PoolInv, NEW w \in Workers, Simulate(w) PROVE PoolInv'
<1> USE DEF PoolInv
<1>1. /\ worker[w].at = "busy" /\ worker' = [worker EXCEPT ![w].at = "sending"]
      /\ UNCHANGED <<pool, queue, call, outcome>>
  BY DEF Simulate
<1>2. PoolTypeOK'
  BY <1>1 DEF PoolTypeOK
<1>3. /\ \A v \in Workers : worker'[v].req = worker[v].req /\ (Holding(v)' <=> Holding(v))
      /\ \A v \in Workers : worker'[v].at = "exited" <=> worker[v].at = "exited"
  BY <1>1 DEF Holding, PoolTypeOK
<1>4. QueueShape' /\ WorkerShape'
  BY <1>1, <1>3 DEF QueueShape, WorkerShape
<1>5. NoneLost' /\ ExitShape'
  BY <1>1, <1>3 DEF NoneLost, ExitShape
<1> QED
  BY <1>2, <1>4, <1>5

LEMMA DeliverStep ==
    ASSUME PoolInv, NEW w \in Workers, Deliver(w) PROVE PoolInv'
<1> USE DEF PoolInv
<1> DEFINE r == worker[w].req
<1>1. /\ worker[w].at = "sending" /\ worker' = [worker EXCEPT ![w] = Resting]
      /\ call' = [call EXCEPT ![r] = "returned"] /\ outcome' = [outcome EXCEPT ![r] = "answer"]
      /\ UNCHANGED <<pool, queue>>
  BY DEF Deliver, Return
<1>2. Holding(w) /\ r \in Requests
  BY <1>1 DEF Holding, WorkerShape
<1>3. PoolTypeOK'
  BY <1>1, <1>2 DEF PoolTypeOK, Resting, Outcomes
<1>4. /\ ~Holding(w)' /\ worker'[w].at # "exited"
      /\ \A v \in Workers : v # w => worker'[v] = worker[v] /\ (Holding(v)' <=> Holding(v))
      /\ \A d \in Requests : d # r => call'[d] = call[d]
      /\ call'[r] = "returned"
  BY <1>1, <1>2 DEF Holding, PoolTypeOK, Resting
<1>5. /\ \A i \in DOMAIN queue : queue[i] # r /\ queue[i] \in Requests
      /\ \A v \in Workers : v # w /\ Holding(v) => worker[v].req # r
  BY <1>2 DEF WorkerShape, PoolTypeOK
<1>6. QueueShape'
  BY <1>1, <1>4, <1>5 DEF QueueShape
<1>7. WorkerShape'
  BY <1>1, <1>4, <1>5 DEF WorkerShape
<1>8. NoneLost'
  BY <1>1, <1>4, <1>5 DEF NoneLost
<1>9. ExitShape'
  BY <1>1, <1>4 DEF ExitShape
<1> QED
  BY <1>3, <1>6, <1>7, <1>8, <1>9

LEMMA ExitWorkerStep ==
    ASSUME PoolInv, NEW w \in Workers, ExitWorker(w) PROVE PoolInv'
<1> USE DEF PoolInv
<1>1. /\ worker[w].at = "idle" /\ pool = "closed" /\ queue = <<>>
      /\ worker' = [worker EXCEPT ![w].at = "exited"] /\ UNCHANGED <<pool, queue, call, outcome>>
  BY DEF ExitWorker
<1>2. PoolTypeOK'
  BY <1>1 DEF PoolTypeOK
<1>3. /\ \A v \in Workers : worker'[v].req = worker[v].req /\ (Holding(v)' <=> Holding(v))
      /\ \A v \in Workers : v # w => worker'[v].at = worker[v].at
  BY <1>1 DEF Holding, PoolTypeOK
<1>4. QueueShape' /\ WorkerShape'
  BY <1>1, <1>3 DEF QueueShape, WorkerShape
<1>5. NoneLost' /\ ExitShape'
  BY <1>1, <1>3 DEF NoneLost, ExitShape
<1> QED
  BY <1>2, <1>4, <1>5

LEMMA ClosePoolStep == ASSUME PoolInv, ClosePool PROVE PoolInv'
<1> USE DEF PoolInv
<1>1. UNCHANGED <<queue, worker, call, outcome>> /\ pool' \in PoolStates
  BY DEF ClosePool, PoolStates
<1>2. PoolTypeOK'
  BY <1>1 DEF PoolTypeOK
<1>3. QueueShape' /\ WorkerShape' /\ NoneLost'
  BY <1>1 DEF QueueShape, WorkerShape, NoneLost, Holding
<1>4. ExitShape'
  BY <1>1 DEF ExitShape, ClosePool
<1> QED
  BY <1>2, <1>3, <1>4

(* What the limiter does to the outcome does not matter to the pool.        *)
LEMMA PoolRests ==
    ASSUME PoolInv, UNCHANGED <<pool, queue, worker, call>>, outcome' \in [Requests -> Outcomes]
    PROVE  PoolInv'
BY DEF PoolInv, PoolTypeOK, QueueShape, WorkerShape, NoneLost, ExitShape, Holding

(* A worker that has a result has a caller that waits for it; and a pool    *)
(* that is closed and left by its workers has answered every call.          *)
LEMMA PoolInvImplies == PoolInv => CallersStay /\ NothingLeftBehind
<1> SUFFICES ASSUME PoolInv PROVE CallersStay /\ NothingLeftBehind
  OBVIOUS
<1>1. CallersStay
  BY DEF PoolInv, WorkerShape, Holding, CallersStay
<1>2. NothingLeftBehind
  <2> SUFFICES ASSUME pool = "drained", NEW r \in Requests, call[r] = "waiting" PROVE FALSE
    BY DEF NothingLeftBehind
  <2>1. queue = <<>> /\ \A w \in Workers : worker[w].at = "exited"
    BY WorkersExist DEF PoolInv, ExitShape
  <2> QED
    BY <2>1 DEF PoolInv, NoneLost, Holding
<1> QED
  BY <1>1, <1>2

-----------------------------------------------------------------------------
(* The backlog limiter.                                                     *)

Serving == {r \in Requests : Handling(r)}

LEMMA ServingCounted == Serving \subseteq Counted
BY DEF Serving, Counted, Handling

(* Goroutines that are neither counted before nor after a step.             *)
LEMMA BacklogRests ==
    ASSUME BacklogInv, Counted' = Counted, Serving' = Serving, UNCHANGED pending,
           \A r \in Requests : wait'[r] = "idle" => go'[r] = "idle"
    PROVE  BacklogInv'
BY DEF BacklogInv, PendingIsCounted, ServingWithinLimit, Serving

LEMMA EnterBacklog ==
    ASSUME LimitTypeOK, BacklogInv, NEW r \in Requests, Enter(r) PROVE BacklogInv'
<1>1. /\ go[r] = "entering" /\ pending' = pending + 1 /\ UNCHANGED wait
      /\ go' = [go EXCEPT ![r] = IF pending' > Limit THEN "refusing" ELSE "serving"]
  BY DEF Enter
<1>2. Counted' = Counted \union {r} /\ r \notin Counted
  BY <1>1 DEF Counted, LimitTypeOK
<1>3. IsFiniteSet(Counted) /\ pending = Cardinality(Counted) /\ pending \in Nat
  BY DEF BacklogInv, PendingIsCounted, LimitTypeOK
<1>4. IsFiniteSet(Counted') /\ Cardinality(Counted') = pending'
  BY <1>1, <1>2, <1>3, FS_AddElement
<1>5. Cardinality(Serving') <= Limit
  <2>1. CASE pending' > Limit
    <3>1. Serving' = Serving
      BY <1>1, <2>1 DEF Serving, Handling, LimitTypeOK
    <3> QED
      BY <3>1 DEF BacklogInv, ServingWithinLimit, Serving
  <2>2. CASE ~(pending' > Limit)
    <3>1. Serving' \subseteq Counted'
      BY <1>1 DEF Serving, Counted, Handling
    <3>2. Cardinality(Serving') <= Cardinality(Counted') /\ IsFiniteSet(Serving')
      BY <1>4, <3>1, FS_Subset
    <3>3. Cardinality(Serving') \in Nat
      BY <3>2, FS_CardinalityType
    <3> QED
      BY <1>1, <1>3, <1>4, <2>2, <3>2, <3>3, LimitIsPositive
  <2> QED
    BY <2>1, <2>2
<1>6. \A d \in Requests : wait'[d] = "idle" => go'[d] = "idle"
  BY <1>1 DEF BacklogInv, LimitTypeOK
<1> QED
  BY <1>4, <1>5, <1>6 DEF BacklogInv, PendingIsCounted, ServingWithinLimit, Serving

(* A goroutine that ends takes its count back, once.                        *)
LEMMA EndBacklog ==
    ASSUME LimitTypeOK, BacklogInv, NEW r \in Requests, NEW o, End(r, o),
           go[r] \in {"refusing", "serving"}, pending' = pending - 1
    PROVE  BacklogInv' /\ pending' \in Nat
<1>1. go' = [go EXCEPT ![r] = "ended"] /\ UNCHANGED wait
  BY DEF End
<1>2. Counted' = Counted \ {r} /\ r \in Counted
  BY <1>1 DEF Counted, LimitTypeOK
<1>3. IsFiniteSet(Counted) /\ pending = Cardinality(Counted) /\ pending \in Nat
  BY DEF BacklogInv, PendingIsCounted, LimitTypeOK
<1>4. IsFiniteSet(Counted') /\ Cardinality(Counted') = pending'
  BY <1>2, <1>3, FS_RemoveElement
<1>5. pending' \in Nat
  BY <1>4, FS_CardinalityType
<1>6. Cardinality(Serving') <= Limit
  <2>1. Serving' \subseteq Serving
    BY <1>1 DEF Serving, Handling, LimitTypeOK
  <2>2. IsFiniteSet(Serving)
    BY <1>3, ServingCounted, FS_Subset
  <2>3. /\ Cardinality(Serving') <= Cardinality(Serving)
        /\ Cardinality(Serving') \in Nat /\ Cardinality(Serving) \in Nat
    BY <2>1, <2>2, FS_Subset, FS_CardinalityType
  <2> QED
    BY <2>3, LimitIsPositive DEF BacklogInv, ServingWithinLimit, Serving
<1>7. \A d \in Requests : wait'[d] = "idle" => go'[d] = "idle"
  BY <1>1 DEF BacklogInv, LimitTypeOK
<1> QED
  BY <1>4, <1>5, <1>6, <1>7 DEF BacklogInv, PendingIsCounted, ServingWithinLimit, Serving

-----------------------------------------------------------------------------
(* Steps of the whole.                                                      *)

LEMMA PathInit == Init => PathInv
<1> SUFFICES ASSUME Init PROVE PathInv
  OBVIOUS
<1>1. PoolInv
  BY PoolInitInv DEF Init
<1>2. LimitTypeOK
  BY DEF Init, All, LimitTypeOK, Outcomes, GoStates, Phases
<1>3. Counted = {} /\ {r \in Requests : Handling(r)} = {}
  BY DEF Init, All, Counted, Handling
<1>4. BacklogInv
  BY <1>3, FS_EmptySet, LimitIsPositive DEF Init, All, BacklogInv, PendingIsCounted, ServingWithinLimit
<1>5. ShutdownInv
  BY DEF Init, All, PoolInit, ShutdownInv, GracefulStop
<1> QED
  BY <1>1, <1>2, <1>4, <1>5 DEF PathInv

(* A step of the handler, a worker or the closing of the pool.              *)
LEMMA PoolOnly ==
    ASSUME LimitTypeOK, BacklogInv, UNCHANGED limitVars, phase' \in Phases, forced' \in BOOLEAN
    PROVE  LimitTypeOK' /\ BacklogInv'
<1>1. LimitTypeOK'
  BY DEF LimitTypeOK, limitVars
<1>2. Counted' = Counted /\ Serving' = Serving
  BY DEF Counted, Serving, Handling, limitVars
<1>3. BacklogInv'
  <2>1. \A r \in Requests : wait'[r] = "idle" => go'[r] = "idle"
    BY DEF BacklogInv, limitVars
  <2> QED
    BY <1>2, <2>1, BacklogRests DEF limitVars
<1> QED
  BY <1>1, <1>3

LEMMA ArriveStep == ASSUME PathInv, NEW r \in Requests, Arrive(r) PROVE PathInv'
<1> USE DEF PathInv
<1>1. /\ phase = "up" /\ wait[r] = "idle" /\ wait' = [wait EXCEPT ![r] = "waiting"]
      /\ go' = [go EXCEPT ![r] = "entering"]
      /\ UNCHANGED <<reply, expired, pending, poolVars, daemonVars>>
  BY DEF Arrive
<1>2. PoolInv'
  BY <1>1, PoolRests DEF poolVars, PoolInv, PoolTypeOK
<1>3. LimitTypeOK'
  BY <1>1 DEF LimitTypeOK, daemonVars, GoStates
<1>4. BacklogInv'
  <2>1. go[r] = "idle"
    BY <1>1 DEF BacklogInv
  <2>2. Counted' = Counted /\ Serving' = Serving
    BY <1>1, <2>1 DEF Counted, Serving, Handling, LimitTypeOK
  <2>3. \A d \in Requests : wait'[d] = "idle" => go'[d] = "idle"
    BY <1>1 DEF BacklogInv, LimitTypeOK
  <2> QED
    BY <1>1, <2>2, <2>3, BacklogRests
<1>5. ShutdownInv'
  BY <1>1 DEF ShutdownInv, GracefulStop, poolVars, daemonVars
<1> QED
  BY <1>2, <1>3, <1>4, <1>5

LEMMA EnterStep == ASSUME PathInv, NEW r \in Requests, Enter(r) PROVE PathInv'
<1> USE DEF PathInv
<1>1. UNCHANGED <<wait, reply, expired, poolVars, daemonVars>>
  BY DEF Enter
<1>2. PoolInv'
  BY <1>1, PoolRests DEF poolVars, PoolInv, PoolTypeOK
<1>3. LimitTypeOK'
  BY <1>1 DEF LimitTypeOK, daemonVars, GoStates, Enter
<1>4. BacklogInv'
  BY EnterBacklog
<1>5. ShutdownInv'
  BY <1>1 DEF ShutdownInv, GracefulStop, poolVars, daemonVars
<1> QED
  BY <1>2, <1>3, <1>4, <1>5

LEMMA EndStep ==
    ASSUME PathInv, NEW r \in Requests, NEW o \in Outcomes, End(r, o),
           go[r] \in {"refusing", "serving"}, pending' = pending - 1,
           pool = "open" => o \notin {"closed", "panic"}
    PROVE  PathInv'
<1> USE DEF PathInv
<1>1. /\ go' = [go EXCEPT ![r] = "ended"]
      /\ outcome' = [outcome EXCEPT ![r] = IF wait[r] = "answered" THEN "none" ELSE o]
      /\ UNCHANGED <<wait, reply, expired, pool, queue, worker, call, daemonVars>>
  BY DEF End
<1>2. PoolInv'
  <2>1. outcome' \in [Requests -> Outcomes]
    BY <1>1 DEF PoolInv, PoolTypeOK, Outcomes
  <2> QED
    BY <1>1, <2>1, PoolRests
<1>3. BacklogInv' /\ pending' \in Nat
  BY EndBacklog
<1>4. LimitTypeOK'
  BY <1>1, <1>3 DEF LimitTypeOK, daemonVars, GoStates
<1>5. ShutdownInv'
  <2>1. pool = "open" => \A d \in Requests : outcome'[d] \notin {"closed", "panic"}
    BY <1>1 DEF ShutdownInv, PoolInv, PoolTypeOK
  <2> QED
    BY <1>1, <2>1 DEF ShutdownInv, GracefulStop, daemonVars
<1> QED
  BY <1>2, <1>3, <1>4, <1>5

LEMMA RefuseStep == ASSUME PathInv, NEW r \in Requests, Refuse(r) PROVE PathInv'
<1>1. go[r] = "refusing" /\ pending' = pending - 1 /\ End(r, "answer")
  BY DEF Refuse
<1>2. "answer" \in Outcomes
  BY DEF Outcomes
<1> QED
  BY <1>1, <1>2, EndStep

LEMMA LeaveStep == ASSUME PathInv, NEW r \in Requests, Leave(r) PROVE PathInv'
<1>1. go[r] = "serving" /\ pending' = pending - 1 /\ End(r, outcome[r])
  BY DEF Leave, Handling
<1>2. outcome[r] \in Outcomes /\ (pool = "open" => outcome[r] \notin {"closed", "panic"})
  BY DEF PathInv, PoolInv, PoolTypeOK, ShutdownInv
<1> QED
  BY <1>1, <1>2, EndStep

LEMMA ExpireStep == ASSUME PathInv, NEW r \in Requests, Expire(r) PROVE PathInv'
<1> USE DEF PathInv
<1>1. /\ expired' = [expired EXCEPT ![r] = TRUE]
      /\ UNCHANGED <<wait, reply, go, pending, poolVars, daemonVars>>
  BY DEF Expire
<1>2. PoolInv'
  BY <1>1, PoolRests DEF poolVars, PoolInv, PoolTypeOK
<1>3. LimitTypeOK'
  BY <1>1 DEF LimitTypeOK, daemonVars
<1>4. BacklogInv'
  <2>1. Counted' = Counted /\ Serving' = Serving
    BY <1>1 DEF Counted, Serving, Handling
  <2>2. \A d \in Requests : wait'[d] = "idle" => go'[d] = "idle"
    BY <1>1 DEF BacklogInv
  <2> QED
    BY <1>1, <2>1, <2>2, BacklogRests
<1>5. ShutdownInv'
  BY <1>1 DEF ShutdownInv, GracefulStop, poolVars, daemonVars
<1> QED
  BY <1>2, <1>3, <1>4, <1>5

(* An answer that tells of the closed pool is given by a forced server only.*)
LEMMA AnsweringStep ==
    ASSUME PathInv, NEW r \in Requests, NEW o \in Outcomes, Answer(r, o),
           outcome' \in [Requests -> Outcomes],
           pool = "open" => \A d \in Requests : outcome'[d] \notin {"closed", "panic"},
           o \in {"closed", "panic"} => pool # "open"
    PROVE  PathInv'
<1> USE DEF PathInv
<1>1. /\ wait[r] = "waiting" /\ wait' = [wait EXCEPT ![r] = "answered"]
      /\ reply' = [reply EXCEPT ![r] = o] /\ expired' = [expired EXCEPT ![r] = TRUE]
      /\ UNCHANGED <<go, pending, pool, queue, worker, call, daemonVars>>
  BY DEF Answer
<1>2. PoolInv'
  BY <1>1, PoolRests
<1>3. LimitTypeOK'
  BY <1>1 DEF LimitTypeOK, daemonVars
<1>4. BacklogInv'
  <2>1. Counted' = Counted /\ Serving' = Serving
    BY <1>1 DEF Counted, Serving, Handling
  <2>2. \A d \in Requests : wait'[d] = "idle" => go'[d] = "idle"
    BY <1>1 DEF BacklogInv, LimitTypeOK
  <2> QED
    BY <1>1, <2>1, <2>2, BacklogRests
<1>5. ShutdownInv'
  <2>1. o \in {"closed", "panic"} => forced
    <3>1. pool # "open" => phase \in {"stopped", "down"}
      BY DEF ShutdownInv, LimitTypeOK, Phases
    <3> QED
      BY <1>1, <3>1 DEF ShutdownInv
  <2>2. \A d \in Requests : wait'[d] = "waiting" => wait[d] = "waiting"
    BY <1>1 DEF LimitTypeOK
  <2>3. GracefulStop'
    BY <1>1, <2>1 DEF ShutdownInv, GracefulStop, LimitTypeOK, daemonVars
  <2> QED
    BY <1>1, <2>2, <2>3 DEF ShutdownInv, daemonVars
<1> QED
  BY <1>2, <1>3, <1>4, <1>5

LEMMA TimeOutStep == ASSUME PathInv, NEW r \in Requests, TimeOut(r) PROVE PathInv'
<1>1. Answer(r, "answer") /\ outcome' = outcome
  BY DEF TimeOut
<1>2. /\ outcome \in [Requests -> Outcomes] /\ "answer" \in Outcomes
      /\ pool = "open" => \A d \in Requests : outcome[d] \notin {"closed", "panic"}
  BY DEF PathInv, PoolInv, PoolTypeOK, ShutdownInv, Outcomes
<1> QED
  BY <1>1, <1>2, AnsweringStep

LEMMA CompletedStep == ASSUME PathInv, NEW r \in Requests, Completed(r) PROVE PathInv'
<1>1. Answer(r, outcome[r]) /\ outcome' = [outcome EXCEPT ![r] = "none"]
  BY DEF Completed
<1>2. /\ outcome \in [Requests -> Outcomes] /\ "none" \in Outcomes
      /\ pool = "open" => \A d \in Requests : outcome[d] \notin {"closed", "panic"}
  BY DEF PathInv, PoolInv, PoolTypeOK, ShutdownInv, Outcomes
<1>3. /\ outcome' \in [Requests -> Outcomes]
      /\ pool = "open" => \A d \in Requests : outcome'[d] \notin {"closed", "panic"}
  BY <1>1, <1>2
<1> QED
  BY <1>1, <1>2, <1>3, AnsweringStep

LEMMA HandlerStep == ASSUME PathInv, NEW r \in Requests, Handler(r) PROVE PathInv'
<1> USE DEF PathInv
<1>1. UNCHANGED <<limitVars, pool, worker, daemonVars>>
  BY DEF Handler, ReturnEarly, GetPreflight, CheckClosed, Enqueue, GiveUp, QueueFull
<1>2. "answer" \in Outcomes
  BY DEF Outcomes
<1>3. PoolInv'
  BY <1>2, CheckClosedStep, EnqueueStep, ReturnStep
     DEF Handler, ReturnEarly, GetPreflight, GiveUp, QueueFull
<1>4. LimitTypeOK' /\ BacklogInv'
  BY <1>1, PoolOnly DEF LimitTypeOK, daemonVars
<1>5. pool = "open" => \A d \in Requests : outcome'[d] \notin {"closed", "panic"}
  <2>1. outcome \in [Requests -> Outcomes]
    BY DEF PoolInv, PoolTypeOK
  <2>2. pool = "open" => \/ outcome' = outcome
                         \/ outcome' = [outcome EXCEPT ![r] = "answer"]
    BY DEF Handler, ReturnEarly, GetPreflight, CheckClosed, Enqueue, GiveUp, QueueFull, Return
  <2> QED
    BY <2>1, <2>2 DEF ShutdownInv
<1>6. ShutdownInv'
  BY <1>1, <1>5 DEF ShutdownInv, GracefulStop, limitVars, daemonVars
<1> QED
  BY <1>3, <1>4, <1>6

LEMMA WorkerStep ==
    ASSUME PathInv, NEW w \in Workers, Work(w) \/ FinishSimulation(w) PROVE PathInv'
<1> USE DEF PathInv
<1>1. UNCHANGED <<limitVars, pool, daemonVars>>
  BY DEF Work, FinishSimulation, Take, Deliver, ExitWorker, Simulate
<1>2. PoolInv'
  BY TakeStep, DeliverStep, ExitWorkerStep, SimulateStep DEF Work, FinishSimulation
<1>3. LimitTypeOK' /\ BacklogInv'
  BY <1>1, PoolOnly DEF LimitTypeOK, daemonVars
<1>4. pool = "open" => \A d \in Requests : outcome'[d] \notin {"closed", "panic"}
  <2>1. outcome \in [Requests -> Outcomes]
    BY DEF PoolInv, PoolTypeOK
  <2>2. outcome' = outcome \/ outcome' = [outcome EXCEPT ![worker[w].req] = "answer"]
    BY DEF Work, FinishSimulation, Take, Deliver, ExitWorker, Simulate, Return
  <2> QED
    BY <2>1, <2>2 DEF ShutdownInv
<1>5. ShutdownInv'
  BY <1>1, <1>4 DEF ShutdownInv, GracefulStop, limitVars, daemonVars
<1> QED
  BY <1>2, <1>3, <1>5

LEMMA DaemonStep == ASSUME PathInv, Signal \/ Close PROVE PathInv'
<1> USE DEF PathInv
<1>1. UNCHANGED <<limitVars, queue, worker, call, outcome>>
  BY DEF Signal, Close, ShutdownDone, GraceEnds, ClosePreflightPool, ClosePool, poolVars
<1>2. PoolInv'
  <2>1. CASE ClosePreflightPool
    BY <2>1, ClosePoolStep DEF ClosePreflightPool
  <2>2. CASE UNCHANGED poolVars
    BY <2>2, PoolRests DEF poolVars, PoolInv, PoolTypeOK
  <2> QED
    BY <2>1, <2>2 DEF Signal, Close, ShutdownDone, GraceEnds
<1>3. phase' \in Phases /\ forced' \in BOOLEAN
  BY DEF Signal, Close, ShutdownDone, GraceEnds, ClosePreflightPool, LimitTypeOK, Phases
<1>4. LimitTypeOK' /\ BacklogInv'
  BY <1>1, <1>3, PoolOnly
<1>5. ShutdownInv'
  <2>1. CASE Signal
    BY <1>1, <2>1 DEF Signal, ShutdownInv, GracefulStop, limitVars, poolVars
  <2>2. CASE ShutdownDone
    BY <1>1, <2>2 DEF ShutdownDone, ShutdownInv, GracefulStop, limitVars, poolVars
  <2>3. CASE GraceEnds
    BY <1>1, <2>3 DEF GraceEnds, ShutdownInv, GracefulStop, limitVars, poolVars
  <2>4. CASE ClosePreflightPool
    <3>1. phase = "stopped" /\ phase' \in {"stopped", "down"} /\ forced' = forced /\ pool' # "open"
      BY <2>4 DEF ClosePreflightPool, ClosePool
    <3> QED
      BY <1>1, <3>1 DEF ShutdownInv, GracefulStop, limitVars
  <2> QED
    BY <2>1, <2>2, <2>3, <2>4 DEF Close
<1> QED
  BY <1>2, <1>4, <1>5

LEMMA PathStep == PathInv /\ [Next]_vars => PathInv'
<1> SUFFICES ASSUME PathInv, [Next]_vars PROVE PathInv'
  OBVIOUS
<1>1. ASSUME NEW r \in Requests, Arrive(r) \/ Limiter(r) \/ Handler(r) PROVE PathInv'
  BY <1>1, ArriveStep, EnterStep, RefuseStep, LeaveStep, ExpireStep, TimeOutStep, CompletedStep,
     HandlerStep DEF Limiter
<1>2. ASSUME NEW w \in Workers, Work(w) \/ FinishSimulation(w) PROVE PathInv'
  BY <1>2, WorkerStep
<1>3. CASE Signal \/ Close
  BY <1>3, DaemonStep
<1>4. CASE UNCHANGED vars
  <2>1. PoolInv'
    BY <1>4, PoolRests DEF PathInv, vars, poolVars, PoolInv, PoolTypeOK
  <2>2. LimitTypeOK' /\ BacklogInv'
    BY <1>4, PoolOnly DEF PathInv, vars, daemonVars, LimitTypeOK
  <2>3. ShutdownInv'
    BY <1>4 DEF PathInv, vars, poolVars, limitVars, daemonVars, ShutdownInv, GracefulStop
  <2> QED
    BY <2>1, <2>2, <2>3 DEF PathInv
<1> QED
  BY <1>1, <1>2, <1>3, <1>4 DEF Next

-----------------------------------------------------------------------------
(* The variables keep their types; the queue is never longer than its       *)
(* capacity.                                                                *)
THEOREM PathTypeCorrect == Spec => []TypeOK
<1>1. PathInv => TypeOK
  BY DEF PathInv, PoolInv, LimitTypeOK, TypeOK
<1> QED
  BY PathInit, PathStep, <1>1, PTL DEF Spec

(* No worker is ever left with a result that nobody takes.                  *)
THEOREM PoolServesItsCallers == Spec => []CallersStay
<1>1. PathInv => CallersStay
  BY PoolInvImplies DEF PathInv
<1> QED
  BY PathInit, PathStep, <1>1, PTL DEF Spec

(* No caller is left behind by Close.                                       *)
THEOREM CloseLeavesNobodyBehind == Spec => []NothingLeftBehind
<1>1. PathInv => NothingLeftBehind
  BY PoolInvImplies DEF PathInv
<1> QED
  BY PathInit, PathStep, <1>1, PTL DEF Spec

(* The backlog counter is exact, whatever requests are refused, time out or *)
(* panic.                                                                   *)
THEOREM BacklogIsCounted == Spec => []PendingIsCounted
<1>1. PathInv => PendingIsCounted
  BY DEF PathInv, BacklogInv
<1> QED
  BY PathInit, PathStep, <1>1, PTL DEF Spec

(* No more requests are executed at a time than the limit allows.           *)
THEOREM BacklogIsBounded == Spec => []ServingWithinLimit
<1>1. PathInv => ServingWithinLimit
  BY DEF PathInv, BacklogInv
<1> QED
  BY PathInit, PathStep, <1>1, PTL DEF Spec

(* No client notices a shutdown within the grace period.                    *)
THEOREM ShutdownIsGraceful == Spec => []GracefulStop
<1>1. PathInv => GracefulStop
  BY DEF PathInv, ShutdownInv
<1> QED
  BY PathInit, PathStep, <1>1, PTL DEF Spec

-----------------------------------------------------------------------------
(* The client library.                                                      *)

(* A goroutine that has created a client and not yet put it in place.       *)
OwnsClient(c) == at[c] \in {"created", "waiting"}

ClientTyped ==
    /\ cli \in Nat /\ created \in Nat /\ open \subseteq Nat /\ dismissed \subseteq Nat
    /\ at \in [Callers -> Places]
    /\ using \in [Callers -> Nat]

(* Calls are about the current client, which is open or dismissed, and      *)
(* those that wait to be put in place differ from it and from each other.   *)
ClientInv ==
    /\ ClientTyped
    /\ cli \in open \union dismissed
    /\ cli <= created
    /\ \A n \in open : n <= created
    /\ \A c \in Callers : using[c] <= created
    /\ \A c \in Callers : at[c] = "calling" => using[c] = cli
    /\ \A c \in Callers : OwnsClient(c) => using[c] # cli /\ using[c] \in open
    /\ \A c, d \in Callers : OwnsClient(c) /\ OwnsClient(d) /\ c # d => using[c] # using[d]
    /\ \A n \in open : n = cli \/ \E c \in Callers : OwnsClient(c) /\ using[c] = n

LEMMA ClientInitInv == ClientInit => ClientInv
BY DEF ClientInit, ClientInv, ClientTyped, OwnsClient, Places

LEMMA ClientNextInv == ClientInv /\ [ClientNext]_clientVars => ClientInv'
<1> SUFFICES ASSUME ClientInv, [ClientNext]_clientVars PROVE ClientInv'
  OBVIOUS
<1> USE DEF ClientInv, ClientTyped, OwnsClient, Places
<1>1. ASSUME NEW c \in Callers, BeginCall(c) PROVE ClientInv'
  BY <1>1 DEF BeginCall
<1>2. ASSUME NEW c \in Callers, EndCall(c) PROVE ClientInv'
  BY <1>2 DEF EndCall
<1>3. ASSUME NEW c \in Callers, Create(c) PROVE ClientInv'
  BY <1>3 DEF Create
<1>4. ASSUME NEW c \in Callers, Lock(c) PROVE ClientInv'
  BY <1>4 DEF Lock
<1>5. ASSUME NEW c \in Callers, Replace(c) PROVE ClientInv'
  BY <1>5 DEF Replace
<1>6. CASE CloseClient
  BY <1>6 DEF CloseClient
<1>7. CASE UNCHANGED clientVars
  BY <1>7 DEF clientVars
<1> QED
  BY <1>1, <1>2, <1>3, <1>4, <1>5, <1>6, <1>7 DEF ClientNext

(* Neither a call that is broken off by another one's refresh, nor a client *)
(* that is left open for good, for any number of goroutines.                *)
THEOREM ClientIsShared == ClientSpec => [](CallsUndisturbed /\ NothingLeaks)
<1>1. ClientInv => CallsUndisturbed /\ NothingLeaks
  BY DEF ClientInv, ClientTyped, OwnsClient, CallsUndisturbed, NothingLeaks, Owned
<1> QED
  BY <1>1, ClientInitInv, ClientNextInv, PTL DEF ClientSpec
=============================================================================
