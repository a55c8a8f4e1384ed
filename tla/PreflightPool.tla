---------------------------- MODULE PreflightPool ----------------------------
(***************************************************************************)
(* The preflight worker pool (preflight/pool.go): a bounded queue, workers  *)
(* that run simulations, and callers that wait for the result on a channel  *)
(* of their own, which has no buffer.  Closing the pool closes the queue    *)
(* and waits for the workers.  RequestPath has the callers.                 *)
(***************************************************************************)
EXTENDS Naturals, Sequences

CONSTANTS
    Requests,       \* requests that may call the pool, each of them once
    Workers,        \* goroutines started by NewPreflightWorkerPool
    QueueCapacity   \* JobQueueCapacity

ASSUME QueueCapacityIsPositive == QueueCapacity \in Nat \ {0}

ASSUME WorkersExist == Workers # {}

VARIABLES
    pool,       \* progress of Close
    queue,      \* requestChan
    worker,     \* what each worker does, and for which request
    call,       \* the calls of GetPreflight
    outcome     \* what they returned

poolVars == <<pool, queue, worker, call, outcome>>

(* "flagged": isClosed is set; "closed": requestChan is closed; "drained":  *)
(* Close has returned.                                                      *)
PoolStates == {"open", "flagged", "closed", "drained"}

(* "answer": a result, or an error that says what is the matter (the queue  *)
(* is full, the time is up); "closed": the pool is; "panic": the call ended *)
(* in one.                                                                  *)
Outcomes == {"none", "answer", "closed", "panic"}

NoRequest == "no request"

Resting == [at |-> "idle", req |-> NoRequest]

PoolTypeOK ==
    /\ pool \in PoolStates
    /\ queue \in Seq(Requests) /\ Len(queue) <= QueueCapacity
    /\ worker \in [Workers -> [at : {"idle", "busy", "sending", "exited"},
                               req : Requests \union {NoRequest}]]
    /\ call \in [Requests -> {"none", "checked", "waiting", "returned"}]
    /\ outcome \in [Requests -> Outcomes]

PoolInit ==
    /\ pool = "open"
    /\ queue = <<>>
    /\ worker = [w \in Workers |-> Resting]
    /\ call = [r \in Requests |-> "none"]
    /\ outcome = [r \in Requests |-> "none"]

Return(r, o) ==
    /\ call' = [call EXCEPT ![r] = "returned"]
    /\ outcome' = [outcome EXCEPT ![r] = o]

-----------------------------------------------------------------------------
(* GetPreflight: the flag is looked at first, and not again.                *)
CheckClosed(r) ==
    /\ call[r] = "none"
    /\ IF pool = "open"
       THEN call' = [call EXCEPT ![r] = "checked"] /\ UNCHANGED outcome
       ELSE Return(r, "closed")
    /\ UNCHANGED <<pool, queue, worker>>

(* Mutant: the queue has no bound.                                          *)
EnqueueUnbounded(r) ==
    /\ call[r] = "checked"
    /\ queue' = Append(queue, r)
    /\ call' = [call EXCEPT ![r] = "waiting"]
    /\ UNCHANGED <<pool, worker, outcome>>

(* The select: a send to a closed channel panics.                           *)
Enqueue(r) ==
    /\ call[r] = "checked"
    /\ \/ /\ pool \in {"closed", "drained"}
          /\ Return(r, "panic")
          /\ UNCHANGED queue
       \/ /\ pool \notin {"closed", "drained"}
          /\ Len(queue) < QueueCapacity
          /\ queue' = Append(queue, r)
          /\ call' = [call EXCEPT ![r] = "waiting"]
          /\ UNCHANGED outcome
    /\ UNCHANGED <<pool, worker>>

(* The context is done as well: either case of the select may be taken.     *)
GiveUp(r) ==
    /\ call[r] = "checked"
    /\ Return(r, "answer")
    /\ UNCHANGED <<pool, queue, worker>>

(* The default case: the queue is full, and the context is not done.        *)
QueueFull(r) ==
    /\ call[r] = "checked"
    /\ pool \notin {"closed", "drained"}
    /\ Len(queue) = QueueCapacity
    /\ Return(r, "answer")
    /\ UNCHANGED <<pool, queue, worker>>

-----------------------------------------------------------------------------
(* work(): the loop over requestChan.                                       *)
Take(w) ==
    /\ worker[w].at = "idle"
    /\ queue # <<>>
    /\ worker' = [worker EXCEPT ![w] = [at |-> "busy", req |-> Head(queue)]]
    /\ queue' = Tail(queue)
    /\ UNCHANGED <<pool, call, outcome>>

(* The simulation (a foreign library) comes to an end, with an error or not.*)
Simulate(w) ==
    /\ worker[w].at = "busy"
    /\ worker' = [worker EXCEPT ![w].at = "sending"]
    /\ UNCHANGED <<pool, queue, call, outcome>>

(* The send to resultChan meets the caller that receives from it.           *)
Deliver(w) ==
    /\ worker[w].at = "sending"
    /\ call[worker[w].req] = "waiting"
    /\ Return(worker[w].req, "answer")
    /\ worker' = [worker EXCEPT ![w] = Resting]
    /\ UNCHANGED <<pool, queue>>

(* Mutant: a worker ends as soon as the queue is closed.                    *)
ExitUndrained(w) ==
    /\ worker[w].at = "idle"
    /\ pool = "closed"
    /\ worker' = [worker EXCEPT ![w].at = "exited"]
    /\ UNCHANGED <<pool, queue, call, outcome>>

(* The loop ends when the queue is closed and empty.                        *)
ExitWorker(w) ==
    /\ worker[w].at = "idle"
    /\ pool = "closed"
    /\ queue = <<>>
    /\ worker' = [worker EXCEPT ![w].at = "exited"]
    /\ UNCHANGED <<pool, queue, call, outcome>>

-----------------------------------------------------------------------------
(* Mutant: the queue is not closed.                                         *)
ClosePoolOnly ==
    /\ \/ pool = "open" /\ pool' = "flagged"
       \/ /\ pool = "flagged"
          /\ \A w \in Workers : worker[w].at = "exited"
          /\ pool' = "drained"
    /\ UNCHANGED <<queue, worker, call, outcome>>

(* Close, in three steps.                                                   *)
ClosePool ==
    /\ \/ pool = "open" /\ pool' = "flagged"
       \/ pool = "flagged" /\ pool' = "closed"
       \/ /\ pool = "closed"
          /\ \A w \in Workers : worker[w].at = "exited"
          /\ pool' = "drained"
    /\ UNCHANGED <<queue, worker, call, outcome>>

-----------------------------------------------------------------------------
(* A worker that has a result never has to wait for its caller, so it       *)
(* cannot be blocked for good: no caller stops receiving, not even when its *)
(* context is done (resultC has no buffer).                                 *)
CallersStay ==
    \A w \in Workers : worker[w].at = "sending" => call[worker[w].req] = "waiting"

(* When Close returns, each call that was queued has been answered.         *)
NothingLeftBehind == pool = "drained" => \A r \in Requests : call[r] # "waiting"
=============================================================================
