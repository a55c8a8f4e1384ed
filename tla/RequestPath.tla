----------------------------- MODULE RequestPath -----------------------------
(***************************************************************************)
(* The way of a simulateTransaction request: the time limit and the backlog *)
(* limit of its method (network/), its handler, which calls the preflight   *)
(* pool, and back; and the shutdown of the daemon (daemon/daemon.go).       *)
(*                                                                          *)
(* The duration limiter comes first: it starts a goroutine for the backlog  *)
(* limiter and what is behind it, and waits for its end or for the time     *)
(* limit.  The goroutine goes on after the time limit.  The HTTP handler    *)
(* has the same two limiters in the same order (NewJSONRPCHandler), with    *)
(* the JSON-RPC bridge behind them; the two pairs differ only in how an     *)
(* answer is written, and one pair is modelled.                             *)
(***************************************************************************)
EXTENDS PreflightPool, FiniteSets

CONSTANT Limit      \* backlog limit

ASSUME LimitIsPositive == Limit \in Nat \ {0}

VARIABLES
    wait,       \* the limiter's select: "idle", "waiting", "answered"
    reply,      \* what it answered
    go,         \* the goroutine of the limiter
    expired,    \* the context of the goroutine is done
    pending,    \* backlog counters
    phase,      \* of the daemon
    forced      \* its server was stopped with requests unanswered

limitVars == <<wait, reply, go, expired, pending>>
daemonVars == <<phase, forced>>
vars == <<poolVars, limitVars, daemonVars>>

GoStates == {"idle", "entering", "refusing", "serving", "ended"}
Phases == {"up", "stopping", "stopped", "down"}

TypeOK ==
    /\ PoolTypeOK
    /\ wait \in [Requests -> {"idle", "waiting", "answered"}]
    /\ reply \in [Requests -> Outcomes]
    /\ go \in [Requests -> GoStates]
    /\ expired \in [Requests -> BOOLEAN]
    /\ pending \in Nat
    /\ phase \in Phases /\ forced \in BOOLEAN

All(v) == [r \in Requests |-> v]

Init ==
    /\ PoolInit
    /\ wait = All("idle") /\ reply = All("none")
    /\ go = All("idle") /\ expired = All(FALSE)
    /\ pending = 0
    /\ phase = "up" /\ forced = FALSE

-----------------------------------------------------------------------------
(* The two limiters.                                                        *)

(* The backlog limiter has let the request through to its handler.          *)
Handling(r) == go[r] = "serving"

(* A request comes in, and the duration limiter starts its goroutine.       *)
Arrive(r) ==
    /\ phase = "up"
    /\ wait[r] = "idle"
    /\ wait' = [wait EXCEPT ![r] = "waiting"]
    /\ go' = [go EXCEPT ![r] = "entering"]
    /\ UNCHANGED <<reply, expired, pending, poolVars, daemonVars>>

(* Mutant: the old count is compared.                                       *)
EnterComparingOld(r) ==
    /\ go[r] = "entering"
    /\ pending' = pending + 1
    /\ go' = [go EXCEPT ![r] = IF pending > Limit THEN "refusing" ELSE "serving"]
    /\ UNCHANGED <<wait, reply, expired, poolVars, daemonVars>>

(* The backlog limiter counts first and compares the new count.             *)
Enter(r) ==
    /\ go[r] = "entering"
    /\ pending' = pending + 1
    /\ go' = [go EXCEPT ![r] = IF pending' > Limit THEN "refusing" ELSE "serving"]
    /\ UNCHANGED <<wait, reply, expired, poolVars, daemonVars>>

(* The goroutine ends and fills or closes requestCompleted, which has room  *)
(* for one value: it does not wait for the select.                          *)
End(r, o) ==
    /\ go' = [go EXCEPT ![r] = "ended"]
    /\ outcome' = [outcome EXCEPT ![r] = IF wait[r] = "answered" THEN "none" ELSE o]
    /\ UNCHANGED <<wait, reply, expired, pool, queue, worker, call, daemonVars>>

(* Mutant: the count of a refused request is not taken back.                *)
RefuseKeepingCount(r) ==
    /\ go[r] = "refusing"
    /\ UNCHANGED pending
    /\ End(r, "answer")

(* The limit is exceeded: the count is taken back.                          *)
Refuse(r) ==
    /\ go[r] = "refusing"
    /\ pending' = pending - 1
    /\ End(r, "answer")

(* Mutant: the count is taken back by code that a panic skips.              *)
LeaveUnlessPanic(r) ==
    /\ Handling(r) /\ call[r] = "returned"
    /\ pending' = IF outcome[r] = "panic" THEN pending ELSE pending - 1
    /\ End(r, outcome[r])

(* The handler has returned or panics: the deferred function of the backlog *)
(* limiter runs, then that of the goroutine, which recovers from a panic.   *)
Leave(r) ==
    /\ Handling(r) /\ call[r] = "returned"
    /\ pending' = pending - 1
    /\ End(r, outcome[r])

(* The time limit passes: the context's deadline, and the timer of limitCh. *)
Expire(r) ==
    /\ wait[r] = "waiting" /\ ~expired[r]
    /\ expired' = [expired EXCEPT ![r] = TRUE]
    /\ UNCHANGED <<wait, reply, go, pending, poolVars, daemonVars>>

(* The limiter returns an answer, and cancels the context.                  *)
Answer(r, o) ==
    /\ wait[r] = "waiting"
    /\ wait' = [wait EXCEPT ![r] = "answered"]
    /\ reply' = [reply EXCEPT ![r] = o]
    /\ expired' = [expired EXCEPT ![r] = TRUE]
    /\ UNCHANGED <<go, pending, pool, queue, worker, call, daemonVars>>

(* Mutant: the limiter waits for the goroutine it has cancelled.            *)
TimeOutJoining(r) ==
    /\ expired[r]
    /\ go[r] = "ended"
    /\ Answer(r, "answer")
    /\ UNCHANGED outcome

(* limitCh is ready.                                                        *)
TimeOut(r) ==
    /\ expired[r]
    /\ Answer(r, "answer")
    /\ UNCHANGED outcome

(* requestCompleted is ready.                                               *)
Completed(r) ==
    /\ go[r] = "ended"
    /\ Answer(r, outcome[r])
    /\ outcome' = [outcome EXCEPT ![r] = "none"]

Limiter(r) ==
    \/ Enter(r) \/ Refuse(r) \/ Leave(r)
    \/ Expire(r) \/ TimeOut(r) \/ Completed(r)

-----------------------------------------------------------------------------
(* The handler of the method.                                               *)

(* It has its answer (an error) before it needs the pool.                   *)
ReturnEarly(r) ==
    /\ Handling(r)
    /\ call[r] = "none"
    /\ Return(r, "answer")
    /\ UNCHANGED <<limitVars, pool, queue, worker, daemonVars>>

(* Mutant: a call stops waiting when its context is done.                   *)
GetPreflightAbandoning(r) ==
    /\ Handling(r)
    /\ \/ CheckClosed(r) \/ Enqueue(r)
       \/ expired[r] /\ GiveUp(r)
       \/ ~expired[r] /\ QueueFull(r)
       \/ /\ call[r] = "waiting" /\ expired[r]
          /\ Return(r, "answer")
          /\ UNCHANGED <<pool, queue, worker>>
    /\ UNCHANGED <<limitVars, daemonVars>>

(* The call of the pool.                                                    *)
GetPreflight(r) ==
    /\ Handling(r)
    /\ \/ CheckClosed(r) \/ Enqueue(r)
       \/ expired[r] /\ GiveUp(r)
       \/ ~expired[r] /\ QueueFull(r)
    /\ UNCHANGED <<limitVars, daemonVars>>

Work(w) ==
    /\ Take(w) \/ Deliver(w) \/ ExitWorker(w)
    /\ UNCHANGED <<limitVars, daemonVars>>

FinishSimulation(w) == Simulate(w) /\ UNCHANGED <<limitVars, daemonVars>>

-----------------------------------------------------------------------------
(* Daemon.close.                                                            *)

(* A signal: the listeners are closed, no request comes in any more.        *)
Signal ==
    /\ phase = "up"
    /\ phase' = "stopping"
    /\ UNCHANGED <<poolVars, limitVars, forced>>

(* Mutant: the pool is closed without waiting for the server.               *)
ShutdownAtOnce ==
    /\ phase = "stopping"
    /\ phase' = "stopped"
    /\ UNCHANGED <<poolVars, limitVars, forced>>

(* server.Shutdown returns when no request is left.                         *)
ShutdownDone ==
    /\ phase = "stopping"
    /\ \A r \in Requests : wait[r] # "waiting"
    /\ phase' = "stopped"
    /\ UNCHANGED <<poolVars, limitVars, forced>>

(* It gives up waiting after the grace period.                              *)
GraceEnds ==
    /\ phase = "stopping"
    /\ \E r \in Requests : wait[r] = "waiting"
    /\ phase' = "stopped"
    /\ forced' = TRUE
    /\ UNCHANGED <<poolVars, limitVars>>

(* Ingestion, captive core, the bridge and the database are closed, and the *)
(* preflight pool at last.  The contexts of handlers that still run are     *)
(* cancelled, as they may be at any time (Expire).                          *)
ClosePreflightPool ==
    /\ phase = "stopped"
    /\ ClosePool
    /\ phase' = IF pool' = "drained" THEN "down" ELSE phase
    /\ UNCHANGED <<limitVars, forced>>

Close == ShutdownDone \/ GraceEnds \/ ClosePreflightPool

-----------------------------------------------------------------------------
Handler(r) == ReturnEarly(r) \/ GetPreflight(r)

Next ==
    \/ \E r \in Requests : Arrive(r) \/ Limiter(r) \/ Handler(r)
    \/ \E w \in Workers : Work(w) \/ FinishSimulation(w)
    \/ Signal
    \/ Close

(* Goroutines are scheduled and timers fire.  Nothing is assumed of the     *)
(* simulation, which may take for ever.                                     *)
Spec == /\ Init /\ [][Next]_vars
        /\ \A r \in Requests : WF_vars(Limiter(r)) /\ WF_vars(Handler(r))
        /\ \A w \in Workers : WF_vars(Work(w))
        /\ WF_vars(Close)

SimulationsEnd == \A w \in Workers : []<>(worker[w].at # "busy")
-----------------------------------------------------------------------------
Counted == {r \in Requests : go[r] \in {"refusing", "serving"}}

(* The backlog limit bounds what is really being executed, requests that    *)
(* have been answered with a time-out included: "Maximum number of          *)
(* outstanding requests" (config/options.go), because the backlog limiter   *)
(* is behind the duration limiter (NewJSONRPCHandler).                      *)
ServingWithinLimit ==
    Cardinality({r \in Requests : Handling(r)}) <= Limit

(* Each count is taken back once: by the refusal, the return or the panic   *)
(* (backlogQLimiter).                                                       *)
PendingIsCounted == pending = Cardinality(Counted)

(* The requests that come in (finitely many) are all answered, by the time  *)
(* limit if need be, even if the simulation they wait for never ends        *)
(* (requestDurationLimiter).                                                *)
RequestsAnswered == []<>(\A r \in Requests : wait[r] # "waiting")

(* If simulations end, then so do the goroutines of requests that were      *)
(* answered long ago, and no slot of a backlog stays taken.                 *)
SlotsReleased == SimulationsEnd => []<>(pending = 0)

(* If simulations end, Close gets to its end: no worker and no caller waits *)
(* for the other (WorkerPool.Close, Daemon.close).                          *)
ShutdownCompletes == SimulationsEnd => (phase = "stopping" ~> phase = "down")

(* A shutdown that was not forced by the grace period is not noticed by any *)
(* client: none is told that the pool is closed, or gets an internal error  *)
(* because of it (order of the steps of Daemon.close).                      *)
GracefulStop ==
    ~forced => \A r \in Requests : reply[r] \notin {"closed", "panic"}
=============================================================================
