------------------------------- MODULE Client -------------------------------
(***************************************************************************)
(* The client library (client/main.go): goroutines that share one jrpc2     *)
(* client, which a call that failed replaces by a fresh one, because jrpc2  *)
(* does not work again after some errors.  A read-write lock guards the     *)
(* pointer; a call holds it for reading until it returns.                   *)
(***************************************************************************)
EXTENDS Naturals

CONSTANT Callers        \* goroutines that use the library

VARIABLES
    cli,        \* the shared jrpc2 client; they are numbered as created
    created,    \* number of the latest one
    open,       \* those that are not closed
    dismissed,  \* those that the user has closed
    at,         \* what a goroutine does
    using       \* the client that it calls, or has created

clientVars == <<cli, created, open, dismissed, at, using>>

(* "calling" has the lock for reading; "waiting" has asked for it to write. *)
Places == {"idle", "calling", "failed", "created", "waiting"}

(* NewClient.                                                               *)
ClientInit ==
    /\ cli = 1 /\ created = 1 /\ open = {1} /\ dismissed = {}
    /\ at = [c \in Callers |-> "idle"]
    /\ using = [c \in Callers |-> 1]

(* RLock waits for those that hold the lock or wait for it to write.        *)
CanRead == \A c \in Callers : at[c] # "waiting"

(* callResult: the lock is taken, the pointer read, the request sent.       *)
BeginCall(c) ==
    /\ at[c] = "idle"
    /\ CanRead
    /\ at' = [at EXCEPT ![c] = "calling"]
    /\ using' = [using EXCEPT ![c] = cli]
    /\ UNCHANGED <<cli, created, open, dismissed>>

(* The call returns, with an error for certain if its client was closed.    *)
EndCall(c) ==
    /\ at[c] = "calling"
    /\ \/ using[c] \in open /\ at' = [at EXCEPT ![c] = "idle"]
       \/ at' = [at EXCEPT ![c] = "failed"]
    /\ UNCHANGED <<cli, created, open, dismissed, using>>

(* refreshClient: a client is created first ...                             *)
Create(c) ==
    /\ at[c] = "failed"
    /\ created' = created + 1
    /\ open' = open \union {created'}
    /\ using' = [using EXCEPT ![c] = created']
    /\ at' = [at EXCEPT ![c] = "created"]
    /\ UNCHANGED <<cli, dismissed>>

(* ... then Lock is called ...                                              *)
Lock(c) ==
    /\ at[c] = "created"
    /\ at' = [at EXCEPT ![c] = "waiting"]
    /\ UNCHANGED <<cli, created, open, dismissed, using>>

(* ... and when no one reads, the old client is closed and replaced.        *)
Replace(c) ==
    /\ at[c] = "waiting"
    /\ \A d \in Callers : at[d] # "calling"
    /\ open' = open \ {cli}
    /\ cli' = using[c]
    /\ at' = [at EXCEPT ![c] = "idle"]
    /\ UNCHANGED <<created, dismissed, using>>

(* Close, which only reads the pointer.                                     *)
CloseClient ==
    /\ CanRead
    /\ open' = open \ {cli}
    /\ dismissed' = dismissed \union {cli}
    /\ UNCHANGED <<cli, created, at, using>>

ClientNext ==
    \/ \E c \in Callers : BeginCall(c) \/ EndCall(c) \/ Create(c) \/ Lock(c) \/ Replace(c)
    \/ CloseClient

ClientSpec == ClientInit /\ [][ClientNext]_clientVars

-----------------------------------------------------------------------------
(* A call is never broken off by the refresh of another one: its client is  *)
(* open as long as it lasts, unless the user closes it (callResult holds    *)
(* the lock for reading).                                                   *)
CallsUndisturbed ==
    \A c \in Callers : at[c] = "calling" => using[c] \in open \union dismissed

(* However the refreshes of calls that failed together interleave, no       *)
(* client is left open that nobody can close any more (refreshClient).      *)
Owned == {using[c] : c \in {d \in Callers : at[d] \in {"created", "waiting"}}}

NothingLeaks == open \subseteq {cli} \union Owned
=============================================================================
