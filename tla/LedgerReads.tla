----------------------------- MODULE LedgerReads -----------------------------
(***************************************************************************)
(* The request handlers that read the store while ingestion commits to it:  *)
(* getHealth, getLatestLedger, getTransaction, getLedgers, getTransactions  *)
(* and getEvents (methods/) through ledgerReader, ledgerReaderTx,           *)
(* transactionHandler and eventHandler (db/); and sendTransaction, which    *)
(* names the latest ledger in its answer.                                   *)
(*                                                                          *)
(* A handler learns the latest ledger from the cache, asks the database for *)
(* the oldest one, and only then for the data.  These are separate reads:   *)
(* ledgers are committed and trimmed in between.  getLedgers and            *)
(* getTransactions read in an SQL transaction; SQLite takes its snapshot at *)
(* the first query, not when the transaction is begun.                      *)
(*                                                                          *)
(* The transactions and events of a ledger are represented by the ledger.   *)
(***************************************************************************)
EXTENDS LedgerStore

CONSTANTS
    Requests,       \* requests being served concurrently
    PageLimits,     \* limits of the pages: asked for, or the configured default
    ScanLimit,      \* LedgerScanLimit of getEvents
    WithDatastore   \* getLedgers falls back on a datastore of older ledgers

(* The configuration accepts a default limit of 0; LedgerScanLimit is a      *)
(* constant of the program.                                                 *)
ASSUME LimitsAreNumbers == PageLimits \subseteq Nat /\ ScanLimit \in Nat \ {0}

ASSUME DatastoreIsConfigured == WithDatastore \in BOOLEAN

VARIABLE req        \* the requests

vars == <<storeVars, req>>

PageOps == {"getLedgers", "getTransactions", "getEvents"}
SnapshotOps == {"getLedgers", "getTransactions"}
LatestOps == {"getHealth", "getLatestLedger", "sendTransaction"}
Ops == PageOps \union LatestOps \union {"getTransaction"}

(* at: the next step; arg: the ledger asked for (of a transaction, the one  *)
(* it is in); limit: that of its page; began: the latest ledger when the    *)
(* request came in; cached: the cache as read; first, last: the ledger      *)
(* range; seen: the table of ledgers when the range was queried; upTo:      *)
(* where the returned cursor points, or the ledger that will include the    *)
(* transaction that was sent (0 if none); rows: the ledgers returned.       *)
Idle == [op |-> "none", at |-> "idle", arg |-> 0, limit |-> 0, began |-> 0, cached |-> 0,
         first |-> 0, last |-> 0, seen |-> {}, upTo |-> 0, rows |-> {}, reply |-> "none"]

(* External: what core says of a transaction.                               *)
Queued == {"PENDING", "DUPLICATE"}
CoreStatuses == Queued \union {"TRY_AGAIN_LATER", "ERROR", "exception", "unrecognized"}

Replies == {"none", "ok", "unhealthy", "found", "not_found", "out_of_range", "failed",
            "missing", "panic", "empty_batch", "db_error", "datastore_error", "invalid",
            "internal_error"} \union CoreStatuses

Init == StoreInit /\ req = [r \in Requests |-> Idle]

Begin(r, op, arg, limit) ==
    /\ open
    /\ arg = 0 <=> op \in LatestOps
    /\ req[r].at \in {"idle", "done"}
    /\ req' = [req EXCEPT ![r] = [Idle EXCEPT
                 !.op = op, !.arg = arg, !.limit = IF op \in PageOps THEN limit ELSE 0,
                 !.began = Latest(ledgers),
                 !.at = IF op = "getLatestLedger" THEN "latest" ELSE "cache"]]
    /\ UNCHANGED storeVars

-----------------------------------------------------------------------------
(* getLatestLedgerSequence: an empty cache sends it on to GetLedgerRange.   *)
(* (The value found there is not put into the cache, which has one by then: *)
(* see StoreIfEmpty of Ingestion.)                                          *)
GetLatestLedgerSequence(r) ==
    /\ req[r].at = "latest"
    /\ ~locked
    /\ req' = [req EXCEPT ![r].last = cache, ![r].at = IF cache # 0 THEN "fetch" ELSE "cache"]
    /\ UNCHANGED storeVars

(* Mutant: the cache is read without its lock.                              *)
ReadCacheUnlocked(r) ==
    /\ req[r].at = "cache"
    /\ req' = [req EXCEPT ![r].cached = cache, ![r].at = "range"]
    /\ UNCHANGED storeVars

(* GetLedgerRange, or NewTx: the cache is read under its lock.  NewTx also  *)
(* begins the transaction, which has no snapshot yet.                       *)
ReadCache(r) ==
    /\ req[r].at = "cache"
    /\ ~locked
    /\ req' = [req EXCEPT ![r].cached = cache, ![r].at = "range"]
    /\ UNCHANGED storeVars

(* ValidatePagination (its ledger), and the same check in getEvents.        *)
IsLedgerWithinRange(start, first, last) == first <= start /\ start <= last

(* First ledger that may be asked for: GetAvailableLedgerRange assumes that *)
(* the datastore goes back to the first ledger of the network.              *)
Available(op, first) == IF op = "getLedgers" /\ WithDatastore THEN FirstLedger ELSE first

(* getLedgerRangeWithCache or getLedgerRangeWithoutCache, then the check of *)
(* the page that is asked for.                                              *)
QueryRange(r) ==
    LET q == req[r]
        first == Oldest(ledgers)
        last == IF q.cached # 0 THEN q.cached ELSE Latest(ledgers)
    IN  /\ q.at = "range"
        /\ ledgers # {}
        /\ req' = [req EXCEPT ![r] =
              IF q.op \in PageOps /\ ~IsLedgerWithinRange(q.arg, Available(q.op, first), last)
              THEN [q EXCEPT !.at = "done", !.reply = "out_of_range"]
              ELSE [q EXCEPT !.first = first, !.last = last, !.seen = ledgers, !.at = "fetch"]]
        /\ UNCHANGED storeVars

(* There is no range: the query fails, as it may at any time, or the table  *)
(* is empty.  sendTransaction goes on all the same, with 0 for the latest   *)
(* ledger.                                                                  *)
RangeFails(r) ==
    /\ req[r].at = "range"
    /\ req' = [req EXCEPT ![r] =
          IF req[r].op = "sendTransaction" THEN [req[r] EXCEPT !.at = "fetch"]
          ELSE [req[r] EXCEPT !.at = "done", !.reply = "db_error"]]
    /\ UNCHANGED storeVars

(* The transaction cannot be begun, or the query for the data fails.  (To a *)
(* client of getLatestLedger this looks the same as a ledger that is gone,  *)
(* "failed" below.)                                                         *)
ReadFails(r) ==
    /\ \/ req[r].at = "cache" /\ ~locked /\ req[r].op \in SnapshotOps
       \/ req[r].at = "fetch" /\ req[r].op \notin {"getHealth", "sendTransaction"}
    /\ req' = [req EXCEPT ![r].at = "done", ![r].reply = "db_error"]
    /\ UNCHANGED storeVars

-----------------------------------------------------------------------------
(* The last read of each handler, and its answer.                           *)

Answer(r, op, reply, rows, upTo) ==
    /\ req[r].at = "fetch" /\ req[r].op = op
    /\ req' = [req EXCEPT ![r].at = "done", ![r].reply = reply, ![r].rows = rows,
                          ![r].upTo = upTo]
    /\ UNCHANGED storeVars

(* The latest ledger may have been closed long ago.                         *)
GetHealth(r) ==
    \E reply \in {"ok", "unhealthy"} : Answer(r, "getHealth", reply, {}, 0)

GetLatestLedger(r) ==
    Answer(r, "getLatestLedger", IF req[r].last \in ledgers THEN "ok" ELSE "failed", {}, 0)

(* Mutant: the transaction is looked up before the range is read.           *)
FoundAtBegin(r) == req[r].arg <= req[r].began

(* getTransactionByHash: transactions joined with ledgers.                  *)
Found(r) == req[r].arg \in ledgers

GetTransaction(r) ==
    Answer(r, "getTransaction", IF Found(r) THEN "found" ELSE "not_found", {}, 0)

(* Mutant: the pages are read outside the transaction.                      *)
CurrentTable(r) == ledgers

(* What the queries of an SQL transaction see after its first one.          *)
Snapshot(r) == req[r].seen

(* fetchLedgers: what is older than the local range comes from the          *)
(* datastore, the rest from BatchGetLedgers, which refuses to read nothing. *)
(* The cursor is taken from the last element.                               *)
GetLedgers(r) ==
    LET q == req[r]
        page == q.arg .. q.arg + q.limit - 1
        rows == {s \in page : s < q.first} \union (Snapshot(r) \intersect page)
    IN  Answer(r, "getLedgers",
               IF rows # {} THEN "ok"
               ELSE IF page = {} /\ q.first <= q.arg THEN "empty_batch" ELSE "panic",
               rows, Latest(rows))

(* The datastore does not have a ledger, or cannot be reached.              *)
DatastoreFails(r) ==
    /\ req[r].arg < req[r].first
    /\ Answer(r, "getLedgers", "datastore_error", {}, 0)

(* Ledger by ledger up to the latest, or to the one that fills the page; a   *)
(* ledger that is not there ends the request.                               *)
GetTransactions(r) ==
    \E stop \in req[r].arg .. req[r].last :
        LET page == req[r].arg .. stop
        IN  Answer(r, "getTransactions", IF page \subseteq Snapshot(r) THEN "ok" ELSE "missing",
                   page \intersect Snapshot(r), stop)

(* Mutant: the end of the scan is not clamped to the latest ledger.         *)
ScanEndUnclamped(q) == q.arg + ScanLimit

(* Exclusive end of the ledgers a getEvents request scans.                  *)
ScanEnd(q) == IF q.last + 1 <= q.arg + ScanLimit THEN q.last + 1 ELSE q.arg + ScanLimit

(* GetEvents reads the current table.  The cursor is at the end of the scan *)
(* or, when the page is full, at the last event found.  With a limit of 0   *)
(* the scan ends at the first event: if that one is returned, the page is   *)
(* not taken for full, and if there is none, it is, without a last event.   *)
GetEvents(r) ==
    LET q == req[r]
        scan == {s \in ledgers : q.arg <= s /\ s < ScanEnd(q)}
        UpTo(stop) == {s \in scan : s <= stop}
    IN  \/ q.limit # 0 /\ Answer(r, "getEvents", "ok", scan, ScanEnd(q) - 1)
        \/ q.limit # 0 /\ \E stop \in scan : Answer(r, "getEvents", "ok", UpTo(stop), stop)
        \/ q.limit = 0 /\ \E stop \in scan :
                             Answer(r, "getEvents", "ok", UpTo(stop), ScanEnd(q) - 1)
        \/ q.limit = 0 /\ Answer(r, "getEvents", "panic", {}, 0)

-----------------------------------------------------------------------------
(* sendTransaction.                                                         *)

(* Its format or its transaction cannot be decoded.                         *)
RejectTransaction(r) ==
    /\ req[r].at = "cache" /\ req[r].op = "sendTransaction"
    /\ req' = [req EXCEPT ![r].at = "done", ![r].reply = "invalid"]
    /\ UNCHANGED storeVars

(* SubmitTransaction reaches core, which decides.  A transaction that is in *)
(* its queue gets into a ledger that is not closed yet, if into any; core   *)
(* is never behind the store.                                               *)
SubmitTransaction(r) ==
    /\ req[r].at = "fetch" /\ req[r].op = "sendTransaction"
    /\ \E status \in CoreStatuses :
          \E included \in {0} \union {s \in LedgerSeqs : status \in Queued /\ s > Latest(ledgers)} :
             req' = [req EXCEPT ![r].at = "submitted", ![r].reply = status, ![r].upTo = included]
    /\ UNCHANGED storeVars

(* Mutant: the answer names the latest ledger of the time it is given.      *)
InterpretResponseLate(r) ==
    /\ req[r].at = "submitted"
    /\ req' = [req EXCEPT ![r].at = "done", ![r].last = Latest(ledgers)]
    /\ UNCHANGED storeVars

(* The answer of core comes back and is passed on; an exception, a status   *)
(* that is not known and an error result that cannot be decoded become      *)
(* internal errors.                                                         *)
InterpretResponse(r) ==
    LET status == req[r].reply
    IN  /\ req[r].at = "submitted"
        /\ \E reply \in (IF status \in {"exception", "unrecognized"} THEN {} ELSE {status})
                         \union (IF status \in {"ERROR", "exception", "unrecognized"}
                                 THEN {"internal_error"} ELSE {}) :
              req' = [req EXCEPT ![r].at = "done", ![r].reply = reply]
        /\ UNCHANGED storeVars

(* Or it does not come back in time, and nobody knows what core decided.    *)
ResponseLost(r) ==
    /\ req[r].at = "submitted"
    /\ req' = [req EXCEPT ![r].at = "done", ![r].reply = "internal_error"]
    /\ UNCHANGED storeVars

SendTransaction(r) ==
    RejectTransaction(r) \/ SubmitTransaction(r) \/ InterpretResponse(r) \/ ResponseLost(r)

-----------------------------------------------------------------------------
Serve(r) ==
    \/ GetLatestLedgerSequence(r) \/ ReadCache(r)
    \/ QueryRange(r) \/ RangeFails(r) \/ ReadFails(r)
    \/ GetHealth(r) \/ GetLatestLedger(r) \/ GetTransaction(r)
    \/ GetLedgers(r) \/ DatastoreFails(r) \/ GetTransactions(r) \/ GetEvents(r)
    \/ SendTransaction(r)

(* Ingestion, and the end of the process, which ends its requests.          *)
Ingest == (Open \/ (\E s \in LedgerSeqs : Commit(s)) \/ Publish) /\ UNCHANGED req

Die == Exit /\ req' = [r \in Requests |-> Idle]

Next ==
    \/ \E r \in Requests, op \in Ops, arg \in LedgerSeqs \union {0}, limit \in PageLimits :
          Begin(r, op, arg, limit)
    \/ \E r \in Requests : Serve(r)
    \/ Ingest
    \/ Die

(* Handlers are scheduled, and the goroutine that commits releases the lock *)
(* of the cache.                                                            *)
Spec == /\ Init /\ [][Next]_vars
        /\ WF_vars(Publish /\ UNCHANGED req)
        /\ \A r \in Requests : WF_vars(Serve(r))
-----------------------------------------------------------------------------
RequestRecords ==
    [op : Ops \union {"none"},
     at : {"idle", "latest", "cache", "range", "fetch", "submitted", "done"},
     arg : LedgerSeqs \union {0}, limit : PageLimits \union {0}, began : LedgerSeqs \union {0},
     cached : LedgerSeqs \union {0}, first : LedgerSeqs \union {0},
     last : LedgerSeqs \union {0}, seen : SUBSET LedgerSeqs,
     upTo : LedgerSeqs \union {0}, rows : SUBSET LedgerSeqs, reply : Replies]

TypeOK == StoreTypeOK /\ req \in [Requests -> RequestRecords]

(* The range a handler works with, whose ends are read at different times,  *)
(* was in the database as a whole when its second end was read; or the ends *)
(* have crossed, because as many ledgers as the retention window has were   *)
(* committed between the two reads, and the reported latest ledger is       *)
(* itself gone.  No page is read with such a range but one that begins in   *)
(* the datastore (GetLedgerRange, NewTx).                                   *)
RangeStored ==
    \A r \in Requests :
        LET q == req[r]
        IN  q.first # 0 =>
               \/ q.first <= q.last /\ q.first .. q.last \subseteq q.seen
               \/ /\ q.last < q.first /\ q.last + window <= Latest(q.seen)
                  /\ q.op \in PageOps => q.op = "getLedgers" /\ WithDatastore

(* A ledger whose commit was visible when a request came in is not missing  *)
(* from the range it is answered with: a client never sees the latest       *)
(* ledger go back from one request to the next (getLatestLedgerSequence,    *)
(* GetLedgerRange).  The one exception is sendTransaction without a range,  *)
(* which reports ledger 0 and never another one.                            *)
LatestIsFresh ==
    \A r \in Requests :
        req[r].at = "fetch" =>
            \/ req[r].last >= req[r].began
            \/ req[r].op = "sendTransaction" /\ req[r].first = 0 /\ req[r].last = 0

(* NOT_FOUND for a transaction of a ledger up to the reported latest ledger *)
(* means that the retention window has passed it: a client that waits for   *)
(* the latest ledger to pass the transaction's time bounds may rely on it   *)
(* (GetTransaction reads the range before it looks up the hash).            *)
NotFoundIsTrue ==
    \A r \in Requests :
        req[r].reply = "not_found" /\ req[r].arg <= req[r].last
            => req[r].arg < Oldest(ledgers)

(* What passed validation can be read, unless a query fails, however many   *)
(* ledgers are committed and trimmed meanwhile.  A page has no gap, neither *)
(* within the database nor between the datastore and it; getTransactions    *)
(* finds each ledger up to the latest.  Only a limit of 0 leaves getLedgers *)
(* and getEvents without a last element to take the cursor from (getLedgers *)
(* only where the page begins in the datastore; BatchGetLedgers returns an  *)
(* error for it).  getLatestLedger finds its ledger gone only when the      *)
(* retention window has passed it between the two reads.                    *)
ReadsAreServed ==
    \A r \in Requests :
        /\ req[r].reply # "missing"
        /\ req[r].reply = "empty_batch" => req[r].limit = 0
        /\ req[r].reply = "panic" =>
              req[r].limit = 0 /\ (req[r].op = "getLedgers" => WithDatastore)
        /\ req[r].op \in SnapshotOps /\ req[r].reply = "ok"
              => req[r].rows = req[r].arg .. req[r].upTo
        /\ req[r].reply = "failed" => req[r].last + window <= Latest(ledgers)

(* The ledgers between the start of a getEvents request and the cursor it   *)
(* returns were scanned, or the retention window has passed them: a client  *)
(* that goes on from the cursor misses no event that is still stored        *)
(* (endLedger in getEvents).  A limit of 0 is excepted: the cursor is then  *)
(* past events that were not looked at.                                     *)
EventsScanned ==
    \A r \in Requests :
        req[r].op = "getEvents" /\ req[r].reply = "ok" /\ req[r].limit # 0 =>
            \A s \in req[r].arg .. req[r].upTo : s \in req[r].rows \/ s < Oldest(ledgers)

(* A transaction that was accepted is not in any ledger up to the one that  *)
(* the answer of sendTransaction names, however long core takes to answer:  *)
(* a client that looks for it from the next ledger on, or polls             *)
(* getTransaction, cannot miss it (the range is read before the             *)
(* transaction is submitted).                                               *)
SentIsIncludedLater ==
    \A r \in Requests :
        req[r].op = "sendTransaction" /\ req[r].reply \in Queued /\ req[r].upTo # 0
            => req[r].upTo > req[r].last

(* Every request is answered, or ends with its process: the lock of the     *)
(* cache is always released (commitAndUpdateCache).                         *)
RequestsAnswered ==
    \A r \in Requests :
        req[r].at \notin {"idle", "done"} ~> req[r].at \in {"idle", "done"}
=============================================================================
