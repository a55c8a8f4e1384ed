------------------------------ MODULE Ingestion ------------------------------
(***************************************************************************)
(* The ingestion service (ingest/service.go) over the SQLite database       *)
(* (db/), its write-through cache and the in-memory fee windows             *)
(* (feewindow/), from the start of a process (daemon.mustInitializeStorage: *)
(* data migrations and fee windows rebuilt from the stored ledgers) through *)
(* its retries to its end, and over restarts.                               *)
(*                                                                          *)
(* Any call that leaves the process may fail; the process may be stopped    *)
(* between any two steps; request handlers concurrently fill the cache      *)
(* through getLatestLedgerSequence and read the fee windows (getFeeStats).  *)
(***************************************************************************)
EXTENDS LedgerTables

CONSTANTS
    FeeRetentions,  \* configured fee windows: records [classic, soroban]
    MaxRetries,     \* maxRetries of ingest/service.go
    Handlers,       \* request handlers
    FaultSites,     \* steps whose calls may fail
    MaxFaults,      \* bound: failed calls in a behaviour
    MaxStops        \* bound: times the process is stopped from outside

Sites == {"migrate", "guard", "next", "get", "insert", "classic", "commit",
          "checkpoint"}

ASSUME FeeRetentionsArePositive ==
    FeeRetentions \subseteq [classic : Nat \ {0}, soroban : Nat \ {0}]

ASSUME RetryBounds == MaxRetries \in Nat \ {0} /\ MaxFaults \in Nat /\ MaxStops \in Nat

ASSUME FaultSitesAreSites == FaultSites \subseteq Sites

VARIABLES
    db,         \* the committed database
    wtx,        \* what the open write transaction sees
    inTx,       \* a write transaction is open
    pc,         \* where the process is
    cache,      \* dbCache.latestLedgerSeq
    window,     \* HISTORY_RETENTION_WINDOW of this process
    feeCap,     \* capacities of the two fee windows of this process
    fees,       \* the two fee windows: first ledger and number of ledgers
    mig,        \* MultiMigration: what is applied, and what is left to do
    seq,        \* nextLedgerSeq in run()
    tries,      \* numTries of the backoff
    archive,    \* CurrentLedger of the history archives' root
    fill,       \* the handlers' calls of getLatestLedgerSequence, getFeeStats
    faults, stops,  \* how much of the two bounds is used
    outage      \* failed calls of run() since it last ingested a ledger

procVars == <<cache, fees, mig, seq, tries, fill, outage>>
envVars == <<archive, stops>>
confVars == <<window, feeCap>>
vars == <<db, wtx, inTx, pc, procVars, confVars, faults, envVars>>

Migrations == {"transactions", "events"}

Database == [ledgers : SUBSET LedgerSeqs, transactions : SUBSET LedgerSeqs,
             events : SUBSET LedgerSeqs, guards : SUBSET Migrations]

(* "down": not running; "fatal": ended by "could not run ingestion".        *)
Starting == {"migrate", "guard"}
Running == {"next", "get", "insert", "classic", "soroban", "commit", "publish",
            "checkpoint"}
Stopped == {"down", "fatal"}

-----------------------------------------------------------------------------
(* A fee window as LedgerBucketWindow presents it: len consecutive ledgers  *)
(* from first on.                                                           *)

EmptyWindow == [first |-> 0, len |-> 0]

(* The contiguity check of Append.                                          *)
Appendable(w, s) == w.len > 0 => s = w.first + w.len

(* Mutant: a full window grows instead of evicting its oldest ledger.       *)
PushedUnbounded(w, s, cap) ==
    IF w.len = 0 THEN [first |-> s, len |-> 1] ELSE [w EXCEPT !.len = @ + 1]

Pushed(w, s, cap) ==
    IF w.len = 0 THEN [first |-> s, len |-> 1]
    ELSE IF w.len < cap THEN [w EXCEPT !.len = @ + 1]
    ELSE [w EXCEPT !.first = @ + 1]

PushedFees(s) == [classic |-> Pushed(fees.classic, s, feeCap.classic),
                  soroban |-> Pushed(fees.soroban, s, feeCap.soroban)]

EmptyFees == [classic |-> EmptyWindow, soroban |-> EmptyWindow]

(* The latest ledger of a window, 0 if there is none.                       *)
EndOf(w) == IF w.len = 0 THEN 0 ELSE w.first + w.len - 1

MaxFeeRetention(c) == IF c.classic >= c.soroban THEN c.classic ELSE c.soroban

-----------------------------------------------------------------------------
NoMigration == [build |-> {}, stream |-> {}, left |-> {}]

Idle == [at |-> "idle", val |-> 0]

(* The database may have been written by a version that knew neither guards *)
(* nor events and filled only part of the transactions table.               *)
Init ==
    /\ \E lo, hi \in LedgerSeqs, from \in LedgerSeqs :
          \E stored \in {{}, lo .. hi} :
              db = [ledgers |-> stored, transactions |-> {s \in stored : s >= from},
                    events |-> {}, guards |-> {}]
    /\ wtx = db
    /\ inTx = FALSE
    /\ pc = "down"
    /\ cache = 0
    /\ window \in RetentionWindows
    /\ feeCap \in FeeRetentions
    /\ fees = EmptyFees
    /\ mig = NoMigration
    /\ seq = 0
    /\ tries = 0
    /\ archive = 0
    /\ fill = [h \in Handlers |-> Idle]
    /\ faults = 0 /\ stops = 0 /\ outage = 0

(* The process is gone: all that is not in the database is lost.            *)
Halted(how) ==
    /\ pc' = how
    /\ inTx' = FALSE /\ wtx' = db
    /\ cache' = 0
    /\ fees' = EmptyFees
    /\ mig' = NoMigration
    /\ seq' = 0
    /\ fill' = [h \in Handlers |-> Idle]

Fault(site) ==
    /\ site \in FaultSites
    /\ faults < MaxFaults
    /\ faults' = faults + 1

-----------------------------------------------------------------------------
(* Start of a process: mustInitializeStorage.                               *)

(* Mutant: the range starts two ledgers late.                               *)
FirstToMigrateLate(latest, retention) ==
    IF latest > retention THEN latest - retention + 2 ELSE FirstLedger

(* First ledger of GetMigrationLedgerRange.                                 *)
FirstToMigrate(latest, retention) ==
    IF latest > retention THEN latest - retention ELSE FirstLedger

(* Mutant: the range ends before the latest ledger.                         *)
StreamOneShort(from) == {s \in db.ledgers : from <= s /\ s < Latest(db.ledgers)}

(* StreamLedgerRange, up to the latest ledger.                              *)
StreamLedgers(from) == {s \in db.ledgers : s >= from}

(* The cache is filled, the common transaction is begun, and building the   *)
(* transactions migration truncates its table.                              *)
Start ==
    /\ pc \in Stopped
    /\ window' \in RetentionWindows
    /\ feeCap' \in {c \in FeeRetentions : MaxFeeRetention(c) <= window'}
    /\ LET latest == Latest(db.ledgers)
           build == Migrations \ db.guards
           feeFirst == FirstToMigrate(latest, MaxFeeRetention(feeCap'))
           first == IF build = {} THEN feeFirst
                    ELSE LET r == FirstToMigrate(latest, window')
                         IN  IF r <= feeFirst THEN r ELSE feeFirst
       IN  /\ cache' = latest
           /\ inTx' = TRUE
           /\ wtx' = IF "transactions" \in build THEN [db EXCEPT !.transactions = {}] ELSE db
           /\ mig' = [build |-> build, left |-> build,
                      stream |-> StreamLedgers(first)]
    /\ pc' = "migrate"
    /\ tries' = 0 /\ outage' = 0
    /\ UNCHANGED <<db, fees, seq, fill, faults, envVars>>

(* A row for each hash of a transaction of ledger s.                        *)
InsertTransactions(rows, s) == rows \union {s}

(* A row for each event of a successful transaction of ledger s.            *)
InsertEvents(rows, s) == rows \union {s}

(* Rows of ledger s written by a table migration, if it is being applied    *)
(* and s is in its range.                                                   *)
MigratedRows(m, rows, s) ==
    IF m \in mig.build /\ s >= FirstToMigrate(Latest(db.ledgers), window)
    THEN IF m = "transactions" THEN InsertTransactions(rows, s) ELSE InsertEvents(rows, s)
    ELSE rows

(* One ledger of the stream goes through every sub-migration; the fee       *)
(* windows take it if it is in their range.                                 *)
MigrateLedger ==
    /\ pc = "migrate"
    /\ mig.stream # {}
    /\ LET s == Oldest(mig.stream)
           toFees == s >= FirstToMigrate(Latest(db.ledgers), MaxFeeRetention(feeCap))
       IN  IF toFees => Appendable(fees.classic, s) /\ Appendable(fees.soroban, s)
           THEN /\ wtx' = [wtx EXCEPT !.transactions = MigratedRows("transactions", @, s),
                                      !.events = MigratedRows("events", @, s)]
                /\ fees' = IF toFees THEN PushedFees(s) ELSE fees
                /\ mig' = [mig EXCEPT !.stream = @ \ {s}]
                /\ UNCHANGED <<db, inTx, pc, cache, seq, fill>>
           ELSE Halted("down") /\ UNCHANGED db
    /\ UNCHANGED <<tries, outage, confVars, faults, envVars>>

MigrateFails ==
    /\ pc = "migrate"
    /\ Fault("migrate")
    /\ Halted("down")
    /\ UNCHANGED <<db, tries, outage, confVars, envVars>>

StreamDone ==
    /\ pc = "migrate"
    /\ mig.stream = {}
    /\ pc' = "guard"
    /\ UNCHANGED <<db, wtx, inTx, procVars, confVars, faults, envVars>>

(* guardedMigration.Commit: setMetaBool runs in the transaction, or on its  *)
(* own when an earlier failure has already rolled the transaction back.     *)
SetGuard(m) ==
    /\ pc = "guard"
    /\ m \in mig.left
    /\ mig' = [mig EXCEPT !.left = @ \ {m}]
    /\ wtx' = [wtx EXCEPT !.guards = @ \union {m}]
    /\ db' = IF inTx THEN db ELSE [db EXCEPT !.guards = @ \union {m}]
    /\ UNCHANGED <<inTx, pc, cache, fees, seq, tries, fill, outage, confVars,
                   faults, envVars>>

(* setMetaBool fails: MultiMigration.Commit rolls back and goes on with the *)
(* next migration.                                                          *)
SetGuardFails(m) ==
    /\ pc = "guard"
    /\ m \in mig.left
    /\ Fault("guard")
    /\ mig' = [mig EXCEPT !.left = @ \ {m}]
    /\ inTx' = FALSE /\ wtx' = db
    /\ UNCHANGED <<db, pc, cache, fees, seq, tries, fill, outage, confVars, envVars>>

(* mm.db.Commit(), an error when nothing is left to commit.                 *)
CommitMigrations ==
    /\ pc = "guard"
    /\ mig.left = {}
    /\ IF inTx
       THEN /\ db' = wtx
            /\ inTx' = FALSE
            /\ mig' = NoMigration
            /\ pc' = "next"
            /\ UNCHANGED <<wtx, cache, fees, seq, fill>>
       ELSE Halted("down") /\ UNCHANGED db
    /\ UNCHANGED <<tries, outage, confVars, faults, envVars>>

CommitMigrationsFails ==
    /\ pc = "guard"
    /\ mig.left = {}
    /\ Fault("guard")
    /\ Halted("down")
    /\ UNCHANGED <<db, tries, outage, confVars, envVars>>

-----------------------------------------------------------------------------
(* run() returned an error.  The deferred Rollback has run; the backoff     *)
(* grants another attempt unless MaxRetries are used up.  Only empty        *)
(* archives reset its count.                                                *)
Retried(used) ==
    /\ tries' = IF used < MaxRetries THEN used + 1 ELSE used
    /\ IF used < MaxRetries
       THEN /\ pc' = "next"
            /\ inTx' = FALSE /\ wtx' = db
            /\ UNCHANGED <<cache, fees, mig, seq, fill>>
       ELSE Halted("fatal")

(* Mutant: the archives are asked even if the database has ledgers.         *)
GetNextFromArchive ==
    /\ pc = "next"
    /\ IF archive = 0 THEN Retried(0)
       ELSE /\ seq' = archive
            /\ pc' = "get"
            /\ UNCHANGED <<wtx, inTx, cache, fees, mig, tries, fill>>
    /\ UNCHANGED <<db, outage, confVars, faults, envVars>>

(* getNextLedgerSequence and PrepareRange.                                  *)
GetNextLedgerSequence ==
    /\ pc = "next"
    /\ LET latest == IF cache # 0 THEN cache ELSE Latest(db.ledgers)
       IN  IF latest = 0 /\ archive = 0
           THEN Retried(0)
           ELSE /\ seq' = IF latest # 0 THEN latest + 1 ELSE archive
                /\ cache' = latest
                /\ pc' = "get"
                /\ UNCHANGED <<wtx, inTx, fees, mig, tries, fill>>
    /\ UNCHANGED <<db, outage, confVars, faults, envVars>>

(* ledgerBackend.GetLedger returns once the network has closed the ledger.  *)
GetLedger ==
    /\ pc = "get"
    /\ seq <= MaxLedger
    /\ pc' = "insert"
    /\ UNCHANGED <<db, wtx, inTx, procVars, confVars, faults, envVars>>

(* Past the bound on the ledgers the network closes GetLedger blocks.       *)
WaitForLedger ==
    /\ pc = "get"
    /\ seq > MaxLedger
    /\ UNCHANGED vars

(* NewTx and the three inserts; a row that is there already violates a      *)
(* primary key.                                                             *)
InsertLedger ==
    /\ pc = "insert"
    /\ IF seq \notin db.ledgers \union db.transactions \union db.events
       THEN /\ inTx' = TRUE
            /\ wtx' = [db EXCEPT !.ledgers = @ \union {seq},
                                 !.transactions = InsertTransactions(@, seq),
                                 !.events = InsertEvents(@, seq)]
            /\ pc' = "classic"
            /\ UNCHANGED <<cache, fees, mig, seq, tries, fill>>
       ELSE Retried(tries)
    /\ UNCHANGED <<db, outage, confVars, faults, envVars>>

(* IngestFees appends to the two windows one after the other, each under    *)
(* its own lock; neither append is undone when the ledger is not committed. *)
AppendFees(kind, next) ==
    /\ pc = kind
    /\ IF Appendable(fees[kind], seq)
       THEN /\ fees' = [fees EXCEPT ![kind] = Pushed(@, seq, feeCap[kind])]
            /\ pc' = next
            /\ UNCHANGED <<wtx, inTx, cache, mig, seq, tries, fill>>
       ELSE Retried(tries)
    /\ UNCHANGED <<db, outage, confVars, faults, envVars>>

(* Mutant: trimTransactions is forgotten.                                   *)
CommitTxKeepingTransactions ==
    /\ pc = "commit"
    /\ db' = [wtx EXCEPT !.ledgers = Trim(@, seq, window),
                         !.events = Trim(@, seq, window)]
    /\ wtx' = db'
    /\ inTx' = FALSE
    /\ pc' = "publish"
    /\ UNCHANGED <<procVars, confVars, faults, envVars>>

(* writeTx.Commit: trim the three tables, lock the cache, commit.           *)
CommitTx ==
    /\ pc = "commit"
    /\ db' = [wtx EXCEPT !.ledgers = Trim(@, seq, window), !.transactions = Trim(@, seq, window),
                         !.events = Trim(@, seq, window)]
    /\ wtx' = db'
    /\ inTx' = FALSE
    /\ pc' = "publish"
    /\ UNCHANGED <<procVars, confVars, faults, envVars>>

(* The cache takes the new sequence number and is unlocked.                 *)
UpdateCache ==
    /\ pc = "publish"
    /\ cache' = seq
    /\ pc' = "checkpoint"
    /\ UNCHANGED <<db, wtx, inTx, fees, mig, seq, tries, fill, outage, confVars,
                   faults, envVars>>

(* postCommit, then the loop of run() moves on.                             *)
Checkpoint ==
    /\ pc = "checkpoint"
    /\ seq' = seq + 1
    /\ outage' = 0
    /\ pc' = "get"
    /\ UNCHANGED <<db, wtx, inTx, cache, fees, mig, tries, fill, confVars, faults,
                   envVars>>

(* A call made by run() fails: the database, the archives or captive core.  *)
RunFails ==
    /\ pc \in Sites \ Starting
    /\ Fault(pc)
    /\ outage' = outage + 1
    /\ Retried(tries)
    /\ UNCHANGED <<db, confVars, envVars>>

-----------------------------------------------------------------------------
(* A handler's call of getLatestLedgerSequence.  The cache is read, and     *)
(* later written, under its lock, which CommitTx..UpdateCache holds.        *)

CacheFree == pc \in Running \ {"publish"}

FillStep(h, from, to) ==
    /\ fill[h].at = from
    /\ fill' = [fill EXCEPT ![h] = to]
    /\ UNCHANGED <<db, wtx, inTx, pc, fees, mig, seq, tries, outage, confVars,
                   faults, envVars>>

(* The cache is empty, so the ledger range is asked for.                    *)
MissCache(h) ==
    /\ CacheFree /\ cache = 0
    /\ FillStep(h, "idle", [at |-> "range", val |-> 0])
    /\ UNCHANGED cache

(* GetLedgerRange reads the cache again.                                    *)
RangeFromCache(h) ==
    /\ CacheFree
    /\ FillStep(h, "range", IF cache # 0 THEN [at |-> "store", val |-> cache]
                            ELSE [at |-> "scan", val |-> 0])
    /\ UNCHANGED cache

(* getLedgerRangeWithoutCache: one query, which needs no lock.              *)
ScanLedgers(h) ==
    /\ pc \in Running
    /\ FillStep(h, "scan", IF db.ledgers = {} THEN Idle
                           ELSE [at |-> "store", val |-> Latest(db.ledgers)])
    /\ UNCHANGED cache

(* Mutant: the cache is filled even if it is not empty any more.            *)
StoreAlways(h) ==
    /\ CacheFree
    /\ FillStep(h, "store", Idle)
    /\ cache' = fill[h].val

(* Only an empty cache is filled.                                           *)
StoreIfEmpty(h) ==
    /\ CacheFree
    /\ FillStep(h, "store", Idle)
    /\ cache' = IF cache = 0 THEN fill[h].val ELSE cache

-----------------------------------------------------------------------------
(* The getFeeStats handler.                                                 *)

(* GetLedgerRange, whose failure is not fatal: ledger 0 is reported then.   *)
BeginFeeStats(h) ==
    /\ CacheFree
    /\ \E latest \in {cache, 0} :
          FillStep(h, "idle", IF cache # 0 THEN [at |-> "soroban", val |-> latest]
                              ELSE [at |-> "query", val |-> 0])
    /\ UNCHANGED cache

(* The cache was empty, so the database is asked.                           *)
QueryFeeStats(h) ==
    /\ pc \in Running
    /\ \E latest \in {Latest(db.ledgers), 0} :
          FillStep(h, "query", [at |-> "soroban", val |-> latest])
    /\ UNCHANGED cache

(* The two distributions are read one after the other, each under the lock  *)
(* of its window.                                                           *)
ReadSorobanFees(h) ==
    /\ pc \in Running
    /\ FillStep(h, "soroban", [at |-> "classic", val |-> fill[h].val])
    /\ UNCHANGED cache

ReadClassicFees(h) ==
    /\ pc \in Running
    /\ FillStep(h, "classic", Idle)
    /\ UNCHANGED cache

-----------------------------------------------------------------------------
(* The process is killed, or Service.Close cancels its context: the step in *)
(* flight does not complete, and no error is fatal.                         *)
Stop ==
    /\ pc \in Starting \union Running
    /\ stops < MaxStops
    /\ stops' = stops + 1
    /\ Halted("down")
    /\ tries' = 0 /\ outage' = 0
    /\ UNCHANGED <<db, confVars, faults, archive>>

(* The network publishes a checkpoint to the history archives, which are    *)
(* only looked at while the database is empty.                              *)
PublishArchive ==
    /\ db.ledgers = {}
    /\ archive' \in {s \in LedgerSeqs : s > archive}
    /\ UNCHANGED <<db, wtx, inTx, pc, procVars, confVars, faults, stops>>

Startup == \/ MigrateLedger \/ StreamDone
           \/ \E m \in Migrations : SetGuard(m)
           \/ CommitMigrations

Run == \/ GetNextLedgerSequence \/ GetLedger \/ InsertLedger
       \/ AppendFees("classic", "soroban") \/ AppendFees("soroban", "commit")
       \/ CommitTx \/ UpdateCache \/ Checkpoint

Faulty == \/ MigrateFails \/ CommitMigrationsFails \/ RunFails
          \/ \E m \in Migrations : SetGuardFails(m)

FillCache(h) == MissCache(h) \/ RangeFromCache(h) \/ ScanLedgers(h) \/ StoreIfEmpty(h)

GetFeeStats(h) ==
    BeginFeeStats(h) \/ QueryFeeStats(h) \/ ReadSorobanFees(h) \/ ReadClassicFees(h)

Next ==
    \/ Start
    \/ Startup
    \/ Run
    \/ WaitForLedger
    \/ Faulty
    \/ \E h \in Handlers : FillCache(h) \/ GetFeeStats(h)
    \/ Stop
    \/ PublishArchive

(* The goroutine of the service and the main goroutine are scheduled, and   *)
(* the network keeps closing ledgers and has its archives published.        *)
Spec == /\ Init /\ [][Next]_vars
        /\ WF_vars(Startup) /\ WF_vars(Run)
        /\ WF_vars(archive = 0 /\ PublishArchive)
-----------------------------------------------------------------------------
HandlerStates == {"idle", "range", "scan", "store", "query", "soroban", "classic"}

FillType == [at : HandlerStates, val : LedgerSeqs \union {0}]

FeeWindowType(cap) == [first : 0 .. MaxLedger, len : 0 .. cap]

FeesType(c) == [classic : FeeWindowType(c.classic), soroban : FeeWindowType(c.soroban)]

TypeOK ==
    /\ db \in Database /\ wtx \in Database /\ inTx \in BOOLEAN
    /\ pc \in Stopped \union Starting \union Running
    /\ cache \in LedgerSeqs \union {0}
    /\ window \in RetentionWindows
    /\ feeCap \in FeeRetentions
    /\ fees \in FeesType(feeCap)
    /\ mig \in [build : SUBSET Migrations, stream : SUBSET LedgerSeqs,
                left : SUBSET Migrations]
    /\ seq \in 0 .. MaxLedger + 1
    /\ tries \in 0 .. MaxRetries
    /\ archive \in LedgerSeqs \union {0}
    /\ fill \in [Handlers -> FillType]
    /\ faults \in 0 .. MaxFaults /\ stops \in 0 .. MaxStops
    /\ outage \in 0 .. MaxFaults

(* Ingestion, with its retries, crashes and concurrent cache fills, is an   *)
(* implementation of LedgerStore: each commit appends exactly the next      *)
(* ledger and trims exactly what expired, and the cache follows it.         *)
Store == INSTANCE LedgerStore WITH
            ledgers <- db.ledgers, locked <- (pc = "publish"),
            open <- (pc \notin Stopped)

StoreRefined == Store!StoreSpec

(* A handler or a retry that reads the cache gets the latest committed      *)
(* ledger (0 if none), in whatever order commits and cache fills happened   *)
(* (getLatestLedgerSequence, commitAndUpdateCache).                         *)
CacheCoherent == pc \notin Stopped \union {"publish"} => cache = Latest(db.ledgers)

(* The transactions and events tables hold the rows of the newest stored    *)
(* ledgers, without a gap and none of a ledger already trimmed, across      *)
(* migrations, rollbacks and restarts (writeTx.Commit).                     *)
TablesAligned == IsSuffix(db.transactions, db.ledgers) /\ IsSuffix(db.events, db.ledgers)

(* While the service runs on a database that has ledgers, each fee window   *)
(* ends at the latest committed ledger or at the one being ingested, both   *)
(* at the same one, and reaches as far back as its capacity and the stored  *)
(* ledgers allow (IngestFees, GetMigrationLedgerRange).                     *)
FeeWindowsTrackStore ==
    pc \in Running /\ db.ledgers # {} =>
      LET latest == Latest(db.ledgers)
      IN  /\ pc # "soroban" => EndOf(fees.classic) = EndOf(fees.soroban)
          /\ \A k \in {"classic", "soroban"} :
                /\ EndOf(fees[k]) \in {latest, latest + 1}
                /\ \/ fees[k].len = feeCap[k]
                   \/ \A s \in db.ledgers : fees[k].first <= s

(* The fee statistics a handler is about to read reach at least up to the   *)
(* latest ledger that it has read before and will report: a client never    *)
(* takes the fees of older ledgers for those of the latest one, whatever    *)
(* ingestion does between the reads (IngestFees comes before the commit,    *)
(* and GetLedgerRange before the distributions in getFeeStats).             *)
FeeStatsFresh ==
    \A h \in Handlers :
        /\ fill[h].at \in {"soroban", "classic"} => fill[h].val <= EndOf(fees.classic)
        /\ fill[h].at = "soroban" => fill[h].val <= EndOf(fees.soroban)

(* A guard becomes durable only together with the rows it stands for: those *)
(* of every stored ledger inside the retention window.  "We don't do partial *)
(* migrations (all or nothing)" (mustInitializeStorage), "after the          *)
(* migration is applied the boolean is set to true" (guardedMigration).      *)
MigrationAtomic ==
    [][\A m \in db'.guards \ db.guards : \A s \in db'.ledgers :
          s + window > Latest(db'.ledgers) => s \in db'[m]]_vars

(* The service gives up only on an outage that outlasts its retries:        *)
(* "Retry running ingestion every second for 5 seconds" (startService).     *)
FatalMeansOutage == pc = "fatal" => outage >= MaxRetries

(* If the process is always started again, then once calls stop failing     *)
(* ingestion reaches the last ledger the network closed, whatever state the *)
(* failures left behind (startService, mustInitializeStorage).              *)
RestartHeals == []<>(pc \notin Stopped) => <>(Latest(db.ledgers) = MaxLedger)
=============================================================================
