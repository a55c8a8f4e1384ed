----------------------------- MODULE LedgerStore -----------------------------
(***************************************************************************)
(* What the storage layer (cmd/stellar-rpc/internal/db) promises the rest   *)
(* of stellar-rpc: a table of closed ledgers, the cached sequence number of *)
(* the latest one, and the lock that makes the cache follow a commit.       *)
(* Ingestion implements this specification, and the request handlers of     *)
(* LedgerReads run on top of it.                                            *)
(***************************************************************************)
EXTENDS LedgerTables

VARIABLES
    ledgers,    \* sequence numbers in ledger_close_meta, as last committed
    cache,      \* dbCache.latestLedgerSeq; 0 means "not known"
    locked,     \* dbCache write-locked: committed, cache not updated yet
    window,     \* readWriter.historyRetentionWindow of the running process
    open        \* a process has the database open

storeVars == <<ledgers, cache, locked, window, open>>

StoreTypeOK ==
    /\ ledgers \subseteq LedgerSeqs
    /\ cache \in LedgerSeqs \union {0}
    /\ locked \in BOOLEAN
    /\ window \in RetentionWindows
    /\ open \in BOOLEAN

(* The database outlives the process: it starts out closed, and empty or    *)
(* holding the ledgers an earlier process left in it.                       *)
StoreInit ==
    /\ \E lo, hi \in LedgerSeqs : ledgers \in {{}, lo .. hi}
    /\ cache = 0
    /\ locked = FALSE
    /\ window \in RetentionWindows
    /\ open = FALSE

(* A process opens the database with its own retention window and learns    *)
(* the latest ledger before it serves anything.                             *)
Open ==
    /\ ~open
    /\ open' = TRUE
    /\ window' \in RetentionWindows
    /\ cache' = Latest(ledgers)
    /\ UNCHANGED <<ledgers, locked>>

(* Mutant: any ledger may follow.                                           *)
IsLater(s) == s > Latest(ledgers)

(* The ledger that may be committed next; any one into an empty database.   *)
IsNext(s) == ledgers # {} => s = Latest(ledgers) + 1

(* Mutant: a failed commit updates the cache all the same.                  *)
CommitIgnoringError(s) ==
    /\ open /\ ~locked
    /\ IsNext(s)
    /\ ledgers' \in {ledgers, Trim(ledgers \union {s}, s, window)}
    /\ cache' = s
    /\ UNCHANGED <<locked, window, open>>

(* The SQL transaction of ledger s commits: the new rows and the trim       *)
(* become visible at once, while dbCache is locked and still one behind.    *)
Commit(s) ==
    /\ open /\ ~locked
    /\ IsNext(s)
    /\ ledgers' = Trim(ledgers \union {s}, s, window)
    /\ locked' = TRUE
    /\ UNCHANGED <<cache, window, open>>

(* Mutant: the lock is not released.                                        *)
PublishHoldingLock ==
    /\ locked
    /\ cache' = Latest(ledgers)
    /\ UNCHANGED <<ledgers, locked, window, open>>

(* The cache catches up and its lock is released.                           *)
Publish ==
    /\ locked
    /\ cache' = Latest(ledgers)
    /\ locked' = FALSE
    /\ UNCHANGED <<ledgers, window, open>>

(* The process ends at any point: what is committed stays, the rest goes.   *)
Exit ==
    /\ open
    /\ open' = FALSE
    /\ cache' = 0
    /\ locked' = FALSE
    /\ UNCHANGED <<ledgers, window>>

StoreNext ==
    \/ Open
    \/ \E s \in LedgerSeqs : Commit(s)
    \/ Publish
    \/ Exit

StoreSpec == StoreInit /\ [][StoreNext]_storeVars

-----------------------------------------------------------------------------
(* The stored ledgers have no gap (Commit, trimLedgers).                    *)
LedgersContiguous == Contiguous(ledgers)

(* While it can be read, the cache names the latest committed ledger, or 0  *)
(* when there is none (commitAndUpdateCache).                               *)
CacheCoherent == open /\ ~locked => cache = Latest(ledgers)

(* A commit drops a ledger only once the retention window has passed it     *)
(* (trimLedgers).                                                           *)
TrimsOnlyExpired ==
    [][\A s \in ledgers \ ledgers' : s + window <= Latest(ledgers')]_storeVars
=============================================================================
