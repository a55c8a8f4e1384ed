---------------------------- MODULE LedgerTables ----------------------------
(***************************************************************************)
(* The tables of the SQLite database, seen as sets of ledger sequence       *)
(* numbers, and the few queries and statements that the db package runs on  *)
(* them.  A row of "transactions" or "events" is represented by the ledger  *)
(* it belongs to: rows of one ledger are written and deleted together.      *)
(***************************************************************************)
EXTENDS Integers

CONSTANTS
    FirstLedger,        \* first sequence number of a network (db.firstLedger)
    MaxLedger,          \* bound: the network closes no ledger past this one
    RetentionWindows    \* values HISTORY_RETENTION_WINDOW may be configured to

ASSUME LedgerBounds == FirstLedger \in Nat \ {0} /\ MaxLedger \in Nat

ASSUME WindowsArePositive == RetentionWindows \subseteq Nat \ {0}

LedgerSeqs == FirstLedger .. MaxLedger

(* SELECT MAX(sequence) and MIN(sequence); 0 stands for ErrEmptyDB.         *)
Latest(S) == IF S = {} THEN 0 ELSE CHOOSE s \in S : \A t \in S : t <= s

Oldest(S) == IF S = {} THEN 0 ELSE CHOOSE s \in S : \A t \in S : s <= t

(* Cutoff one ledger too late: a mutant of Trim.                            *)
TrimOneMore(S, latest, retention) ==
    IF latest + 1 <= retention THEN S
    ELSE {s \in S : s >= latest + 2 - retention}

(* trimLedgers, trimTransactions and trimEvents follow one rule.            *)
Trim(S, latest, retention) ==
    IF latest + 1 <= retention THEN S
    ELSE {s \in S : s >= latest + 1 - retention}

(* No ledger between two stored ones is missing.                            *)
Contiguous(S) == \A a, b \in S : a .. b \subseteq S

(* T holds the newest ledgers of S: those from some point on.               *)
IsSuffix(T, S) == T \subseteq S /\ \A t \in T : \A s \in S : t <= s => s \in T
=============================================================================
