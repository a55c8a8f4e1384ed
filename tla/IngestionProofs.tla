--------------------------- MODULE IngestionProofs ---------------------------
(***************************************************************************)
(* Ingestion for every retention window, every capacity of the fee windows, *)
(* every retry budget and any number of ledgers, handlers, failed calls and *)
(* restarts: its types, its cache, its tables and its fee windows are       *)
(* right, and it implements LedgerStore.                                    *)
(***************************************************************************)
EXTENDS Ingestion, LedgerTablesProofs

(* A process that is not running has no state of its own.                   *)
StoppedClean ==
    pc \in Stopped => fees = EmptyFees /\ \A h \in Handlers : fill[h] = Idle

(* The rows a table holds after the ledgers outside rest went through its   *)
(* migration.                                                               *)
MigratedSoFar(rest) ==
    {s \in db.ledgers : /\ s >= FirstToMigrate(Latest(db.ledgers), window)
                        /\ s \notin rest}

(* While the process starts, its transaction holds each table as far as its *)
(* migration got, or untouched if it has none.  A table of events without   *)
(* its guard is empty.                                                      *)
MigrationShape ==
    /\ "events" \notin db.guards => db.events = {}
    /\ pc \in Running => db.guards = Migrations
    /\ pc \in Starting =>
         /\ \A h \in Handlers : fill[h] = Idle
         /\ mig.stream \subseteq db.ledgers
    /\ pc = "migrate" => inTx
    /\ pc = "guard" => mig.stream = {}
    /\ pc \in Starting /\ inTx =>
         /\ wtx.ledgers = db.ledgers
         /\ wtx.guards \union mig.left = Migrations
         /\ \A m \in Migrations :
              wtx[m] = IF m \in mig.build THEN MigratedSoFar(mig.stream) ELSE db[m]

(* The ledger being ingested is the one after the latest committed ledger,  *)
(* and once committed it is the latest.                                     *)
SeqShape ==
    /\ pc \in {"get", "insert", "classic", "soroban", "commit"} =>
         /\ db.ledgers # {} => seq = Latest(db.ledgers) + 1
         /\ seq >= FirstLedger
    /\ pc \in {"insert", "classic", "soroban", "commit"} => seq \in LedgerSeqs
    /\ pc \in {"publish", "checkpoint"} => seq \in LedgerSeqs /\ Latest(db.ledgers) = seq

(* The write transaction of a ledger holds the database and that ledger.    *)
TxShape ==
    pc \in {"classic", "soroban", "commit"} =>
       wtx = [ledgers |-> db.ledgers \union {seq},
              transactions |-> db.transactions \union {seq},
              events |-> db.events \union {seq}, guards |-> db.guards]

(* A handler only has a value to store if some ledger is committed.         *)
FillShape == \A h \in Handlers : fill[h].at = "store" => db.ledgers # {}

(* Counters within their bounds, and an outage made of counted faults.      *)
Counters ==
    /\ tries \in 0 .. MaxRetries
    /\ archive \in LedgerSeqs \union {0}
    /\ faults \in 0 .. MaxFaults /\ stops \in 0 .. MaxStops
    /\ outage \in 0 .. MaxFaults /\ outage <= faults

(* The inductive invariant.                                                 *)
IInv ==
    /\ TypeOK
    /\ Contiguous(db.ledgers)
    /\ CacheCoherent
    /\ TablesAligned
    /\ StoppedClean
    /\ MigrationShape
    /\ SeqShape
    /\ TxShape
    /\ FillShape
    /\ Counters

-----------------------------------------------------------------------------
(* Configured capacities of fee windows are positive.                       *)
LEMMA FeeCapType ==
    ASSUME NEW c \in FeeRetentions
    PROVE  c.classic \in Nat \ {0} /\ c.soroban \in Nat \ {0}
BY FeeRetentionsArePositive

(* An empty fee window has the type of a fee window of any capacity.        *)
LEMMA EmptyWindowType == ASSUME NEW cap \in Nat PROVE EmptyWindow \in FeeWindowType(cap)
BY LedgerBounds DEF EmptyWindow, FeeWindowType

(* Pushing the next ledger keeps a fee window within its capacity.          *)
LEMMA PushedType ==
    ASSUME NEW cap \in Nat \ {0}, NEW w \in FeeWindowType(cap), NEW s \in LedgerSeqs,
           Appendable(w, s)
    PROVE  Pushed(w, s, cap) \in FeeWindowType(cap)
<1>1. s \in Nat /\ s <= MaxLedger /\ MaxLedger \in Nat
  BY LedgerSeqIsNat, LedgerBounds
<1>2. w.first \in Nat /\ w.len \in Nat /\ w.first <= MaxLedger /\ w.len <= cap
  BY LedgerBounds DEF FeeWindowType
<1>3. w = [first |-> w.first, len |-> w.len]
  BY DEF FeeWindowType
<1>4. CASE w.len = 0
  BY <1>1, <1>4 DEF Pushed, FeeWindowType
<1>5. CASE w.len # 0 /\ w.len < cap
  BY <1>1, <1>2, <1>3, <1>5 DEF Pushed, FeeWindowType
<1>6. CASE w.len # 0 /\ ~(w.len < cap)
  <2>1. w.first + 1 <= MaxLedger
    BY <1>1, <1>2, <1>6 DEF Appendable
  <2> QED
    BY <1>1, <1>2, <1>3, <1>6, <2>1 DEF Pushed, FeeWindowType
<1> QED
  BY <1>2, <1>4, <1>5, <1>6

-----------------------------------------------------------------------------
(* Initially the process is down, so only the database has to be looked at. *)
LEMMA InitInv == Init => IInv
<1> SUFFICES ASSUME Init PROVE IInv
  OBVIOUS
<1> USE DEF Init
<1>1. PICK lo \in LedgerSeqs, hi \in LedgerSeqs, from \in LedgerSeqs :
         \E stored \in {{}, lo .. hi} :
            db = [ledgers |-> stored, transactions |-> {s \in stored : s >= from},
                  events |-> {}, guards |-> {}]
  OBVIOUS
<1>2. PICK stored \in {{}, lo .. hi} :
            db = [ledgers |-> stored, transactions |-> {s \in stored : s >= from},
                  events |-> {}, guards |-> {}]
  BY <1>1
<1>3. lo \in Nat /\ hi \in Nat /\ from \in Nat /\ FirstLedger \in Nat /\ MaxLedger \in Nat
  BY LedgerBounds DEF LedgerSeqs
<1>4. stored \subseteq LedgerSeqs /\ Contiguous(stored) /\ \A s \in stored : s \in Nat
  BY <1>3 DEF LedgerSeqs, Contiguous
<1>5. db \in Database
  BY <1>2, <1>4 DEF Database
<1>6. Counters
  BY RetryBounds DEF Counters
<1>7. TypeOK
  <2>1. /\ fees \in FeesType(feeCap)
    BY FeeCapType, EmptyWindowType DEF EmptyFees, FeesType
  <2>2. fill \in [Handlers -> FillType]
    BY DEF Idle, FillType, HandlerStates
  <2>3. mig \in [build : SUBSET Migrations, stream : SUBSET LedgerSeqs,
                left : SUBSET Migrations]
    BY DEF NoMigration
  <2>4. seq \in 0 .. MaxLedger + 1
    BY LedgerBounds
  <2> QED
    BY <1>5, <1>6, <2>1, <2>2, <2>3, <2>4 DEF TypeOK, Stopped, Counters
<1>8. TablesAligned
  BY <1>2, <1>3, <1>4 DEF TablesAligned, IsSuffix
<1>9. StoppedClean /\ FillShape /\ CacheCoherent /\ SeqShape /\ TxShape
  BY DEF StoppedClean, FillShape, CacheCoherent, SeqShape, TxShape, Stopped, Idle
<1>10. MigrationShape
  BY <1>2 DEF MigrationShape, Running, Starting
<1> QED
  BY <1>2, <1>4, <1>7, <1>8, <1>9, <1>10, <1>6 DEF IInv

(* However a process ends, the invariant holds of what is left.             *)
LEMMA HaltedInv ==
    ASSUME IInv, NEW how \in Stopped, Halted(how), UNCHANGED <<db, confVars>>, Counters'
    PROVE  IInv'
<1> USE DEF Halted, confVars
<1>1. TypeOK'
  <2>1. feeCap' \in FeeRetentions
    BY DEF IInv, TypeOK
  <2>2. (fees \in FeesType(feeCap))'
    BY <2>1, FeeCapType, EmptyWindowType DEF EmptyFees, FeesType
  <2>3. (fill \in [Handlers -> FillType])'
    BY DEF Idle, FillType, HandlerStates
  <2>4. (mig \in [build : SUBSET Migrations, stream : SUBSET LedgerSeqs,
                 left : SUBSET Migrations])'
    BY DEF NoMigration
  <2>5. (seq \in 0 .. MaxLedger + 1)'
    BY LedgerBounds
  <2> QED
    BY <2>2, <2>3, <2>4, <2>5 DEF IInv, TypeOK, Counters
<1>2. Contiguous(db.ledgers)' /\ TablesAligned'
  BY DEF IInv, TablesAligned
<1>3. (StoppedClean /\ FillShape /\ CacheCoherent /\ SeqShape /\ TxShape)'
  BY DEF StoppedClean, FillShape, CacheCoherent, SeqShape, TxShape, Stopped, Idle
<1>4. MigrationShape'
  BY DEF IInv, MigrationShape, Running, Starting, Stopped
<1> QED
  BY <1>1, <1>2, <1>3, <1>4 DEF IInv

(* A failed attempt of run() either ends the process or goes back to        *)
(* getNextLedgerSequence with nothing changed but the fee windows.          *)
LEMMA RetriedInv ==
    ASSUME IInv, pc \in Running \ {"publish"}, NEW used \in 0 .. MaxRetries, Retried(used),
           UNCHANGED <<db, confVars>>, Counters'
    PROVE  IInv'
<1>1. CASE ~(used < MaxRetries)
  BY <1>1, HaltedInv DEF Retried, Stopped
<1>2. CASE used < MaxRetries
  <2> USE <1>2 DEF Retried, confVars
  <2>1. TypeOK'
    BY DEF IInv, TypeOK, Counters, Running
  <2>2. Contiguous(db.ledgers)' /\ TablesAligned'
    BY DEF IInv, TablesAligned
  <2>3. CacheCoherent'
    BY DEF IInv, CacheCoherent, Running, Stopped
  <2>4. (StoppedClean /\ FillShape /\ SeqShape /\ TxShape)'
    BY DEF IInv, StoppedClean, FillShape, SeqShape, TxShape, Stopped
  <2>5. MigrationShape'
    BY DEF IInv, MigrationShape, Running, Starting
  <2> QED
    BY <2>1, <2>2, <2>3, <2>4, <2>5 DEF IInv
<1> QED
  BY <1>1, <1>2
-----------------------------------------------------------------------------
(* The start of a process.                                                  *)

(* FirstToMigrate is a natural number.                                      *)
LEMMA FirstToMigrateType ==
    ASSUME NEW latest \in Nat, NEW w \in Nat
    PROVE  FirstToMigrate(latest, w) \in Nat
BY LedgerBounds DEF FirstToMigrate

(* Opening the database fills the cache and finds the tables as they are.   *)
LEMMA StartInv == ASSUME IInv, Start PROVE IInv'
<1> DEFINE latest == Latest(db.ledgers)
           build == Migrations \ db.guards
           feeFirst == FirstToMigrate(latest, MaxFeeRetention(feeCap'))
           r == FirstToMigrate(latest, window')
           first == IF build = {} THEN feeFirst ELSE IF r <= feeFirst THEN r ELSE feeFirst
<1>1. /\ pc \in Stopped /\ pc' = "migrate" /\ db' = db /\ inTx' = TRUE
      /\ window' \in RetentionWindows /\ feeCap' \in FeeRetentions
      /\ cache' = latest
      /\ wtx' = IF "transactions" \in build THEN [db EXCEPT !.transactions = {}] ELSE db
      /\ mig' = [build |-> build, left |-> build, stream |-> {s \in db.ledgers : s >= first}]
      /\ tries' = 0 /\ outage' = 0
      /\ UNCHANGED <<fees, seq, fill, faults, archive, stops>>
  BY DEF Start, StreamLedgers, envVars
<1>2. /\ db \in Database /\ db.ledgers \in SUBSET LedgerSeqs /\ db.guards \subseteq Migrations
      /\ db = [ledgers |-> db.ledgers, transactions |-> db.transactions,
               events |-> db.events, guards |-> db.guards]
  BY DEF IInv, TypeOK, Database
<1>3. latest \in LedgerSeqs \union {0} /\ latest \in Nat
  BY <1>2, LatestType
<1>4. Counters'
  BY <1>1, RetryBounds DEF IInv, Counters
<1>5. TypeOK'
  <2>1. (fees \in FeesType(feeCap))'
    BY <1>1, FeeCapType, EmptyWindowType DEF IInv, StoppedClean, EmptyFees, FeesType
  <2>2. wtx' \in Database
    BY <1>1, <1>2 DEF Database
  <2>3. mig' \in [build : SUBSET Migrations, stream : SUBSET LedgerSeqs,
                  left : SUBSET Migrations]
    BY <1>1, <1>2
  <2>4. (fill \in [Handlers -> FillType])' /\ (seq \in 0 .. MaxLedger + 1)'
    BY <1>1 DEF IInv, TypeOK
  <2> QED
    BY <1>1, <1>2, <1>3, <1>4, <2>1, <2>2, <2>3, <2>4 DEF TypeOK, Starting, Counters
<1>6. Contiguous(db.ledgers)' /\ TablesAligned' /\ CacheCoherent'
  BY <1>1 DEF IInv, TablesAligned, CacheCoherent
<1>7. (StoppedClean /\ SeqShape /\ TxShape)'
  BY <1>1 DEF StoppedClean, SeqShape, TxShape, Stopped
<1>8. \A h \in Handlers : fill'[h] = Idle
  BY <1>1 DEF IInv, StoppedClean
<1>9. MigrationShape'
  <2>1. r \in Nat /\ feeFirst \in Nat
    <3>1. window' \in Nat /\ MaxFeeRetention(feeCap') \in Nat
      BY <1>1, WindowsArePositive, FeeCapType DEF MaxFeeRetention
    <3> QED
      BY <1>3, <3>1, FirstToMigrateType
  <2>2. ASSUME NEW m \in build PROVE {} = {s \in db.ledgers : s >= r /\ s \notin mig'.stream}
    <3>1. first <= r
      BY <2>1, <2>2
    <3>2. \A s \in db.ledgers : s \in Nat
      BY <1>2, LedgerSeqIsNat
    <3> QED
      BY <1>1, <2>1, <3>1, <3>2
  <2>3. "events" \notin db.guards => db.events = {}
    BY DEF IInv, MigrationShape
  <2>4. \A m \in Migrations :
           wtx'[m] = IF m \in build THEN {s \in db.ledgers : s >= r /\ s \notin mig'.stream}
                     ELSE db[m]
    BY <1>1, <1>2, <2>2, <2>3 DEF Migrations
  <2>5. wtx'.ledgers = db.ledgers /\ wtx'.guards \union build = Migrations
    BY <1>1, <1>2
  <2>6. MigratedSoFar(mig.stream)' = {s \in db.ledgers : s >= r /\ s \notin mig'.stream}
    BY <1>1 DEF MigratedSoFar
  <2>7. mig'.build = build /\ mig'.left = build /\ mig'.stream \subseteq db.ledgers
    BY <1>1
  <2>8. pc' = "migrate" /\ inTx' = TRUE /\ db' = db
    BY <1>1
  <2>9. \A m \in Migrations :
           wtx'[m] = IF m \in mig'.build THEN MigratedSoFar(mig.stream)' ELSE db'[m]
    BY <2>4, <2>6, <2>7, <2>8
  <2> QED
    BY <1>8, <2>3, <2>5, <2>7, <2>8, <2>9 DEF MigrationShape, Running, Starting
<1>10. FillShape'
  BY <1>8 DEF FillShape, Idle
<1> QED
  BY <1>4, <1>5, <1>6, <1>7, <1>9, <1>10 DEF IInv

(* One more ledger has gone through the migrations.                         *)
LEMMA MigrateLedgerInv == ASSUME IInv, MigrateLedger PROVE IInv'
<1> DEFINE s == Oldest(mig.stream)
           toFees == s >= FirstToMigrate(Latest(db.ledgers), MaxFeeRetention(feeCap))
           ok == toFees => Appendable(fees.classic, s) /\ Appendable(fees.soroban, s)
<1>1. pc = "migrate" /\ inTx /\ mig.stream # {} /\ mig.stream \subseteq db.ledgers
  BY DEF MigrateLedger, IInv, MigrationShape, Starting
<1>2. UNCHANGED <<tries, outage, confVars, faults, envVars>>
  BY DEF MigrateLedger
<1>3. Counters'
  BY <1>2 DEF IInv, Counters, envVars
<1>4. CASE ~ok
  <2>1. Halted("down") /\ UNCHANGED db
    BY <1>4 DEF MigrateLedger
  <2> QED
    BY <1>2, <1>3, <2>1, HaltedInv DEF Stopped
<1>5. CASE ok
  <2>1. /\ wtx' = [wtx EXCEPT !.transactions = MigratedRows("transactions", @, s),
                              !.events = MigratedRows("events", @, s)]
        /\ fees' = IF toFees THEN PushedFees(s) ELSE fees
        /\ mig' = [mig EXCEPT !.stream = @ \ {s}]
        /\ UNCHANGED <<db, inTx, pc, cache, seq, fill, confVars>>
    BY <1>2, <1>5 DEF MigrateLedger
  <2>2. /\ wtx \in Database /\ db.ledgers \in SUBSET LedgerSeqs
        /\ mig \in [build : SUBSET Migrations, stream : SUBSET LedgerSeqs,
                    left : SUBSET Migrations]
    BY DEF IInv, TypeOK, Database
  <2>3. mig.stream \in SUBSET Nat
    BY <2>2, LedgerSeqIsNat
  <2>4. s \in mig.stream /\ s \in LedgerSeqs /\ s \in db.ledgers
    BY <1>1, <2>2, <2>3, OldestIsMin
  <2>5. TypeOK'
    <3>1. wtx' \in Database
      BY <2>1, <2>2, <2>4 DEF Database, MigratedRows, InsertTransactions, InsertEvents
    <3>2. (fees \in FeesType(feeCap))'
      <4>1. /\ feeCap \in FeeRetentions /\ feeCap' = feeCap
            /\ fees \in FeesType(feeCap)
        BY <2>1 DEF IInv, TypeOK, confVars
      <4>2. CASE toFees
        BY <1>5, <2>1, <2>4, <4>1, <4>2, FeeCapType, PushedType DEF PushedFees, FeesType
      <4>3. CASE ~toFees
        BY <2>1, <4>1, <4>3
      <4> QED
        BY <4>2, <4>3
    <3>3. mig' \in [build : SUBSET Migrations, stream : SUBSET LedgerSeqs,
                    left : SUBSET Migrations]
      BY <2>1, <2>2
    <3> QED
      BY <1>3, <2>1, <3>1, <3>2, <3>3 DEF IInv, TypeOK, Counters, confVars
  <2>6. Contiguous(db.ledgers)' /\ TablesAligned' /\ CacheCoherent'
    BY <2>1 DEF IInv, TablesAligned, CacheCoherent
  <2>7. (StoppedClean /\ SeqShape /\ TxShape /\ FillShape)'
    BY <1>1, <2>1 DEF IInv, StoppedClean, SeqShape, TxShape, FillShape, Stopped
  <2>8. MigrationShape'
    <3>1. /\ wtx.ledgers = db.ledgers /\ wtx.guards \union mig.left = Migrations
          /\ \A m \in Migrations :
               wtx[m] = IF m \in mig.build THEN MigratedSoFar(mig.stream) ELSE db[m]
          /\ \A h \in Handlers : fill[h] = Idle
          /\ "events" \notin db.guards => db.events = {}
      BY <1>1 DEF IInv, MigrationShape, Starting
    <3>2. /\ wtx'.ledgers = db.ledgers /\ wtx'.guards = wtx.guards
          /\ \A m \in Migrations : wtx'[m] = MigratedRows(m, wtx[m], s)
      <4>1. /\ wtx'.ledgers = wtx.ledgers /\ wtx'.guards = wtx.guards
            /\ wtx'.transactions = MigratedRows("transactions", wtx.transactions, s)
            /\ wtx'.events = MigratedRows("events", wtx.events, s)
        BY <2>1, <2>2 DEF Database
      <4> QED
        BY <3>1, <4>1 DEF Migrations
    <3>3. \A m \in Migrations :
             wtx'[m] = IF m \in mig.build THEN MigratedSoFar(mig.stream \ {s}) ELSE db[m]
      BY <2>4, <3>1, <3>2 DEF MigratedRows, InsertTransactions, InsertEvents, MigratedSoFar
    <3>4. mig'.stream = mig.stream \ {s} /\ mig'.build = mig.build /\ mig'.left = mig.left
      BY <2>1, <2>2
    <3>5. MigratedSoFar(mig.stream)' = MigratedSoFar(mig.stream \ {s})
      BY <2>1, <3>4 DEF MigratedSoFar, confVars
    <3> QED
      BY <1>1, <2>1, <3>1, <3>2, <3>3, <3>4, <3>5 DEF MigrationShape, Running, Starting
  <2> QED
    BY <1>3, <2>5, <2>6, <2>7, <2>8 DEF IInv
<1> QED
  BY <1>4, <1>5
(* All migrations have seen all their ledgers.                              *)
LEMMA StreamDoneInv == ASSUME IInv, StreamDone PROVE IInv'
<1> USE DEF StreamDone, procVars, confVars, envVars
<1>1. TypeOK' /\ Counters'
  BY DEF IInv, TypeOK, Counters, Starting
<1>2. Contiguous(db.ledgers)' /\ TablesAligned' /\ CacheCoherent'
  BY DEF IInv, TablesAligned, CacheCoherent, Stopped
<1>3. (StoppedClean /\ SeqShape /\ TxShape /\ FillShape)'
  BY DEF IInv, StoppedClean, SeqShape, TxShape, FillShape, Stopped
<1>4. MigratedSoFar(mig.stream)' = MigratedSoFar(mig.stream)
  BY DEF MigratedSoFar
<1>5. MigrationShape'
  BY <1>4 DEF IInv, MigrationShape, Running, Starting
<1> QED
  BY <1>1, <1>2, <1>3, <1>5 DEF IInv

(* A guard changes no table, whether or not the transaction is still open.  *)
LEMMA SetGuardInv == ASSUME IInv, NEW m \in Migrations, SetGuard(m) PROVE IInv'
<1>1. /\ pc = "guard" /\ pc' = "guard"
      /\ mig' = [mig EXCEPT !.left = @ \ {m}]
      /\ wtx' = [wtx EXCEPT !.guards = @ \union {m}]
      /\ db' = IF inTx THEN db ELSE [db EXCEPT !.guards = @ \union {m}]
      /\ UNCHANGED <<inTx, cache, fees, seq, tries, fill, outage, window, feeCap,
                     faults, archive, stops>>
  BY DEF SetGuard, confVars, envVars
<1>2. /\ wtx \in Database /\ db \in Database
      /\ mig \in [build : SUBSET Migrations, stream : SUBSET LedgerSeqs,
                  left : SUBSET Migrations]
  BY DEF IInv, TypeOK
<1>3. /\ db'.ledgers = db.ledgers /\ db'.transactions = db.transactions
      /\ db'.events = db.events /\ db.guards \subseteq db'.guards
      /\ db' \in Database
  BY <1>1, <1>2 DEF Database
<1>4. TypeOK' /\ Counters'
  <2>1. wtx' \in Database /\ mig' \in [build : SUBSET Migrations, stream : SUBSET LedgerSeqs,
                                       left : SUBSET Migrations]
    BY <1>1, <1>2 DEF Database
  <2> QED
    BY <1>1, <1>3, <2>1 DEF IInv, TypeOK, Counters
<1>5. Contiguous(db.ledgers)' /\ TablesAligned' /\ CacheCoherent'
  BY <1>1, <1>3 DEF IInv, TablesAligned, CacheCoherent
<1>6. (StoppedClean /\ SeqShape /\ TxShape /\ FillShape)'
  BY <1>1, <1>3 DEF IInv, StoppedClean, SeqShape, TxShape, FillShape, Stopped
<1>7. MigrationShape'
  <2>1. /\ "events" \notin db.guards => db.events = {}
        /\ \A h \in Handlers : fill[h] = Idle
        /\ mig.stream = {}
        /\ inTx => /\ wtx.ledgers = db.ledgers /\ wtx.guards \union mig.left = Migrations
                   /\ \A k \in Migrations :
                        wtx[k] = IF k \in mig.build THEN MigratedSoFar(mig.stream) ELSE db[k]
    BY <1>1 DEF IInv, MigrationShape, Starting
  <2>2. mig'.stream = mig.stream /\ mig'.build = mig.build /\ mig'.left = mig.left \ {m}
    BY <1>1, <1>2
  <2>3. /\ wtx'.ledgers = wtx.ledgers /\ wtx'.transactions = wtx.transactions
        /\ wtx'.events = wtx.events /\ wtx'.guards = wtx.guards \union {m}
    BY <1>1, <1>2 DEF Database
  <2>4. \A k \in Migrations : wtx'[k] = wtx[k] /\ db'[k] = db[k]
    BY <1>3, <2>3 DEF Migrations
  <2>5. MigratedSoFar(mig.stream)' = MigratedSoFar(mig.stream)
    BY <1>1, <1>3, <2>2 DEF MigratedSoFar
  <2> QED
    BY <1>1, <1>3, <2>1, <2>2, <2>3, <2>4, <2>5 DEF MigrationShape, Running, Starting
<1> QED
  BY <1>4, <1>5, <1>6, <1>7 DEF IInv

(* A failed guard rolls the transaction back.                               *)
LEMMA SetGuardFailsInv == ASSUME IInv, NEW m \in Migrations, SetGuardFails(m) PROVE IInv'
<1> USE DEF SetGuardFails, Fault, confVars, envVars
<1>1. TypeOK' /\ Counters'
  <2>1. mig' \in [build : SUBSET Migrations, stream : SUBSET LedgerSeqs,
                  left : SUBSET Migrations]
    BY DEF IInv, TypeOK
  <2>2. Counters'
    BY RetryBounds DEF IInv, Counters
  <2> QED
    BY <2>1, <2>2 DEF IInv, TypeOK, Counters
<1>2. Contiguous(db.ledgers)' /\ TablesAligned' /\ CacheCoherent'
  BY DEF IInv, TablesAligned, CacheCoherent
<1>3. (StoppedClean /\ SeqShape /\ TxShape /\ FillShape)'
  BY DEF IInv, StoppedClean, SeqShape, TxShape, FillShape, Stopped
<1>4. MigrationShape'
  <2>1. mig'.stream = mig.stream
    BY DEF IInv, TypeOK
  <2> QED
    BY <2>1 DEF IInv, MigrationShape, Running, Starting
<1> QED
  BY <1>1, <1>2, <1>3, <1>4 DEF IInv

(* The migrated tables are suffixes of the ledgers when they are committed. *)
LEMMA CommitMigrationsInv == ASSUME IInv, CommitMigrations PROVE IInv'
<1>1. pc = "guard" /\ mig.left = {} /\ UNCHANGED <<tries, outage, confVars, faults, envVars>>
  BY DEF CommitMigrations
<1>2. Counters'
  BY <1>1 DEF IInv, Counters, envVars
<1>3. CASE ~inTx
  <2>1. Halted("down") /\ UNCHANGED db
    BY <1>3 DEF CommitMigrations
  <2> QED
    BY <1>1, <1>2, <2>1, HaltedInv DEF Stopped
<1>4. CASE inTx
  <2>1. /\ db' = wtx /\ inTx' = FALSE /\ mig' = NoMigration /\ pc' = "next"
        /\ UNCHANGED <<wtx, cache, fees, seq, fill>>
    BY <1>4 DEF CommitMigrations
  <2>2. /\ "events" \notin db.guards => db.events = {}
        /\ \A h \in Handlers : fill[h] = Idle
        /\ mig.stream = {}
        /\ wtx.ledgers = db.ledgers /\ wtx.guards = Migrations
        /\ \A k \in Migrations :
             wtx[k] = IF k \in mig.build THEN MigratedSoFar({}) ELSE db[k]
    BY <1>1, <1>4 DEF IInv, MigrationShape, Starting
  <2>3. TypeOK'
    <3>1. mig' \in [build : SUBSET Migrations, stream : SUBSET LedgerSeqs,
                    left : SUBSET Migrations]
      BY <2>1 DEF NoMigration
    <3> QED
      BY <1>1, <1>2, <2>1, <3>1 DEF IInv, TypeOK, Counters, Running, confVars
  <2>4. db'.ledgers = db.ledgers
    BY <2>1, <2>2
  <2>5. TablesAligned'
    <3>1. IsSuffix(MigratedSoFar({}), db.ledgers)
      <4>1. \A s \in db.ledgers : s \in Nat
        BY LedgerSeqIsNat DEF IInv, TypeOK, Database
      <4>2. FirstToMigrate(Latest(db.ledgers), window) \in Nat
        <5>1. db.ledgers \in SUBSET LedgerSeqs /\ window \in Nat
          BY WindowsArePositive DEF IInv, TypeOK, Database
        <5> QED
          BY <5>1, LatestType, FirstToMigrateType
      <4> QED
        BY <4>1, <4>2 DEF IsSuffix, MigratedSoFar
    <3>2. \A k \in Migrations : IsSuffix(wtx[k], db.ledgers)
      BY <2>2, <3>1 DEF IInv, TablesAligned, Migrations
    <3>3. IsSuffix(wtx.transactions, db.ledgers) /\ IsSuffix(wtx.events, db.ledgers)
      BY <3>2 DEF Migrations
    <3> QED
      BY <2>1, <2>4, <3>3 DEF TablesAligned
  <2>6. Contiguous(db.ledgers)' /\ CacheCoherent'
    BY <1>1, <2>1, <2>4 DEF IInv, CacheCoherent, Stopped
  <2>7. (StoppedClean /\ SeqShape /\ TxShape /\ FillShape)'
    BY <2>1, <2>2 DEF StoppedClean, SeqShape, TxShape, FillShape, Stopped, Idle
  <2>8. MigrationShape'
    BY <2>1, <2>2 DEF MigrationShape, Running, Starting, Migrations
  <2> QED
    BY <1>2, <2>3, <2>5, <2>6, <2>7, <2>8 DEF IInv
<1> QED
  BY <1>3, <1>4

(* A startup that fails leaves the database alone.                          *)
LEMMA StartupFailsInv ==
    ASSUME IInv, MigrateFails \/ CommitMigrationsFails PROVE IInv'
<1>1. /\ faults < MaxFaults /\ faults' = faults + 1 /\ Halted("down")
      /\ UNCHANGED <<db, tries, outage, confVars, envVars>>
  BY DEF MigrateFails, CommitMigrationsFails, Fault
<1>2. Counters'
  BY <1>1, RetryBounds DEF IInv, Counters, envVars
<1> QED
  BY <1>1, <1>2, HaltedInv DEF Stopped
-----------------------------------------------------------------------------
(* The steps of run().                                                      *)

(* The next ledger is the one after the latest committed one.               *)
LEMMA GetNextInv == ASSUME IInv, GetNextLedgerSequence PROVE IInv'
<1> DEFINE latest == IF cache # 0 THEN cache ELSE Latest(db.ledgers)
<1>1. pc = "next" /\ UNCHANGED <<db, outage, confVars, faults, envVars>>
  BY DEF GetNextLedgerSequence
<1>2. /\ db.ledgers \in SUBSET LedgerSeqs /\ cache = Latest(db.ledgers)
      /\ latest = Latest(db.ledgers)
  BY <1>1 DEF IInv, TypeOK, Database, CacheCoherent, Stopped
<1>3. /\ latest \in LedgerSeqs \union {0} /\ latest \in Nat
      /\ (latest = 0 <=> db.ledgers = {}) /\ archive \in LedgerSeqs \union {0}
  BY <1>2, LatestType DEF IInv, TypeOK
<1>4. CASE latest = 0 /\ archive = 0
  <2>1. Retried(0)
    BY <1>4 DEF GetNextLedgerSequence
  <2>2. tries' \in 0 .. MaxRetries
    BY <2>1, RetryBounds DEF Retried
  <2>3. Counters'
    BY <1>1, <2>2 DEF IInv, Counters, envVars
  <2>4. 0 \in 0 .. MaxRetries /\ pc \in Running \ {"publish"}
    BY <1>1, RetryBounds DEF Running
  <2> QED
    BY <1>1, <2>1, <2>3, <2>4, RetriedInv
<1>5. CASE ~(latest = 0 /\ archive = 0)
  <2>1. /\ seq' = IF latest # 0 THEN latest + 1 ELSE archive
        /\ cache' = latest /\ pc' = "get"
        /\ UNCHANGED <<wtx, inTx, fees, mig, tries, fill>>
    BY <1>5 DEF GetNextLedgerSequence
  <2>2. seq' \in FirstLedger .. MaxLedger + 1 /\ (db.ledgers # {} => seq' = latest + 1)
    <3>1. CASE latest # 0
      BY <1>3, <2>1, <3>1, LedgerSeqIsNat, LedgerBounds DEF LedgerSeqs
    <3>2. CASE latest = 0
      BY <1>3, <1>5, <2>1, <3>2, LedgerSeqIsNat, LedgerBounds DEF LedgerSeqs
    <3> QED
      BY <3>1, <3>2
  <2>3. seq' \in 0 .. MaxLedger + 1 /\ seq' >= FirstLedger
    BY <2>2, LedgerBounds
  <2>4. TypeOK' /\ Counters'
    BY <1>1, <1>3, <2>1, <2>3 DEF IInv, TypeOK, Counters, Running, confVars, envVars
  <2>5. Contiguous(db.ledgers)' /\ TablesAligned' /\ CacheCoherent'
    BY <1>1, <1>2, <2>1 DEF IInv, TablesAligned, CacheCoherent
  <2>6. (StoppedClean /\ TxShape /\ FillShape)'
    BY <1>1, <2>1 DEF IInv, StoppedClean, TxShape, FillShape, Stopped
  <2>7. SeqShape'
    BY <1>1, <1>2, <2>1, <2>2, <2>3 DEF SeqShape
  <2>8. MigrationShape'
    BY <1>1, <2>1 DEF IInv, MigrationShape, Running, Starting
  <2> QED
    BY <2>4, <2>5, <2>6, <2>7, <2>8 DEF IInv
<1> QED
  BY <1>4, <1>5

(* The network has closed the ledger asked for.                             *)
LEMMA GetLedgerInv == ASSUME IInv, GetLedger PROVE IInv'
<1> USE DEF GetLedger, procVars, confVars, envVars
<1>1. TypeOK' /\ Counters'
  BY DEF IInv, TypeOK, Counters, Running
<1>2. Contiguous(db.ledgers)' /\ TablesAligned' /\ CacheCoherent'
  BY DEF IInv, TablesAligned, CacheCoherent, Stopped
<1>3. (StoppedClean /\ TxShape /\ FillShape)'
  BY DEF IInv, StoppedClean, TxShape, FillShape, Stopped
<1>4. SeqShape'
  <2>1. seq \in LedgerSeqs
    BY LedgerBounds DEF IInv, TypeOK, SeqShape, LedgerSeqs
  <2> QED
    BY <2>1 DEF IInv, SeqShape
<1>5. MigrationShape'
  BY DEF IInv, MigrationShape, Running, Starting
<1> QED
  BY <1>1, <1>2, <1>3, <1>4, <1>5 DEF IInv

(* The rows of the ledger are in the transaction and nowhere else.          *)
LEMMA InsertLedgerInv == ASSUME IInv, InsertLedger PROVE IInv'
<1> DEFINE fresh == seq \notin db.ledgers \union db.transactions \union db.events
<1>1. pc = "insert" /\ UNCHANGED <<db, outage, confVars, faults, envVars>>
  BY DEF InsertLedger, InsertTransactions, InsertEvents
<1>2. CASE ~fresh
  <2>1. Retried(tries) /\ tries \in 0 .. MaxRetries
    BY <1>2 DEF InsertLedger, InsertTransactions, InsertEvents, IInv, Counters
  <2>2. tries' \in 0 .. MaxRetries
    BY <2>1, RetryBounds DEF Retried
  <2>3. Counters' /\ pc \in Running \ {"publish"}
    BY <1>1, <2>2 DEF IInv, Counters, envVars, Running
  <2> QED
    BY <1>1, <2>1, <2>3, RetriedInv
<1>3. CASE fresh
  <2>1. /\ inTx' = TRUE /\ pc' = "classic"
        /\ wtx' = [db EXCEPT !.ledgers = @ \union {seq}, !.transactions = @ \union {seq},
                             !.events = @ \union {seq}]
        /\ UNCHANGED <<cache, fees, mig, seq, tries, fill>>
    BY <1>3 DEF InsertLedger, InsertTransactions, InsertEvents
  <2>2. /\ db \in Database
        /\ db = [ledgers |-> db.ledgers, transactions |-> db.transactions,
                 events |-> db.events, guards |-> db.guards]
    BY DEF IInv, TypeOK, Database
  <2>3. wtx' = [ledgers |-> db.ledgers \union {seq},
                transactions |-> db.transactions \union {seq},
                events |-> db.events \union {seq}, guards |-> db.guards]
    BY <2>1, <2>2
  <2>4. seq \in LedgerSeqs
    BY <1>1 DEF IInv, SeqShape
  <2>5. TypeOK' /\ Counters'
    <3>1. wtx' \in Database
      BY <2>2, <2>3, <2>4 DEF Database
    <3> QED
      BY <1>1, <2>1, <3>1 DEF IInv, TypeOK, Counters, Running, confVars, envVars
  <2>6. Contiguous(db.ledgers)' /\ TablesAligned' /\ CacheCoherent'
    BY <1>1, <2>1 DEF IInv, TablesAligned, CacheCoherent, Stopped
  <2>7. (StoppedClean /\ TxShape /\ FillShape /\ SeqShape)'
    BY <1>1, <2>1, <2>3 DEF IInv, StoppedClean, TxShape, FillShape, SeqShape, Stopped
  <2>8. MigrationShape'
    BY <1>1, <2>1 DEF IInv, MigrationShape, Running, Starting
  <2> QED
    BY <2>5, <2>6, <2>7, <2>8 DEF IInv
<1> QED
  BY <1>2, <1>3

(* A fee window takes the ledger, or the attempt fails.                     *)
LEMMA AppendFeesInv ==
    ASSUME IInv,
           NEW kind \in {"classic", "soroban"},
           NEW next \in {"soroban", "commit"},
           AppendFees(kind, next)
    PROVE  IInv'
<1>1. pc = kind /\ UNCHANGED <<db, outage, confVars, faults, envVars>>
  BY DEF AppendFees
<1>2. CASE ~Appendable(fees[kind], seq)
  <2>1. Retried(tries) /\ tries \in 0 .. MaxRetries
    BY <1>2 DEF AppendFees, IInv, Counters
  <2>2. tries' \in 0 .. MaxRetries
    BY <2>1, RetryBounds DEF Retried
  <2>3. Counters' /\ pc \in Running \ {"publish"}
    BY <1>1, <2>2 DEF IInv, Counters, envVars, Running
  <2> QED
    BY <1>1, <2>1, <2>3, RetriedInv
<1>3. CASE Appendable(fees[kind], seq)
  <2>1. /\ fees' = [fees EXCEPT ![kind] = Pushed(@, seq, feeCap[kind])]
        /\ pc' = next
        /\ UNCHANGED <<wtx, inTx, cache, mig, seq, tries, fill>>
    BY <1>3 DEF AppendFees
  <2>2. seq \in LedgerSeqs
    BY <1>1 DEF IInv, SeqShape
  <2>3. (fees \in FeesType(feeCap))'
    <3>1. /\ feeCap \in FeeRetentions /\ feeCap' = feeCap
          /\ fees \in FeesType(feeCap)
      BY <1>1 DEF IInv, TypeOK, confVars
    <3>2. Pushed(fees[kind], seq, feeCap[kind]) \in FeeWindowType(feeCap[kind])
      BY <1>3, <2>2, <3>1, FeeCapType, PushedType DEF FeesType
    <3>3. CASE kind = "classic"
      BY <2>1, <3>1, <3>2, <3>3 DEF FeesType
    <3>4. CASE kind = "soroban"
      BY <2>1, <3>1, <3>2, <3>4 DEF FeesType
    <3> QED
      BY <3>3, <3>4
  <2>4. TypeOK' /\ Counters'
    BY <1>1, <2>1, <2>3 DEF IInv, TypeOK, Counters, Running, confVars, envVars
  <2>5. Contiguous(db.ledgers)' /\ TablesAligned' /\ CacheCoherent'
    BY <1>1, <2>1 DEF IInv, TablesAligned, CacheCoherent, Stopped
  <2>6. (StoppedClean /\ TxShape /\ FillShape /\ SeqShape)'
    BY <1>1, <2>1 DEF IInv, StoppedClean, TxShape, FillShape, SeqShape, Stopped
  <2>7. MigrationShape'
    BY <1>1, <2>1 DEF IInv, MigrationShape, Running, Starting
  <2> QED
    BY <2>4, <2>5, <2>6, <2>7 DEF IInv
<1> QED
  BY <1>2, <1>3

(* What a commit makes of the database: seq is its latest ledger, and the   *)
(* three tables are trimmed alike.                                          *)
LEMMA CommitTxFacts ==
    ASSUME IInv, CommitTx
    PROVE  /\ db' \in Database
           /\ db'.ledgers = Trim(db.ledgers \union {seq}, seq, window)
           /\ db'.guards = db.guards
           /\ seq \in db'.ledgers /\ Latest(db'.ledgers) = seq
           /\ Contiguous(db'.ledgers)
           /\ IsSuffix(db'.transactions, db'.ledgers)
           /\ IsSuffix(db'.events, db'.ledgers)
<1>1. /\ pc = "commit"
      /\ db' = [wtx EXCEPT !.ledgers = Trim(@, seq, window),
                           !.transactions = Trim(@, seq, window),
                           !.events = Trim(@, seq, window)]
  BY DEF CommitTx
<1>2. /\ wtx = [ledgers |-> db.ledgers \union {seq},
                transactions |-> db.transactions \union {seq},
                events |-> db.events \union {seq}, guards |-> db.guards]
      /\ seq \in LedgerSeqs
      /\ db.ledgers # {} => seq = Latest(db.ledgers) + 1
  BY <1>1 DEF IInv, TxShape, SeqShape
<1>3. /\ db.ledgers \in SUBSET LedgerSeqs /\ db.transactions \in SUBSET LedgerSeqs
      /\ db.events \in SUBSET LedgerSeqs /\ db.guards \subseteq Migrations
      /\ window \in Nat \ {0} /\ Contiguous(db.ledgers)
      /\ IsSuffix(db.transactions, db.ledgers) /\ IsSuffix(db.events, db.ledgers)
  BY WindowsArePositive DEF IInv, TypeOK, Database, TablesAligned
<1>4. /\ db'.ledgers = Trim(db.ledgers \union {seq}, seq, window)
      /\ db'.transactions = Trim(db.transactions \union {seq}, seq, window)
      /\ db'.events = Trim(db.events \union {seq}, seq, window)
      /\ db'.guards = db.guards
      /\ db' = [ledgers |-> db'.ledgers, transactions |-> db'.transactions,
                events |-> db'.events, guards |-> db'.guards]
  BY <1>1, <1>2
<1>5. \A s \in db.ledgers : s < seq
  <2> SUFFICES ASSUME NEW s \in db.ledgers PROVE s < seq
    OBVIOUS
  <2>1. Latest(db.ledgers) \in db.ledgers /\ s <= Latest(db.ledgers)
    BY <1>3, LatestIsMax
  <2>2. s \in Nat /\ Latest(db.ledgers) \in Nat
    BY <1>3, <2>1, LedgerSeqIsNat
  <2> QED
    BY <1>2, <2>1, <2>2
<1>6. /\ db'.ledgers \in SUBSET LedgerSeqs /\ seq \in db'.ledgers
      /\ Latest(db'.ledgers) = seq /\ db'.ledgers \subseteq db.ledgers \union {seq}
      /\ \A s \in db.ledgers \union {seq} : s \in db'.ledgers <=> s + window > seq
  <2> DEFINE U == Trim(db.ledgers \union {seq}, seq, window)
  <2>1. /\ U \in SUBSET LedgerSeqs /\ seq \in U /\ Latest(U) = seq
        /\ U \subseteq db.ledgers \union {seq}
        /\ \A s \in db.ledgers \union {seq} : s \in U <=> s + window > seq
    BY <1>2, <1>3, <1>5, TrimNext
  <2>2. db'.ledgers = U
    BY <1>4
  <2> HIDE DEF U
  <2> QED
    BY <2>1, <2>2
<1>7. ASSUME NEW T \in SUBSET LedgerSeqs, IsSuffix(T, db.ledgers)
      PROVE  /\ Trim(T \union {seq}, seq, window) \in SUBSET LedgerSeqs
             /\ IsSuffix(Trim(T \union {seq}, seq, window), db'.ledgers)
  <2> DEFINE U == Trim(T \union {seq}, seq, window)
  <2>1. T \subseteq db.ledgers /\ \A t \in T : t < seq
    BY <1>5, <1>7 DEF IsSuffix
  <2>2. /\ U \in SUBSET LedgerSeqs /\ seq \in U /\ U \subseteq T \union {seq}
        /\ \A s \in T \union {seq} : s \in U <=> s + window > seq
    BY <1>2, <1>3, <2>1, TrimNext
  <2>3. U \subseteq db'.ledgers
    BY <1>6, <2>1, <2>2
  <2>4. ASSUME NEW t \in U, NEW s \in db'.ledgers, t <= s PROVE s \in U
    <3>1. CASE s = seq
      BY <2>2, <3>1
    <3>2. CASE s # seq
      <4>1. s \in db.ledgers /\ s < seq
        BY <1>5, <1>6, <3>2
      <4>2. s \in Nat /\ t \in Nat /\ seq \in Nat
        BY <1>2, <1>6, <2>2, LedgerSeqIsNat
      <4>3. t \in T
        BY <2>2, <2>4, <4>1, <4>2
      <4>4. s \in T
        BY <1>7, <2>4, <4>1, <4>3 DEF IsSuffix
      <4> QED
        BY <1>6, <2>2, <4>1, <4>4
    <3> QED
      BY <3>1, <3>2
  <2> HIDE DEF U
  <2>5. IsSuffix(U, db'.ledgers)
    BY <2>3, <2>4 DEF IsSuffix
  <2> QED
    BY <2>2, <2>5 DEF U
<1>8. /\ db'.transactions \in SUBSET LedgerSeqs /\ db'.events \in SUBSET LedgerSeqs
      /\ IsSuffix(db'.transactions, db'.ledgers) /\ IsSuffix(db'.events, db'.ledgers)
  BY <1>3, <1>4, <1>7
<1>9. Contiguous(db'.ledgers)
  BY <1>2, <1>3, <1>4, TrimContiguous
<1>10. db' \in Database
  BY <1>3, <1>4, <1>6, <1>8 DEF Database
<1> QED
  BY <1>4, <1>6, <1>8, <1>9, <1>10

(* The commit becomes visible while the cache is locked.                    *)
LEMMA CommitTxInv == ASSUME IInv, CommitTx PROVE IInv'
<1>1. /\ pc = "commit" /\ pc' = "publish" /\ wtx' = db' /\ inTx' = FALSE
      /\ UNCHANGED <<cache, fees, mig, seq, tries, fill, outage, window, feeCap, faults,
                     archive, stops>>
  BY DEF CommitTx, procVars, confVars, envVars
<1>2. /\ db' \in Database /\ db'.guards = db.guards
      /\ seq \in db'.ledgers /\ Latest(db'.ledgers) = seq /\ Contiguous(db'.ledgers)
      /\ IsSuffix(db'.transactions, db'.ledgers) /\ IsSuffix(db'.events, db'.ledgers)
  BY CommitTxFacts
<1>3. TypeOK' /\ Counters'
  BY <1>1, <1>2 DEF IInv, TypeOK, Counters, Running
<1>4. TablesAligned' /\ CacheCoherent'
  BY <1>1, <1>2 DEF TablesAligned, CacheCoherent
<1>5. (StoppedClean /\ TxShape /\ FillShape)'
  BY <1>1, <1>2 DEF StoppedClean, TxShape, FillShape, Stopped
<1>6. SeqShape'
  BY <1>1, <1>2 DEF IInv, SeqShape
<1>7. MigrationShape'
  BY <1>1, <1>2 DEF IInv, MigrationShape, Running, Starting, Migrations
<1> QED
  BY <1>2, <1>3, <1>4, <1>5, <1>6, <1>7 DEF IInv

(* The cache takes the sequence number that was committed.                  *)
LEMMA UpdateCacheInv == ASSUME IInv, UpdateCache PROVE IInv'
<1> USE DEF UpdateCache, confVars, envVars
<1>1. seq \in LedgerSeqs /\ Latest(db.ledgers) = seq
  BY DEF IInv, SeqShape
<1>2. TypeOK' /\ Counters'
  BY <1>1 DEF IInv, TypeOK, Counters, Running
<1>3. Contiguous(db.ledgers)' /\ TablesAligned' /\ CacheCoherent'
  BY <1>1 DEF IInv, TablesAligned, CacheCoherent
<1>4. (StoppedClean /\ TxShape /\ FillShape /\ SeqShape)'
  BY <1>1 DEF IInv, StoppedClean, TxShape, FillShape, SeqShape, Stopped
<1>5. MigrationShape'
  BY DEF IInv, MigrationShape, Running, Starting
<1> QED
  BY <1>2, <1>3, <1>4, <1>5 DEF IInv

(* run() moves on to the ledger after the one it committed.                 *)
LEMMA CheckpointInv == ASSUME IInv, Checkpoint PROVE IInv'
<1> USE DEF Checkpoint, confVars, envVars
<1>1. seq \in LedgerSeqs /\ Latest(db.ledgers) = seq
  BY DEF IInv, SeqShape
<1>2. seq' \in 0 .. MaxLedger + 1 /\ seq' >= FirstLedger /\ seq' = Latest(db.ledgers) + 1
  BY <1>1, LedgerBounds DEF LedgerSeqs
<1>3. Counters'
  BY RetryBounds DEF IInv, Counters
<1>4. TypeOK'
  BY <1>2, <1>3 DEF IInv, TypeOK, Counters, Running
<1>5. Contiguous(db.ledgers)' /\ TablesAligned' /\ CacheCoherent'
  BY DEF IInv, TablesAligned, CacheCoherent, Stopped
<1>6. (StoppedClean /\ TxShape /\ FillShape /\ SeqShape)'
  BY <1>2 DEF IInv, StoppedClean, TxShape, FillShape, SeqShape, Stopped
<1>7. MigrationShape'
  BY DEF IInv, MigrationShape, Running, Starting
<1> QED
  BY <1>3, <1>4, <1>5, <1>6, <1>7 DEF IInv

(* A call of run() fails.                                                   *)
LEMMA RunFailsInv == ASSUME IInv, RunFails PROVE IInv'
<1>1. /\ pc \in Running \ {"publish"} /\ Retried(tries) /\ outage' = outage + 1
      /\ faults < MaxFaults /\ faults' = faults + 1
      /\ UNCHANGED <<db, confVars, envVars>>
  BY DEF RunFails, Fault, Sites, Starting, Running
<1>2. tries \in 0 .. MaxRetries /\ tries' \in 0 .. MaxRetries
  BY <1>1, RetryBounds DEF Retried, IInv, Counters
<1>3. Counters'
  BY <1>1, <1>2, RetryBounds DEF IInv, Counters, envVars
<1> QED
  BY <1>1, <1>2, <1>3, RetriedInv

-----------------------------------------------------------------------------
(* The handlers, the outside world, and all of it together.                 *)

(* What a step of a handler may do.                                         *)
HandlerStep(h, to) ==
    /\ pc \in Running
    /\ to.at = "store" => db.ledgers # {}
    /\ fill' = [fill EXCEPT ![h] = to]
    /\ UNCHANGED <<db, wtx, inTx, pc, cache, fees, mig, seq, tries, outage, window, feeCap,
                   faults, archive, stops>>

LEMMA HandlerStepInv ==
    ASSUME IInv, NEW h \in Handlers, NEW to \in FillType, HandlerStep(h, to) PROVE IInv'
<1> USE DEF HandlerStep
<1>1. fill \in [Handlers -> FillType] /\ fill' \in [Handlers -> FillType]
  BY DEF IInv, TypeOK, FillType
<1>2. TypeOK' /\ Counters'
  BY <1>1 DEF IInv, TypeOK, Counters, FillType
<1>3. Contiguous(db.ledgers)' /\ TablesAligned' /\ CacheCoherent'
  BY DEF IInv, TablesAligned, CacheCoherent
<1>4. (StoppedClean /\ SeqShape /\ TxShape)'
  BY DEF IInv, StoppedClean, SeqShape, TxShape, Stopped, Running
<1>5. FillShape'
  BY <1>1 DEF IInv, FillShape
<1>6. MigrationShape'
  BY DEF IInv, MigrationShape, Running, Starting
<1> QED
  BY <1>2, <1>3, <1>4, <1>5, <1>6 DEF IInv

(* What a handler can read.                                                 *)
LEMMA HandlerReads ==
    ASSUME IInv
    PROVE  /\ fill \in [Handlers -> FillType] /\ cache \in LedgerSeqs \union {0}
           /\ Latest(db.ledgers) \in LedgerSeqs \union {0}
           /\ Latest(db.ledgers) = 0 <=> db.ledgers = {}
           /\ CacheFree => cache = Latest(db.ledgers)
<1>1. /\ db.ledgers \in SUBSET LedgerSeqs /\ fill \in [Handlers -> FillType]
      /\ cache \in LedgerSeqs \union {0}
  BY DEF IInv, TypeOK, Database, FillType
<1>2. CacheFree => cache = Latest(db.ledgers)
  BY DEF IInv, CacheCoherent, CacheFree, Running, Stopped
<1> QED
  BY <1>1, <1>2, LatestType

(* A handler never changes the cache: it is only empty while the database   *)
(* is, and then there is nothing to fill it with.                           *)
LEMMA FillCacheSteps ==
    ASSUME IInv, NEW h \in Handlers, FillCache(h)
    PROVE  \E to \in FillType : HandlerStep(h, to)
<1>1. /\ pc \in Running
      /\ UNCHANGED <<db, wtx, inTx, pc, fees, mig, seq, tries, outage, window, feeCap,
                     faults, archive, stops>>
  BY DEF FillCache, MissCache, RangeFromCache, ScanLedgers, StoreIfEmpty, FillStep,
         CacheFree, confVars, envVars
<1>2. CASE MissCache(h)
  BY <1>1, <1>2 DEF MissCache, FillStep, HandlerStep, FillType, HandlerStates
<1>3. CASE RangeFromCache(h)
  <2>1. cache' = cache /\ CacheFree
    BY <1>3 DEF RangeFromCache
  <2>2. CASE cache # 0
    <3> DEFINE to == [at |-> "store", val |-> cache]
    <3>1. fill' = [fill EXCEPT ![h] = to] /\ to \in FillType
      BY <1>3, <2>2, HandlerReads DEF RangeFromCache, FillStep, FillType, HandlerStates
    <3>2. db.ledgers # {}
      BY <2>1, <2>2, HandlerReads
    <3> QED
      BY <1>1, <2>1, <3>1, <3>2 DEF HandlerStep
  <2>3. CASE cache = 0
    <3> DEFINE to == [at |-> "scan", val |-> 0]
    <3>1. fill' = [fill EXCEPT ![h] = to] /\ to \in FillType /\ to.at # "store"
      BY <1>3, <2>3 DEF RangeFromCache, FillStep, FillType, HandlerStates
    <3> QED
      BY <1>1, <2>1, <3>1 DEF HandlerStep
  <2> QED
    BY <2>2, <2>3
<1>4. CASE ScanLedgers(h)
  BY <1>1, <1>4, HandlerReads DEF ScanLedgers, FillStep, Idle, HandlerStep, FillType,
     HandlerStates
<1>5. CASE StoreIfEmpty(h)
  <2>1. db.ledgers # {}
    BY <1>5 DEF StoreIfEmpty, FillStep, IInv, FillShape
  <2>2. cache # 0
    BY <1>5, <2>1, HandlerReads DEF StoreIfEmpty
  <2> QED
    BY <1>1, <1>5, <2>2 DEF StoreIfEmpty, FillStep, Idle, HandlerStep, FillType, HandlerStates
<1> QED
  BY <1>2, <1>3, <1>4, <1>5 DEF FillCache

(* The handler of getFeeStats only reads.                                   *)
LEMMA GetFeeStatsSteps ==
    ASSUME IInv, NEW h \in Handlers, GetFeeStats(h)
    PROVE  \E to \in FillType : HandlerStep(h, to)
<1> USE DEF FillStep, HandlerStep, FillType, HandlerStates, CacheFree, confVars, envVars
<1>1. CASE BeginFeeStats(h)
  <2>1. PICK latest \in {cache, 0} :
          FillStep(h, "idle", IF cache # 0 THEN [at |-> "soroban", val |-> latest]
                              ELSE [at |-> "query", val |-> 0])
    BY <1>1 DEF BeginFeeStats
  <2> DEFINE to == IF cache # 0 THEN [at |-> "soroban", val |-> latest]
                   ELSE [at |-> "query", val |-> 0]
  <2>2. to \in FillType /\ to.at # "store"
    BY HandlerReads
  <2> QED
    BY <1>1, <2>1, <2>2 DEF BeginFeeStats
<1>2. CASE QueryFeeStats(h)
  BY <1>2, HandlerReads DEF QueryFeeStats
<1>3. CASE ReadSorobanFees(h)
  <2> DEFINE to == [at |-> "classic", val |-> fill[h].val]
  <2>1. to \in FillType
    BY HandlerReads
  <2> QED
    BY <1>3, <2>1 DEF ReadSorobanFees
<1>4. CASE ReadClassicFees(h)
  BY <1>4 DEF ReadClassicFees, Idle
<1> QED
  BY <1>1, <1>2, <1>3, <1>4 DEF GetFeeStats

(* The process is stopped from outside.                                     *)
LEMMA StopInv == ASSUME IInv, Stop PROVE IInv'
<1>1. Halted("down") /\ UNCHANGED <<db, confVars>>
  BY DEF Stop
<1>2. Counters'
  BY RetryBounds DEF Stop, IInv, Counters
<1> QED
  BY <1>1, <1>2, HaltedInv DEF Stopped

(* A checkpoint appears in the history archives.                            *)
LEMMA PublishArchiveInv == ASSUME IInv, PublishArchive PROVE IInv'
<1>1. /\ archive' \in LedgerSeqs
      /\ UNCHANGED <<db, wtx, inTx, pc, cache, fees, mig, seq, tries, fill, outage, window,
                     feeCap, faults, stops>>
  BY DEF PublishArchive, procVars, confVars
<1>2. TypeOK' /\ Counters'
  BY <1>1 DEF IInv, TypeOK, Counters
<1>3. Contiguous(db.ledgers)' /\ TablesAligned' /\ CacheCoherent'
  BY <1>1 DEF IInv, TablesAligned, CacheCoherent
<1>4. (StoppedClean /\ SeqShape /\ TxShape /\ FillShape)'
  BY <1>1 DEF IInv, StoppedClean, SeqShape, TxShape, FillShape
<1>5. MigrationShape'
  BY <1>1 DEF IInv, MigrationShape, MigratedSoFar
<1> QED
  BY <1>2, <1>3, <1>4, <1>5 DEF IInv

(* A step that changes nothing.                                             *)
LEMMA StutterInv == ASSUME IInv, UNCHANGED vars PROVE IInv'
<1>1. UNCHANGED <<db, wtx, inTx, pc, cache, fees, mig, seq, tries, fill, outage, window,
                  feeCap, faults, archive, stops>>
  BY DEF vars, procVars, confVars, envVars
<1>2. TypeOK' /\ Counters'
  BY <1>1 DEF IInv, TypeOK, Counters
<1>3. Contiguous(db.ledgers)' /\ TablesAligned' /\ CacheCoherent'
  BY <1>1 DEF IInv, TablesAligned, CacheCoherent
<1>4. (StoppedClean /\ SeqShape /\ TxShape /\ FillShape)'
  BY <1>1 DEF IInv, StoppedClean, SeqShape, TxShape, FillShape
<1>5. MigrationShape'
  BY <1>1 DEF IInv, MigrationShape, MigratedSoFar
<1> QED
  BY <1>2, <1>3, <1>4, <1>5 DEF IInv

(* The invariant is inductive: one step per action.                         *)
LEMMA NextInv == IInv /\ [Next]_vars => IInv'
<1> SUFFICES ASSUME IInv, [Next]_vars PROVE IInv'
  OBVIOUS
<1>1. CASE Start
  BY <1>1, StartInv
<1>2. CASE Startup
  BY <1>2, MigrateLedgerInv, StreamDoneInv, SetGuardInv, CommitMigrationsInv DEF Startup
<1>3. CASE Run
  BY <1>3, GetNextInv, GetLedgerInv, InsertLedgerInv, AppendFeesInv, CommitTxInv,
     UpdateCacheInv, CheckpointInv DEF Run
<1>4. CASE WaitForLedger
  BY <1>4, StutterInv DEF WaitForLedger
<1>5. CASE Faulty
  BY <1>5, StartupFailsInv, SetGuardFailsInv, RunFailsInv DEF Faulty
<1>6. CASE \E h \in Handlers : FillCache(h) \/ GetFeeStats(h)
  BY <1>6, FillCacheSteps, GetFeeStatsSteps, HandlerStepInv
<1>7. CASE Stop
  BY <1>7, StopInv
<1>8. CASE PublishArchive
  BY <1>8, PublishArchiveInv
<1>9. CASE UNCHANGED vars
  BY <1>9, StutterInv
<1> QED
  BY <1>1, <1>2, <1>3, <1>4, <1>5, <1>6, <1>7, <1>8, <1>9 DEF Next

-----------------------------------------------------------------------------
(* The variables keep their types; in particular no fee window outgrows its *)
(* capacity and no retry counter its budget.                                *)
THEOREM TypeCorrect == Spec => []TypeOK
<1>1. IInv => TypeOK
  BY DEF IInv
<1> QED
  BY InitInv, NextInv, <1>1, PTL DEF Spec

(* No order of commits, cache fills, retries and restarts leaves the cache  *)
(* of the latest ledger behind or ahead of the database.                    *)
THEOREM CacheIsCoherent == Spec => []CacheCoherent
<1>1. IInv => CacheCoherent
  BY DEF IInv
<1> QED
  BY InitInv, NextInv, <1>1, PTL DEF Spec

(* The transactions and events tables always cover the newest ledgers and   *)
(* only stored ones.                                                        *)
THEOREM TablesAreAligned == Spec => []TablesAligned
<1>1. IInv => TablesAligned
  BY DEF IInv
<1> QED
  BY InitInv, NextInv, <1>1, PTL DEF Spec

-----------------------------------------------------------------------------
(* Ingestion implements LedgerStore.  Start opens the store, CommitTx       *)
(* commits, UpdateCache publishes, each end of the process exits; all other *)
(* steps leave the store alone.                                             *)

(* The initial states are initial states of the store.                      *)
LEMMA InitRefines == Init => Store!StoreInit
<1> SUFFICES ASSUME Init PROVE Store!StoreInit
  OBVIOUS
<1>1. \E lo, hi \in LedgerSeqs : db.ledgers \in {{}, lo .. hi}
  BY DEF Init
<1> QED
  BY <1>1 DEF Init, Store!StoreInit, Stopped, LedgerSeqs, Store!LedgerSeqs

(* The end of a running process is Exit.                                    *)
LEMMA HaltedRefines ==
    ASSUME pc \in Starting \union Running, NEW how \in Stopped, Halted(how),
           UNCHANGED <<db, confVars>>
    PROVE  Store!StoreNext
<1>1. Store!Exit
  BY DEF Store!Exit, Halted, confVars, Stopped, Starting, Running
<1> QED
  BY <1>1 DEF Store!StoreNext

(* A step between two points of a running process at which the cache is not *)
(* locked, and that changes neither ledgers nor cache, is not seen.         *)
LEMMA InternalStep ==
    ASSUME pc \notin Stopped \union {"publish"}, pc' \notin Stopped \union {"publish"},
           UNCHANGED <<cache, window>>, db'.ledgers = db.ledgers
    PROVE  UNCHANGED Store!storeVars
BY DEF Store!storeVars

(* A failed attempt of run() is an Exit or not seen.                        *)
LEMMA RetriedRefines ==
    ASSUME pc \in Running \ {"publish"}, NEW used, Retried(used), UNCHANGED <<db, confVars>>
    PROVE  [Store!StoreNext]_(Store!storeVars)
<1>1. CASE ~(used < MaxRetries)
  BY <1>1, HaltedRefines DEF Retried, Stopped
<1>2. CASE used < MaxRetries
  BY <1>2, InternalStep DEF Retried, confVars, Running, Stopped
<1> QED
  BY <1>1, <1>2

(* The steps of a starting process after Start.                             *)
LEMMA StartupRefines ==
    ASSUME IInv, Startup PROVE [Store!StoreNext]_(Store!storeVars)
<1>1. CASE MigrateLedger
  <2>1. pc = "migrate" /\ UNCHANGED <<db, confVars>>
    BY <1>1 DEF MigrateLedger
  <2>2. Halted("down") \/ (UNCHANGED <<pc, cache>>)
    BY <1>1 DEF MigrateLedger
  <2> QED
    BY <2>1, <2>2, HaltedRefines, InternalStep DEF Stopped, Starting, confVars
<1>2. CASE StreamDone
  BY <1>2, InternalStep DEF StreamDone, procVars, confVars, Stopped
<1>3. ASSUME NEW m \in Migrations, SetGuard(m) PROVE UNCHANGED Store!storeVars
  <2>1. pc = "guard" /\ UNCHANGED <<pc, cache, window>>
    BY <1>3 DEF SetGuard, confVars
  <2>2. db'.ledgers = db.ledgers
    BY <1>3 DEF SetGuard, IInv, TypeOK, Database
  <2> QED
    BY <2>1, <2>2, InternalStep DEF Stopped
<1>4. CASE CommitMigrations
  <2>1. CASE inTx
    <3>1. wtx.ledgers = db.ledgers
      BY <1>4, <2>1 DEF CommitMigrations, IInv, MigrationShape, Starting
    <3> QED
      BY <1>4, <2>1, <3>1, InternalStep DEF CommitMigrations, confVars, Stopped
  <2>2. CASE ~inTx
    BY <1>4, <2>2, HaltedRefines DEF CommitMigrations, Stopped, Starting
  <2> QED
    BY <2>1, <2>2
<1> QED
  BY <1>1, <1>2, <1>3, <1>4 DEF Startup

(* The steps of run().                                                      *)
LEMMA RunRefines ==
    ASSUME IInv, Run PROVE [Store!StoreNext]_(Store!storeVars)
<1>1. CASE GetNextLedgerSequence
  <2>1. pc = "next" /\ UNCHANGED <<db, confVars>>
    BY <1>1 DEF GetNextLedgerSequence
  <2>2. cache = Latest(db.ledgers)
    BY <2>1 DEF IInv, CacheCoherent, Stopped
  <2>3. Retried(0) \/ (pc' = "get" /\ cache' = cache)
    BY <1>1, <2>2 DEF GetNextLedgerSequence
  <2> QED
    BY <2>1, <2>3, RetriedRefines, InternalStep DEF Running, Stopped, confVars
<1>2. CASE GetLedger
  BY <1>2, InternalStep DEF GetLedger, procVars, confVars, Stopped
<1>3. CASE InsertLedger
  <2>1. /\ pc = "insert" /\ UNCHANGED <<db, confVars>>
        /\ Retried(tries) \/ (pc' = "classic" /\ cache' = cache)
    BY <1>3 DEF InsertLedger, InsertTransactions, InsertEvents
  <2> QED
    BY <2>1, RetriedRefines, InternalStep DEF Running, Stopped, confVars
<1>4. ASSUME NEW kind, NEW next, AppendFees(kind, next),
             <<kind, next>> \in {<<"classic", "soroban">>, <<"soroban", "commit">>}
      PROVE  [Store!StoreNext]_(Store!storeVars)
  <2>1. /\ pc \in {"classic", "soroban"} /\ UNCHANGED <<db, confVars>>
        /\ Retried(tries) \/ (pc' \in {"soroban", "commit"} /\ cache' = cache)
    BY <1>4 DEF AppendFees
  <2> QED
    BY <2>1, RetriedRefines, InternalStep DEF Running, Stopped, confVars
<1>5. CASE CommitTx
  <2>1. pc = "commit" /\ pc' = "publish" /\ UNCHANGED <<cache, window>>
    BY <1>5 DEF CommitTx, procVars, confVars
  <2>2. seq \in LedgerSeqs /\ (db.ledgers # {} => seq = Latest(db.ledgers) + 1)
    BY <2>1 DEF IInv, SeqShape
  <2>3. db'.ledgers = Trim(db.ledgers \union {seq}, seq, window)
    BY <1>5, CommitTxFacts
  <2>4. Store!Commit(seq)
    BY <2>1, <2>2, <2>3 DEF Store!Commit, Store!IsNext, Stopped, Latest, Store!Latest,
                            Trim, Store!Trim
  <2> QED
    BY <2>2, <2>4 DEF Store!StoreNext, LedgerSeqs, Store!LedgerSeqs
<1>6. CASE UpdateCache
  <2>1. Latest(db.ledgers) = seq
    BY <1>6 DEF UpdateCache, IInv, SeqShape
  <2>2. Store!Publish
    BY <1>6, <2>1 DEF UpdateCache, Store!Publish, confVars, Stopped, Latest, Store!Latest
  <2> QED
    BY <2>2 DEF Store!StoreNext
<1>7. CASE Checkpoint
  BY <1>7, InternalStep DEF Checkpoint, confVars, Stopped
<1> QED
  BY <1>1, <1>2, <1>3, <1>4, <1>5, <1>6, <1>7 DEF Run

(* The failed calls.                                                        *)
LEMMA FaultyRefines ==
    ASSUME IInv, Faulty PROVE [Store!StoreNext]_(Store!storeVars)
<1>1. CASE MigrateFails
  BY <1>1, HaltedRefines DEF MigrateFails, Stopped, Starting
<1>2. CASE CommitMigrationsFails
  BY <1>2, HaltedRefines DEF CommitMigrationsFails, Stopped, Starting
<1>3. CASE RunFails
  BY <1>3, RetriedRefines DEF RunFails, Sites, Starting, Running
<1>4. ASSUME NEW m \in Migrations, SetGuardFails(m) PROVE UNCHANGED Store!storeVars
  BY <1>4, InternalStep DEF SetGuardFails, confVars, Stopped
<1> QED
  BY <1>1, <1>2, <1>3, <1>4 DEF Faulty

(* Every step of Ingestion is a step of the store or is not seen by it.     *)
LEMMA NextRefines == IInv /\ [Next]_vars => [Store!StoreNext]_(Store!storeVars)
<1> SUFFICES ASSUME IInv, [Next]_vars PROVE [Store!StoreNext]_(Store!storeVars)
  OBVIOUS
<1>1. CASE Start
  <2>1. Store!Open
    BY <1>1 DEF Start, Store!Open, Stopped, Latest, Store!Latest
  <2> QED
    BY <2>1 DEF Store!StoreNext
<1>2. CASE Startup
  BY <1>2, StartupRefines
<1>3. CASE Run
  BY <1>3, RunRefines
<1>4. CASE WaitForLedger
  BY <1>4 DEF WaitForLedger, vars, procVars, confVars, Store!storeVars
<1>5. CASE Faulty
  BY <1>5, FaultyRefines
<1>6. ASSUME NEW h \in Handlers, FillCache(h) \/ GetFeeStats(h)
      PROVE  UNCHANGED Store!storeVars
  <2>1. PICK to \in FillType : HandlerStep(h, to)
    BY <1>6, FillCacheSteps, GetFeeStatsSteps
  <2> QED
    BY <2>1 DEF HandlerStep, Store!storeVars
<1>7. CASE Stop
  BY <1>7, HaltedRefines DEF Stop, Stopped
<1>8. CASE PublishArchive
  BY <1>8 DEF PublishArchive, procVars, confVars, Store!storeVars
<1>9. CASE UNCHANGED vars
  BY <1>9 DEF vars, procVars, confVars, Store!storeVars
<1> QED
  BY <1>1, <1>2, <1>3, <1>4, <1>5, <1>6, <1>7, <1>8, <1>9 DEF Next

(* The ingestion service, with its retries, crashes and concurrent cache    *)
(* fills, is an implementation of the store: the request handlers may rely  *)
(* on everything that is proved of LedgerStore.                             *)
THEOREM IngestionRefinesStore == Spec => StoreRefined
BY InitInv, NextInv, InitRefines, NextRefines, PTL DEF Spec, StoreRefined, Store!StoreSpec

-----------------------------------------------------------------------------
(* The fee windows.                                                         *)

Kinds == {"classic", "soroban"}

(* Window w of capacity cap holds the newest ledgers of S.                  *)
HoldsNewest(w, cap, S) ==
    IF S = {} THEN w.len = 0
    ELSE /\ w.len > 0 /\ EndOf(w) = Latest(S)
         /\ w.len = cap \/ \A s \in S : w.first <= s

(* The ledgers the fee windows are rebuilt from.                            *)
FeeRange ==
    {s \in db.ledgers : s >= FirstToMigrate(Latest(db.ledgers), MaxFeeRetention(feeCap))}

(* While the stream lasts the windows hold what of their range has passed.  *)
FeesMigrated ==
    pc = "migrate" =>
       /\ IsSuffix(mig.stream, db.ledgers)
       /\ \A k \in Kinds : HoldsNewest(fees[k], feeCap[k], FeeRange \ mig.stream)

(* After it they hold the newest stored ledgers.                            *)
FeesBuilt == pc = "guard" => \A k \in Kinds : HoldsNewest(fees[k], feeCap[k], db.ledgers)

(* The windows end at one ledger, except between the two appends, where     *)
(* only the second window still lacks the ledger being ingested; after them *)
(* both end at it.                                                          *)
FeesLevel ==
    /\ pc \in Running \ {"soroban"} =>
         /\ fees.classic.len = 0 <=> fees.soroban.len = 0
         /\ EndOf(fees.classic) = EndOf(fees.soroban)
    /\ pc = "soroban" =>
         /\ fees.classic.len > 0 /\ EndOf(fees.classic) = seq
         /\ Appendable(fees.soroban, seq)
    /\ pc \in {"commit", "publish", "checkpoint"} =>
         \A k \in Kinds : fees[k].len > 0 /\ EndOf(fees[k]) = seq

(* On a database that has ledgers no window is empty or lags behind it.     *)
FeesTrack ==
    pc \in Running /\ db.ledgers # {} =>
       \A k \in Kinds :
          /\ fees[k].len > 0
          /\ EndOf(fees[k]) \in {Latest(db.ledgers), Latest(db.ledgers) + 1}
          /\ fees[k].len = feeCap[k] \/ \A s \in db.ledgers : fees[k].first <= s

(* The inductive invariant of the fee windows, on top of IInv.              *)
FeeInv == FeesMigrated /\ FeesBuilt /\ FeesLevel /\ FeesTrack /\ FeeStatsFresh

(* The types of two windows f of capacities c.                              *)
LEMMA FeeTypes ==
    ASSUME NEW c \in FeeRetentions, NEW f \in FeesType(c), NEW k \in Kinds
    PROVE  /\ c[k] \in Nat \ {0} /\ f[k] \in FeeWindowType(c[k])
           /\ f[k].first \in Nat /\ f[k].len \in Nat /\ EndOf(f[k]) \in Nat
<1>1. c[k] \in Nat \ {0} /\ f[k] \in FeeWindowType(c[k])
  BY FeeCapType DEF FeesType, Kinds
<1>2. f[k].first \in Nat /\ f[k].len \in Nat
  BY <1>1, LedgerBounds DEF FeeWindowType
<1> QED
  BY <1>1, <1>2 DEF EndOf

(* A push of the next ledger ends the window at it, and either fills the    *)
(* window or keeps what was in it.                                          *)
LEMMA PushedEnd ==
    ASSUME NEW cap \in Nat \ {0}, NEW w \in FeeWindowType(cap), NEW s \in LedgerSeqs,
           Appendable(w, s)
    PROVE  LET p == Pushed(w, s, cap)
           IN  /\ p.len > 0 /\ EndOf(p) = s /\ EndOf(w) <= s /\ p.first <= s
               /\ w.len > 0 => EndOf(w) = s - 1
               /\ \/ p.len = cap
                  \/ w.len = 0
                  \/ w.len > 0 /\ w.len # cap /\ p.first = w.first
<1>1. s \in Nat /\ s # 0
  BY LedgerSeqIsNat
<1>2. /\ w.first \in Nat /\ w.len \in Nat /\ w.len <= cap
      /\ w = [first |-> w.first, len |-> w.len]
  BY LedgerBounds DEF FeeWindowType
<1>3. CASE w.len = 0
  BY <1>1, <1>2, <1>3 DEF Pushed, EndOf
<1>4. CASE w.len # 0 /\ w.len < cap
  BY <1>1, <1>2, <1>4 DEF Pushed, EndOf, Appendable
<1>5. CASE w.len # 0 /\ ~(w.len < cap)
  BY <1>1, <1>2, <1>5 DEF Pushed, EndOf, Appendable
<1> QED
  BY <1>2, <1>3, <1>4, <1>5

(* What the handlers hold stays covered when no window moves back.          *)
LEMMA FreshKept ==
    ASSUME IInv, IInv', FeeStatsFresh, fill' = fill,
           \A k \in Kinds : EndOf(fees[k]) <= EndOf(fees'[k])
    PROVE  FeeStatsFresh'
<1>1. \A h \in Handlers : fill[h].val \in Nat
  BY LedgerSeqIsNat DEF IInv, TypeOK, FillType
<1>2. /\ EndOf(fees.classic) \in Nat /\ EndOf(fees.soroban) \in Nat
      /\ EndOf(fees'.classic) \in Nat /\ EndOf(fees'.soroban) \in Nat
  <2>1. \A k \in Kinds : EndOf(fees[k]) \in Nat /\ EndOf(fees'[k]) \in Nat
    BY FeeTypes DEF IInv, TypeOK
  <2> QED
    BY <2>1 DEF Kinds
<1>3. EndOf(fees.classic) <= EndOf(fees'.classic) /\ EndOf(fees.soroban) <= EndOf(fees'.soroban)
  BY DEF Kinds
<1> QED
  BY <1>1, <1>2, <1>3 DEF FeeStatsFresh

(* Initially nothing runs.                                                  *)
LEMMA InitFees == Init => FeeInv
BY DEF Init, FeeInv, FeesMigrated, FeesBuilt, FeesLevel, FeesTrack, FeeStatsFresh, Running,
       Idle

(* Nothing of the windows and of the handlers' reads survives the process.  *)
LEMMA HaltedFees == ASSUME NEW how \in Stopped, Halted(how) PROVE FeeInv'
BY DEF Halted, Stopped, FeeInv, FeesMigrated, FeesBuilt, FeesLevel, FeesTrack,
       FeeStatsFresh, Running, Idle

(* A retry finds both windows where the failed attempt left them: it fails  *)
(* between the two appends only if the second append is refused, which      *)
(* FeesLevel excludes.                                                      *)
LEMMA RetriedFees ==
    ASSUME IInv, IInv', FeeInv, pc \in Running \ {"soroban"},
           NEW used \in 0 .. MaxRetries, Retried(used), UNCHANGED <<db, confVars>>
    PROVE  FeeInv'
<1>1. CASE ~(used < MaxRetries)
  BY <1>1, HaltedFees DEF Retried, Stopped
<1>2. CASE used < MaxRetries
  <2>1. pc' = "next" /\ UNCHANGED <<db, fees, fill, feeCap>>
    BY <1>2 DEF Retried, confVars
  <2>2. (FeesMigrated /\ FeesBuilt)'
    BY <2>1 DEF FeesMigrated, FeesBuilt
  <2>3. FeesLevel' /\ FeesTrack'
    BY <2>1 DEF FeeInv, FeesLevel, FeesTrack, Running
  <2>4. FeeStatsFresh'
    BY <2>1 DEF FeeInv, FeeStatsFresh
  <2> QED
    BY <2>2, <2>3, <2>4 DEF FeeInv
<1> QED
  BY <1>1, <1>2

(* The stream of a starting process covers the range of the fee windows.    *)
LEMMA StartFees == ASSUME IInv, IInv', FeeInv, Start PROVE FeeInv'
<1> DEFINE latest == Latest(db.ledgers)
           feeFirst == FirstToMigrate(latest, MaxFeeRetention(feeCap'))
           r == FirstToMigrate(latest, window')
<1>1. PICK first \in {feeFirst, r} :
         /\ first = feeFirst \/ r <= feeFirst
         /\ mig'.stream = {s \in db.ledgers : s >= first}
  BY DEF Start, StreamLedgers
<1>2. /\ pc \in Stopped /\ pc' = "migrate" /\ fees' = fees /\ fill' = fill /\ db' = db
      /\ window' \in RetentionWindows /\ feeCap' \in FeeRetentions
  BY DEF Start
<1>3. fees = EmptyFees /\ \A h \in Handlers : fill[h] = Idle
  BY <1>2 DEF IInv, StoppedClean
<1>4. feeFirst \in Nat /\ r \in Nat
  <2>1. latest \in Nat
    BY LatestType DEF IInv, TypeOK, Database
  <2>2. window' \in Nat /\ MaxFeeRetention(feeCap') \in Nat
    BY <1>2, WindowsArePositive, FeeCapType DEF MaxFeeRetention
  <2> QED
    BY <2>1, <2>2, FirstToMigrateType
<1>5. \A s \in db.ledgers : s \in Nat
  BY LedgerSeqIsNat DEF IInv, TypeOK, Database
<1>6. first <= feeFirst /\ first \in Nat
  BY <1>1, <1>4
<1> HIDE DEF feeFirst, r
<1>7. IsSuffix(mig'.stream, db'.ledgers)
  BY <1>1, <1>2, <1>5, <1>6 DEF IsSuffix
<1>8. FeeRange' \ mig'.stream = {}
  <2>1. FeeRange' = {s \in db.ledgers : s >= feeFirst}
    BY <1>2 DEF FeeRange, feeFirst
  <2> QED
    BY <1>1, <1>4, <1>5, <1>6, <2>1
<1>9. FeesMigrated'
  BY <1>2, <1>3, <1>7, <1>8 DEF FeesMigrated, HoldsNewest, EmptyFees, EmptyWindow, Kinds
<1>10. (FeesBuilt /\ FeesLevel /\ FeesTrack)'
  BY <1>2 DEF FeesBuilt, FeesLevel, FeesTrack, Running
<1>11. FeeStatsFresh'
  BY <1>2, <1>3 DEF FeeStatsFresh, Idle
<1> QED
  BY <1>9, <1>10, <1>11 DEF FeeInv

(* The ledger that comes next in the stream follows the ledgers of the fee  *)
(* range that have passed.                                                  *)
LEMMA StreamInOrder ==
    ASSUME NEW L \in SUBSET LedgerSeqs, Contiguous(L), NEW S, S # {}, IsSuffix(S, L),
           NEW first \in Nat, Oldest(S) >= first
    PROVE  LET s == Oldest(S)
               Done == {t \in L : t >= first} \ S
           IN  /\ s \in LedgerSeqs
               /\ {t \in L : t >= first} \ (S \ {s}) = Done \union {s}
               /\ \A t \in Done : t < s
               /\ Done # {} => Latest(Done) = s - 1
<1> DEFINE s == Oldest(S)
           Done == {t \in L : t >= first} \ S
<1>1. S \subseteq L /\ \A t \in S : \A u \in L : t <= u => u \in S
  BY DEF IsSuffix
<1>2. \A t \in L : t \in Nat
  BY LedgerSeqIsNat
<1>3. s \in S /\ \A t \in S : s <= t
  BY <1>1, <1>2, OldestIsMin
<1>4. s \in L /\ s \in LedgerSeqs /\ s \in Nat /\ s >= first
  BY <1>1, <1>2, <1>3
<1> HIDE DEF s
<1>5. \A t \in Done : t < s
  BY <1>1, <1>2, <1>3, <1>4
<1>6. {t \in L : t >= first} \ (S \ {s}) = Done \union {s}
  BY <1>3, <1>4
<1>7. ASSUME Done # {} PROVE Latest(Done) = s - 1
  <2>1. PICK d \in Done : d \in L /\ d >= first /\ d < s /\ d \in Nat
    BY <1>2, <1>5, <1>7
  <2>2. s - 1 \in L
    <3>1. s - 1 \in d .. s
      BY <1>4, <2>1
    <3> QED
      BY <1>4, <2>1, <3>1 DEF Contiguous
  <2>3. s - 1 \notin S
    BY <1>3, <1>4
  <2>4. s - 1 \in Done
    BY <1>4, <2>1, <2>2, <2>3
  <2>5. \A t \in Done : t <= s - 1
    BY <1>2, <1>4, <1>5
  <2>6. Done \in SUBSET Int
    BY <1>2
  <2> QED
    BY <2>4, <2>5, <2>6, LatestIs
<1> QED
  BY <1>4, <1>5, <1>6, <1>7 DEF s

(* A window that holds the newest of the ledgers passed takes the next one. *)
LEMMA HoldsNext ==
    ASSUME NEW cap \in Nat \ {0}, NEW w \in FeeWindowType(cap), NEW S \in SUBSET LedgerSeqs,
           NEW s \in LedgerSeqs, HoldsNewest(w, cap, S),
           \A t \in S : t < s, S # {} => Latest(S) = s - 1
    PROVE  HoldsNewest(Pushed(w, s, cap), cap, S \union {s})
<1>1. w.first \in Nat /\ w.len \in Nat /\ s \in Nat
  BY LedgerBounds, LedgerSeqIsNat DEF FeeWindowType
<1>2. Appendable(w, s)
  BY <1>1 DEF HoldsNewest, Appendable, EndOf
<1> DEFINE p == Pushed(w, s, cap)
<1>3. /\ p.len > 0 /\ EndOf(p) = s /\ p.first <= s
      /\ \/ p.len = cap
         \/ w.len = 0
         \/ w.len > 0 /\ w.len # cap /\ p.first = w.first
  BY <1>2, PushedEnd
<1>4. \A t \in S : t \in Nat
  BY LedgerSeqIsNat
<1>5. Latest(S \union {s}) = s
  BY <1>1, <1>4, LatestIs
<1> HIDE DEF p
<1>6. p.len = cap \/ \A t \in S \union {s} : p.first <= t
  BY <1>1, <1>3 DEF HoldsNewest
<1> QED
  BY <1>3, <1>5, <1>6 DEF HoldsNewest, p

(* The ledger goes into both windows, or is not in their range.             *)
LEMMA MigrateLedgerFees == ASSUME IInv, IInv', FeeInv, MigrateLedger PROVE FeeInv'
<1> DEFINE s == Oldest(mig.stream)
           first == FirstToMigrate(Latest(db.ledgers), MaxFeeRetention(feeCap))
           toFees == s >= first
           ok == toFees => Appendable(fees.classic, s) /\ Appendable(fees.soroban, s)
<1>1. CASE ~ok
  BY <1>1, HaltedFees DEF MigrateLedger, Stopped
<1>2. CASE ok
  <2>1. /\ pc = "migrate" /\ pc' = "migrate" /\ mig.stream # {}
        /\ fees' = IF toFees THEN PushedFees(s) ELSE fees
        /\ mig'.stream = mig.stream \ {s}
        /\ UNCHANGED <<db, fill, feeCap>>
    BY <1>2 DEF MigrateLedger, confVars, IInv, TypeOK
  <2>2. /\ db.ledgers \in SUBSET LedgerSeqs /\ Contiguous(db.ledgers)
        /\ IsSuffix(mig.stream, db.ledgers)
        /\ \A k \in Kinds : HoldsNewest(fees[k], feeCap[k], FeeRange \ mig.stream)
        /\ \A h \in Handlers : fill[h] = Idle
    BY <2>1 DEF IInv, TypeOK, Database, FeeInv, FeesMigrated, MigrationShape, Starting
  <2>3. first \in Nat
    <3>1. Latest(db.ledgers) \in Nat /\ MaxFeeRetention(feeCap) \in Nat
      BY <2>2, LatestType, FeeCapType DEF IInv, TypeOK, MaxFeeRetention
    <3> QED
      BY <3>1, FirstToMigrateType
  <2>4. FeeRange = {t \in db.ledgers : t >= first} /\ FeeRange' = FeeRange
    BY <2>1 DEF FeeRange
  <2> DEFINE Done == FeeRange \ mig.stream
  <2>5. s \in mig.stream /\ s \in Nat /\ \A t \in mig.stream : t \in Nat /\ s <= t
    <3>1. mig.stream \in SUBSET Nat
      BY <2>2, LedgerSeqIsNat DEF IsSuffix
    <3> QED
      BY <2>1, <3>1, OldestIsMin
  <2>6. \A k \in Kinds : HoldsNewest(fees'[k], feeCap[k], FeeRange \ mig'.stream)
    <3>1. CASE toFees
      <4>1. /\ s \in LedgerSeqs /\ FeeRange \ mig'.stream = Done \union {s}
            /\ \A t \in Done : t < s
            /\ Done # {} => Latest(Done) = s - 1
        <5>1. LET D == {t \in db.ledgers : t >= first} \ mig.stream
              IN  /\ s \in LedgerSeqs
                  /\ {t \in db.ledgers : t >= first} \ (mig.stream \ {s}) = D \union {s}
                  /\ \A t \in D : t < s
                  /\ D # {} => Latest(D) = s - 1
          <6> DEFINE L == db.ledgers
                     S == mig.stream
          <6>1. L \in SUBSET LedgerSeqs /\ Contiguous(L) /\ S # {} /\ IsSuffix(S, L)
            BY <2>1, <2>2
          <6>2. first \in Nat /\ Oldest(S) >= first
            BY <2>3, <3>1
          <6> HIDE DEF L, S, first
          <6>3. LET D == {t \in L : t >= first} \ S
                IN  /\ Oldest(S) \in LedgerSeqs
                    /\ {t \in L : t >= first} \ (S \ {Oldest(S)}) = D \union {Oldest(S)}
                    /\ \A t \in D : t < Oldest(S)
                    /\ D # {} => Latest(D) = Oldest(S) - 1
            BY <6>1, <6>2, StreamInOrder
          <6> QED
            BY <6>3 DEF L, S
        <5> QED
          BY <2>1, <2>4, <5>1
      <4>2. Done \in SUBSET LedgerSeqs
        BY <2>2 DEF FeeRange
      <4> HIDE DEF Done, s
      <4>3. \A k \in Kinds : HoldsNewest(Pushed(fees[k], s, feeCap[k]), feeCap[k], Done \union {s})
        <5> SUFFICES ASSUME NEW k \in Kinds
                     PROVE HoldsNewest(Pushed(fees[k], s, feeCap[k]), feeCap[k], Done \union {s})
          OBVIOUS
        <5>1. feeCap[k] \in Nat \ {0} /\ fees[k] \in FeeWindowType(feeCap[k])
          BY FeeTypes DEF IInv, TypeOK
        <5>2. HoldsNewest(fees[k], feeCap[k], Done)
          BY <2>2 DEF Done
        <5> QED
          BY <4>1, <4>2, <5>1, <5>2, HoldsNext
      <4>4. \A k \in Kinds : fees'[k] = Pushed(fees[k], s, feeCap[k])
        BY <2>1, <3>1 DEF PushedFees, Kinds
      <4> QED
        BY <4>1, <4>3, <4>4
    <3>2. CASE ~toFees
      <4>1. FeeRange \ mig'.stream = Done
        BY <2>1, <2>3, <2>4, <2>5, <3>2
      <4> QED
        BY <2>1, <2>2, <3>2, <4>1
    <3> QED
      BY <3>1, <3>2
  <2>7. IsSuffix(mig'.stream, db.ledgers)
    <3>1. ASSUME NEW t \in mig'.stream, NEW u \in db.ledgers, t <= u PROVE u \in mig'.stream
      <4>1. t \in mig.stream /\ t # s /\ u \in Nat
        BY <2>1, <2>2, <3>1, LedgerSeqIsNat
      <4>2. u \in mig.stream
        BY <2>2, <3>1, <4>1 DEF IsSuffix
      <4>3. u # s
        BY <2>5, <3>1, <4>1
      <4> QED
        BY <2>1, <4>2, <4>3
    <3> QED
      BY <2>1, <2>2, <3>1 DEF IsSuffix
  <2>8. FeesMigrated'
    BY <2>1, <2>4, <2>6, <2>7 DEF FeesMigrated
  <2>9. (FeesBuilt /\ FeesLevel /\ FeesTrack)'
    BY <2>1 DEF FeesBuilt, FeesLevel, FeesTrack, Running
  <2>10. FeeStatsFresh'
    BY <2>1, <2>2 DEF FeeStatsFresh, Idle
  <2> QED
    BY <2>8, <2>9, <2>10 DEF FeeInv
<1> QED
  BY <1>1, <1>2

(* A range as long as the larger window is enough: a window that is not     *)
(* full after it holds all stored ledgers.                                  *)
LEMMA RangeSuffices ==
    ASSUME NEW c \in FeeRetentions, NEW k \in Kinds, NEW w \in FeeWindowType(c[k]),
           NEW L \in SUBSET LedgerSeqs, Contiguous(L),
           HoldsNewest(w, c[k], {s \in L : s >= FirstToMigrate(Latest(L), MaxFeeRetention(c))})
    PROVE  HoldsNewest(w, c[k], L)
<1> DEFINE m == MaxFeeRetention(c)
           first == FirstToMigrate(Latest(L), m)
           R == {s \in L : s >= first}
<1>1. /\ c[k] \in Nat \ {0} /\ m \in Nat /\ c[k] <= m
  BY FeeCapType DEF MaxFeeRetention, Kinds
<1>2. w.first \in Nat /\ w.len \in Nat /\ w.len <= c[k]
  BY <1>1, LedgerBounds DEF FeeWindowType
<1>3. CASE L = {}
  BY <1>3 DEF HoldsNewest
<1>4. CASE L # {}
  <2>1. Latest(L) \in L /\ \A s \in L : s <= Latest(L) /\ s \in Nat /\ FirstLedger <= s
    BY <1>4, LatestIsMax, LedgerSeqIsNat
  <2>2. FirstLedger \in Nat
    BY LedgerBounds
  <2> HIDE DEF m
  <2>3. first \in Nat /\ first <= Latest(L)
    BY <1>1, <2>1, <2>2 DEF FirstToMigrate
  <2>4. Latest(L) \in R
    BY <2>1, <2>3
  <2> HIDE DEF first
  <2>5. Latest(R) = Latest(L)
    BY <2>1, <2>4, LatestIs
  <2>6. w.len > 0 /\ EndOf(w) = Latest(L) /\ (w.len = c[k] \/ \A s \in R : w.first <= s)
    BY <2>4, <2>5 DEF HoldsNewest, first, m
  <2>7. ASSUME w.len # c[k], NEW s \in L PROVE w.first <= s
    <3>1. CASE s >= first
      BY <2>6, <2>7, <3>1
    <3>2. CASE ~(s >= first)
      <4>1. first \in s .. Latest(L) /\ s # first
        BY <2>1, <2>3, <3>2
      <4>2. first \in R
        BY <2>1, <2>3, <4>1 DEF Contiguous
      <4>3. w.first <= first
        BY <2>6, <2>7, <4>2
      <4>4. first = Latest(L) - m
        BY <2>1, <2>2, <2>3, <3>2 DEF FirstToMigrate, first
      <4>5. w.first + w.len - 1 = Latest(L)
        BY <1>2, <2>6 DEF EndOf
      <4> QED
        BY <1>1, <1>2, <2>1, <4>3, <4>4, <4>5
    <3> QED
      BY <3>1, <3>2
  <2> QED
    BY <1>4, <2>6, <2>7 DEF HoldsNewest
<1> QED
  BY <1>3, <1>4

(* The stream is over: the windows hold the newest stored ledgers.          *)
LEMMA StreamDoneFees == ASSUME IInv, FeeInv, StreamDone PROVE FeeInv'
<1>1. /\ pc = "migrate" /\ pc' = "guard" /\ mig.stream = {}
      /\ UNCHANGED <<db, fees, feeCap, fill>>
  BY DEF StreamDone, procVars, confVars
<1>2. /\ db.ledgers \in SUBSET LedgerSeqs /\ Contiguous(db.ledgers)
      /\ feeCap \in FeeRetentions /\ fees \in FeesType(feeCap)
      /\ \A h \in Handlers : fill[h] = Idle
  BY <1>1 DEF IInv, TypeOK, Database, MigrationShape, Starting
<1>3. \A k \in Kinds : HoldsNewest(fees[k], feeCap[k], db.ledgers)
  <2> SUFFICES ASSUME NEW k \in Kinds PROVE HoldsNewest(fees[k], feeCap[k], db.ledgers)
    OBVIOUS
  <2>1. fees[k] \in FeeWindowType(feeCap[k])
    BY <1>2, FeeTypes
  <2>2. FeeRange \ mig.stream = FeeRange
    BY <1>1
  <2>3. HoldsNewest(fees[k], feeCap[k], FeeRange)
    BY <1>1, <2>2 DEF FeeInv, FeesMigrated
  <2> QED
    BY <1>2, <2>1, <2>3, RangeSuffices DEF FeeRange
<1>4. FeesBuilt'
  BY <1>1, <1>3 DEF FeesBuilt
<1>5. (FeesMigrated /\ FeesLevel /\ FeesTrack)'
  BY <1>1 DEF FeesMigrated, FeesLevel, FeesTrack, Running
<1>6. FeeStatsFresh'
  BY <1>1, <1>2 DEF FeeStatsFresh, Idle
<1> QED
  BY <1>4, <1>5, <1>6 DEF FeeInv

(* The guards and the commit of the migrations leave the ledgers and the    *)
(* windows alone.                                                           *)
LEMMA GuardFees ==
    ASSUME IInv, FeeInv,
           \/ \E m \in Migrations : SetGuard(m) \/ SetGuardFails(m)
           \/ CommitMigrations
    PROVE  FeeInv'
<1>1. CASE CommitMigrations /\ ~inTx
  BY <1>1, HaltedFees DEF CommitMigrations, Stopped
<1>2. CASE ~(CommitMigrations /\ ~inTx)
  <2>1. /\ pc = "guard" /\ pc' \in {"guard", "next"} /\ UNCHANGED <<fees, feeCap, fill>>
    BY <1>2 DEF SetGuard, SetGuardFails, CommitMigrations, confVars
  <2>2. db'.ledgers = db.ledgers
    BY <1>2 DEF SetGuard, SetGuardFails, CommitMigrations, IInv, TypeOK, Database,
       MigrationShape, Starting
  <2>3. \A k \in Kinds : HoldsNewest(fees[k], feeCap[k], db.ledgers)
    BY <2>1 DEF FeeInv, FeesBuilt
  <2>4. (FeesMigrated /\ FeesBuilt)'
    BY <2>1, <2>2, <2>3 DEF FeesMigrated, FeesBuilt
  <2>5. FeesTrack'
    BY <2>1, <2>2, <2>3 DEF FeesTrack, HoldsNewest, Running
  <2>6. FeesLevel'
    <3>1. \A k \in Kinds : IF db.ledgers = {} THEN fees[k].len = 0
                           ELSE fees[k].len > 0 /\ EndOf(fees[k]) = Latest(db.ledgers)
      BY <2>3 DEF HoldsNewest
    <3>2. /\ fees.classic.len = 0 <=> fees.soroban.len = 0
          /\ EndOf(fees.classic) = EndOf(fees.soroban)
      BY <3>1 DEF Kinds, EndOf
    <3> QED
      BY <2>1, <3>2 DEF FeesLevel, Running
  <2>7. FeeStatsFresh'
    BY <2>1 DEF FeeInv, FeeStatsFresh
  <2> QED
    BY <2>4, <2>5, <2>6, <2>7 DEF FeeInv
<1> QED
  BY <1>1, <1>2

(* The steps of run() that leave the windows and the ledgers alone.         *)
LEMMA QuietFees ==
    ASSUME FeeInv, UNCHANGED <<db, fees, feeCap, fill>>,
           pc \in Running \ {"soroban"},
           \/ pc' \in {"next", "get", "insert", "classic"}
           \/ pc = "publish" /\ pc' = "checkpoint" /\ seq' = seq
    PROVE  FeeInv'
<1>1. (FeesMigrated /\ FeesBuilt)'
  BY DEF FeesMigrated, FeesBuilt
<1>2. FeesLevel'
  BY DEF FeeInv, FeesLevel, Running
<1>3. FeesTrack' /\ FeeStatsFresh'
  BY DEF FeeInv, FeesTrack, FeeStatsFresh, Running
<1> QED
  BY <1>1, <1>2, <1>3 DEF FeeInv

(* The first append moves the classic window to the ledger being ingested,  *)
(* or is refused because an earlier attempt has done so.                    *)
LEMMA AppendClassicFees ==
    ASSUME IInv, IInv', FeeInv, AppendFees("classic", "soroban") PROVE FeeInv'
<1>1. pc = "classic" /\ UNCHANGED <<db, confVars>>
  BY DEF AppendFees
<1>2. CASE ~Appendable(fees["classic"], seq)
  BY <1>1, <1>2, RetriedFees DEF AppendFees, IInv, Counters, Running
<1>3. CASE Appendable(fees["classic"], seq)
  <2> DEFINE w == fees["classic"]
             p == Pushed(w, seq, feeCap["classic"])
  <2>1. /\ fees' = [fees EXCEPT !["classic"] = p] /\ pc' = "soroban"
        /\ UNCHANGED <<seq, fill, feeCap>>
    BY <1>1, <1>3 DEF AppendFees, confVars
  <2>2. /\ feeCap["classic"] \in Nat \ {0} /\ w \in FeeWindowType(feeCap["classic"])
        /\ fees["soroban"].first \in Nat /\ fees["soroban"].len \in Nat
        /\ w.first \in Nat /\ w.len \in Nat /\ seq \in LedgerSeqs /\ seq \in Nat
        /\ db.ledgers # {} => seq = Latest(db.ledgers) + 1
        /\ fees \in FeesType(feeCap) /\ db.ledgers \in SUBSET LedgerSeqs
    BY <1>1, FeeTypes, LedgerSeqIsNat DEF IInv, TypeOK, Kinds, SeqShape, Database
  <2>3. fees'["classic"] = p /\ fees'["soroban"] = fees["soroban"]
    BY <2>1, <2>2 DEF FeesType
  <2>4. /\ p.len > 0 /\ EndOf(p) = seq /\ EndOf(w) <= seq
        /\ w.len > 0 => EndOf(w) = seq - 1
        /\ \/ p.len = feeCap["classic"]
           \/ w.len = 0
           \/ w.len > 0 /\ w.len # feeCap["classic"] /\ p.first = w.first
    BY <1>3, <2>2, PushedEnd
  <2> HIDE DEF p
  <2>5. Appendable(fees["soroban"], seq)
    BY <1>1, <2>2, <2>4 DEF FeeInv, FeesLevel, Running, Appendable, EndOf
  <2>6. FeesLevel'
    BY <2>1, <2>3, <2>4, <2>5 DEF FeesLevel, Running
  <2>7. FeesTrack'
    <3> SUFFICES ASSUME db.ledgers # {}, NEW k \in Kinds
                 PROVE  /\ fees'[k].len > 0
                        /\ EndOf(fees'[k]) \in {Latest(db.ledgers), Latest(db.ledgers) + 1}
                        /\ \/ fees'[k].len = feeCap[k]
                           \/ \A s \in db.ledgers : fees'[k].first <= s
      BY <1>1, <2>1 DEF FeesTrack
    <3>1. /\ fees[k].len > 0
          /\ EndOf(fees[k]) \in {Latest(db.ledgers), Latest(db.ledgers) + 1}
          /\ fees[k].len = feeCap[k] \/ \A s \in db.ledgers : fees[k].first <= s
      BY <1>1 DEF FeeInv, FeesTrack, Running
    <3>2. CASE k = "soroban"
      BY <2>3, <3>1, <3>2
    <3>3. CASE k = "classic"
      <4>1. w.len > 0 /\ (w.len = feeCap[k] \/ \A s \in db.ledgers : w.first <= s)
        BY <3>1, <3>3
      <4> QED
        BY <2>2, <2>3, <2>4, <3>3, <4>1
    <3> QED
      BY <3>2, <3>3 DEF Kinds
  <2>8. FeeStatsFresh'
    <3>1. \A k \in Kinds : EndOf(fees[k]) <= EndOf(fees'[k])
      BY <2>2, <2>3, <2>4 DEF Kinds, EndOf
    <3> QED
      BY <2>1, <3>1, FreshKept DEF FeeInv
  <2>9. (FeesMigrated /\ FeesBuilt)'
    BY <2>1 DEF FeesMigrated, FeesBuilt
  <2> QED
    BY <2>6, <2>7, <2>8, <2>9 DEF FeeInv
<1> QED
  BY <1>2, <1>3

(* The second append is never refused after the first: both windows end at  *)
(* the ledger being ingested.                                               *)
LEMMA AppendSorobanFees ==
    ASSUME IInv, IInv', FeeInv, AppendFees("soroban", "commit") PROVE FeeInv'
<1> DEFINE w == fees["soroban"]
           p == Pushed(w, seq, feeCap["soroban"])
<1>1. /\ pc = "soroban" /\ UNCHANGED <<db, confVars>>
      /\ Appendable(w, seq) /\ fees["classic"].len > 0 /\ EndOf(fees["classic"]) = seq
  BY DEF AppendFees, FeeInv, FeesLevel
<1>2. /\ fees' = [fees EXCEPT !["soroban"] = p] /\ pc' = "commit"
      /\ UNCHANGED <<seq, fill, feeCap>>
  BY <1>1 DEF AppendFees, confVars
<1>3. /\ feeCap["soroban"] \in Nat \ {0} /\ w \in FeeWindowType(feeCap["soroban"])
      /\ fees["classic"].first \in Nat /\ fees["classic"].len \in Nat
      /\ w.first \in Nat /\ w.len \in Nat /\ seq \in LedgerSeqs /\ seq \in Nat
      /\ db.ledgers # {} => seq = Latest(db.ledgers) + 1
      /\ fees \in FeesType(feeCap) /\ db.ledgers \in SUBSET LedgerSeqs
  BY <1>1, FeeTypes, LedgerSeqIsNat DEF IInv, TypeOK, Kinds, SeqShape, Database
<1>4. fees'["soroban"] = p /\ fees'["classic"] = fees["classic"]
  BY <1>2, <1>3 DEF FeesType
<1>5. /\ p.len > 0 /\ EndOf(p) = seq /\ EndOf(w) <= seq
      /\ w.len > 0 => EndOf(w) = seq - 1
      /\ \/ p.len = feeCap["soroban"]
         \/ w.len = 0
         \/ w.len > 0 /\ w.len # feeCap["soroban"] /\ p.first = w.first
  BY <1>1, <1>3, PushedEnd
<1> HIDE DEF p
<1>6. \A k \in Kinds : fees'[k].len > 0 /\ EndOf(fees'[k]) = seq
  BY <1>1, <1>4, <1>5 DEF Kinds
<1>7. FeesLevel'
  BY <1>1, <1>2, <1>3, <1>4, <1>5, <1>6 DEF FeesLevel, Running
<1>8. FeesTrack'
  <2> SUFFICES ASSUME db.ledgers # {}, NEW k \in Kinds
               PROVE  /\ fees'[k].len > 0
                      /\ EndOf(fees'[k]) \in {Latest(db.ledgers), Latest(db.ledgers) + 1}
                      /\ \/ fees'[k].len = feeCap[k]
                         \/ \A s \in db.ledgers : fees'[k].first <= s
    BY <1>1, <1>2 DEF FeesTrack
  <2>1. /\ fees[k].len > 0
        /\ fees[k].len = feeCap[k] \/ \A s \in db.ledgers : fees[k].first <= s
    BY <1>1 DEF FeeInv, FeesTrack, Running
  <2>2. \/ fees'[k].len = feeCap[k]
        \/ \A s \in db.ledgers : fees'[k].first <= s
    <3>1. CASE k = "classic"
      BY <1>4, <2>1, <3>1
    <3>2. CASE k = "soroban"
      <4>1. w.len > 0 /\ (w.len = feeCap[k] \/ \A s \in db.ledgers : w.first <= s)
        BY <2>1, <3>2
      <4> QED
        BY <1>3, <1>4, <1>5, <3>2, <4>1
    <3> QED
      BY <3>1, <3>2 DEF Kinds
  <2> QED
    BY <1>3, <1>6, <2>2
<1>9. FeeStatsFresh'
  <2>1. \A k \in Kinds : EndOf(fees[k]) <= EndOf(fees'[k])
    BY <1>1, <1>3, <1>4, <1>5 DEF Kinds
  <2> QED
    BY <1>2, <2>1, FreshKept DEF FeeInv
<1>10. (FeesMigrated /\ FeesBuilt)'
  BY <1>2 DEF FeesMigrated, FeesBuilt
<1> QED
  BY <1>7, <1>8, <1>9, <1>10 DEF FeeInv

(* The committed ledger is the one both windows end at, and trimming leaves *)
(* no older ledger than before.                                             *)
LEMMA CommitTxFees == ASSUME IInv, IInv', FeeInv, CommitTx PROVE FeeInv'
<1>1. pc = "commit" /\ pc' = "publish" /\ UNCHANGED <<fees, feeCap, fill, seq>>
  BY DEF CommitTx, procVars, confVars
<1>2. /\ Latest(db'.ledgers) = seq /\ db'.ledgers \subseteq db.ledgers \union {seq}
      /\ seq \in Nat
  BY <1>1, CommitTxFacts, LedgerSeqIsNat DEF Trim, IInv, SeqShape
<1>3. \A k \in Kinds : /\ fees[k].len > 0 /\ EndOf(fees[k]) = seq
                       /\ fees[k].first \in Nat /\ fees[k].len \in Nat
  BY <1>1, FeeTypes DEF FeeInv, FeesLevel, IInv, TypeOK
<1>4. \A k \in Kinds : fees[k].first <= seq
  BY <1>2, <1>3 DEF EndOf
<1>5. \A k \in Kinds : fees[k].len = feeCap[k] \/ \A s \in db'.ledgers : fees[k].first <= s
  BY <1>1, <1>2, <1>4 DEF FeeInv, FeesTrack, Running
<1>6. FeesTrack'
  BY <1>1, <1>2, <1>3, <1>5 DEF FeesTrack
<1>7. FeesLevel'
  BY <1>1, <1>3 DEF FeeInv, FeesLevel, Running
<1>8. (FeesMigrated /\ FeesBuilt /\ FeeStatsFresh)'
  BY <1>1 DEF FeeInv, FeesMigrated, FeesBuilt, FeeStatsFresh
<1> QED
  BY <1>6, <1>7, <1>8 DEF FeeInv

(* A handler takes for the latest ledger one that both windows have         *)
(* reached, and no window moves between its reads.                          *)
LEMMA HandlerFees ==
    ASSUME IInv, FeeInv, NEW h \in Handlers, FillCache(h) \/ GetFeeStats(h)
    PROVE  FeeInv'
<1> DEFINE latest == Latest(db.ledgers)
<1>1. /\ \A g \in Handlers \ {h} : fill'[g] = fill[g]
      /\ pc \in Running /\ UNCHANGED <<db, pc, fees, mig, seq, feeCap>>
      /\ \/ fill'[h].at \notin {"soroban", "classic"}
         \/ fill'[h].at = "soroban" /\ fill'[h].val \in {latest, 0}
         \/ /\ fill[h].at = "soroban" /\ fill'[h].at = "classic"
            /\ fill'[h].val = fill[h].val
  <2>0. fill \in [Handlers -> FillType]
    BY DEF IInv, TypeOK
  <2>1. CacheFree => pc \in Running /\ cache = latest
    BY HandlerReads DEF CacheFree
  <2> USE DEF FillStep, confVars, Idle
  <2>2. CASE FillCache(h)
    <3>1. CASE MissCache(h)
      BY <2>0, <2>1, <3>1 DEF MissCache
    <3>2. CASE RangeFromCache(h)
      BY <2>0, <2>1, <3>2 DEF RangeFromCache
    <3>3. CASE ScanLedgers(h)
      BY <2>0, <2>1, <3>3 DEF ScanLedgers
    <3>4. CASE StoreIfEmpty(h)
      BY <2>0, <2>1, <3>4 DEF StoreIfEmpty
    <3> QED
      BY <2>2, <3>1, <3>2, <3>3, <3>4 DEF FillCache
  <2>3. CASE BeginFeeStats(h)
    BY <2>0, <2>1, <2>3 DEF BeginFeeStats
  <2>4. CASE QueryFeeStats(h)
    BY <2>0, <2>4 DEF QueryFeeStats
  <2>5. CASE ReadSorobanFees(h)
    BY <2>0, <2>5 DEF ReadSorobanFees
  <2>6. CASE ReadClassicFees(h)
    BY <2>0, <2>6 DEF ReadClassicFees
  <2> QED
    BY <2>2, <2>3, <2>4, <2>5, <2>6 DEF GetFeeStats
<1>2. \A k \in Kinds : latest <= EndOf(fees[k]) /\ 0 <= EndOf(fees[k])
  <2> SUFFICES ASSUME NEW k \in Kinds PROVE latest <= EndOf(fees[k]) /\ 0 <= EndOf(fees[k])
    OBVIOUS
  <2>1. latest \in Nat /\ (latest = 0 <=> db.ledgers = {}) /\ EndOf(fees[k]) \in Nat
    BY LatestType, FeeTypes DEF IInv, TypeOK, Database
  <2>2. CASE db.ledgers = {}
    BY <2>1, <2>2
  <2>3. CASE db.ledgers # {}
    <3>1. EndOf(fees[k]) \in {latest, latest + 1}
      BY <1>1, <2>3 DEF FeeInv, FeesTrack
    <3> QED
      BY <2>1, <3>1
  <2> QED
    BY <2>2, <2>3
<1>3. /\ latest <= EndOf(fees.classic) /\ 0 <= EndOf(fees.classic)
      /\ latest <= EndOf(fees.soroban) /\ 0 <= EndOf(fees.soroban)
  BY <1>2 DEF Kinds
<1>4. FeeStatsFresh'
  <2> SUFFICES ASSUME NEW g \in Handlers
               PROVE  /\ fill'[g].at \in {"soroban", "classic"} =>
                            fill'[g].val <= EndOf(fees.classic)
                      /\ fill'[g].at = "soroban" => fill'[g].val <= EndOf(fees.soroban)
    BY <1>1 DEF FeeStatsFresh
  <2>1. CASE g # h
    BY <1>1, <2>1 DEF FeeInv, FeeStatsFresh
  <2>2. CASE g = h
    <3>1. fill[h].at = "soroban" => fill[h].val <= EndOf(fees.classic)
      BY DEF FeeInv, FeeStatsFresh
    <3> QED
      BY <1>1, <1>3, <2>2, <3>1
  <2> QED
    BY <2>1, <2>2
<1>5. (FeesMigrated /\ FeesBuilt)'
  BY <1>1 DEF FeesMigrated, FeesBuilt, Running
<1>6. (FeesLevel /\ FeesTrack)'
  BY <1>1 DEF FeeInv, FeesLevel, FeesTrack
<1> QED
  BY <1>4, <1>5, <1>6 DEF FeeInv

(* A step that does not touch what the invariant speaks of.                 *)
LEMMA StutterFees ==
    ASSUME FeeInv, UNCHANGED <<db, pc, fees, mig, seq, fill, feeCap>> PROVE FeeInv'
BY DEF FeeInv, FeesMigrated, FeesBuilt, FeesLevel, FeesTrack, FeeStatsFresh, FeeRange

(* The invariant of the fee windows is inductive: one step per action.      *)
LEMMA NextFees == IInv /\ FeeInv /\ [Next]_vars => FeeInv'
<1> SUFFICES ASSUME IInv, FeeInv, [Next]_vars PROVE FeeInv'
  OBVIOUS
<1>1. IInv'
  BY NextInv
<1>2. CASE Start
  BY <1>1, <1>2, StartFees
<1>3. CASE Startup
  BY <1>1, <1>3, MigrateLedgerFees, StreamDoneFees, GuardFees DEF Startup
<1>4. CASE Run
  <2>1. CASE GetNextLedgerSequence
    <3>1. pc = "next" /\ UNCHANGED <<db, confVars>>
      BY <2>1 DEF GetNextLedgerSequence
    <3>2. Retried(0) \/ (pc' = "get" /\ UNCHANGED <<fees, fill>>)
      BY <2>1 DEF GetNextLedgerSequence
    <3> QED
      BY <1>1, <3>1, <3>2, RetriedFees, QuietFees, RetryBounds DEF Running, confVars
  <2>2. CASE GetLedger
    BY <2>2, QuietFees DEF GetLedger, Running, procVars, confVars
  <2>3. CASE InsertLedger
    <3>1. pc = "insert" /\ UNCHANGED <<db, confVars>> /\ tries \in 0 .. MaxRetries
      BY <2>3 DEF InsertLedger, IInv, Counters
    <3>2. Retried(tries) \/ (pc' = "classic" /\ UNCHANGED <<fees, fill>>)
      BY <2>3 DEF InsertLedger
    <3> QED
      BY <1>1, <3>1, <3>2, RetriedFees, QuietFees DEF Running, confVars
  <2>4. CASE AppendFees("classic", "soroban")
    BY <1>1, <2>4, AppendClassicFees
  <2>5. CASE AppendFees("soroban", "commit")
    BY <1>1, <2>5, AppendSorobanFees
  <2>6. CASE CommitTx
    BY <1>1, <2>6, CommitTxFees
  <2>7. CASE UpdateCache \/ Checkpoint
    BY <2>7, QuietFees DEF UpdateCache, Checkpoint, Running, confVars
  <2> QED
    BY <1>4, <2>1, <2>2, <2>3, <2>4, <2>5, <2>6, <2>7 DEF Run
<1>5. CASE Faulty
  <2>1. CASE MigrateFails \/ CommitMigrationsFails
    BY <2>1, HaltedFees DEF MigrateFails, CommitMigrationsFails, Stopped
  <2>2. CASE \E m \in Migrations : SetGuardFails(m)
    BY <2>2, GuardFees
  <2>3. CASE RunFails
    <3>1. pc \in Running \ {"soroban"} /\ tries \in 0 .. MaxRetries
      BY <2>3 DEF RunFails, Sites, Starting, Running, IInv, Counters
    <3> QED
      BY <1>1, <2>3, <3>1, RetriedFees DEF RunFails
  <2> QED
    BY <1>5, <2>1, <2>2, <2>3 DEF Faulty
<1>6. CASE \E h \in Handlers : FillCache(h) \/ GetFeeStats(h)
  BY <1>6, HandlerFees
<1>7. CASE Stop
  BY <1>7, HaltedFees DEF Stop, Stopped
<1>8. CASE WaitForLedger \/ PublishArchive \/ UNCHANGED vars
  BY <1>8, StutterFees DEF WaitForLedger, PublishArchive, vars, procVars, confVars
<1> QED
  BY <1>2, <1>3, <1>4, <1>5, <1>6, <1>7, <1>8 DEF Next

(* Whatever fails, and however often the process is restarted, the fee      *)
(* windows of a running service end together at the latest committed ledger *)
(* or at the one being ingested, and hold all the ledgers that their        *)
(* capacity and the database allow.                                         *)
THEOREM FeeWindowsAreRight == Spec => []FeeWindowsTrackStore
<1>1. IInv /\ FeeInv => FeeWindowsTrackStore
  <2> SUFFICES ASSUME FeeInv, pc \in Running, db.ledgers # {}
               PROVE  /\ pc # "soroban" => EndOf(fees.classic) = EndOf(fees.soroban)
                      /\ \A k \in Kinds :
                            /\ EndOf(fees[k]) \in {Latest(db.ledgers), Latest(db.ledgers) + 1}
                            /\ \/ fees[k].len = feeCap[k]
                               \/ \A s \in db.ledgers : fees[k].first <= s
    BY DEF FeeWindowsTrackStore, Kinds
  <2> QED
    BY DEF FeeInv, FeesLevel, FeesTrack
<1> QED
  BY InitInv, NextInv, InitFees, NextFees, <1>1, PTL DEF Spec

(* No fee statistics are older than the latest ledger reported with them.   *)
THEOREM FeeStatsAreFresh == Spec => []FeeStatsFresh
<1>1. FeeInv => FeeStatsFresh
  BY DEF FeeInv
<1> QED
  BY InitInv, NextInv, InitFees, NextFees, <1>1, PTL DEF Spec
=============================================================================
