-------------------------- MODULE LedgerReadsProofs --------------------------
(***************************************************************************)
(* The store keeps its promises for every retention window and every number *)
(* of ledgers: no gap, a cache that is never wrong, no early trim.  On it,  *)
(* the request handlers answer truthfully, for any number of requests that  *)
(* run at the same time, every page and scan limit, and every way commits,  *)
(* trims and restarts fall between their reads.                             *)
(***************************************************************************)
EXTENDS LedgerReads, LedgerTablesProofs

-----------------------------------------------------------------------------
(* The store.                                                               *)

(* The inductive invariant.  The type and the shape of the table carry the  *)
(* rest; a lock is only held by an open process that has committed.         *)
StoreInv ==
    /\ StoreTypeOK
    /\ LedgersContiguous
    /\ CacheCoherent
    /\ locked => open /\ ledgers # {}

(* The invariant holds initially, whatever an earlier process left.         *)
LEMMA StoreInitInv == StoreInit => StoreInv
<1> SUFFICES ASSUME StoreInit PROVE StoreInv
  OBVIOUS
<1> USE DEF StoreInit
<1>1. PICK lo \in LedgerSeqs, hi \in LedgerSeqs : ledgers \in {{}, lo .. hi}
  OBVIOUS
<1>2. lo \in Nat /\ hi \in Nat /\ FirstLedger \in Nat /\ MaxLedger \in Nat
  BY LedgerBounds DEF LedgerSeqs
<1>3. ledgers \subseteq LedgerSeqs
  BY <1>1, <1>2 DEF LedgerSeqs
<1>4. Contiguous(ledgers)
  BY <1>1, <1>2 DEF Contiguous
<1> QED
  BY <1>3, <1>4 DEF StoreInv, StoreTypeOK, LedgersContiguous, CacheCoherent

(* What a commit does to the table of ledgers.                              *)
LEMMA CommitFacts ==
    ASSUME StoreInv, NEW s \in LedgerSeqs, Commit(s)
    PROVE  /\ ledgers' \in SUBSET LedgerSeqs
           /\ s \in ledgers' /\ Latest(ledgers') = s
           /\ Contiguous(ledgers')
           /\ \A t \in ledgers : t < s /\ (t \in ledgers' <=> t + window > s)
<1>1. /\ ledgers \in SUBSET LedgerSeqs /\ window \in Nat \ {0}
      /\ Contiguous(ledgers)
  BY WindowsArePositive DEF StoreInv, StoreTypeOK, LedgersContiguous
<1>2. /\ ledgers # {} => s = Latest(ledgers) + 1
      /\ ledgers' = Trim(ledgers \union {s}, s, window)
  BY DEF Commit, IsNext
<1>3. \A t \in ledgers : t < s
  <2> SUFFICES ASSUME NEW t \in ledgers PROVE t < s
    OBVIOUS
  <2>1. Latest(ledgers) \in ledgers /\ t <= Latest(ledgers)
    BY <1>1, LatestIsMax
  <2>2. t \in Nat /\ Latest(ledgers) \in Nat
    BY <1>1, <2>1, LedgerSeqIsNat
  <2> QED
    BY <1>2, <2>1, <2>2
<1>4. /\ ledgers' \in SUBSET LedgerSeqs /\ s \in ledgers' /\ Latest(ledgers') = s
      /\ \A t \in ledgers \union {s} : t \in ledgers' <=> t + window > s
  BY <1>1, <1>2, <1>3, TrimNext
<1>5. Contiguous(ledgers')
  BY <1>1, <1>2, TrimContiguous
<1> QED
  BY <1>3, <1>4, <1>5

(* Every step of the store keeps the invariant.                             *)
LEMMA StoreNextInv == StoreInv /\ [StoreNext]_storeVars => StoreInv'
<1> SUFFICES ASSUME StoreInv, [StoreNext]_storeVars PROVE StoreInv'
  OBVIOUS
<1> USE DEF StoreInv, StoreTypeOK, LedgersContiguous, CacheCoherent
<1>1. Latest(ledgers) \in LedgerSeqs \union {0}
  BY LatestType
<1>2. CASE Open
  BY <1>1, <1>2 DEF Open
<1>3. ASSUME NEW s \in LedgerSeqs, Commit(s) PROVE StoreInv'
  <2>1. /\ ledgers' \in SUBSET LedgerSeqs /\ ledgers' # {}
        /\ Contiguous(ledgers')
    BY <1>3, CommitFacts
  <2> QED
    BY <1>3, <2>1 DEF Commit
<1>4. CASE Publish
  BY <1>1, <1>4 DEF Publish
<1>5. CASE Exit
  BY <1>5 DEF Exit
<1>6. CASE UNCHANGED storeVars
  BY <1>6 DEF storeVars
<1> QED
  BY <1>2, <1>3, <1>4, <1>5, <1>6 DEF StoreNext

(* The variables keep their types.                                          *)
THEOREM StoreTypeCorrect == StoreSpec => []StoreTypeOK
<1>1. StoreInv => StoreTypeOK
  BY DEF StoreInv
<1> QED
  BY StoreInitInv, StoreNextInv, <1>1, PTL DEF StoreSpec

(* The stored ledgers never have a gap, for every sequence of commits,      *)
(* trims, restarts and changes of the retention window.                     *)
THEOREM StoreHasNoGap == StoreSpec => []LedgersContiguous
<1>1. StoreInv => LedgersContiguous
  BY DEF StoreInv
<1> QED
  BY StoreInitInv, StoreNextInv, <1>1, PTL DEF StoreSpec

(* No ledger is dropped before the retention window has passed it.          *)
THEOREM StoreTrimsOnlyExpired == StoreSpec => TrimsOnlyExpired
<1>1. StoreInv /\ [StoreNext]_storeVars
      => [\A s \in ledgers \ ledgers' : s + window <= Latest(ledgers')]_storeVars
  <2> DEFINE OnlyExpired == \A s \in ledgers \ ledgers' : s + window <= Latest(ledgers')
  <2> SUFFICES ASSUME StoreInv, [StoreNext]_storeVars PROVE [OnlyExpired]_storeVars
    OBVIOUS
  <2>1. CASE ledgers' = ledgers
    BY <2>1
  <2>2. ASSUME NEW s \in LedgerSeqs, Commit(s) PROVE OnlyExpired
    <3>1. /\ Latest(ledgers') = s
          /\ \A t \in ledgers : t \in ledgers' <=> t + window > s
      BY <2>2, CommitFacts
    <3>2. s \in Nat /\ window \in Nat /\ \A t \in ledgers : t \in Nat
      BY LedgerSeqIsNat, WindowsArePositive DEF StoreInv, StoreTypeOK
    <3> QED
      BY <3>1, <3>2
  <2> QED
    BY <2>1, <2>2 DEF StoreNext, Open, Publish, Exit, storeVars
<1> QED
  BY StoreInitInv, StoreNextInv, <1>1, PTL DEF StoreSpec, TrimsOnlyExpired

-----------------------------------------------------------------------------
(* The requests.                                                            *)

(* Nothing a request remembers is ahead of the database.                    *)
Behind(r) ==
    /\ req[r].began <= Latest(ledgers)
    /\ req[r].cached <= Latest(ledgers)
    /\ req[r].last <= Latest(ledgers)

(* A ledger is stored, or the retention window has passed it.               *)
Kept(s) == s \in ledgers \/ s + window <= Latest(ledgers)

(* What was once the latest ledger went only because of the window.         *)
Remembers(r) ==
    /\ req[r].cached # 0 => Kept(req[r].cached)
    /\ req[r].last # 0 => Kept(req[r].last)

(* What a request has got at each of its steps.                             *)
Progress(r) ==
    /\ req[r].at \in {"idle", "latest", "cache", "range", "fetch"} => req[r].reply = "none"
    /\ req[r].at \in {"idle", "latest", "cache", "range"} => req[r].first = 0 /\ req[r].last = 0
    /\ req[r].at = "range" => req[r].began <= req[r].cached
    /\ req[r].at = "fetch" =>
          \/ req[r].began <= req[r].last
          \/ req[r].op = "sendTransaction" /\ req[r].first = 0 /\ req[r].last = 0
    /\ req[r].at = "fetch" /\ req[r].op # "sendTransaction" => req[r].last # 0
    /\ req[r].at = "submitted" => req[r].op = "sendTransaction" /\ req[r].reply \in CoreStatuses
    /\ req[r].at = "latest" => req[r].op = "getLatestLedger"
    /\ req[r].op \in PageOps => req[r].arg # 0

(* A page that passed validation starts inside the range, or before it if   *)
(* the datastore has the older ledgers; the range is that of the table seen.*)
PageChecked(r) ==
    req[r].at = "fetch" /\ req[r].op \in PageOps =>
        /\ req[r].seen # {} /\ Contiguous(req[r].seen)
        /\ req[r].first = Oldest(req[r].seen)
        /\ req[r].last <= Latest(req[r].seen)
        /\ req[r].arg <= req[r].last
        /\ req[r].first <= req[r].arg \/ (req[r].op = "getLedgers" /\ WithDatastore)

(* The property of ranges, for one request.                                 *)
RangeOf(r) ==
    req[r].first # 0 =>
        \/ req[r].first <= req[r].last /\ req[r].first .. req[r].last \subseteq req[r].seen
        \/ /\ req[r].last < req[r].first /\ req[r].last + window <= Latest(req[r].seen)
           /\ req[r].op \in PageOps => req[r].op = "getLedgers" /\ WithDatastore

(* The properties of answers, for one request.                              *)
AnswerTrue(r) ==
    /\ req[r].reply = "not_found" /\ req[r].arg <= req[r].last => req[r].arg < Oldest(ledgers)
    /\ req[r].reply # "missing"
    /\ req[r].reply = "empty_batch" => req[r].limit = 0
    /\ req[r].reply = "panic" =>
          req[r].limit = 0 /\ (req[r].op = "getLedgers" => WithDatastore)
    /\ req[r].op \in SnapshotOps /\ req[r].reply = "ok" => req[r].rows = req[r].arg .. req[r].upTo
    /\ req[r].reply = "failed" => req[r].last + window <= Latest(ledgers)
    /\ req[r].op = "getEvents" /\ req[r].reply = "ok" /\ req[r].limit # 0 =>
          \A s \in req[r].arg .. req[r].upTo : s \in req[r].rows \/ s < Oldest(ledgers)
    /\ req[r].op = "sendTransaction" /\ req[r].reply \in Queued /\ req[r].upTo # 0
          => req[r].upTo > req[r].last

RequestInv(r) ==
    Behind(r) /\ Remembers(r) /\ Progress(r) /\ PageChecked(r) /\ RangeOf(r) /\ AnswerTrue(r)

(* The inductive invariant.  Requests end with their process, so that none  *)
(* sees the retention window change.                                        *)
ReadsInv ==
    /\ StoreInv
    /\ req \in [Requests -> RequestRecords]
    /\ ~open => \A r \in Requests : req[r] = Idle
    /\ \A r \in Requests : RequestInv(r)

-----------------------------------------------------------------------------
(* Numbers.                                                                 *)
LEMMA SeqOrZero ==
    ASSUME NEW s \in LedgerSeqs \union {0} PROVE s \in Nat /\ (s # 0 <=> s \in LedgerSeqs)
BY LedgerSeqIsNat

(* The ends of a table, and what is between them.                           *)
LEMMA TableEnds ==
    ASSUME NEW S \in SUBSET LedgerSeqs, Contiguous(S)
    PROVE  /\ Latest(S) \in Nat /\ Oldest(S) \in Nat
           /\ Latest(S) \in LedgerSeqs \union {0} /\ Oldest(S) \in LedgerSeqs \union {0}
           /\ Latest(S) = 0 <=> S = {}
           /\ Oldest(S) = 0 <=> S = {}
           /\ S # {} => Latest(S) \in S /\ Oldest(S) \in S
           /\ \A x \in Nat : x # 0 /\ x <= Latest(S) => x \in S \/ x < Oldest(S)
           /\ \A x \in S : Oldest(S) <= x /\ x <= Latest(S)
<1>1. S \in SUBSET Nat /\ 0 \notin S
  BY LedgerSeqIsNat
<1>2. CASE S = {}
  BY <1>2 DEF Latest, Oldest
<1>3. CASE S # {}
  <2>1. Latest(S) \in S /\ Oldest(S) \in S /\ \A x \in S : Oldest(S) <= x /\ x <= Latest(S)
    BY <1>1, <1>3, OldestIsMin, LatestIsMax
  <2>2. Oldest(S) .. Latest(S) \subseteq S
    BY <2>1 DEF Contiguous
  <2>3. Latest(S) \in Nat /\ Oldest(S) \in Nat
    BY <1>1, <2>1
  <2>4. \A x \in Nat : x <= Latest(S) => x \in S \/ x < Oldest(S)
    BY <2>2, <2>3
  <2> QED
    BY <1>1, <1>3, <2>1, <2>3, <2>4
<1> QED
  BY <1>2, <1>3

(* The table of an open database at any time.                               *)
LEMMA StoredEnds ==
    ASSUME StoreInv
    PROVE  /\ ledgers \in SUBSET LedgerSeqs /\ window \in Nat /\ window # 0
           /\ Latest(ledgers) \in Nat /\ Oldest(ledgers) \in Nat
           /\ Latest(ledgers) \in LedgerSeqs \union {0} /\ Oldest(ledgers) \in LedgerSeqs \union {0}
           /\ Latest(ledgers) = 0 <=> ledgers = {}
           /\ Oldest(ledgers) = 0 <=> ledgers = {}
           /\ ledgers # {} => Latest(ledgers) \in ledgers /\ Oldest(ledgers) \in ledgers
           /\ \A x \in Nat : x # 0 /\ x <= Latest(ledgers) => x \in ledgers \/ x < Oldest(ledgers)
           /\ \A x \in ledgers : Oldest(ledgers) <= x /\ x <= Latest(ledgers)
<1>1. ledgers \in SUBSET LedgerSeqs /\ Contiguous(ledgers) /\ window \in Nat /\ window # 0
  BY WindowsArePositive DEF StoreInv, StoreTypeOK, LedgersContiguous
<1> QED
  BY <1>1, TableEnds

(* Both ends of the table only move forward, and a ledger that is dropped   *)
(* is one the retention window has passed.                                  *)
LEMMA CommitMovesOn ==
    ASSUME StoreInv, NEW s \in LedgerSeqs, Commit(s)
    PROVE  /\ Latest(ledgers) <= Latest(ledgers')
           /\ Oldest(ledgers) <= Oldest(ledgers')
           /\ \A x \in ledgers : x \in ledgers' \/ x + window <= Latest(ledgers')
           /\ Latest(ledgers') \in Nat /\ Oldest(ledgers') \in Nat
           /\ window' = window /\ open' = open
<1>1. /\ ledgers' \in SUBSET LedgerSeqs
      /\ s \in ledgers' /\ Latest(ledgers') = s
      /\ Contiguous(ledgers')
      /\ \A t \in ledgers : t < s /\ (t \in ledgers' <=> t + window > s)
  BY CommitFacts
<1>2. s \in Nat /\ \A t \in ledgers \union ledgers' : t \in Nat
  BY <1>1, LedgerSeqIsNat, StoredEnds
<1>3. ledgers' \subseteq ledgers \union {s}
  BY DEF Commit, Trim
<1>4. Latest(ledgers') \in Nat /\ Oldest(ledgers') \in Nat /\ Oldest(ledgers') \in ledgers'
  BY <1>1, TableEnds
<1>5. Latest(ledgers) <= s
  BY <1>1, <1>2, StoredEnds
<1>6. Oldest(ledgers) <= Oldest(ledgers')
  <2>1. CASE Oldest(ledgers') \in ledgers
    BY <2>1, StoredEnds
  <2>2. CASE Oldest(ledgers') = s
    BY <1>1, <1>2, <2>2, StoredEnds
  <2> QED
    BY <1>3, <1>4, <2>1, <2>2
<1>7. \A x \in ledgers : x \in ledgers' \/ x + window <= s
  BY <1>1, <1>2, StoredEnds
<1> QED
  BY <1>1, <1>4, <1>5, <1>6, <1>7 DEF Commit

(* The fields of a request as numbers.                                      *)
LEMMA RequestTypes ==
    ASSUME req \in [Requests -> RequestRecords], NEW r \in Requests
    PROVE  /\ req[r] \in RequestRecords
           /\ req[r].arg \in Nat /\ req[r].began \in Nat /\ req[r].cached \in Nat
           /\ req[r].first \in Nat /\ req[r].last \in Nat /\ req[r].upTo \in Nat
           /\ req[r].limit \in Nat
           /\ req[r].arg # 0 => req[r].arg \in LedgerSeqs
           /\ req[r].last # 0 => req[r].last \in LedgerSeqs
           /\ req[r].seen \in SUBSET LedgerSeqs /\ req[r].rows \in SUBSET LedgerSeqs
           /\ \A s \in req[r].rows : s \in Nat
<1>1. req[r] \in RequestRecords
  OBVIOUS
<1>2. req[r].limit \in PageLimits \union {0}
  BY <1>1 DEF RequestRecords
<1>3. req[r].limit \in Nat
  <2>1. PageLimits \subseteq Nat /\ 0 \in Nat
    BY LimitsAreNumbers
  <2> QED
    BY <1>2, <2>1, Zenon
<1> QED
  BY <1>1, <1>3, LedgerSeqIsNat DEF RequestRecords

-----------------------------------------------------------------------------
(* Steps of the store.                                                      *)

(* A commit disturbs no request, whatever it has read so far.               *)
LEMMA CommitKeepsRequest ==
    ASSUME ReadsInv, NEW s \in LedgerSeqs, Commit(s), UNCHANGED req, NEW r \in Requests
    PROVE  RequestInv(r)'
<1> DEFINE q == req[r]
<1>1. /\ Latest(ledgers) <= Latest(ledgers') /\ Oldest(ledgers) <= Oldest(ledgers')
      /\ \A x \in ledgers : x \in ledgers' \/ x + window <= Latest(ledgers')
      /\ Latest(ledgers') \in Nat /\ Oldest(ledgers') \in Nat
      /\ window' = window
  BY CommitMovesOn DEF ReadsInv
<1>2. /\ Latest(ledgers) \in Nat /\ Oldest(ledgers) \in Nat /\ window \in Nat
      /\ ledgers \in SUBSET Nat
  BY StoredEnds, LedgerSeqIsNat DEF ReadsInv
<1>3. /\ q.arg \in Nat /\ q.began \in Nat /\ q.cached \in Nat /\ q.last \in Nat /\ q.upTo \in Nat
  BY RequestTypes DEF ReadsInv
<1>4. RequestInv(r)
  BY DEF ReadsInv
<1>5. Behind(r)'
  BY <1>1, <1>2, <1>3, <1>4 DEF RequestInv, Behind
<1>6. Remembers(r)'
  BY <1>1, <1>2, <1>3, <1>4 DEF RequestInv, Remembers, Kept
<1>7. Progress(r)' /\ PageChecked(r)' /\ RangeOf(r)'
  BY <1>1, <1>4 DEF RequestInv, Progress, PageChecked, RangeOf
<1>8. AnswerTrue(r)'
  BY <1>1, <1>2, <1>3, <1>4 DEF RequestInv, AnswerTrue
<1> QED
  BY <1>5, <1>6, <1>7, <1>8 DEF RequestInv

(* A request depends on the table and the window only.                      *)
LEMMA Untouched ==
    ASSUME NEW r, RequestInv(r), req'[r] = req[r], ledgers' = ledgers, window' = window
    PROVE  RequestInv(r)'
BY DEF RequestInv, Behind, Remembers, Kept, Progress, PageChecked, RangeOf, AnswerTrue

(* A request that is not there has nothing to be wrong about.               *)
LEMMA IdleInv ==
    ASSUME StoreInv', NEW r, req'[r] = Idle
    PROVE  RequestInv(r)'
<1>1. Latest(ledgers)' \in Nat
  <2>1. Contiguous(ledgers') /\ ledgers' \in SUBSET LedgerSeqs
    BY DEF StoreInv, StoreTypeOK, LedgersContiguous
  <2> QED
    BY <2>1, TableEnds
<1> QED
  BY <1>1 DEF Idle, RequestInv, Behind, Remembers, Progress, PageChecked, RangeOf, AnswerTrue,
              PageOps, SnapshotOps, Queued

-----------------------------------------------------------------------------
(* Steps of a handler.                                                      *)

(* Only the request that makes the step has to be looked at.                *)
LEMMA OneRequest ==
    ASSUME ReadsInv, open, UNCHANGED storeVars, NEW r \in Requests, NEW x,
           req' = [req EXCEPT ![r] = x], x \in RequestRecords, RequestInv(r)'
    PROVE  ReadsInv'
<1>1. StoreInv'
  <2>1. StoreInv /\ [StoreNext]_storeVars
    BY DEF ReadsInv
  <2> QED
    BY <2>1, StoreNextInv
<1>2. req' \in [Requests -> RequestRecords]
  BY DEF ReadsInv
<1>3. ASSUME NEW d \in Requests PROVE RequestInv(d)'
  <2>1. CASE d = r
    BY <2>1
  <2>2. CASE d # r
    BY <2>2, Untouched DEF ReadsInv, storeVars
  <2> QED
    BY <2>1, <2>2
<1> QED
  BY <1>1, <1>2, <1>3 DEF ReadsInv, storeVars

(* A request that is being served belongs to a running process.             *)
LEMMA ServedWhileOpen ==
    ASSUME ReadsInv, NEW r \in Requests, req[r].at # "idle" PROVE open
BY DEF ReadsInv, Idle

LEMMA BeginStep ==
    ASSUME ReadsInv, NEW r \in Requests, NEW op \in Ops, NEW arg \in LedgerSeqs \union {0},
           NEW limit \in PageLimits, Begin(r, op, arg, limit)
    PROVE  ReadsInv'
<1> DEFINE lim == IF op \in PageOps THEN limit ELSE 0
           x == [Idle EXCEPT !.op = op, !.arg = arg, !.limit = lim, !.began = Latest(ledgers),
                             !.at = IF op = "getLatestLedger" THEN "latest" ELSE "cache"]
<1>1. req' = [req EXCEPT ![r] = x] /\ open /\ UNCHANGED storeVars
  BY DEF Begin
<1>2. x \in RequestRecords
  BY StoredEnds DEF ReadsInv, RequestRecords, Idle, Replies, CoreStatuses
<1>3. op \in PageOps => arg # 0
  BY DEF Begin, PageOps, LatestOps
<1>4. Latest(ledgers) \in Nat
  BY StoredEnds DEF ReadsInv
<1>5. /\ x.op = op /\ x.arg = arg /\ x.began = Latest(ledgers)
      /\ x.at \in {"latest", "cache"} /\ (x.at = "latest" => op = "getLatestLedger")
      /\ x.cached = 0 /\ x.first = 0 /\ x.last = 0 /\ x.reply = "none"
  BY DEF Idle
<1> HIDE DEF x
<1>6. RequestInv(r)'
  <2>1. req'[r] = x
    BY <1>1 DEF ReadsInv
  <2> QED
    BY <1>1, <1>3, <1>4, <1>5, <2>1 DEF storeVars, RequestInv, Behind, Remembers, Progress,
       PageChecked, RangeOf, AnswerTrue, Queued
<1> QED
  BY <1>1, <1>2, <1>6, OneRequest

(* The cache is read under its lock: it has the latest ledger.              *)
LEMMA CacheRead ==
    ASSUME StoreInv, open, ~locked
    PROVE  /\ cache = Latest(ledgers) /\ cache \in Nat /\ cache \in LedgerSeqs \union {0}
           /\ cache # 0 => cache \in ledgers
BY StoredEnds DEF StoreInv, CacheCoherent

LEMMA GetLatestLedgerSequenceStep ==
    ASSUME ReadsInv, NEW r \in Requests, GetLatestLedgerSequence(r) PROVE ReadsInv'
<1> DEFINE x == [req[r] EXCEPT !.last = cache, !.at = IF cache # 0 THEN "fetch" ELSE "cache"]
<1>1. req[r] \in RequestRecords /\ req[r].at = "latest" /\ ~locked /\ open
  BY ServedWhileOpen, RequestTypes DEF GetLatestLedgerSequence, ReadsInv
<1>2. req' = [req EXCEPT ![r] = x] /\ UNCHANGED storeVars /\ req'[r] = x
  BY DEF GetLatestLedgerSequence, ReadsInv
<1>3. /\ cache = Latest(ledgers) /\ cache \in Nat /\ cache \in LedgerSeqs \union {0}
      /\ cache # 0 => cache \in ledgers
  BY <1>1, CacheRead DEF ReadsInv
<1>4. x \in RequestRecords
  <2> DEFINE next == IF cache # 0 THEN "fetch" ELSE "cache"
             y == [req[r] EXCEPT !.last = cache]
  <2>1. next \in {"fetch", "cache"} /\ x = [y EXCEPT !.at = next]
    BY <1>1 DEF RequestRecords
  <2>2. y \in RequestRecords
    BY <1>1, <1>3 DEF RequestRecords
  <2> HIDE DEF next, y, x
  <2> QED
    BY <2>1, <2>2 DEF RequestRecords
<1>5. RequestInv(r)'
  <2>1. RequestInv(r)
    BY DEF ReadsInv
  <2> QED
    BY <1>1, <1>2, <1>3, <2>1 DEF storeVars, RequestInv, Behind, Remembers, Kept, Progress,
       PageChecked, RangeOf, AnswerTrue, PageOps, SnapshotOps, Queued, RequestRecords
<1> QED
  BY <1>1, <1>2, <1>4, <1>5, OneRequest

LEMMA ReadCacheStep ==
    ASSUME ReadsInv, NEW r \in Requests, ReadCache(r) PROVE ReadsInv'
<1> DEFINE x == [req[r] EXCEPT !.cached = cache, !.at = "range"]
<1>1. req[r] \in RequestRecords /\ req[r].at = "cache" /\ ~locked /\ open
  BY ServedWhileOpen, RequestTypes DEF ReadCache, ReadsInv
<1>2. req' = [req EXCEPT ![r] = x] /\ UNCHANGED storeVars /\ req'[r] = x
  BY DEF ReadCache, ReadsInv
<1>3. /\ cache = Latest(ledgers) /\ cache \in Nat /\ cache \in LedgerSeqs \union {0}
      /\ cache # 0 => cache \in ledgers
  BY <1>1, CacheRead DEF ReadsInv
<1>4. x \in RequestRecords
  BY <1>1, <1>3 DEF RequestRecords
<1>5. RequestInv(r)'
  <2>1. RequestInv(r)
    BY DEF ReadsInv
  <2> QED
    BY <1>1, <1>2, <1>3, <2>1 DEF storeVars, RequestInv, Behind, Remembers, Kept, Progress,
       PageChecked, RangeOf, AnswerTrue, RequestRecords
<1> QED
  BY <1>1, <1>2, <1>4, <1>5, OneRequest

(* A request that ends without an answer.                                   *)
LEMMA ErrorStep ==
    ASSUME ReadsInv, NEW r \in Requests, req[r].at \in {"cache", "range", "fetch"},
           NEW reply \in {"out_of_range", "db_error"}, UNCHANGED storeVars,
           req' = [req EXCEPT ![r] = [req[r] EXCEPT !.at = "done", !.reply = reply]]
    PROVE  ReadsInv'
<1> DEFINE x == [req[r] EXCEPT !.at = "done", !.reply = reply]
<1>1. req[r] \in RequestRecords /\ open
  BY ServedWhileOpen, RequestTypes DEF ReadsInv
<1>2. reply \in Replies
  BY DEF Replies
<1>3. x \in RequestRecords /\ req'[r] = x
  BY <1>1, <1>2 DEF ReadsInv, RequestRecords
<1>4. RequestInv(r)'
  <2>1. RequestInv(r)
    BY DEF ReadsInv
  <2> QED
    BY <1>1, <1>3, <2>1 DEF storeVars, RequestInv, Behind, Remembers, Kept, Progress,
       PageChecked, RangeOf, AnswerTrue, RequestRecords, Queued
<1> QED
  BY <1>1, <1>3, <1>4, OneRequest

(* The two ends of the range are of different times, but what is between    *)
(* them is stored now, unless the window has passed the later one.          *)
LEMMA QueryRangeStep ==
    ASSUME ReadsInv, NEW r \in Requests, QueryRange(r) PROVE ReadsInv'
<1> DEFINE q == req[r]
           first == Oldest(ledgers)
           last == IF q.cached # 0 THEN q.cached ELSE Latest(ledgers)
<1>1. q \in RequestRecords /\ q.at = "range" /\ ledgers # {} /\ open
  BY ServedWhileOpen, RequestTypes DEF QueryRange, ReadsInv
<1>2. RequestInv(r)
  BY DEF ReadsInv
<1>3. UNCHANGED storeVars
  BY DEF QueryRange
<1>4. /\ q.arg \in Nat /\ q.began \in Nat /\ q.cached \in Nat /\ q.last \in Nat
      /\ first \in Nat /\ Latest(ledgers) \in Nat /\ last \in Nat /\ window \in Nat
  BY RequestTypes, StoredEnds DEF ReadsInv
<1>5. CASE req' = [req EXCEPT ![r] = [q EXCEPT !.at = "done", !.reply = "out_of_range"]]
  BY <1>1, <1>3, <1>5, ErrorStep
<1>6. ASSUME q.op \in PageOps => IsLedgerWithinRange(q.arg, Available(q.op, first), last),
             req' = [req EXCEPT ![r] = [q EXCEPT !.first = first, !.last = last, !.seen = ledgers,
                                                 !.at = "fetch"]]
      PROVE  ReadsInv'
  <2> DEFINE x == [q EXCEPT !.first = first, !.last = last, !.seen = ledgers, !.at = "fetch"]
  <2>1. /\ ledgers \in SUBSET LedgerSeqs /\ first \in LedgerSeqs /\ Contiguous(ledgers)
        /\ Latest(ledgers) \in ledgers /\ Latest(ledgers) # 0 /\ first # 0
        /\ \A s \in Nat : s # 0 /\ s <= Latest(ledgers) => s \in ledgers \/ s < first
        /\ \A s \in ledgers : first <= s
    BY <1>1, StoredEnds DEF ReadsInv, StoreInv, LedgersContiguous
  <2>2. last \in LedgerSeqs /\ last # 0 /\ last <= Latest(ledgers) /\ Kept(last)
    BY <1>1, <1>2, <1>4, <2>1, SeqOrZero DEF RequestInv, Behind, Remembers, Kept, RequestRecords
  <2>3. x \in RequestRecords /\ req'[r] = x
    BY <1>1, <1>6, <2>1, <2>2 DEF ReadsInv, RequestRecords
  <2>4. \/ first <= last /\ first .. last \subseteq ledgers
        \/ last < first /\ last + window <= Latest(ledgers)
    <3>1. CASE first <= last
      BY <1>4, <2>1, <2>2, <3>1
    <3>2. CASE last < first
      BY <1>4, <2>1, <2>2, <3>2 DEF Kept
    <3> QED
      BY <1>4, <3>1, <3>2
  <2>5. q.began <= last
    BY <1>1, <1>2, <1>4, <2>1 DEF RequestInv, Progress, Behind
  <2>6. q.op \in PageOps => q.arg <= last /\ (first <= q.arg \/ (q.op = "getLedgers" /\ WithDatastore))
    <3>1. CASE q.op = "getLedgers" /\ WithDatastore
      BY <1>6, <3>1 DEF IsLedgerWithinRange
    <3>2. CASE ~(q.op = "getLedgers" /\ WithDatastore)
      <4>1. Available(q.op, first) = first
        BY <3>2 DEF Available
      <4>2. q.op \in PageOps => IsLedgerWithinRange(q.arg, first, last)
        BY <1>6, <4>1, Zenon
      <4>3. q.op \in PageOps => first <= q.arg /\ q.arg <= last
        BY <4>2, Zenon DEF IsLedgerWithinRange
      <4> QED
        BY <4>3, Zenon
    <3> QED
      BY <3>1, <3>2
  <2>7. Behind(r)' /\ Remembers(r)'
    BY <1>1, <1>2, <1>3, <2>2, <2>3 DEF RequestInv, storeVars, Behind, Remembers, Kept, RequestRecords
  <2>8. Progress(r)'
    BY <1>1, <1>2, <2>2, <2>3, <2>5 DEF RequestInv, Progress, RequestRecords
  <2>9. PageChecked(r)'
    BY <1>1, <2>1, <2>2, <2>3, <2>6 DEF PageChecked, RequestRecords
  <2>10. AnswerTrue(r)'
    BY <1>1, <1>2, <1>3, <2>3 DEF RequestInv, AnswerTrue, Progress, RequestRecords, Queued
  <2>11. RangeOf(r)'
    <3>1. /\ x.op = q.op /\ x.first = first /\ x.last = last /\ x.seen = ledgers
          /\ req'[r] = x /\ window' = window
      BY <1>1, <1>3, <2>3 DEF RequestRecords, storeVars
    <3>2. q.op \in PageOps /\ last < first => q.op = "getLedgers" /\ WithDatastore
      BY <1>4, <2>6
    <3> HIDE DEF x, first, last
    <3> QED
      BY <2>4, <3>1, <3>2 DEF RangeOf
  <2>12. RequestInv(r)'
    BY <2>7, <2>8, <2>9, <2>10, <2>11 DEF RequestInv
  <2> QED
    BY <1>1, <1>3, <1>6, <2>3, <2>12, OneRequest
<1> QED
  BY <1>5, <1>6 DEF QueryRange

(* Only sendTransaction goes on without a range.                            *)
LEMMA RangeFailsStep ==
    ASSUME ReadsInv, NEW r \in Requests, RangeFails(r) PROVE ReadsInv'
<1> DEFINE q == req[r]
<1>1. q \in RequestRecords /\ q.at = "range" /\ open /\ UNCHANGED storeVars
  BY ServedWhileOpen, RequestTypes DEF RangeFails, ReadsInv
<1>2. CASE q.op # "sendTransaction"
  BY <1>1, <1>2, ErrorStep DEF RangeFails
<1>3. CASE q.op = "sendTransaction"
  <2> DEFINE x == [q EXCEPT !.at = "fetch"]
  <2>1. req' = [req EXCEPT ![r] = x]
    BY <1>3 DEF RangeFails
  <2>2. x \in RequestRecords /\ req'[r] = x
    BY <1>1, <2>1 DEF ReadsInv, RequestRecords
  <2>3. /\ x.op = q.op /\ x.arg = q.arg /\ x.began = q.began /\ x.cached = q.cached
        /\ x.first = q.first /\ x.last = q.last /\ x.reply = q.reply /\ x.at = "fetch"
        /\ x.upTo = q.upTo /\ x.limit = q.limit /\ x.seen = q.seen /\ x.rows = q.rows
    BY <1>1 DEF RequestRecords
  <2> HIDE DEF x
  <2>4. RequestInv(r)'
    <3>1. RequestInv(r) /\ ledgers' = ledgers /\ window' = window
      BY <1>1 DEF ReadsInv, storeVars
    <3>2. q.last = 0 /\ q.first = 0 /\ q.reply = "none" /\ q.op \notin PageOps
      BY <1>1, <1>3, <3>1 DEF RequestInv, Progress, PageOps
    <3>3. Behind(r)' /\ Remembers(r)' /\ RangeOf(r)'
      BY <2>2, <2>3, <3>1 DEF RequestInv, Behind, Remembers, Kept, RangeOf
    <3>4. Progress(r)' /\ PageChecked(r)'
      BY <1>3, <2>2, <2>3, <3>1, <3>2 DEF RequestInv, Progress, PageChecked
    <3>5. AnswerTrue(r)'
      BY <2>2, <2>3, <3>1 DEF RequestInv, AnswerTrue
    <3> QED
      BY <3>3, <3>4, <3>5 DEF RequestInv
  <2> QED
    BY <1>1, <2>1, <2>2, <2>4, OneRequest
<1> QED
  BY <1>2, <1>3

LEMMA ReadFailsStep ==
    ASSUME ReadsInv, NEW r \in Requests, ReadFails(r) PROVE ReadsInv'
<1>1. req[r].at \in {"cache", "fetch"} /\ UNCHANGED storeVars
  BY DEF ReadFails
<1>2. req' = [req EXCEPT ![r] = [req[r] EXCEPT !.at = "done", !.reply = "db_error"]]
  BY DEF ReadFails
<1> QED
  BY <1>1, <1>2, ErrorStep

(* What has to be shown of an answer.                                       *)
LEMMA AnswerStep ==
    ASSUME ReadsInv, NEW r \in Requests, NEW op \in Ops \ {"sendTransaction"},
           NEW reply \in Replies \ {"missing"}, NEW rows \in SUBSET LedgerSeqs,
           NEW upTo \in LedgerSeqs \union {0}, Answer(r, op, reply, rows, upTo),
           reply = "not_found" /\ req[r].arg <= req[r].last => req[r].arg < Oldest(ledgers),
           op \in SnapshotOps /\ reply = "ok" => rows = req[r].arg .. upTo,
           reply = "failed" => req[r].last + window <= Latest(ledgers),
           reply \in {"panic", "empty_batch"} => req[r].limit = 0,
           reply = "panic" /\ op = "getLedgers" => WithDatastore,
           op = "getEvents" /\ reply = "ok" /\ req[r].limit # 0 =>
              \A s \in req[r].arg .. upTo : s \in rows \/ s < Oldest(ledgers)
    PROVE  ReadsInv'
<1> DEFINE x == [req[r] EXCEPT !.at = "done", !.reply = reply, !.rows = rows, !.upTo = upTo]
<1>1. req[r] \in RequestRecords /\ req[r].at = "fetch" /\ req[r].op = op /\ open
  BY ServedWhileOpen, RequestTypes DEF Answer, ReadsInv
<1>2. req' = [req EXCEPT ![r] = x] /\ UNCHANGED storeVars
  BY DEF Answer
<1>3. x \in RequestRecords
  BY <1>1 DEF RequestRecords
<1>4. /\ x.op = op /\ x.arg = req[r].arg /\ x.began = req[r].began /\ x.cached = req[r].cached
      /\ x.first = req[r].first /\ x.last = req[r].last /\ x.seen = req[r].seen
      /\ x.limit = req[r].limit /\ x.at = "done" /\ x.reply = reply /\ x.rows = rows /\ x.upTo = upTo
  BY <1>1 DEF RequestRecords
<1> HIDE DEF x
<1>5. RequestInv(r)'
  <2>1. req'[r] = x /\ ledgers' = ledgers /\ window' = window
    BY <1>2 DEF ReadsInv, storeVars
  <2>2. RequestInv(r)
    BY DEF ReadsInv
  <2>3. Behind(r)' /\ Remembers(r)' /\ RangeOf(r)'
    BY <1>1, <1>4, <2>1, <2>2 DEF RequestInv, Behind, Remembers, Kept, RangeOf
  <2>4. Progress(r)' /\ PageChecked(r)'
    BY <1>1, <1>4, <2>1, <2>2 DEF RequestInv, Progress, PageChecked
  <2>5. AnswerTrue(r)'
    BY <1>1, <1>4, <2>1 DEF AnswerTrue
  <2> QED
    BY <2>3, <2>4, <2>5 DEF RequestInv
<1> QED
  BY <1>1, <1>2, <1>3, <1>5, OneRequest

LEMMA GetHealthStep ==
    ASSUME ReadsInv, NEW r \in Requests, GetHealth(r) PROVE ReadsInv'
<1>1. PICK reply \in {"ok", "unhealthy"} : Answer(r, "getHealth", reply, {}, 0)
  BY DEF GetHealth
<1>2. reply \in Replies \ {"missing", "panic", "empty_batch"} /\ "getHealth" \in Ops \ {"sendTransaction"}
  BY DEF Replies, Ops, LatestOps
<1>3. "getHealth" \notin SnapshotOps
  BY DEF SnapshotOps
<1> QED
  BY <1>1, <1>2, <1>3, AnswerStep

(* The ledger that was latest is there unless the window has passed it.     *)
LEMMA GetLatestLedgerStep ==
    ASSUME ReadsInv, NEW r \in Requests, GetLatestLedger(r) PROVE ReadsInv'
<1> DEFINE reply == IF req[r].last \in ledgers THEN "ok" ELSE "failed"
<1>1. Answer(r, "getLatestLedger", reply, {}, 0)
  BY DEF GetLatestLedger
<1>2. reply \in Replies \ {"missing", "panic", "empty_batch"} /\ "getLatestLedger" \in Ops \ {"sendTransaction"}
  BY DEF Replies, Ops, LatestOps
<1>3. "getLatestLedger" \notin SnapshotOps
  BY DEF SnapshotOps
<1>4. req[r].last # 0 /\ RequestInv(r)
  BY <1>1 DEF Answer, ReadsInv, RequestInv, Progress
<1>5. reply = "failed" => req[r].last + window <= Latest(ledgers)
  BY <1>4 DEF RequestInv, Remembers, Kept
<1>6. reply # "not_found"
  OBVIOUS
<1> HIDE DEF reply
<1> QED
  BY <1>1, <1>2, <1>3, <1>5, <1>6, AnswerStep

(* A ledger up to the latest is stored or older than all that are.          *)
LEMMA GetTransactionStep ==
    ASSUME ReadsInv, NEW r \in Requests, GetTransaction(r) PROVE ReadsInv'
<1> DEFINE reply == IF Found(r) THEN "found" ELSE "not_found"
<1>1. Answer(r, "getTransaction", reply, {}, 0)
  BY DEF GetTransaction
<1>2. reply \in Replies \ {"missing", "panic", "empty_batch"} /\ "getTransaction" \in Ops \ {"sendTransaction"}
  BY DEF Replies, Ops
<1>3. "getTransaction" \notin SnapshotOps
  BY DEF SnapshotOps
<1>4. /\ req[r].last # 0 /\ req[r].last <= Latest(ledgers)
      /\ req[r].last \in Nat /\ req[r].arg \in Nat
  BY <1>1, RequestTypes DEF Answer, ReadsInv, RequestInv, Progress, Behind
<1>5. reply = "not_found" /\ req[r].arg <= req[r].last => req[r].arg < Oldest(ledgers)
  <2> SUFFICES ASSUME req[r].arg \notin ledgers, req[r].arg <= req[r].last
               PROVE  req[r].arg < Oldest(ledgers)
    BY DEF Found
  <2>1. /\ Latest(ledgers) \in Nat /\ Oldest(ledgers) \in Nat
        /\ \A s \in Nat : s # 0 /\ s <= Latest(ledgers) => s \in ledgers \/ s < Oldest(ledgers)
        /\ Latest(ledgers) = 0 <=> ledgers = {}
        /\ Oldest(ledgers) = 0 <=> ledgers = {}
    BY StoredEnds DEF ReadsInv
  <2>2. Latest(ledgers) # 0
    BY <1>4, <2>1
  <2>3. CASE req[r].arg = 0
    BY <2>1, <2>2, <2>3
  <2>4. CASE req[r].arg # 0
    BY <1>4, <2>1, <2>4
  <2> QED
    BY <2>3, <2>4
<1>6. reply # "failed" /\ reply # "ok"
  OBVIOUS
<1> HIDE DEF reply
<1> QED
  BY <1>1, <1>2, <1>3, <1>5, <1>6, AnswerStep

(* The facts a page is read with.                                           *)
LEMMA PageFacts ==
    ASSUME ReadsInv, NEW r \in Requests, req[r].at = "fetch", req[r].op \in PageOps
    PROVE  /\ req[r].seen \in SUBSET LedgerSeqs /\ req[r].seen # {} /\ Contiguous(req[r].seen)
           /\ req[r].arg \in LedgerSeqs /\ req[r].arg \in Nat
           /\ req[r].first \in Nat /\ req[r].first # 0 /\ req[r].first = Oldest(req[r].seen)
           /\ req[r].last \in LedgerSeqs /\ req[r].last \in Nat
           /\ req[r].last <= Latest(req[r].seen) /\ req[r].last <= Latest(ledgers)
           /\ req[r].arg <= req[r].last
           /\ req[r].first <= req[r].arg \/ (req[r].op = "getLedgers" /\ WithDatastore)
           /\ req[r].first <= req[r].arg => req[r].first .. req[r].last \subseteq req[r].seen
<1>1. RequestInv(r)
  BY DEF ReadsInv
<1>2. req[r].seen \in SUBSET LedgerSeqs /\ req[r].seen # {} /\ Contiguous(req[r].seen)
  BY <1>1, RequestTypes DEF ReadsInv, RequestInv, PageChecked
<1>3. /\ req[r].arg \in LedgerSeqs /\ req[r].arg \in Nat /\ req[r].first \in Nat
      /\ req[r].last \in LedgerSeqs /\ req[r].last \in Nat
  <2>1. req[r].arg # 0 /\ req[r].last # 0
    BY <1>1 DEF RequestInv, Progress, PageOps
  <2> QED
    BY <2>1, RequestTypes DEF ReadsInv
<1>4. req[r].first # 0
  BY <1>1, <1>2, TableEnds DEF RequestInv, PageChecked
<1>5. /\ req[r].first = Oldest(req[r].seen)
      /\ req[r].last <= Latest(req[r].seen) /\ req[r].last <= Latest(ledgers)
      /\ req[r].arg <= req[r].last
      /\ req[r].first <= req[r].arg \/ (req[r].op = "getLedgers" /\ WithDatastore)
  BY <1>1 DEF RequestInv, PageChecked, Behind
<1>6. req[r].first <= req[r].arg => req[r].first .. req[r].last \subseteq req[r].seen
  BY <1>1, <1>3, <1>4, <1>5 DEF RequestInv, RangeOf
<1> QED
  BY <1>2, <1>3, <1>4, <1>5, <1>6

(* The page has no gap at the seam between the datastore and the database,  *)
(* nor does it begin after the ledger that was asked for.                   *)
LEMMA GetLedgersStep ==
    ASSUME ReadsInv, NEW r \in Requests, GetLedgers(r) PROVE ReadsInv'
<1> DEFINE q == req[r]
           page == q.arg .. q.arg + q.limit - 1
           rows == {s \in page : s < q.first} \union (q.seen \intersect page)
           reply == IF rows # {} THEN "ok"
                    ELSE IF page = {} /\ q.first <= q.arg THEN "empty_batch" ELSE "panic"
<1>1. Answer(r, "getLedgers", reply, rows, Latest(rows))
  BY DEF GetLedgers, Snapshot
<1>2. q.at = "fetch" /\ q.op = "getLedgers" /\ "getLedgers" \in PageOps
  BY <1>1 DEF Answer, PageOps
<1>3. /\ q.seen \in SUBSET LedgerSeqs /\ q.seen # {} /\ Contiguous(q.seen)
      /\ q.arg \in LedgerSeqs /\ q.arg \in Nat /\ q.first \in Nat
      /\ q.first = Oldest(q.seen) /\ q.last \in Nat
      /\ q.last <= Latest(q.seen) /\ q.arg <= q.last
      /\ q.first <= q.arg \/ WithDatastore
  BY <1>2, PageFacts
<1>4. /\ Latest(q.seen) \in q.seen /\ Latest(q.seen) \in Nat
      /\ q.first \in q.seen /\ \A s \in q.seen : q.first <= s /\ s <= Latest(q.seen)
      /\ \A s \in Nat : s # 0 /\ s <= Latest(q.seen) => s \in q.seen \/ s < q.first
  BY <1>3, TableEnds
<1>5. q.limit \in Nat
  BY RequestTypes DEF ReadsInv
<1>6. "getLedgers" \in Ops \ {"sendTransaction"}
  BY DEF Ops, PageOps
<1>7. CASE q.limit = 0
  <2>1. page = {}
    BY <1>3, <1>7
  <2>2. rows = {} /\ Latest(rows) = 0
    BY <2>1 DEF Latest
  <2>3. reply \in {"empty_batch", "panic"} /\ (reply = "panic" => WithDatastore)
    BY <1>3, <2>1, <2>2
  <2>4. reply \in Replies \ {"missing"} /\ reply \notin {"ok", "not_found", "failed"}
    BY <2>3 DEF Replies
  <2> HIDE DEF rows, reply
  <2> QED
    BY <1>1, <1>6, <1>7, <2>2, <2>3, <2>4, AnswerStep
<1>8. CASE q.limit # 0
  <2>1. q.arg \in page /\ \A s \in page : s \in Nat /\ s # 0 /\ q.arg <= s
    BY <1>3, <1>5, <1>8, LedgerSeqIsNat
  <2>2. \A s \in page : s \in rows <=> s <= Latest(q.seen)
    BY <1>3, <1>4, <2>1
  <2>3. q.arg \in rows
    BY <1>3, <1>4, <2>1, <2>2
  <2>4. rows \in SUBSET LedgerSeqs
    <3>1. ASSUME NEW s \in rows PROVE s \in LedgerSeqs
      <4>1. s \in page /\ s <= Latest(q.seen) /\ s \in Nat /\ q.arg <= s
        BY <2>1, <2>2
      <4>2. FirstLedger <= q.arg /\ Latest(q.seen) <= MaxLedger
        BY <1>3, <1>4, LedgerSeqIsNat
      <4> QED
        BY <1>3, <1>4, <4>1, <4>2, LedgerBounds DEF LedgerSeqs
    <3> QED
      BY <3>1
  <2>5. Latest(rows) \in rows /\ \A s \in rows : s <= Latest(rows)
    BY <2>3, <2>4, LatestIsMax
  <2>6. rows = q.arg .. Latest(rows)
    <3>1. /\ Latest(rows) \in page /\ Latest(rows) \in Nat /\ Latest(rows) <= Latest(q.seen)
          /\ Latest(rows) <= q.arg + q.limit - 1
      BY <1>3, <1>5, <1>8, <2>1, <2>2, <2>5
    <3>2. \A s \in rows : s \in q.arg .. Latest(rows)
      BY <1>3, <2>1, <2>5, <3>1
    <3>3. ASSUME NEW s \in q.arg .. Latest(rows) PROVE s \in rows
      <4>1. s \in page /\ s <= Latest(q.seen)
        BY <1>3, <1>4, <1>5, <3>1
      <4> QED
        BY <2>2, <4>1
    <3> QED
      BY <3>2, <3>3
  <2>7. /\ reply = "ok" /\ "ok" \in Replies \ {"missing"}
        /\ "ok" \notin {"not_found", "failed", "panic", "empty_batch"}
    BY <2>3 DEF Replies
  <2>8. Latest(rows) \in LedgerSeqs \union {0}
    BY <2>4, <2>5
  <2> HIDE DEF rows, reply
  <2> QED
    BY <1>1, <1>6, <2>4, <2>6, <2>7, <2>8, AnswerStep
<1> QED
  BY <1>7, <1>8

LEMMA DatastoreFailsStep ==
    ASSUME ReadsInv, NEW r \in Requests, DatastoreFails(r) PROVE ReadsInv'
<1>1. Answer(r, "getLedgers", "datastore_error", {}, 0)
  BY DEF DatastoreFails
<1>2. /\ "datastore_error" \in Replies \ {"missing", "panic", "empty_batch"}
      /\ "getLedgers" \in Ops \ {"sendTransaction"}
  BY DEF Replies, Ops, PageOps
<1> QED
  BY <1>1, <1>2, AnswerStep

(* Every ledger between the start and the latest is in the snapshot.        *)
LEMMA GetTransactionsStep ==
    ASSUME ReadsInv, NEW r \in Requests, GetTransactions(r) PROVE ReadsInv'
<1> DEFINE q == req[r]
<1>1. PICK stop \in q.arg .. q.last :
         Answer(r, "getTransactions", IF q.arg .. stop \subseteq q.seen THEN "ok" ELSE "missing",
                (q.arg .. stop) \intersect q.seen, stop)
  BY DEF GetTransactions, Snapshot
<1>2. q.at = "fetch" /\ q.op = "getTransactions" /\ q.op \in PageOps
  BY <1>1 DEF Answer, PageOps
<1>3. /\ q.seen \in SUBSET LedgerSeqs /\ q.arg \in LedgerSeqs /\ q.arg \in Nat
      /\ q.first \in Nat /\ q.last \in LedgerSeqs /\ q.last \in Nat
      /\ q.first <= q.arg /\ q.first .. q.last \subseteq q.seen
  BY <1>2, PageFacts
<1>4. q.arg .. stop \subseteq q.seen /\ stop \in q.seen
  BY <1>3
<1>5. Answer(r, "getTransactions", "ok", q.arg .. stop, stop)
  <2>1. (q.arg .. stop) \intersect q.seen = q.arg .. stop
    BY <1>4
  <2> QED
    BY <1>1, <1>4, <2>1
<1>6. q.arg .. stop \in SUBSET LedgerSeqs /\ stop \in LedgerSeqs \union {0}
  BY <1>3, <1>4
<1>7. /\ "ok" \in Replies \ {"missing", "panic", "empty_batch"} /\ "ok" # "not_found" /\ "ok" # "failed"
      /\ "getTransactions" \in Ops \ {"sendTransaction"}
  BY DEF Replies, Ops, PageOps
<1> QED
  BY <1>5, <1>6, <1>7, AnswerStep

(* What the scan leaves out up to its end has been trimmed since the range  *)
(* was read.                                                                *)
LEMMA GetEventsStep ==
    ASSUME ReadsInv, NEW r \in Requests, GetEvents(r) PROVE ReadsInv'
<1> DEFINE q == req[r]
           scan == {s \in ledgers : q.arg <= s /\ s < ScanEnd(q)}
<1>1. "getEvents" \in Ops \ {"sendTransaction"} /\ "getEvents" \notin SnapshotOps
  BY DEF Ops, PageOps, SnapshotOps
<1>2. CASE q.limit = 0 /\ Answer(r, "getEvents", "panic", {}, 0)
  <2>1. /\ "panic" \in Replies \ {"missing"} /\ "panic" \notin {"not_found", "failed", "ok"}
        /\ "getEvents" # "getLedgers"
    BY DEF Replies
  <2> QED
    BY <1>1, <1>2, <2>1, AnswerStep
<1>3. ASSUME NEW rows, NEW upTo, Answer(r, "getEvents", "ok", rows, upTo),
             \/ rows = scan /\ upTo = ScanEnd(q) - 1
             \/ upTo \in scan /\ rows = {s \in scan : s <= upTo}
             \/ q.limit = 0 /\ rows \subseteq scan /\ upTo = ScanEnd(q) - 1
      PROVE  ReadsInv'
  <2>1. q.at = "fetch" /\ q.op = "getEvents" /\ q.op \in PageOps
    BY <1>3 DEF Answer, PageOps
  <2>2. /\ q.arg \in LedgerSeqs /\ q.arg \in Nat /\ q.last \in LedgerSeqs /\ q.last \in Nat
        /\ q.arg <= q.last /\ q.last <= Latest(ledgers)
    BY <2>1, PageFacts
  <2>3. ScanLimit \in Nat /\ ScanLimit # 0
    BY LimitsAreNumbers
  <2>4. ScanEnd(q) \in Nat /\ q.arg < ScanEnd(q) /\ ScanEnd(q) <= q.last + 1
    BY <2>2, <2>3 DEF ScanEnd
  <2>5. /\ ledgers \in SUBSET LedgerSeqs /\ Latest(ledgers) \in Nat
        /\ \A s \in Nat : s # 0 /\ s <= Latest(ledgers) => s \in ledgers \/ s < Oldest(ledgers)
    BY StoredEnds DEF ReadsInv
  <2>6. upTo \in Nat /\ upTo < ScanEnd(q) /\ q.arg <= upTo
    BY <1>3, <2>2, <2>4, <2>5, LedgerSeqIsNat
  <2>7. upTo \in LedgerSeqs /\ rows \in SUBSET LedgerSeqs
    <3>1. FirstLedger <= q.arg /\ q.last <= MaxLedger
      BY <2>2, LedgerSeqIsNat
    <3>2. upTo <= q.last
      BY <2>2, <2>4, <2>6
    <3>3. upTo \in LedgerSeqs
      BY <2>2, <2>6, <3>1, <3>2, LedgerBounds DEF LedgerSeqs
    <3>4. rows \subseteq scan
      BY <1>3
    <3> QED
      BY <2>5, <3>3, <3>4
  <2>8. ASSUME q.limit # 0, NEW s \in q.arg .. upTo PROVE s \in rows \/ s < Oldest(ledgers)
    <3>1. s \in Nat /\ s # 0 /\ q.arg <= s /\ s <= upTo /\ s < ScanEnd(q) /\ s <= Latest(ledgers)
      BY <2>2, <2>4, <2>5, <2>6, LedgerSeqIsNat
    <3>2. s \in ledgers => s \in rows
      BY <1>3, <2>8, <3>1
    <3> QED
      BY <2>5, <3>1, <3>2
  <2>9. /\ "ok" \in Replies \ {"missing"}
        /\ "ok" \notin {"not_found", "failed", "panic", "empty_batch"}
    BY DEF Replies
  <2> QED
    BY <1>1, <1>3, <2>7, <2>8, <2>9, AnswerStep
<1>4. CASE \E stop \in scan :
             Answer(r, "getEvents", "ok", {s \in scan : s <= stop}, ScanEnd(q) - 1)
           /\ q.limit = 0
  <2>1. PICK stop \in scan :
           Answer(r, "getEvents", "ok", {s \in scan : s <= stop}, ScanEnd(q) - 1)
    BY <1>4
  <2> QED
    BY <1>3, <1>4, <2>1
<1> QED
  BY <1>2, <1>3, <1>4 DEF GetEvents

-----------------------------------------------------------------------------
(* sendTransaction.                                                         *)

(* What has to be shown of a request that changes only its step, its reply  *)
(* and the ledger its transaction goes to.                                  *)
LEMMA SendStep ==
    ASSUME ReadsInv, NEW r \in Requests, req[r].op = "sendTransaction", req[r].at # "idle",
           NEW at \in {"submitted", "done"}, NEW reply \in {"invalid", "internal_error"} \union CoreStatuses,
           NEW upTo \in LedgerSeqs \union {0}, UNCHANGED storeVars,
           req' = [req EXCEPT ![r] = [req[r] EXCEPT !.at = at, !.reply = reply, !.upTo = upTo]],
           at = "submitted" => reply \in CoreStatuses,
           reply \in Queued /\ upTo # 0 => upTo > req[r].last
    PROVE  ReadsInv'
<1> DEFINE x == [req[r] EXCEPT !.at = at, !.reply = reply, !.upTo = upTo]
<1>1. req[r] \in RequestRecords /\ open
  BY ServedWhileOpen, RequestTypes DEF ReadsInv
<1>2. reply \in Replies \ {"panic", "empty_batch", "missing", "not_found", "ok", "failed"}
  BY DEF Replies, CoreStatuses, Queued
<1>3. x \in RequestRecords
  BY <1>1, <1>2 DEF RequestRecords
<1>4. /\ x.op = req[r].op /\ x.arg = req[r].arg /\ x.began = req[r].began
      /\ x.cached = req[r].cached /\ x.first = req[r].first /\ x.last = req[r].last
      /\ x.seen = req[r].seen /\ x.at = at /\ x.reply = reply /\ x.upTo = upTo
  BY <1>1 DEF RequestRecords
<1>5. req'[r] = x /\ ledgers' = ledgers /\ window' = window
  BY DEF ReadsInv, storeVars
<1>6. req' = [req EXCEPT ![r] = x]
  OBVIOUS
<1> HIDE DEF x
<1>7. RequestInv(r)'
  <2>1. RequestInv(r)
    BY DEF ReadsInv
  <2>2. Behind(r)' /\ Remembers(r)' /\ RangeOf(r)'
    BY <1>4, <1>5, <2>1 DEF RequestInv, Behind, Remembers, Kept, RangeOf
  <2>3. Progress(r)' /\ PageChecked(r)'
    BY <1>4, <1>5, <2>1 DEF RequestInv, Progress, PageChecked, PageOps
  <2>4. AnswerTrue(r)'
    BY <1>2, <1>4, <1>5 DEF AnswerTrue
  <2> QED
    BY <2>2, <2>3, <2>4 DEF RequestInv
<1> QED
  BY <1>1, <1>3, <1>6, <1>7, OneRequest

(* The ledger of the answer was read before core took the transaction.      *)
LEMMA SendTransactionStep ==
    ASSUME ReadsInv, NEW r \in Requests, SendTransaction(r) PROVE ReadsInv'
<1> DEFINE q == req[r]
<1>1. q \in RequestRecords /\ q.upTo \in LedgerSeqs \union {0} /\ RequestInv(r)
  BY RequestTypes DEF ReadsInv, RequestRecords
<1>2. q.at = "submitted" => q.op = "sendTransaction" /\ q.reply \in CoreStatuses
  BY <1>1 DEF RequestInv, Progress
<1>3. CASE RejectTransaction(r)
  <2>1. q.op = "sendTransaction" /\ q.at # "idle" /\ UNCHANGED storeVars
    BY <1>3 DEF RejectTransaction
  <2>2. req' = [req EXCEPT ![r] = [q EXCEPT !.at = "done", !.reply = "invalid", !.upTo = q.upTo]]
    <3>1. [q EXCEPT !.at = "done", !.reply = "invalid"]
            = [q EXCEPT !.at = "done", !.reply = "invalid", !.upTo = q.upTo]
      BY <1>1 DEF RequestRecords
    <3> QED
      BY <1>3, <3>1 DEF RejectTransaction
  <2>3. "invalid" \notin Queued
    BY DEF Queued
  <2> QED
    BY <1>1, <2>1, <2>2, <2>3, SendStep
<1>4. CASE SubmitTransaction(r)
  <2>1. PICK status \in CoreStatuses, included \in LedgerSeqs \union {0} :
           /\ included # 0 => included > Latest(ledgers)
           /\ req' = [req EXCEPT ![r].at = "submitted", ![r].reply = status, ![r].upTo = included]
    BY <1>4 DEF SubmitTransaction
  <2>2. q.op = "sendTransaction" /\ q.at # "idle" /\ UNCHANGED storeVars
    BY <1>4 DEF SubmitTransaction
  <2>3. included # 0 => included > q.last
    <3>1. q.last <= Latest(ledgers) /\ q.last \in Nat /\ Latest(ledgers) \in Nat
      BY <1>1, StoredEnds, RequestTypes DEF ReadsInv, RequestInv, Behind
    <3> QED
      BY <2>1, <3>1, LedgerSeqIsNat
  <2>4. req' = [req EXCEPT ![r] = [q EXCEPT !.at = "submitted", !.reply = status, !.upTo = included]]
    BY <2>1
  <2> QED
    BY <2>1, <2>2, <2>3, <2>4, SendStep
<1>5. ASSUME q.at = "submitted", UNCHANGED storeVars,
             NEW reply \in {q.reply, "internal_error"},
             req' = [req EXCEPT ![r].at = "done", ![r].reply = reply]
      PROVE  ReadsInv'
  <2>1. req' = [req EXCEPT ![r] = [q EXCEPT !.at = "done", !.reply = reply, !.upTo = q.upTo]]
    <3>1. [q EXCEPT !.at = "done", !.reply = reply]
            = [q EXCEPT !.at = "done", !.reply = reply, !.upTo = q.upTo]
      BY <1>1 DEF RequestRecords
    <3> QED
      BY <1>5, <3>1
  <2>2. reply \in {"internal_error"} \union CoreStatuses /\ q.op = "sendTransaction"
    BY <1>2, <1>5
  <2>3. reply \in Queued /\ q.upTo # 0 => q.upTo > q.last
    BY <1>1, <1>5, <2>2 DEF RequestInv, AnswerTrue, Queued
  <2> QED
    BY <1>1, <1>5, <2>1, <2>2, <2>3, SendStep
<1>6. CASE InterpretResponse(r)
  BY <1>5, <1>6 DEF InterpretResponse
<1>7. CASE ResponseLost(r)
  BY <1>5, <1>7 DEF ResponseLost
<1> QED
  BY <1>3, <1>4, <1>6, <1>7 DEF SendTransaction

-----------------------------------------------------------------------------
(* The invariant.                                                           *)

LEMMA ReadsInit == Init => ReadsInv
<1> SUFFICES ASSUME Init PROVE ReadsInv
  OBVIOUS
<1>1. StoreInv
  BY StoreInitInv DEF Init
<1>2. Idle \in RequestRecords
  BY DEF Idle, RequestRecords, Replies
<1>3. req \in [Requests -> RequestRecords] /\ \A r \in Requests : req[r] = Idle
  BY <1>2 DEF Init
<1>4. Latest(ledgers) \in Nat
  BY <1>1, StoredEnds
<1>5. \A r \in Requests : RequestInv(r)
  BY <1>3, <1>4 DEF Idle, RequestInv, Behind, Remembers, Progress, PageChecked, RangeOf, AnswerTrue,
     PageOps, SnapshotOps, Queued
<1> QED
  BY <1>1, <1>3, <1>5 DEF ReadsInv

(* Every step of the handlers is a step of the store or leaves it alone.    *)
LEMMA NextIsStoreNext == [Next]_vars => [StoreNext]_storeVars
<1> SUFFICES ASSUME [Next]_vars PROVE [StoreNext]_storeVars
  OBVIOUS
<1>1. ASSUME NEW r, NEW op, NEW arg, NEW limit, Begin(r, op, arg, limit) PROVE UNCHANGED storeVars
  BY <1>1 DEF Begin
<1>2. ASSUME NEW r, Serve(r) PROVE UNCHANGED storeVars
  <2>1. CASE SendTransaction(r)
    BY <2>1 DEF SendTransaction, RejectTransaction, SubmitTransaction, InterpretResponse, ResponseLost
  <2>2. CASE \/ GetLatestLedgerSequence(r) \/ ReadCache(r)
             \/ QueryRange(r) \/ RangeFails(r) \/ ReadFails(r)
    BY <2>2 DEF GetLatestLedgerSequence, ReadCache, QueryRange, RangeFails, ReadFails
  <2>3. ASSUME NEW op, NEW reply, NEW rows, NEW upTo, Answer(r, op, reply, rows, upTo)
        PROVE  UNCHANGED storeVars
    BY <2>3 DEF Answer
  <2> QED
    BY <1>2, <2>1, <2>2, <2>3 DEF Serve, GetHealth, GetLatestLedger, GetTransaction, GetLedgers,
       DatastoreFails, GetTransactions, GetEvents
<1>3. CASE Ingest \/ Die
  BY <1>3 DEF Ingest, Die, StoreNext
<1>4. CASE UNCHANGED vars
  BY <1>4 DEF vars
<1> QED
  BY <1>1, <1>2, <1>3, <1>4 DEF Next

LEMMA IngestStep == ASSUME ReadsInv, Ingest PROVE ReadsInv'
<1>1. StoreInv'
  <2>1. StoreInv /\ [StoreNext]_storeVars
    BY DEF ReadsInv, Ingest, StoreNext
  <2> QED
    BY <2>1, StoreNextInv
<1>2. req' = req /\ req' \in [Requests -> RequestRecords]
  BY DEF ReadsInv, Ingest
<1>3. ASSUME NEW r \in Requests PROVE RequestInv(r)'
  <2>1. CASE Open
    <3>1. req'[r] = Idle
      BY <1>2, <2>1 DEF Open, ReadsInv
    <3> QED
      BY <1>1, <3>1, IdleInv
  <2>2. ASSUME NEW s \in LedgerSeqs, Commit(s) PROVE RequestInv(r)'
    BY <1>2, <2>2, CommitKeepsRequest
  <2>3. CASE Publish
    BY <1>2, <2>3, Untouched DEF Publish, ReadsInv
  <2> QED
    BY <2>1, <2>2, <2>3 DEF Ingest
<1>4. (~open)' => \A r \in Requests : req'[r] = Idle
  BY <1>2 DEF ReadsInv, Ingest, Open, Commit, Publish
<1> QED
  BY <1>1, <1>2, <1>3, <1>4 DEF ReadsInv

LEMMA DieStep == ASSUME ReadsInv, Die PROVE ReadsInv'
<1>1. StoreInv'
  <2>1. StoreInv /\ [StoreNext]_storeVars
    BY DEF ReadsInv, Die, StoreNext
  <2> QED
    BY <2>1, StoreNextInv
<1>2. Idle \in RequestRecords
  BY DEF Idle, RequestRecords, Replies
<1>3. req' \in [Requests -> RequestRecords] /\ \A r \in Requests : req'[r] = Idle
  BY <1>2 DEF Die
<1>4. \A r \in Requests : RequestInv(r)'
  BY <1>1, <1>3, IdleInv
<1> QED
  BY <1>1, <1>3, <1>4 DEF ReadsInv

LEMMA ReadsStep == ReadsInv /\ [Next]_vars => ReadsInv'
<1> SUFFICES ASSUME ReadsInv, [Next]_vars PROVE ReadsInv'
  OBVIOUS
<1>1. ASSUME NEW r \in Requests, NEW op \in Ops, NEW arg \in LedgerSeqs \union {0},
             NEW limit \in PageLimits, Begin(r, op, arg, limit)
      PROVE  ReadsInv'
  BY <1>1, BeginStep
<1>2. ASSUME NEW r \in Requests, Serve(r) PROVE ReadsInv'
  BY <1>2, GetLatestLedgerSequenceStep, ReadCacheStep, QueryRangeStep, RangeFailsStep,
     ReadFailsStep, GetHealthStep,
     GetLatestLedgerStep, GetTransactionStep, GetLedgersStep, DatastoreFailsStep,
     GetTransactionsStep, GetEventsStep, SendTransactionStep DEF Serve
<1>3. CASE Ingest
  BY <1>3, IngestStep
<1>4. CASE Die
  BY <1>4, DieStep
<1>5. CASE UNCHANGED vars
  <2>1. StoreInv'
    <3>1. StoreInv /\ [StoreNext]_storeVars
      BY <1>5 DEF ReadsInv, vars
    <3> QED
      BY <3>1, StoreNextInv
  <2>2. \A r \in Requests : RequestInv(r)'
    BY <1>5, Untouched DEF ReadsInv, vars, storeVars
  <2> QED
    BY <1>5, <2>1, <2>2 DEF ReadsInv, vars, storeVars
<1> QED
  BY <1>1, <1>2, <1>3, <1>4, <1>5 DEF Next

-----------------------------------------------------------------------------
(* The handlers change nothing of the store: what LedgerStore promises      *)
(* (no gap, a coherent cache, no early trim) holds while they run.          *)
THEOREM HandlersLeaveStore == Spec => StoreSpec
<1>1. Init => StoreInit
  BY DEF Init
<1> QED
  BY <1>1, NextIsStoreNext, PTL DEF Spec, StoreSpec

(* The variables keep their types.                                          *)
THEOREM ReadsTypeCorrect == Spec => []TypeOK
<1>1. ReadsInv => TypeOK
  BY DEF ReadsInv, StoreInv, TypeOK
<1> QED
  BY ReadsInit, ReadsStep, <1>1, PTL DEF Spec

(* The range of GetLedgerRange and NewTx was stored as a whole, although    *)
(* its two ends may be read at different times, or the retention window has *)
(* passed all of it between the two reads.                                  *)
THEOREM RangesAreRight == Spec => []RangeStored
<1>1. ReadsInv => RangeStored
  BY DEF ReadsInv, RequestInv, RangeOf, RangeStored
<1> QED
  BY ReadsInit, ReadsStep, <1>1, PTL DEF Spec

(* No request is given an older latest ledger than the one that was         *)
(* committed when it began; sendTransaction may be given none.              *)
THEOREM LatestIsNeverStale == Spec => []LatestIsFresh
<1>1. ReadsInv => LatestIsFresh
  <2> SUFFICES ASSUME ReadsInv, NEW r \in Requests, req[r].at = "fetch"
               PROVE  \/ req[r].last >= req[r].began
                      \/ req[r].op = "sendTransaction" /\ req[r].first = 0 /\ req[r].last = 0
    BY DEF LatestIsFresh
  <2>1. /\ \/ req[r].began <= req[r].last
           \/ req[r].op = "sendTransaction" /\ req[r].first = 0 /\ req[r].last = 0
        /\ req[r].began \in Nat /\ req[r].last \in Nat
    BY RequestTypes DEF ReadsInv, RequestInv, Progress
  <2> QED
    BY <2>1
<1> QED
  BY ReadsInit, ReadsStep, <1>1, PTL DEF Spec

(* A transaction that getTransaction does not find, although its ledger is  *)
(* not after the latest one reported, is out of the retention window.       *)
THEOREM NotFoundIsReliable == Spec => []NotFoundIsTrue
<1>1. ReadsInv => NotFoundIsTrue
  BY DEF ReadsInv, RequestInv, AnswerTrue, NotFoundIsTrue
<1> QED
  BY ReadsInit, ReadsStep, <1>1, PTL DEF Spec

(* Pages of getLedgers and getTransactions are whole, only a page limit of  *)
(* 0 makes getLedgers or getEvents panic, and getLatestLedger misses only a *)
(* ledger that the window has passed.                                       *)
THEOREM ValidReadsSucceed == Spec => []ReadsAreServed
<1>1. ReadsInv => ReadsAreServed
  BY DEF ReadsInv, RequestInv, AnswerTrue, ReadsAreServed
<1> QED
  BY ReadsInit, ReadsStep, <1>1, PTL DEF Spec

(* The cursor of getEvents passes no event that is still stored, for every  *)
(* page limit but 0.                                                        *)
THEOREM CursorPassesNothing == Spec => []EventsScanned
<1>1. ReadsInv => EventsScanned
  BY DEF ReadsInv, RequestInv, AnswerTrue, EventsScanned
<1> QED
  BY ReadsInit, ReadsStep, <1>1, PTL DEF Spec

(* An accepted transaction is included after the ledger that                *)
(* sendTransaction reports.                                                 *)
THEOREM SentIsNeverMissed == Spec => []SentIsIncludedLater
<1>1. ReadsInv => SentIsIncludedLater
  BY DEF ReadsInv, RequestInv, AnswerTrue, SentIsIncludedLater
<1> QED
  BY ReadsInit, ReadsStep, <1>1, PTL DEF Spec
=============================================================================
