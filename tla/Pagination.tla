----------------------------- MODULE Pagination -----------------------------
(***************************************************************************)
(* A client that lists ledgers, transactions or events by following the     *)
(* cursors of getLedgers (methods/get_ledgers.go), getTransactions          *)
(* (methods/get_transactions.go) or getEvents (methods/get_events.go),      *)
(* while ledgers are closed and old ones are trimmed.                       *)
(*                                                                          *)
(* A page is read in one step: what may happen between the reads of one     *)
(* request is the subject of LedgerReads.                                   *)
(***************************************************************************)
EXTENDS Integers, Sequences, FiniteSets

CONSTANTS
    FirstLedger,    \* first ledger of the network
    MaxLedger,      \* bound: the last ledger that is closed
    Window,         \* HISTORY_RETENTION_WINDOW
    Contents,       \* possible ledgers: number of events of each transaction
    Limit,          \* limit of a page
    ScanLimit,      \* LedgerScanLimit
    TxMax,          \* toid.TransactionMask: larger than any transaction index
    EventMax        \* math.MaxUint32: larger than any event index

ASSUME PaginationBounds ==
    /\ FirstLedger \in Nat \ {0} /\ MaxLedger \in Nat /\ FirstLedger <= MaxLedger
    /\ {Window, Limit} \subseteq Nat \ {0}
    /\ ScanLimit \in Nat /\ ScanLimit > 1

ASSUME ContentsFit ==
    /\ Contents \subseteq Seq(Nat) /\ {TxMax, EventMax} \subseteq Nat \ {0}
    /\ \A c \in Contents : Len(c) < TxMax /\ \A i \in 1 .. Len(c) : c[i] < EventMax

VARIABLES
    chain,      \* what each ledger of the network holds
    last,       \* latest ledger of the store
    client      \* the listing of the client

vars == <<chain, last, client>>

LedgerSeqs == FirstLedger .. MaxLedger
Kinds == {"ledgers", "transactions", "events"}

(* Oldest ledger of the store.                                              *)
first == IF last + 1 - Window > FirstLedger THEN last + 1 - Window ELSE FirstLedger

(* An item is <<ledger, index of the transaction, index of the event>>; the *)
(* last is 0 for a transaction, and the last two are for a ledger.  The     *)
(* index of the operation is always 0 and is left out; in the cursor at the *)
(* end of a window it is as large as can be, like that of the transaction.  *)
NoCursor == <<0, 0, 0>>

ItemsOf(kind, l) ==
    CASE kind = "ledgers" -> {<<l, 0, 0>>}
      [] kind = "transactions" -> {<<l, t, 0>> : t \in 1 .. Len(chain[l])}
      [] kind = "events" ->
            UNION {{<<l, t, e>> : e \in 0 .. chain[l][t] - 1} : t \in 1 .. Len(chain[l])}

ItemsBetween(kind, lo, hi) ==
    UNION {ItemsOf(kind, l) : l \in {n \in LedgerSeqs : lo <= n /\ n <= hi}}

(* Mutant: the index of the event is not compared.                          *)
PrecedesIgnoringEvent(a, b) == a[1] < b[1] \/ (a[1] = b[1] /\ a[2] < b[2])

(* The order of cursors (Cursor.Cmp, and of their strings in SQL).          *)
Precedes(a, b) ==
    \/ a[1] < b[1]
    \/ a[1] = b[1] /\ a[2] < b[2]
    \/ a[1] = b[1] /\ a[2] = b[2] /\ a[3] < b[3]

Init ==
    /\ chain \in [LedgerSeqs -> Contents]
    /\ last = FirstLedger
    /\ client = [at |-> "idle", kind |-> "events", from |-> 0, end |-> 0, cursor |-> NoCursor,
                 before |-> {}, page |-> {}]

(* A ledger is committed; the oldest one may go.                            *)
CloseLedger ==
    /\ last < MaxLedger
    /\ last' = last + 1
    /\ UNCHANGED <<chain, client>>

(* A client starts a listing at a ledger of the store.  Its first request   *)
(* for events may also name the ledger to stop before, which need not be    *)
(* later than the first one; the requests with a cursor may name neither    *)
(* (GetEventsRequest.Valid).                                                *)
StartListing(k, from, end) ==
    /\ client.at # "listing"
    /\ from \in first .. last
    /\ k # "events" => end = 0
    /\ client' = [at |-> "listing", kind |-> k, from |-> from, end |-> end, cursor |-> NoCursor,
                  before |-> {}, page |-> {}]
    /\ UNCHANGED <<chain, last>>

-----------------------------------------------------------------------------
(* The first Limit of a set of items.                                       *)
FirstOf(S) == {x \in S : Cardinality({y \in S : Precedes(y, x)}) < Limit}

LastOf(S) == CHOOSE x \in S : \A y \in S : ~Precedes(x, y)

(* Ends the request with a page and a cursor.                               *)
Turn(page, cursor) ==
    client' = [client EXCEPT !.before = @ \union client.page, !.page = page, !.cursor = cursor,
                             !.end = 0]

Refuse == client' = [client EXCEPT !.at = "refused"]

(* initializePagination and parseCursor.                                    *)
StartOfLedgers(c) == IF c.cursor = NoCursor THEN c.from ELSE c.cursor[1] + 1

(* getLedgers: a cursor at the latest ledger is an error, and the client    *)
(* comes back with it; a ledger that is not stored any more is one for      *)
(* good (without a datastore).                                              *)
GetLedgers ==
    LET start == StartOfLedgers(client)
        page == FirstOf(ItemsBetween("ledgers", start, last))
    IN  /\ client.at = "listing" /\ client.kind = "ledgers"
        /\ IF start < first THEN Refuse
           ELSE IF start > last THEN UNCHANGED client
           ELSE Turn(page, LastOf(page))
        /\ UNCHANGED <<chain, last>>

(* initializePagination: the item after the cursor, or the first one of the *)
(* ledger the listing starts at.                                            *)
StartOfTransactions(c) ==
    IF c.cursor = NoCursor THEN <<c.from, 1, 0>>
    ELSE <<c.cursor[1], c.cursor[2] + 1, 0>>

(* The cursor processTransactionsInLedger leaves after the latest ledger:   *)
(* its last transaction, or index 0 if it read none.                        *)
EndOfLedger(start) ==
    LET count == Len(chain[last])
        startTxIdx == IF last = start[1] THEN start[2] ELSE 1
    IN  <<last, IF startTxIdx <= count THEN count ELSE 0, 0>>

(* getTransactionsByLedgerSequence: a cursor is not checked, but a ledger   *)
(* that is not stored any more is an error.                                 *)
GetTransactions ==
    LET start == StartOfTransactions(client)
        rest == {x \in ItemsBetween("transactions", start[1], last) : ~Precedes(x, start)}
        page == FirstOf(rest)
    IN  /\ client.at = "listing" /\ client.kind = "transactions"
        /\ IF start[1] < first THEN Refuse
           ELSE Turn(page,
                     IF Cardinality(page) = Limit THEN LastOf(page) ELSE EndOfLedger(start))
        /\ UNCHANGED <<chain, last>>

(* Mutant: the event after the cursor is not skipped to.                    *)
StartOfEventsAtCursor(c) == IF c.cursor = NoCursor THEN <<c.from, 0, 0>> ELSE c.cursor

(* start.Event++ is a uint32: it wraps after the end of a search window.    *)
StartOfEvents(c) ==
    IF c.cursor = NoCursor THEN <<c.from, 0, 0>>
    ELSE <<c.cursor[1], c.cursor[2], (c.cursor[3] + 1) % (EventMax + 1)>>

EarlierOf(a, b) == IF a <= b THEN a ELSE b

(* Mutant: the window is not cut off at the latest ledger.                  *)
EndOfWindowPast(start, end) ==
    IF end # 0 THEN EarlierOf(end, start[1] + ScanLimit) ELSE start[1] + ScanLimit

(* Exclusive end of the ledgers that are searched.                          *)
EndOfWindow(start, end) ==
    LET scanned == EarlierOf(last + 1, start[1] + ScanLimit)
    IN  IF end # 0 THEN EarlierOf(end, scanned) ELSE scanned

(* getEvents: a page that is not full ends at the end of its window, which  *)
(* may lie before its start.                                                *)
GetEvents ==
    LET start == StartOfEvents(client)
        end == EndOfWindow(start, client.end)
        rest == {x \in ItemsBetween("events", start[1], last) :
                    ~Precedes(x, start) /\ x[1] < end}
        page == FirstOf(rest)
    IN  /\ client.at = "listing" /\ client.kind = "events"
        /\ IF start[1] < first \/ start[1] > last THEN Refuse
           ELSE Turn(page,
                     IF Cardinality(page) = Limit THEN LastOf(page)
                     ELSE <<end - 1, TxMax, EventMax>>)
        /\ UNCHANGED <<chain, last>>

Next ==
    \/ CloseLedger
    \/ \E k \in Kinds, from \in LedgerSeqs, end \in LedgerSeqs \union {0} :
          StartListing(k, from, end)
    \/ GetLedgers
    \/ GetTransactions
    \/ GetEvents

(* Ledgers keep being closed, and a client that has started goes on.        *)
Spec == /\ Init /\ [][Next]_vars
        /\ WF_vars(CloseLedger)
        /\ WF_vars(GetLedgers) /\ WF_vars(GetTransactions) /\ WF_vars(GetEvents)
-----------------------------------------------------------------------------
Delivered == client.before \union client.page

(* No item up to the cursor is missing from the pages: following cursors    *)
(* never skips a transaction or an event, wherever the limit, the search    *)
(* window, the end that was asked for, the end of a ledger and the latest   *)
(* ledger fall (processTransactionsInLedger, getEvents).                    *)
NothingSkipped ==
    client.at # "idle" =>
        \A x \in ItemsBetween(client.kind, client.from, last) :
            ~Precedes(client.cursor, x) => x \in Delivered

DeliveredOnce(kind) == client.kind = kind => client.page \intersect client.before = {}

(* No ledger and no event is delivered twice (start.Event++ in getEvents,   *)
(* parseCursor in getLedgers), also by a listing whose cursor went back     *)
(* before its start because of the end that was asked for.                  *)
NothingRepeated == DeliveredOnce("events") /\ DeliveredOnce("ledgers")

(* No transaction is delivered twice: "when paginating, we start with the   *)
(* item right after the cursor" (initializePagination).                     *)
TransactionsDeliveredOnce == DeliveredOnce("transactions")

(* A client that keeps following cursors and is not overtaken by the        *)
(* retention window gets every item, up to the last ledger.                 *)
ListingsComplete ==
    <>[](client.at = "listing") =>
        <>(ItemsBetween(client.kind, client.from, MaxLedger) \subseteq Delivered)
=============================================================================
