---------------------------- MODULE LedgerEntries ----------------------------
(***************************************************************************)
(* Ledger entries come from stellar-core, not from the database: the getter *)
(* of ledgerentries/main.go asks core for the entries of a given ledger,    *)
(* either the latest ingested one (getLedgerEntries), or one that was fixed *)
(* before a simulation began (simulateTransaction).  Meanwhile core closes  *)
(* ledgers and ingestion follows.                                           *)
(***************************************************************************)
EXTENDS Listings, Functions

CONSTANTS
    Keys,               \* ledger keys that may be asked for
    NotAKey,            \* a text that is refused: undecodable, or the key of a TTL entry
    Respelt,            \* the key of each text that decodes to one, but is not what
                        \* MarshalBase64 writes for it (other unused bits at its end)
    KeyLists,           \* lists of texts sent to getLedgerEntries
    Formats,            \* values of xdrFormat in a request
    MaxKeys,            \* getLedgerEntriesMaxKeys
    MaxLedger,          \* bound: ledgers that are closed
    SnapshotLedgers     \* ledgers core can be asked about

ASSUME KeyListsAreOfKeys ==
    /\ KeyLists \subseteq Seq(Keys \union DOMAIN Respelt \union {NotAKey})
    /\ \A text \in DOMAIN Respelt : Respelt[text] \in Keys

ASSUME BoundsAreNatural == {MaxKeys, MaxLedger, SnapshotLedgers} \subseteq Nat

VARIABLES
    core,       \* external: core's ledgers, each with the state of each entry
    ingested,   \* latest ledger in the cache
    req         \* the request being served

vars == <<core, ingested, req>>

(* NotFound; live without and with a TTL; archived.                         *)
States == {"absent", "plain", "live", "archived"}

(* texts: request.Keys, in which a key stands for what MarshalBase64 makes  *)
(* of it; keys: what they decode to; at: the ledger that entries are taken  *)
(* from; reads: what the simulation was given; result: the entries returned.*)
Idle == [op |-> "none", pc |-> "done", texts |-> <<>>, keys |-> <<>>, at |-> 0,
         reads |-> {}, result |-> <<>>, reply |-> "none"]

Init ==
    /\ core \in [1 .. 1 -> [Keys -> States]]
    /\ ingested = 1
    /\ req = Idle

-----------------------------------------------------------------------------
(* Core is ahead of ingestion, which takes its ledgers one by one.          *)
CloseLedger ==
    /\ Len(core) < MaxLedger
    /\ \E entries \in [Keys -> States] : core' = Append(core, entries)
    /\ UNCHANGED <<ingested, req>>

Ingest ==
    /\ ingested < Len(core)
    /\ ingested' = ingested + 1
    /\ UNCHANGED <<core, req>>

(* Core still has the ledger.                                               *)
Queryable(at) == at + SnapshotLedgers > Len(core)

-----------------------------------------------------------------------------
(* The getter.                                                              *)

(* Core gives no TTL for archived entries, 0 stands in for it.              *)
Ttl(state) == CASE state = "live" -> "until" [] state = "archived" -> "0" [] OTHER -> "none"

Found(keys, at) == Ascending({i \in DOMAIN keys : core[at][keys[i]] # "absent"})

Entry(key, state) == [key |-> key, state |-> state, ttl |-> Ttl(state)]

(* Mutant: the key of an entry is taken by its place among the results.     *)
EntriesByResult(keys, at) ==
    [j \in DOMAIN Found(keys, at) |->
        Entry(keys[j], core[at][keys[Found(keys, at)[j]]])]

(* Core answers in the order of the keys; what is not found is skipped.     *)
Entries(keys, at) ==
    [j \in DOMAIN Found(keys, at) |->
        LET i == Found(keys, at)[j] IN Entry(keys[i], core[at][keys[i]])]

-----------------------------------------------------------------------------
(* getLedgerEntries.                                                        *)

IsValidFormat(format) == format \in {"", "base64", "json"}

Valid(texts, format) ==
    /\ IsValidFormat(format)
    /\ Len(texts) <= MaxKeys
    /\ \A i \in DOMAIN texts : texts[i] # NotAKey

Decoded(text) == IF text \in Keys THEN text ELSE Respelt[text]

Finish(reply) == [req EXCEPT !.pc = "done", !.reply = reply]

BeginEntries(texts, format) ==
    /\ req.pc = "done"
    /\ req' = IF Valid(texts, format)
              THEN [Idle EXCEPT !.op = "getLedgerEntries", !.pc = "latest", !.texts = texts,
                                !.keys = [i \in DOMAIN texts |-> Decoded(texts[i])]]
              ELSE [Idle EXCEPT !.op = "getLedgerEntries", !.reply = "invalid"]
    /\ UNCHANGED <<core, ingested>>

(* GetLatestLedgerSequence, in the getter or in simulateTransaction.        *)
ReadLatest ==
    /\ req.pc = "latest"
    /\ req' = [req EXCEPT !.at = ingested, !.pc = "query"]
    /\ UNCHANGED <<core, ingested>>

(* requestKeyToOrder: the last place of a text in the request.              *)
Order(texts, key) ==
    CHOOSE i \in DOMAIN texts : texts[i] = key /\ \A j \in DOMAIN texts : texts[j] = key => j <= i

(* The key of an entry, marshalled again, is none of the texts that were    *)
(* sent: "mismatching key in result".                                       *)
Mismatching(texts, entries) ==
    \E j \in DOMAIN entries : \A i \in DOMAIN texts : texts[i] # entries[j].key

(* Which order a sort leaves equal elements in is not said; those with the  *)
(* same key are equal.                                                      *)
sortKeysAndEntriesAccordingToRequest(texts, entries) ==
    LET place == CHOOSE p \in Bijection(DOMAIN entries, DOMAIN entries) :
                     \A i, j \in DOMAIN entries :
                         i < j => Order(texts, entries[p[i]].key) <= Order(texts, entries[p[j]].key)
    IN  [i \in DOMAIN entries |-> entries[place[i]]]

QueryEntries ==
    /\ req.pc = "query" /\ req.op = "getLedgerEntries"
    /\ LET entries == Entries(req.keys, req.at)
       IN  \/ /\ ~Queryable(req.at)
              /\ req' = Finish("core_error")
           \/ /\ Queryable(req.at) /\ Mismatching(req.texts, entries)
              /\ req' = Finish("mismatching_key")
           \/ /\ Queryable(req.at) /\ ~Mismatching(req.texts, entries)
              /\ req' = [Finish("ok") EXCEPT !.result =
                           sortKeysAndEntriesAccordingToRequest(req.texts, entries)]
    /\ UNCHANGED <<core, ingested>>

-----------------------------------------------------------------------------
(* simulateTransaction.                                                     *)

BeginSimulation ==
    /\ req.pc = "done"
    /\ req' = [Idle EXCEPT !.op = "simulateTransaction", !.pc = "latest"]
    /\ UNCHANGED <<core, ingested>>

(* Mutant: the simulation gets the getter of getLedgerEntries.              *)
LedgerOfGetterLatest == ingested

(* NewLedgerEntryAtGetter.                                                  *)
LedgerOfGetter == req.at

(* SnapshotSourceGet: the simulation asks for one entry at a time.  When    *)
(* core cannot be asked, the error is logged and the simulation is given no *)
(* entry, as if there were none.                                            *)
SnapshotSourceGet(key) ==
    LET at == LedgerOfGetter
        given == IF Queryable(at) THEN Entries(<<key>>, at) ELSE <<>>
    IN  /\ req.pc = "query" /\ req.op = "simulateTransaction"
        /\ req' = [req EXCEPT !.reads = @ \union
                      {[key |-> key, given |-> given, failed |-> ~Queryable(at)]}]
        /\ UNCHANGED <<core, ingested>>

(* The simulation ends, or was not begun because of an error.               *)
EndSimulation ==
    /\ req.pc = "query" /\ req.op = "simulateTransaction"
    /\ req' = Finish("ok")
    /\ UNCHANGED <<core, ingested>>

Next ==
    \/ CloseLedger \/ Ingest
    \/ \E texts \in KeyLists, format \in Formats : BeginEntries(texts, format)
    \/ BeginSimulation
    \/ ReadLatest \/ QueryEntries
    \/ \E key \in Keys : SnapshotSourceGet(key)
    \/ EndSimulation

Spec == Init /\ [][Next]_vars
-----------------------------------------------------------------------------
Count(s, e) == Cardinality({i \in DOMAIN s : s[i] = e})

Repeats(keys) == \E i, j \in DOMAIN keys : i # j /\ keys[i] = keys[j]

(* What the keys have in the ledger that the answer names.                  *)
Asked(i) == Entry(req.keys[i], core[req.at][req.keys[i]])

Existing == {i \in DOMAIN req.keys : Asked(i).state # "absent"}

(* An answer of getLedgerEntries has each entry that exists in the ledger   *)
(* it names, with its own key, as often as it was asked for, and nothing    *)
(* else; in the order of the request if no key is repeated in it.  A        *)
(* request is refused for a mismatching key only if it spells one in a way  *)
(* of its own.                                                              *)
EntriesOfTheLedger ==
    req.op = "getLedgerEntries" =>
        /\ req.reply = "ok" =>
              /\ Len(req.result) = Cardinality(Existing)
              /\ \A i \in Existing :
                    Count(req.result, Asked(i)) = Cardinality({j \in Existing : Asked(j) = Asked(i)})
              /\ ~Repeats(req.keys) =>
                    \A a, b \in DOMAIN req.result : a < b =>
                        \E i, j \in Existing :
                            i < j /\ req.result[a] = Asked(i) /\ req.result[b] = Asked(j)
        /\ req.reply = "mismatching_key" => \E i \in DOMAIN req.texts : req.texts[i] \notin Keys

(* All entries a simulation is given are those of one ledger, the one in    *)
(* its answer, although ledgers are closed and ingested meanwhile; as long  *)
(* as core can be asked.                                                    *)
SimulationReadsOneLedger ==
    \A x \in req.reads :
        LET state == core[req.at][x.key]
        IN  ~x.failed => x.given = IF state = "absent" THEN <<>> ELSE <<Entry(x.key, state)>>
=============================================================================
