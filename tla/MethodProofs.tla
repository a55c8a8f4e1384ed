---------------------------- MODULE MethodProofs ----------------------------
(***************************************************************************)
(* What methods promise of their answers: the filters of getEvents, for any *)
(* number of filters, contracts and topics, every number of topic columns   *)
(* and all events; the entries that getLedgerEntries returns and that a     *)
(* simulation is given, for any keys and whatever ledgers are closed and    *)
(* ingested meanwhile.                                                      *)
(***************************************************************************)
EXTENDS EventFilters, LedgerEntries, FeeWindowProofs

-----------------------------------------------------------------------------
(* getEvents.                                                               *)

(* A topic filter that passes validation has a fixed part without "**",     *)
(* which is all of it, or all but a last "**".                              *)
LEMMA FixedPartFacts ==
    ASSUME NEW S, NEW t \in Seq(S), t # <<>>
    PROVE  /\ Len(t) \in Nat \ {0}
           /\ FixedPart(t) \in Seq(S)
           /\ hasTrailingZeroOrMoreWildcard(t) =>
                 t[Len(t)] = "**" /\ Len(FixedPart(t)) = Len(t) - 1
           /\ ~hasTrailingZeroOrMoreWildcard(t) => FixedPart(t) = t
           /\ \A i \in 1 .. Len(FixedPart(t)) : FixedPart(t)[i] = t[i]
<1>1. Len(t) \in Nat \ {0}
  OBVIOUS
<1>2. CASE hasTrailingZeroOrMoreWildcard(t)
  <2>1. FixedPart(t) = SubSeq(t, 1, Len(t) - 1)
    BY <1>2 DEF FixedPart
  <2>2. \A i \in 1 .. Len(t) - 1 : t[i] \in S
    BY <1>1, ElementOfSeq
  <2> DEFINE k == Len(t) - 1
             part == SubSeq(t, 1, k)
  <2>3. k \in Nat /\ 1 \in Int /\ k \in Int
    BY <1>1
  <2>4. FixedPart(t) = part
    BY <2>1
  <2> HIDE DEF k
  <2>5. /\ part \in Seq(S)
        /\ Len(part) = IF 1 <= k THEN k - 1 + 1 ELSE 0
        /\ \A i \in 1 .. k - 1 + 1 : part[i] = t[1 + i - 1]
    BY <2>2, <2>3, SubSeqProperties DEF k
  <2> HIDE DEF part
  <2>6. /\ FixedPart(t) \in Seq(S) /\ Len(FixedPart(t)) = k
        /\ \A i \in 1 .. k : FixedPart(t)[i] = t[i]
    BY <2>3, <2>4, <2>5
  <2> QED
    BY <1>1, <1>2, <2>6 DEF hasTrailingZeroOrMoreWildcard, Last, k
<1>3. CASE ~hasTrailingZeroOrMoreWildcard(t)
  BY <1>1, <1>3 DEF FixedPart
<1> QED
  BY <1>1, <1>2, <1>3

(* The segments of a valid topic filter beyond the topic columns.           *)
LEMMA ValueIsInFixedPart ==
    ASSUME NEW S, NEW t \in Seq(S), TopicFilterValid(t), NEW i \in 1 .. Len(t),
           t[i] \notin Wildcards
    PROVE  i \in 1 .. Len(FixedPart(t)) /\ i \in 1 .. MaxTopicCount
<1>1. t # <<>> /\ Len(FixedPart(t)) <= MaxTopicCount
  BY DEF TopicFilterValid
<1> QED
  BY <1>1, FixedPartFacts, MaxTopicCountIsPositive DEF Wildcards

(* The type of what is looked at, and the answer that it was given.         *)
FilterInv ==
    /\ request \in Requests /\ event \in Events
    /\ answer # "none" =>
          answer = IF ~RequestValid(request) THEN "refused"
                   ELSE IF IndexesOutOfRange(request) THEN "panic"
                   ELSE IF Selected(request, event) /\ RequestMatches(request, event) THEN "returned"
                   ELSE "left out"

LEMMA FilterInvHolds == FilterSpec => []FilterInv
<1>1. FilterInit => FilterInv
  BY DEF FilterInit, FilterInv
<1>2. FilterInv /\ [GetEvents]_filterVars => FilterInv'
  <2> SUFFICES ASSUME FilterInv, [GetEvents]_filterVars PROVE FilterInv'
    OBVIOUS
  <2>1. request' = request /\ event' = event
    BY DEF GetEvents, filterVars
  <2>2. /\ RequestValid(request)' <=> RequestValid(request)
        /\ IndexesOutOfRange(request)' <=> IndexesOutOfRange(request)
        /\ Selected(request, event)' <=> Selected(request, event)
        /\ RequestMatches(request, event)' <=> RequestMatches(request, event)
    BY <2>1
  <2> QED
    BY <2>1, <2>2 DEF GetEvents, filterVars, FilterInv
<1> QED
  BY <1>1, <1>2, PTL DEF FilterSpec

LEMMA TopicsTyped ==
    ASSUME FilterInv
    PROVE  /\ event.topics \in Seq(STRING)
           /\ \A f \in request : \A t \in f.topics : t \in Seq(STRING)
BY TopicsAreSequences DEF FilterInv

(* Validation lets no filter through that combineTopics would write past    *)
(* the end of encodedTopicsList for.                                        *)
LEMMA ValidStaysInRange ==
    ASSUME FilterInv, RequestValid(request) PROVE ~IndexesOutOfRange(request)
<1> SUFFICES ASSUME NEW f \in request, NEW t \in f.topics, NEW i \in 1 .. Len(t),
                    i > MaxTopicCount, t[i] \notin Wildcards
             PROVE  FALSE
  BY DEF IndexesOutOfRange
<1>1. t \in Seq(STRING) /\ TopicFilterValid(t)
  BY TopicsTyped DEF RequestValid, FilterValid
<1>2. i \in 1 .. MaxTopicCount
  BY <1>1, ValueIsInFixedPart
<1> QED
  BY <1>2, MaxTopicCountIsPositive

(* getEvents never panics on the filters of a request, however many topics  *)
(* they have and however many columns there are.                            *)
THEOREM FiltersNeverPanic == FilterSpec => []NoPanic
<1>1. FilterInv => NoPanic
  BY ValidStaysInRange DEF FilterInv, NoPanic
<1> QED
  BY <1>1, FilterInvHolds, PTL

-----------------------------------------------------------------------------
(* One topic filter.                                                        *)
LEMMA MatchesAsMeant ==
    ASSUME NEW S, NEW t \in Seq(S), TopicFilterValid(t), NEW topics \in Seq(S)
    PROVE  TopicFilterMatches(t, topics) <=> Meaning(t, topics)
<1> DEFINE fixed == FixedPart(t)
           Pattern(n) == IF Last(t) = "**" THEN SubSeq(t, 1, Len(t) - 1) \o [i \in 1 .. n |-> "*"]
                         ELSE t
           Fits(p) == /\ Len(p) = Len(topics)
                      /\ \A i \in 1 .. Len(topics) : p[i] \in {"*", topics[i]}
<1>1. /\ t # <<>> /\ Len(t) \in Nat \ {0} /\ Len(topics) \in Nat
      /\ \A i \in 1 .. Len(fixed) : t[i] # "**"
  BY FixedPartFacts DEF TopicFilterValid
<1>2. \A i \in 1 .. Len(fixed) : SegmentMatches(t[i], topics[i]) <=> t[i] \in {"*", topics[i]}
  BY <1>1 DEF SegmentMatches, Wildcards
<1>3. Meaning(t, topics) <=> \E n \in 0 .. Len(topics) : Fits(Pattern(n))
  BY DEF Meaning
<1>4. hasTrailingZeroOrMoreWildcard(t) <=> Last(t) = "**"
  BY <1>1 DEF hasTrailingZeroOrMoreWildcard
<1>5. CASE Last(t) = "**"
  <2>1. /\ fixed = SubSeq(t, 1, Len(t) - 1) /\ Len(fixed) = Len(t) - 1 /\ fixed \in Seq(S)
        /\ \A i \in 1 .. Len(fixed) : fixed[i] = t[i]
    BY <1>1, <1>4, <1>5, FixedPartFacts DEF FixedPart
  <2>2. TopicFilterMatches(t, topics)
          <=> /\ Len(topics) >= Len(fixed)
              /\ \A i \in 1 .. Len(fixed) : t[i] \in {"*", topics[i]}
    BY <1>1, <1>2, <1>4, <1>5, <2>1 DEF TopicFilterMatches
  <2>3. ASSUME NEW n \in 0 .. Len(topics)
        PROVE  /\ Len(Pattern(n)) = Len(fixed) + n
               /\ \A i \in 1 .. Len(fixed) : Pattern(n)[i] = t[i]
               /\ \A i \in Len(fixed) + 1 .. Len(fixed) + n : Pattern(n)[i] = "*"
    <3> DEFINE stars == [i \in 1 .. n |-> "*"]
               T == S \union {"*"}
    <3>1. n \in Nat /\ stars \in [1 .. n -> {"*"}] /\ \A i \in 1 .. n : stars[i] = "*"
      BY <1>1
    <3>2. stars \in Seq(T) /\ Len(stars) = n /\ fixed \in Seq(T)
      BY <2>1, <3>1, SeqDef, SeqMonotonic
    <3>3. Pattern(n) = fixed \o stars
      BY <1>5, <2>1
    <3> HIDE DEF stars, T, Pattern, fixed
    <3>4. /\ Len(fixed \o stars) = Len(fixed) + Len(stars)
          /\ \A i \in 1 .. Len(fixed) + Len(stars) :
                (fixed \o stars)[i] = IF i <= Len(fixed) THEN fixed[i] ELSE stars[i - Len(fixed)]
      BY <3>2, ConcatProperties, Zenon
    <3>5. Len(fixed) \in Nat
      BY <1>1, <2>1
    <3>6. /\ Len(Pattern(n)) = Len(fixed) + n
          /\ \A i \in 1 .. Len(fixed) + n :
                Pattern(n)[i] = IF i <= Len(fixed) THEN fixed[i] ELSE stars[i - Len(fixed)]
      BY <3>2, <3>3, <3>4, Zenon
    <3>7. \A i \in 1 .. Len(fixed) : i \in 1 .. Len(fixed) + n /\ i <= Len(fixed)
      BY <3>1, <3>5
    <3>8. \A i \in 1 .. Len(fixed) : Pattern(n)[i] = t[i]
      BY <2>1, <3>6, <3>7, Zenon
    <3>9. ASSUME NEW i \in Len(fixed) + 1 .. Len(fixed) + n
          PROVE  i \in 1 .. Len(fixed) + n /\ ~(i <= Len(fixed)) /\ i - Len(fixed) \in 1 .. n
      BY <3>1, <3>5
    <3>10. \A i \in Len(fixed) + 1 .. Len(fixed) + n : Pattern(n)[i] = "*"
      BY <3>1, <3>6, <3>9, Zenon
    <3> QED
      BY <3>6, <3>8, <3>10, Zenon
  <2> HIDE DEF Pattern, fixed
  <2>4. ASSUME NEW n \in 0 .. Len(topics), Fits(Pattern(n)) PROVE TopicFilterMatches(t, topics)
    <3>1. Len(Pattern(n)) = Len(fixed) + n /\ \A i \in 1 .. Len(fixed) : Pattern(n)[i] = t[i]
      BY <2>3
    <3>2. Len(fixed) \in Nat /\ n \in Nat /\ Len(topics) \in Nat
      BY <1>1, <2>1
    <3>3. Len(Pattern(n)) = Len(topics)
            /\ \A i \in 1 .. Len(topics) : Pattern(n)[i] \in {"*", topics[i]}
      BY <2>4
    <3>4. Len(topics) >= Len(fixed) /\ \A i \in 1 .. Len(fixed) : i \in 1 .. Len(topics)
      BY <3>1, <3>2, <3>3
    <3>5. \A i \in 1 .. Len(fixed) : t[i] \in {"*", topics[i]}
      BY <3>1, <3>3, <3>4, Zenon
    <3> QED
      BY <2>2, <3>4, <3>5
  <2>5. ASSUME TopicFilterMatches(t, topics) PROVE Fits(Pattern(Len(topics) - Len(fixed)))
    <3> DEFINE m == Len(topics) - Len(fixed)
    <3>1. Len(fixed) \in Nat /\ m \in 0 .. Len(topics)
      BY <1>1, <2>1, <2>2, <2>5
    <3>2. /\ Len(Pattern(m)) = Len(fixed) + m
          /\ \A i \in 1 .. Len(fixed) : Pattern(m)[i] = t[i]
          /\ \A i \in Len(fixed) + 1 .. Len(fixed) + m : Pattern(m)[i] = "*"
      BY <2>3, <3>1
    <3> QED
      BY <1>1, <2>2, <2>5, <3>1, <3>2
  <2>6. TopicFilterMatches(t, topics) => Len(topics) - Len(fixed) \in 0 .. Len(topics)
    BY <1>1, <2>1, <2>2
  <2> QED
    BY <1>3, <2>4, <2>5, <2>6
<1>6. CASE Last(t) # "**"
  <2>1. fixed = t
    BY <1>1, <1>4, <1>6, FixedPartFacts
  <2>2. \A n \in 0 .. Len(topics) : Pattern(n) = t
    BY <1>6
  <2>3. TopicFilterMatches(t, topics) <=> Fits(t)
    BY <1>1, <1>2, <1>4, <1>6, <2>1 DEF TopicFilterMatches
  <2>4. 0 \in 0 .. Len(topics)
    BY <1>1
  <2> HIDE DEF Pattern, Fits
  <2> QED
    BY <1>3, <2>2, <2>3, <2>4
<1> QED
  BY <1>5, <1>6

(* Every topic filter that passes validation matches exactly the events it  *)
(* describes: "*" for one topic, a last "**" for any number of them.        *)
THEOREM WildcardsAreRight == FilterSpec => []WildcardsMeanWhatTheySay
<1>1. FilterInv => WildcardsMeanWhatTheySay
  BY TopicsTyped, MatchesAsMeant DEF WildcardsMeanWhatTheySay
<1> QED
  BY <1>1, FilterInvHolds, PTL

-----------------------------------------------------------------------------
(* The SQL condition.                                                       *)

(* A matching topic filter with a value in it is found by a topic column.   *)
LEMMA ColumnFinds ==
    ASSUME FilterInv, NEW f \in request, NEW t \in f.topics, TopicFilterValid(t),
           TopicFilterMatches(t, event.topics),
           NEW i \in 1 .. Len(t), t[i] \notin Wildcards
    PROVE  i \in 1 .. MaxTopicCount /\ TopicColumns(event)[i] \in ValuesAt(request, i)
<1>1. t \in Seq(STRING) /\ event.topics \in Seq(STRING) /\ t # <<>>
  BY TopicsTyped DEF TopicFilterValid
<1>2. i \in 1 .. Len(FixedPart(t)) /\ i \in 1 .. MaxTopicCount
  BY <1>1, ValueIsInFixedPart
<1>3. t[i] = event.topics[i]
  BY <1>2 DEF TopicFilterMatches, SegmentMatches
<1>4. i <= Len(event.topics) /\ i <= Len(t)
  BY <1>1, <1>2, FixedPartFacts DEF TopicFilterMatches
<1>5. TopicColumns(event)[i] = t[i]
  BY <1>2, <1>3, <1>4 DEF TopicColumns
<1>6. t \in {u \in UNION {g.topics : g \in request} : i <= Len(u)}
  BY <1>4
<1> QED
  BY <1>2, <1>5, <1>6 DEF ValuesAt

(* What one of uniform filters matches passes the SQL condition.            *)
LEMMA UniformIsSelected ==
    ASSUME FilterInv, Uniform(request), Matching PROVE Selected(request, event)
<1> DEFINE topics == combineTopics(request)
           asked == {i \in 1 .. MaxTopicCount : topics[i] # {}}
           topicFilters == UNION {g.topics : g \in request}
           HasValue(t) == \E i \in 1 .. Len(t) : t[i] \notin Wildcards
<1>1. CASE request = {}
  <2>1. combineContractIDs(request) = {} /\ combineEventTypes(request) = {}
    BY <1>1 DEF combineContractIDs, combineEventTypes
  <2>2. \A i \in 1 .. MaxTopicCount : topics[i] = {}
    BY <1>1 DEF combineTopics, ValuesAt
  <2> QED
    BY <2>1, <2>2 DEF Selected
<1>2. CASE request # {}
  <2>1. PICK f \in request : FilterMatches(f, event)
    BY <1>2 DEF Matching, RequestMatches
  <2>2. /\ (\A g \in request : g.contracts # {}) \/ (\A g \in request : g.contracts = {})
        /\ (\A g \in request : g.types # {}) \/ (\A g \in request : g.types = {})
        /\ \/ \E g \in request : g.topics = {}
           \/ \A t \in topicFilters : HasValue(t)
           \/ \A t \in topicFilters : ~HasValue(t)
    BY DEF Uniform
  <2>3. combineContractIDs(request) # {} => event.contract \in combineContractIDs(request)
    BY <2>1, <2>2 DEF combineContractIDs, FilterMatches
  <2>4. combineEventTypes(request) # {} => event.type \in combineEventTypes(request)
    BY <2>1, <2>2 DEF combineEventTypes, FilterMatches
  <2>5. asked # {} => \E i \in asked : TopicColumns(event)[i] \in topics[i]
    <3>1. CASE \E g \in request : g.topics = {}
      <4>1. asked = {}
        BY <3>1 DEF combineTopics
      <4> QED
        BY <4>1
    <3>2. CASE ~(\E g \in request : g.topics = {}) /\ \A t \in topicFilters : ~HasValue(t)
      <4>1. \A i \in 1 .. MaxTopicCount : ValuesAt(request, i) = {}
        <5> SUFFICES ASSUME NEW i \in 1 .. MaxTopicCount, NEW t \in topicFilters, i <= Len(t),
                            t[i] \notin Wildcards
                     PROVE  FALSE
          BY DEF ValuesAt
        <5>1. t \in Seq(STRING)
          BY TopicsTyped
        <5>2. i \in 1 .. Len(t)
          BY <5>1
        <5> QED
          BY <3>2, <5>2
      <4>2. asked = {}
        BY <3>2, <4>1 DEF combineTopics
      <4> QED
        BY <4>2
    <3>3. CASE ~(\E g \in request : g.topics = {}) /\ \A t \in topicFilters : HasValue(t)
      <4>1. \A i \in 1 .. MaxTopicCount : topics[i] = ValuesAt(request, i)
        BY <3>3 DEF combineTopics
      <4>2. PICK t \in f.topics : TopicFilterMatches(t, event.topics)
        BY <2>1, <3>3 DEF FilterMatches
      <4>3. TopicFilterValid(t)
        BY DEF Matching, RequestValid, FilterValid
      <4>4. PICK i \in 1 .. Len(t) : t[i] \notin Wildcards
        BY <3>3
      <4>5. i \in 1 .. MaxTopicCount /\ TopicColumns(event)[i] \in ValuesAt(request, i)
        BY <4>2, <4>3, <4>4, ColumnFinds
      <4> QED
        BY <4>1, <4>5
    <3> QED
      BY <2>2, <3>1, <3>2, <3>3
  <2> QED
    BY <2>3, <2>4, <2>5 DEF Selected
<1> QED
  BY <1>1, <1>2

(* The events that the filters of a request match are returned, whatever    *)
(* the filters, if contracts, types and values of topics are given in all   *)
(* of them or in none: the combined SQL condition loses no event.           *)
THEOREM UniformFiltersLoseNothing == FilterSpec => []UniformFiltersComplete
<1>1. FilterInv => UniformFiltersComplete
  BY ValidStaysInRange, UniformIsSelected DEF FilterInv, UniformFiltersComplete, Matching
<1> QED
  BY <1>1, FilterInvHolds, PTL

-----------------------------------------------------------------------------
(* getLedgerEntries and simulateTransaction.                                *)

EntryType == [key : Keys, state : States, ttl : {"until", "0", "none"}]

RequestType ==
    [op : {"none", "getLedgerEntries", "simulateTransaction"}, pc : {"done", "latest", "query"},
     texts : Seq(Keys \union DOMAIN Respelt \union {NotAKey}), keys : Seq(Keys), at : Nat,
     reads : SUBSET [key : Keys, given : Seq(EntryType), failed : BOOLEAN],
     result : Seq(EntryType), reply : {"none", "invalid", "ok", "core_error", "mismatching_key"}]

EntriesType ==
    /\ core \in Seq([Keys -> States])
    /\ ingested \in 1 .. Len(core)
    /\ req \in RequestType

(* The ledger that entries are taken from is fixed before the first of them *)
(* is, and core has closed it; the keys are those of the texts of the       *)
(* request, each in its place.                                              *)
Spelt(texts, keys) ==
    /\ DOMAIN texts = DOMAIN keys
    /\ \A i \in DOMAIN texts : texts[i] \in Keys => keys[i] = texts[i]

RequestShape ==
    /\ req.at <= Len(core)
    /\ req.pc = "query" \/ req.reply = "ok" \/ req.reads # {} => req.at # 0
    /\ req.pc = "latest" => req.reads = {}
    /\ req.pc # "done" => req.reply = "none"
    /\ Spelt(req.texts, req.keys)

EntriesInv == EntriesType /\ RequestShape /\ EntriesOfTheLedger /\ SimulationReadsOneLedger

(* The place that entries of a key are sorted to, if the key itself was sent.*)
LEMMA OrderFacts ==
    ASSUME NEW keys \in Seq(Keys), NEW texts, Spelt(texts, keys), NEW i \in DOMAIN keys,
           \E j \in DOMAIN texts : texts[j] = keys[i]
    PROVE  /\ Order(texts, keys[i]) \in Nat
           /\ ~Repeats(keys) => Order(texts, keys[i]) = i
<1> DEFINE S == {j \in DOMAIN texts : texts[j] = keys[i]}
           IsOrder(m) == texts[m] = keys[i] /\ \A j \in DOMAIN texts : texts[j] = keys[i] => j <= m
<1>1. DOMAIN keys = 1 .. Len(keys) /\ Len(keys) \in Nat /\ DOMAIN keys \subseteq Nat
        /\ DOMAIN texts = DOMAIN keys /\ keys[i] \in Keys
  BY DEF Spelt
<1>2. IsFiniteSet(S) /\ S \in SUBSET Nat /\ S # {}
  <2>1. IsFiniteSet(DOMAIN keys)
    BY <1>1, FS_Interval
  <2>2. S \in SUBSET DOMAIN keys
    BY <1>1
  <2>3. IsFiniteSet(S)
    BY <2>1, <2>2, FS_Subset
  <2> QED
    BY <1>1, <2>2, <2>3
<1>3. PICK m \in S : \A x \in S : x <= m
  <2> HIDE DEF S
  <2> QED
    BY <1>2, LargestNumber
<1>5. m \in DOMAIN texts /\ IsOrder(m)
  BY <1>3
<1>6. Order(texts, keys[i]) = CHOOSE k \in DOMAIN texts : IsOrder(k)
  BY DEF Order
<1> HIDE DEF IsOrder
<1>7. Order(texts, keys[i]) \in DOMAIN texts /\ IsOrder(Order(texts, keys[i]))
  BY <1>5, <1>6
<1>8. texts[Order(texts, keys[i])] = keys[i]
  BY <1>7 DEF IsOrder
<1>9. keys[Order(texts, keys[i])] = keys[i]
  BY <1>1, <1>7, <1>8 DEF Spelt
<1> QED
  BY <1>1, <1>7, <1>9 DEF Repeats

(* The keys that have an entry in a ledger, and the entry that they have.   *)
Present(keys, at) == {i \in DOMAIN keys : core[at][keys[i]] # "absent"}

EntryOf(keys, at, i) == Entry(keys[i], core[at][keys[i]])

LEMMA PresentFacts ==
    ASSUME NEW keys \in Seq(Keys), NEW at
    PROVE  /\ DOMAIN keys = 1 .. Len(keys) /\ Len(keys) \in Nat /\ DOMAIN keys \subseteq Nat
           /\ Present(keys, at) \in SUBSET DOMAIN keys /\ Present(keys, at) \in SUBSET Nat
           /\ IsFiniteSet(Present(keys, at)) /\ Cardinality(Present(keys, at)) \in Nat
<1>1. DOMAIN keys = 1 .. Len(keys) /\ Len(keys) \in Nat /\ DOMAIN keys \subseteq Nat
  OBVIOUS
<1>2. Present(keys, at) \in SUBSET DOMAIN keys
  BY DEF Present
<1>3. IsFiniteSet(DOMAIN keys)
  BY <1>1, FS_Interval
<1>4. IsFiniteSet(Present(keys, at))
  BY <1>2, <1>3, FS_Subset
<1>5. Cardinality(Present(keys, at)) \in Nat
  BY <1>4, FS_CardinalityType
<1> QED
  BY <1>1, <1>2, <1>4, <1>5

LEMMA EntriesFacts ==
    ASSUME NEW keys \in Seq(Keys), NEW at
    PROVE  LET n == Cardinality(Present(keys, at))
           IN  \E f \in Bijection(1 .. n, Present(keys, at)) :
                  /\ \A i, j \in 1 .. n : i < j => f[i] < f[j]
                  /\ Entries(keys, at) = [j \in 1 .. n |-> EntryOf(keys, at, f[j])]
<1> DEFINE P == Present(keys, at)
           n == Cardinality(P)
           f == Found(keys, at)
<1>1. P \in SUBSET Nat /\ IsFiniteSet(P)
  BY PresentFacts
<1>2. f = Ascending(P)
  BY DEF Found, Present
<1> HIDE DEF P, f
<1>3. f \in Bijection(1 .. n, P) /\ \A i, j \in 1 .. n : i < j => f[i] < f[j]
  BY <1>1, <1>2, AscendingFacts
<1>4. DOMAIN f = 1 .. n
  BY <1>3 DEF Bijection, Injection
<1>5. Entries(keys, at) = [j \in 1 .. n |-> EntryOf(keys, at, f[j])]
  BY <1>4 DEF Entries, EntryOf, f
<1> QED
  BY <1>3, <1>5 DEF P

(* What getLedgerEntries makes of the answer of core: each entry that there *)
(* is, in the order of the request if no key is repeated in it.             *)
LEMMA SortedEntries ==
    ASSUME NEW keys \in Seq(Keys), NEW texts, Spelt(texts, keys), NEW at,
           ~Mismatching(texts, Entries(keys, at))
    PROVE  LET n == Cardinality(Present(keys, at))
           IN  \E q \in Bijection(1 .. n, Present(keys, at)) :
                  /\ ~Repeats(keys) => \A a, b \in 1 .. n : a < b => q[a] < q[b]
                  /\ sortKeysAndEntriesAccordingToRequest(texts, Entries(keys, at))
                       = [j \in 1 .. n |-> EntryOf(keys, at, q[j])]
<1> DEFINE P == Present(keys, at)
           n == Cardinality(P)
           D == 1 .. n
           E == Entries(keys, at)
           r == sortKeysAndEntriesAccordingToRequest(texts, E)
           InOrder(p) == \A i, j \in D :
                            i < j => Order(texts, E[p[i]].key) <= Order(texts, E[p[j]].key)
<1>1. PICK f \in Bijection(1 .. n, P) : E = [j \in 1 .. n |-> EntryOf(keys, at, f[j])]
  BY EntriesFacts
<1>2. /\ n \in Nat /\ P \subseteq DOMAIN keys /\ DOMAIN keys \subseteq Nat
      /\ \A i \in D : f[i] \in P
  BY <1>1, PresentFacts DEF Bijection, Injection
<1>3. DOMAIN E = D /\ \A i \in D : E[i] = EntryOf(keys, at, f[i]) /\ E[i].key = keys[f[i]]
  BY <1>1 DEF EntryOf, Entry
<1>a. \A i \in D : \E j \in DOMAIN texts : texts[j] = keys[f[i]]
  BY <1>3 DEF Mismatching
<1> DEFINE w == [i \in D |-> Order(texts, keys[f[i]])]
           place == CHOOSE p \in Bijection(D, D) : InOrder(p)
<1> HIDE DEF P, n, E
<1>4. w \in [D -> Nat]
  <2>1. \A i \in D : Order(texts, keys[f[i]]) \in Nat
    BY <1>2, <1>a, OrderFacts
  <2> QED
    BY <2>1
<1>5. PICK p \in Bijection(D, D) : \A i, j \in D : i < j => w[p[i]] <= w[p[j]]
  BY <1>2, <1>4, Sorting
<1>6. \A g \in Bijection(D, D) : \A i \in D : g[i] \in D
  BY DEF Bijection, Injection
<1> HIDE DEF D
<1>7. \A g \in Bijection(D, D) : \A i \in D : w[g[i]] = Order(texts, E[g[i]].key)
  BY <1>3, <1>6
<1> HIDE DEF w
<1>8. InOrder(p)
  BY <1>5, <1>7
<1> HIDE DEF InOrder
<1>9. place \in Bijection(D, D) /\ InOrder(place)
  BY <1>5, <1>8
<1>10. r = [i \in D |-> E[place[i]]]
  BY <1>3 DEF sortKeysAndEntriesAccordingToRequest, InOrder
<1> HIDE DEF place, r
<1> DEFINE q == [i \in D |-> f[place[i]]]
<1>11. q \in Bijection(D, P)
  <2>1. /\ f \in [D -> P] /\ place \in [D -> D]
        /\ \A i, j \in D : f[i] = f[j] => i = j
        /\ \A i, j \in D : place[i] = place[j] => i = j
        /\ \A t \in P : \E i \in D : f[i] = t
        /\ \A t \in D : \E i \in D : place[i] = t
    BY <1>1, <1>9 DEF Bijection, Injection, Surjection, IsInjective, D
  <2>2. q \in [D -> P]
    BY <2>1
  <2>3. \A i, j \in D : q[i] = q[j] => i = j
    BY <2>1
  <2>4. \A t \in P : \E i \in D : q[i] = t
    <3> SUFFICES ASSUME NEW t \in P PROVE \E i \in D : q[i] = t
      OBVIOUS
    <3>1. PICK k \in D : f[k] = t
      BY <2>1
    <3>2. PICK i \in D : place[i] = k
      BY <2>1
    <3> QED
      BY <3>1, <3>2
  <2> HIDE DEF q
  <2> QED
    BY <2>2, <2>3, <2>4 DEF Bijection, Injection, Surjection, IsInjective
<1>12. r = [i \in D |-> EntryOf(keys, at, q[i])]
  BY <1>3, <1>6, <1>9, <1>10
<1>13. ASSUME ~Repeats(keys), NEW a \in D, NEW b \in D, a < b PROVE q[a] < q[b]
  <2>1. place[a] \in D /\ place[b] \in D /\ q[a] = f[place[a]] /\ q[b] = f[place[b]]
    BY <1>6, <1>9
  <2>2. Order(texts, keys[q[a]]) <= Order(texts, keys[q[b]])
    BY <1>3, <1>9, <1>13, <2>1 DEF InOrder
  <2>3. q[a] \in DOMAIN keys /\ q[b] \in DOMAIN keys
    BY <1>2, <2>1
  <2>6. /\ \E j \in DOMAIN texts : texts[j] = keys[q[a]]
        /\ \E j \in DOMAIN texts : texts[j] = keys[q[b]]
    BY <1>a, <2>1
  <2> HIDE DEF q
  <2>4. Order(texts, keys[q[a]]) = q[a] /\ Order(texts, keys[q[b]]) = q[b]
    BY <1>13, <2>3, <2>6, OrderFacts
  <2>5. q[a] # q[b]
    BY <1>11, <1>13 DEF Bijection, Injection, IsInjective, D
  <2> QED
    BY <1>2, <2>2, <2>3, <2>4, <2>5
<1> HIDE DEF q
<1> QED
  BY <1>11, <1>12, <1>13 DEF D, P, n, E, r

(* A request that spells its keys as MarshalBase64 does has no mismatch.    *)
LEMMA OwnSpelling ==
    ASSUME NEW keys \in Seq(Keys), NEW texts, Spelt(texts, keys), NEW at,
           Mismatching(texts, Entries(keys, at))
    PROVE  \E i \in DOMAIN texts : texts[i] \notin Keys
<1> DEFINE P == Present(keys, at)
           n == Cardinality(P)
<1>1. PICK f \in Bijection(1 .. n, P) : Entries(keys, at) = [j \in 1 .. n |-> EntryOf(keys, at, f[j])]
  BY EntriesFacts
<1>2. P \subseteq DOMAIN keys /\ \A j \in 1 .. n : f[j] \in P
  BY <1>1, PresentFacts DEF Bijection, Injection
<1>3. PICK j \in DOMAIN Entries(keys, at) : \A i \in DOMAIN texts : texts[i] # Entries(keys, at)[j].key
  BY DEF Mismatching
<1> HIDE DEF P, n
<1>4. f[j] \in DOMAIN texts /\ Entries(keys, at)[j].key = keys[f[j]]
  BY <1>1, <1>2, <1>3 DEF EntryOf, Entry, Spelt
<1> QED
  BY <1>3, <1>4 DEF Spelt

(* What EntriesOfTheLedger says, of an answer to a request.                 *)
Answers(keys, at, result) ==
    LET P == Present(keys, at)
    IN  /\ Len(result) = Cardinality(P)
        /\ \A i \in P : Count(result, EntryOf(keys, at, i))
                          = Cardinality({j \in P : EntryOf(keys, at, j) = EntryOf(keys, at, i)})
        /\ ~Repeats(keys) =>
              \A a, b \in DOMAIN result : a < b =>
                  \E i, j \in P : i < j /\ result[a] = EntryOf(keys, at, i)
                                        /\ result[b] = EntryOf(keys, at, j)

LEMMA AnswersAsClaimed ==
    (/\ (req.op = "getLedgerEntries" /\ req.reply = "ok" => Answers(req.keys, req.at, req.result))
     /\ (req.reply = "mismatching_key" => \E i \in DOMAIN req.texts : req.texts[i] \notin Keys))
        => EntriesOfTheLedger
<1>1. \A i : Asked(i) = EntryOf(req.keys, req.at, i)
  BY DEF Asked, EntryOf
<1>2. \A i : Asked(i).state = core[req.at][req.keys[i]]
  BY DEF Asked, Entry
<1>3. Existing = Present(req.keys, req.at)
  BY <1>2 DEF Existing, Present
<1> QED
  BY <1>1, <1>3 DEF EntriesOfTheLedger, Answers

(* A ledger's entries, as the query of getLedgerEntries returns them.       *)
LEMMA QueryAnswers ==
    ASSUME EntriesType, NEW keys \in Seq(Keys), NEW at \in 1 .. Len(core),
           NEW texts, Spelt(texts, keys), ~Mismatching(texts, Entries(keys, at))
    PROVE  LET r == sortKeysAndEntriesAccordingToRequest(texts, Entries(keys, at))
           IN  r \in Seq(EntryType) /\ Answers(keys, at, r)
<1> DEFINE P == Present(keys, at)
           n == Cardinality(P)
           D == 1 .. n
           r == sortKeysAndEntriesAccordingToRequest(texts, Entries(keys, at))
           A(i) == EntryOf(keys, at, i)
<1>1. PICK q \in Bijection(1 .. n, P) :
          /\ ~Repeats(keys) => \A a, b \in 1 .. n : a < b => q[a] < q[b]
          /\ r = [j \in 1 .. n |-> A(q[j])]
  BY SortedEntries
<1>2. n \in Nat /\ P \subseteq DOMAIN keys
  BY PresentFacts
<1>3. \A i \in DOMAIN keys : A(i) \in EntryType
  BY DEF EntryOf, Entry, Ttl, EntryType, EntriesType, States
<1>4. \A j \in D : q[j] \in P
  BY <1>1 DEF Bijection, Injection
<1> HIDE DEF P, n, r, A
<1>5. r \in [1 .. n -> EntryType]
  BY <1>1, <1>2, <1>3, <1>4
<1>6. r \in Seq(EntryType) /\ Len(r) = n /\ DOMAIN r = 1 .. n
  BY <1>2, <1>5
<1>7. \A i \in P : Count(r, A(i)) = Cardinality({j \in P : A(j) = A(i)})
  <2> SUFFICES ASSUME NEW i \in P PROVE Count(r, A(i)) = Cardinality({j \in P : A(j) = A(i)})
    OBVIOUS
  <2> DEFINE C == {j \in P : A(j) = A(i)}
  <2>1. {k \in DOMAIN r : r[k] = A(i)} = {k \in D : q[k] \in C}
    BY <1>1, <1>4, <1>6
  <2>2. IsFiniteSet(D)
    BY <1>2, FS_Interval
  <2>3. C \in SUBSET P /\ q \in Bijection(D, P)
    BY <1>1
  <2> HIDE DEF C, D
  <2>4. Cardinality({k \in D : q[k] \in C}) = Cardinality(C)
    BY <2>2, <2>3, CountedThrough
  <2> QED
    BY <2>1, <2>4 DEF Count, C
<1>8. ASSUME ~Repeats(keys), NEW a \in DOMAIN r, NEW b \in DOMAIN r, a < b
      PROVE  \E i, j \in P : i < j /\ r[a] = A(i) /\ r[b] = A(j)
  <2>1. q[a] \in P /\ q[b] \in P /\ q[a] < q[b] /\ r[a] = A(q[a]) /\ r[b] = A(q[b])
    BY <1>1, <1>4, <1>6, <1>8
  <2> QED
    BY <2>1
<1> QED
  BY <1>6, <1>7, <1>8 DEF Answers, P, n, r, A

(* What a simulation is given for a key.                                    *)
LEMMA GivenFacts ==
    ASSUME EntriesType, NEW key \in Keys, NEW at \in 1 .. Len(core)
    PROVE  /\ Entries(<<key>>, at) \in Seq(EntryType)
           /\ Entries(<<key>>, at) = IF core[at][key] = "absent" THEN <<>>
                                     ELSE <<Entry(key, core[at][key])>>
<1> DEFINE ks == <<key>>
           P == Present(ks, at)
           n == Cardinality(P)
           e == Entry(key, core[at][key])
<1>1. ks \in Seq(Keys) /\ DOMAIN ks = {1} /\ ks[1] = key
  OBVIOUS
<1>2. e \in EntryType
  BY DEF Entry, Ttl, EntryType, EntriesType, States
<1> HIDE DEF ks
<1>3. PICK f \in Bijection(1 .. n, P) : Entries(ks, at) = [j \in 1 .. n |-> EntryOf(ks, at, f[j])]
  BY <1>1, EntriesFacts
<1>4. CASE core[at][key] = "absent"
  <2>1. P = {}
    BY <1>1, <1>4 DEF Present
  <2>2. n = 0
    BY <2>1, FS_EmptySet
  <2>3. Entries(ks, at) = <<>>
    BY <1>3, <2>2
  <2> QED
    BY <1>4, <2>3 DEF ks
<1>5. CASE core[at][key] # "absent"
  <2>1. P = {1}
    BY <1>1, <1>5 DEF Present
  <2>2. n = 1
    BY <2>1, FS_Singleton
  <2>3. f[1] = 1
    BY <1>3, <2>1, <2>2 DEF Bijection, Injection
  <2>4. EntryOf(ks, at, 1) = e
    BY <1>1 DEF EntryOf
  <2>5. Entries(ks, at) = [j \in 1 .. 1 |-> e]
    <3>1. \A j \in 1 .. 1 : j = 1
      OBVIOUS
    <3> QED
      BY <1>3, <2>2, <2>3, <2>4, <3>1
  <2> HIDE DEF e
  <2>6. Entries(ks, at) = <<e>>
    BY <2>5
  <2>7. <<e>> \in Seq(EntryType)
    BY <1>2
  <2> QED
    BY <1>5, <2>6, <2>7 DEF e, ks
<1> QED
  BY <1>4, <1>5

(* Core's ledgers stay as they are when one more is closed.                 *)
LEMMA ClosedLedgersStay ==
    ASSUME EntriesInv, CloseLedger
    PROVE  EntriesInv'
<1>1. PICK entries \in [Keys -> States] : core' = Append(core, entries)
  BY DEF CloseLedger
<1>2. /\ core' \in Seq([Keys -> States]) /\ Len(core') = Len(core) + 1 /\ Len(core) \in Nat
      /\ \A i \in 1 .. Len(core) : core'[i] = core[i]
  BY <1>1 DEF EntriesInv, EntriesType
<1>3. ingested' = ingested /\ req' = req /\ req \in RequestType /\ req.at \in Nat
  BY DEF CloseLedger, EntriesInv, EntriesType, RequestType
<1>4. EntriesType'
  BY <1>2, <1>3 DEF EntriesInv, EntriesType
<1>5. RequestShape'
  BY <1>2, <1>3 DEF EntriesInv, RequestShape
<1>6. req.at # 0 => core'[req.at] = core[req.at]
  BY <1>2, <1>3 DEF EntriesInv, RequestShape
<1>7. EntriesOfTheLedger'
  <2>1. CASE req.at # 0
    <3>1. \A i : Asked(i)' = Asked(i)
      BY <1>3, <1>6, <2>1 DEF Asked
    <3>2. Existing' = Existing
      BY <1>3, <3>1 DEF Existing
    <3> QED
      BY <1>3, <3>1, <3>2 DEF EntriesInv, EntriesOfTheLedger
  <2>2. CASE req.at = 0
    BY <1>3, <2>2 DEF EntriesInv, RequestShape, EntriesOfTheLedger
  <2> QED
    BY <2>1, <2>2
<1>8. SimulationReadsOneLedger'
  BY <1>3, <1>6 DEF EntriesInv, RequestShape, SimulationReadsOneLedger
<1> QED
  BY <1>4, <1>5, <1>7, <1>8 DEF EntriesInv

LEMMA QueryKeepsInv ==
    ASSUME EntriesInv, QueryEntries
    PROVE  EntriesInv'
<1> DEFINE E == Entries(req.keys, req.at)
           r == sortKeysAndEntriesAccordingToRequest(req.texts, E)
           Bad == Mismatching(req.texts, E)
<1>1. req \in RequestType /\ req.pc = "query" /\ core' = core /\ ingested' = ingested
  BY DEF EntriesInv, EntriesType, QueryEntries
<1>2. /\ req.at \in 1 .. Len(core) /\ req.keys \in Seq(Keys) /\ Len(core) \in Nat
      /\ Spelt(req.texts, req.keys)
  BY <1>1 DEF EntriesInv, EntriesType, RequestShape, RequestType
<1>3. ~Bad => r \in Seq(EntryType) /\ Answers(req.keys, req.at, r)
  BY <1>2, QueryAnswers DEF EntriesInv
<1>4. Bad => \E i \in DOMAIN req.texts : req.texts[i] \notin Keys
  BY <1>2, OwnSpelling
<1>a. \/ ~Bad /\ req' = [req EXCEPT !.pc = "done", !.reply = "ok", !.result = r]
      \/ Bad /\ req' = [req EXCEPT !.pc = "done", !.reply = "mismatching_key"]
      \/ req' = [req EXCEPT !.pc = "done", !.reply = "core_error"]
  BY <1>1 DEF QueryEntries, Finish, RequestType
<1> HIDE DEF r, Bad
<1>5. /\ req' \in RequestType /\ req'.at = req.at /\ req'.keys = req.keys /\ req'.reads = req.reads
      /\ req'.texts = req.texts /\ req'.pc = "done"
      /\ (req'.reply = "ok" => req'.result = r /\ ~Bad)
      /\ (req'.reply = "mismatching_key" => Bad)
  BY <1>1, <1>3, <1>a DEF RequestType
<1>6. EntriesType' /\ RequestShape'
  BY <1>1, <1>2, <1>5 DEF EntriesInv, EntriesType, RequestShape
<1>7. EntriesOfTheLedger'
  <2>1. (req.op = "getLedgerEntries" /\ req.reply = "ok" => Answers(req.keys, req.at, req.result))'
    <3> SUFFICES ASSUME req'.reply = "ok" PROVE Answers(req.keys, req.at, req.result)'
      OBVIOUS
    <3>1. Present(req.keys, req.at)' = Present(req.keys, req.at)
      BY <1>1, <1>5 DEF Present
    <3>2. \A i : EntryOf(req.keys, req.at, i)' = EntryOf(req.keys, req.at, i)
      BY <1>1, <1>5 DEF EntryOf
    <3>3. req'.result = r /\ Repeats(req.keys)' = Repeats(req.keys) /\ ~Bad
      BY <1>5 DEF Repeats
    <3>4. Answers(req.keys, req.at, r)
      BY <1>3, <3>3
    <3> QED
      BY <3>1, <3>2, <3>3, <3>4 DEF Answers, Count
  <2>2. (req.reply = "mismatching_key" => \E i \in DOMAIN req.texts : req.texts[i] \notin Keys)'
    BY <1>4, <1>5
  <2>3. ((/\ (req.op = "getLedgerEntries" /\ req.reply = "ok" => Answers(req.keys, req.at, req.result))
          /\ (req.reply = "mismatching_key" => \E i \in DOMAIN req.texts : req.texts[i] \notin Keys))
           => EntriesOfTheLedger)'
    BY AnswersAsClaimed, PTL
  <2> QED
    BY <2>1, <2>2, <2>3
<1>8. SimulationReadsOneLedger'
  BY <1>1, <1>5 DEF EntriesInv, SimulationReadsOneLedger
<1> QED
  BY <1>6, <1>7, <1>8 DEF EntriesInv

LEMMA GetKeepsInv ==
    ASSUME EntriesInv, NEW key \in Keys, SnapshotSourceGet(key)
    PROVE  EntriesInv'
<1> DEFINE given == IF Queryable(req.at) THEN Entries(<<key>>, req.at) ELSE <<>>
           x == [key |-> key, given |-> given, failed |-> ~Queryable(req.at)]
<1>1. req \in RequestType /\ req.pc = "query" /\ core' = core /\ ingested' = ingested
        /\ req.reply = "none" /\ req.op = "simulateTransaction"
  BY DEF EntriesInv, EntriesType, RequestShape, SnapshotSourceGet
<1>2. req.at \in 1 .. Len(core) /\ Len(core) \in Nat
  BY <1>1 DEF EntriesInv, EntriesType, RequestShape, RequestType
<1>3. /\ Entries(<<key>>, req.at) \in Seq(EntryType)
      /\ Entries(<<key>>, req.at) = IF core[req.at][key] = "absent" THEN <<>>
                                    ELSE <<Entry(key, core[req.at][key])>>
  BY <1>2, GivenFacts DEF EntriesInv
<1>4. given \in Seq(EntryType)
  BY <1>3
<1>5. x \in [key : Keys, given : Seq(EntryType), failed : BOOLEAN]
  BY <1>4 DEF Queryable
<1>6. ~x.failed => x.given = IF core[req.at][x.key] = "absent" THEN <<>>
                             ELSE <<Entry(x.key, core[req.at][x.key])>>
  BY <1>3
<1>7. req' = [req EXCEPT !.reads = @ \union {x}]
  BY DEF SnapshotSourceGet, LedgerOfGetter
<1> HIDE DEF x
<1>8. /\ req' \in RequestType /\ req'.reads = req.reads \union {x} /\ req'.at = req.at
      /\ req'.pc = req.pc /\ req'.reply = req.reply /\ req'.keys = req.keys /\ req'.op = req.op
      /\ req'.texts = req.texts
  BY <1>1, <1>5, <1>7 DEF RequestType
<1>9. EntriesType' /\ RequestShape'
  BY <1>1, <1>2, <1>8 DEF EntriesInv, EntriesType, RequestShape
<1>10. EntriesOfTheLedger'
  BY <1>1, <1>8 DEF EntriesOfTheLedger
<1>11. SimulationReadsOneLedger'
  BY <1>1, <1>6, <1>8 DEF EntriesInv, SimulationReadsOneLedger
<1> QED
  BY <1>9, <1>10, <1>11 DEF EntriesInv

LEMMA RequestAlone ==
    ASSUME EntriesInv, UNCHANGED <<core, req>>
    PROVE  RequestShape' /\ EntriesOfTheLedger' /\ SimulationReadsOneLedger'
<1>1. \A i : Asked(i)' = Asked(i)
  BY DEF Asked
<1>2. Existing' = Existing
  BY <1>1 DEF Existing
<1>3. EntriesOfTheLedger'
  BY <1>1, <1>2 DEF EntriesInv, EntriesOfTheLedger
<1> QED
  BY <1>3 DEF EntriesInv, RequestShape, SimulationReadsOneLedger

LEMMA IdleFacts == Idle \in RequestType /\ Spelt(Idle.texts, Idle.keys)
<1>1. \A X : <<>> \in Seq(X)
  OBVIOUS
<1>2. \A X : {} \in SUBSET X
  OBVIOUS
<1> QED
  BY <1>1, <1>2 DEF Idle, RequestType, Spelt

(* A request that begins, that takes the latest ledger, or that ends.       *)
LEMMA OtherStepsKeepInv ==
    ASSUME EntriesInv,
           \/ Ingest \/ BeginSimulation \/ ReadLatest \/ EndSimulation
           \/ \E texts \in KeyLists, format \in Formats : BeginEntries(texts, format)
           \/ UNCHANGED vars
    PROVE  EntriesInv'
<1>1. req \in RequestType /\ core \in Seq([Keys -> States]) /\ ingested \in 1 .. Len(core)
        /\ Len(core) \in Nat
  BY DEF EntriesInv, EntriesType
<1>2. CASE Ingest
  <2>1. EntriesType'
    BY <1>1, <1>2 DEF EntriesType, Ingest
  <2> QED
    BY <1>2, <2>1, RequestAlone DEF EntriesInv, Ingest
<1>3. CASE BeginSimulation
  <2>1. req' = [Idle EXCEPT !.op = "simulateTransaction", !.pc = "latest"]
    BY <1>3 DEF BeginSimulation
  <2>2. req' \in RequestType /\ Spelt(req'.texts, req'.keys)
    BY <2>1, IdleFacts DEF RequestType
  <2> QED
    BY <1>1, <1>3, <2>1, <2>2 DEF EntriesInv, EntriesType, RequestShape, BeginSimulation, Idle,
                                  EntriesOfTheLedger, SimulationReadsOneLedger
<1>4. CASE ReadLatest
  <2>1. req' = [req EXCEPT !.at = ingested, !.pc = "query"] /\ core' = core /\ ingested' = ingested
    BY <1>4 DEF ReadLatest
  <2>2. /\ req' \in RequestType /\ req'.reads = {} /\ req'.at \in 1 .. Len(core)
        /\ req'.reply = "none" /\ Spelt(req'.texts, req'.keys)
    <3>1. /\ req.pc = "latest" /\ req.reads = {} /\ req.reply = "none"
          /\ Spelt(req.texts, req.keys)
      BY <1>1, <1>4 DEF ReadLatest, EntriesInv, RequestShape
    <3>2. ingested \in Nat
      BY <1>1
    <3> QED
      BY <1>1, <2>1, <3>1, <3>2 DEF RequestType
  <2> QED
    BY <1>1, <2>1, <2>2 DEF EntriesInv, EntriesType, RequestShape, EntriesOfTheLedger,
                            SimulationReadsOneLedger
<1>5. CASE EndSimulation
  <2>1. req' = [req EXCEPT !.pc = "done", !.reply = "ok"] /\ core' = core /\ ingested' = ingested
    BY <1>5 DEF EndSimulation, Finish
  <2>2. /\ req' \in RequestType /\ req'.reads = req.reads /\ req'.at = req.at /\ req.pc = "query"
        /\ req'.op = "simulateTransaction" /\ req'.keys = req.keys /\ req'.texts = req.texts
    BY <1>1, <1>5, <2>1 DEF RequestType, EndSimulation
  <2> QED
    BY <1>1, <2>1, <2>2 DEF EntriesInv, EntriesType, RequestShape, EntriesOfTheLedger,
                            SimulationReadsOneLedger
<1>6. ASSUME NEW texts \in KeyLists, NEW format \in Formats, BeginEntries(texts, format)
      PROVE  EntriesInv'
  <2> DEFINE keys == [i \in DOMAIN texts |-> Decoded(texts[i])]
  <2>1. core' = core /\ ingested' = ingested
    BY <1>6 DEF BeginEntries
  <2>2. texts \in Seq(Keys \union DOMAIN Respelt \union {NotAKey}) /\ Len(texts) \in Nat
    BY KeyListsAreOfKeys
  <2>3. CASE Valid(texts, format)
    <3>1. \A i \in DOMAIN texts : Decoded(texts[i]) \in Keys
      BY <2>2, <2>3, KeyListsAreOfKeys DEF Valid, Decoded
    <3>2. DOMAIN texts = 1 .. Len(texts)
      BY <2>2
    <3>3. keys \in Seq(Keys)
      BY <2>2, <3>1, <3>2
    <3>4. Spelt(texts, keys)
      BY DEF Spelt, Decoded
    <3>5. req' = [Idle EXCEPT !.op = "getLedgerEntries", !.pc = "latest", !.texts = texts,
                              !.keys = keys]
      BY <1>6, <2>3 DEF BeginEntries
    <3> HIDE DEF keys
    <3>6. req' \in RequestType
      BY <2>2, <3>3, <3>5, IdleFacts DEF RequestType
    <3>7. /\ req'.keys = keys /\ req'.texts = texts /\ req'.reads = {} /\ req'.reply = "none"
          /\ req'.at = 0 /\ req'.pc = "latest"
      BY <3>5 DEF Idle
    <3> QED
      BY <1>1, <2>1, <3>4, <3>6, <3>7 DEF EntriesInv, EntriesType, RequestShape,
                                          EntriesOfTheLedger, SimulationReadsOneLedger
  <2>4. CASE ~Valid(texts, format)
    <3>1. req' = [Idle EXCEPT !.op = "getLedgerEntries", !.reply = "invalid"]
      BY <1>6, <2>4 DEF BeginEntries
    <3>2. req' \in RequestType
      BY <3>1, IdleFacts DEF RequestType
    <3>3. /\ req'.keys = Idle.keys /\ req'.texts = Idle.texts /\ req'.reads = {}
          /\ req'.reply = "invalid" /\ req'.at = 0 /\ req'.pc = "done"
      BY <3>1 DEF Idle
    <3> QED
      BY <1>1, <2>1, <3>2, <3>3, IdleFacts DEF EntriesInv, EntriesType, RequestShape,
                                               EntriesOfTheLedger, SimulationReadsOneLedger
  <2> QED
    BY <2>3, <2>4
<1>7. CASE UNCHANGED vars
  <2>1. EntriesType'
    BY <1>1, <1>7 DEF EntriesType, vars
  <2> QED
    BY <1>7, <2>1, RequestAlone DEF EntriesInv, vars
<1> QED
  BY <1>2, <1>3, <1>4, <1>5, <1>6, <1>7

LEMMA EntriesInvHolds == Spec => []EntriesInv
<1>1. Init => EntriesInv
  <2> SUFFICES ASSUME Init PROVE EntriesInv
    OBVIOUS
  <2>1. core \in Seq([Keys -> States]) /\ Len(core) = 1
    <3> DEFINE X == [Keys -> States]
    <3>1. core \in [1 .. 1 -> X]
      BY DEF Init
    <3> HIDE DEF X
    <3>2. core \in Seq(X)
      BY <3>1, SeqDef
    <3>3. Len(core) = 1
      BY <3>1, <3>2, LenProperties
    <3> QED
      BY <3>2, <3>3 DEF X
  <2>2. req \in RequestType /\ Spelt(req.texts, req.keys)
    BY IdleFacts DEF Init
  <2> QED
    BY <2>1, <2>2 DEF Init, Idle, EntriesInv, EntriesType, RequestShape, EntriesOfTheLedger,
                      SimulationReadsOneLedger
<1>2. EntriesInv /\ [Next]_vars => EntriesInv'
  <2> SUFFICES ASSUME EntriesInv, [Next]_vars PROVE EntriesInv'
    OBVIOUS
  <2>1. CASE CloseLedger
    BY <2>1, ClosedLedgersStay
  <2>2. CASE QueryEntries
    BY <2>2, QueryKeepsInv
  <2>3. CASE \E key \in Keys : SnapshotSourceGet(key)
    BY <2>3, GetKeepsInv
  <2>4. CASE \/ Ingest \/ BeginSimulation \/ ReadLatest \/ EndSimulation
             \/ \E texts \in KeyLists, format \in Formats : BeginEntries(texts, format)
             \/ UNCHANGED vars
    BY <2>4, OtherStepsKeepInv
  <2> QED
    BY <2>1, <2>2, <2>3, <2>4 DEF Next
<1> QED
  BY <1>1, <1>2, PTL DEF Spec

(* Answers of getLedgerEntries have exactly the entries of the ledger they  *)
(* name, whatever core closes and ingestion takes in between, for any keys  *)
(* and any number of them: the skipping of what core does not find, the     *)
(* pairing of keys with entries and the sort by the last place of a key     *)
(* lose nothing, double nothing and keep the order of the request.          *)
THEOREM EntriesAreOfTheLedger == Spec => []EntriesOfTheLedger
<1>1. EntriesInv => EntriesOfTheLedger
  BY DEF EntriesInv
<1> QED
  BY <1>1, EntriesInvHolds, PTL

(* What a simulation is given, one entry at a time by NewLedgerEntryAtGetter,*)
(* is all of the ledger that was the latest when it began.                  *)
THEOREM SimulationsReadOneLedger == Spec => []SimulationReadsOneLedger
<1>1. EntriesInv => SimulationReadsOneLedger
  BY DEF EntriesInv
<1> QED
  BY <1>1, EntriesInvHolds, PTL
=============================================================================
