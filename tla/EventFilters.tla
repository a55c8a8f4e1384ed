---------------------------- MODULE EventFilters ----------------------------
(***************************************************************************)
(* The filters of getEvents.  A request is validated; its filters are       *)
(* combined into one SQL condition on the columns of the events table       *)
(* (methods/get_events.go, db/event.go); and the rows that pass it are      *)
(* matched against each filter (protocol/get_events.go).                    *)
(*                                                                          *)
(* One event and one request are looked at: rows are filtered one by one.   *)
(***************************************************************************)
EXTENDS Integers, Sequences, FiniteSets

CONSTANTS
    MaxTopicCount,  \* topics in a filter, and topic columns of the table
    MaxFiltersLimit,        \* filters in a request
    MaxTopicsLimit,         \* topic filters in a filter
    MaxContractIDsLimit,    \* contracts in a filter
    Requests,       \* sets of filters that are asked for, valid or not
    Events          \* events that may be stored

EventTypes == {"system", "contract", "diagnostic"}

ASSUME MaxTopicCountIsPositive == MaxTopicCount \in Nat \ {0}

(* Topics are sequences; a topic filter may be empty, and is then refused.  *)
ASSUME TopicsAreSequences ==
    /\ \A fs \in Requests : \A f \in fs : f.topics \subseteq Seq(STRING)
    /\ \A e \in Events : e.topics \in Seq(STRING)

VARIABLES
    request,    \* the filters of the request
    event,      \* the event that is looked at
    answer      \* what becomes of it

filterVars == <<request, event, answer>>

(* The segments "*" and "**" of a topic filter; any other one is a value.   *)
Wildcards == {"*", "**"}

NoContract == "no contract"

Last(s) == s[Len(s)]

-----------------------------------------------------------------------------
(* Validation.                                                              *)

hasTrailingZeroOrMoreWildcard(t) == t # <<>> /\ Last(t) = "**"

(* Segments of a topic filter, without a trailing "**".                     *)
FixedPart(t) ==
    IF hasTrailingZeroOrMoreWildcard(t) THEN SubSeq(t, 1, Len(t) - 1) ELSE t

(* Mutant: the number of segments is not checked.                           *)
TopicFilterValidAnyLength(t) ==
    /\ t # <<>>
    /\ \A i \in 1 .. Len(FixedPart(t)) : t[i] # "**"

TopicFilterValid(t) ==
    /\ t # <<>>
    /\ \A i \in 1 .. Len(FixedPart(t)) : t[i] # "**"
    /\ Len(FixedPart(t)) <= MaxTopicCount

FilterValid(f) ==
    /\ f.types \subseteq EventTypes
    /\ Cardinality(f.contracts) <= MaxContractIDsLimit
    /\ Cardinality(f.topics) <= MaxTopicsLimit
    /\ \A t \in f.topics : TopicFilterValid(t)

RequestValid(fs) ==
    Cardinality(fs) <= MaxFiltersLimit /\ \A f \in fs : FilterValid(f)

-----------------------------------------------------------------------------
(* Matching.                                                                *)

SegmentMatches(segment, topic) == segment \in Wildcards \/ segment = topic

(* Mutant: "**" stands for at least one topic.                              *)
TopicFilterMatchesOneOrMore(t, topics) ==
    /\ IF hasTrailingZeroOrMoreWildcard(t) THEN Len(topics) >= Len(t)
       ELSE Len(topics) = Len(t)
    /\ \A i \in 1 .. Len(FixedPart(t)) : SegmentMatches(t[i], topics[i])

TopicFilterMatches(t, topics) ==
    /\ IF hasTrailingZeroOrMoreWildcard(t) THEN Len(topics) >= Len(t) - 1
       ELSE Len(topics) = Len(t)
    /\ \A i \in 1 .. Len(FixedPart(t)) : SegmentMatches(t[i], topics[i])

(* An empty part of a filter matches every event.                           *)
FilterMatches(f, e) ==
    /\ f.types # {} => e.type \in f.types
    /\ f.contracts # {} => e.contract \in f.contracts
    /\ f.topics # {} => \E t \in f.topics : TopicFilterMatches(t, e.topics)

RequestMatches(fs, e) == fs # {} => \E f \in fs : FilterMatches(f, e)

-----------------------------------------------------------------------------
(* The SQL condition.                                                       *)

combineContractIDs(fs) == UNION {f.contracts : f \in fs}

combineEventTypes(fs) == UNION {f.types : f \in fs}

(* Values asked for in each position.                                       *)
ValuesAt(fs, i) ==
    {t[i] : t \in {u \in UNION {f.topics : f \in fs} : i <= Len(u)}} \ Wildcards

(* Mutant: a filter without topics is not seen.                             *)
combineTopicsOfSome(fs) == [i \in 1 .. MaxTopicCount |-> ValuesAt(fs, i)]

(* A filter without topics asks for all of them.                            *)
combineTopics(fs) ==
    [i \in 1 .. MaxTopicCount |-> IF \E f \in fs : f.topics = {} THEN {} ELSE ValuesAt(fs, i)]

(* encodedTopicsList has MaxTopicCount elements, and combineTopics indexes  *)
(* it with the positions of values (in the worst order of the filters: it   *)
(* stops at the first one without topics).                                  *)
IndexesOutOfRange(fs) ==
    \E f \in fs : \E t \in f.topics :
        \E i \in 1 .. Len(t) : i > MaxTopicCount /\ t[i] \notin Wildcards

(* The topic columns of the row of an event: its first topics, or NULL.     *)
TopicColumns(e) ==
    [i \in 1 .. MaxTopicCount |-> IF i <= Len(e.topics) THEN e.topics[i] ELSE "NULL"]

(* The WHERE of GetEvents: each part only if there is something to ask for, *)
(* the columns of topics joined by OR.                                      *)
Selected(fs, e) ==
    LET contracts == combineContractIDs(fs)
        types == combineEventTypes(fs)
        topics == combineTopics(fs)
        asked == {i \in 1 .. MaxTopicCount : topics[i] # {}}
    IN  /\ contracts # {} => e.contract \in contracts
        /\ types # {} => e.type \in types
        /\ asked # {} => \E i \in asked : TopicColumns(e)[i] \in topics[i]

-----------------------------------------------------------------------------
FilterInit ==
    /\ request \in Requests
    /\ event \in Events
    /\ answer = "none"

(* getEvents, as far as this event is concerned.                            *)
GetEvents ==
    /\ answer = "none"
    /\ answer' =
         IF ~RequestValid(request) THEN "refused"
         ELSE IF IndexesOutOfRange(request) THEN "panic"
         ELSE IF Selected(request, event) /\ RequestMatches(request, event) THEN "returned"
         ELSE "left out"
    /\ UNCHANGED <<request, event>>

FilterSpec == FilterInit /\ [][GetEvents]_filterVars

-----------------------------------------------------------------------------
(* What a topic filter means: "**" stands for any number of topics, "*" for *)
(* one.                                                                     *)
Meaning(t, topics) ==
    \E n \in 0 .. Len(topics) :
        LET pattern == IF Last(t) = "**" THEN SubSeq(t, 1, Len(t) - 1) \o [i \in 1 .. n |-> "*"]
                       ELSE t
        IN  /\ Len(pattern) = Len(topics)
            /\ \A i \in 1 .. Len(topics) : pattern[i] \in {"*", topics[i]}

(* For each filter that passes validation the code decides as the filter    *)
(* means: ['X', '**'] matches events with 'X' as the first topic followed   *)
(* by any number of topics (CHANGELOG.md).                                  *)
WildcardsMeanWhatTheySay ==
    \A f \in request : \A t \in f.topics :
        TopicFilterValid(t) =>
            (TopicFilterMatches(t, event.topics) <=> Meaning(t, event.topics))

(* Validation keeps out every filter that would make combineTopics write    *)
(* past its list.                                                           *)
NoPanic == answer # "panic"

Matching == RequestValid(request) /\ RequestMatches(request, event)

(* Contracts, types and values of topics are given in all filters, or in    *)
(* none.                                                                    *)
Uniform(fs) ==
    LET topicFilters == UNION {f.topics : f \in fs}
        HasValue(t) == \E i \in 1 .. Len(t) : t[i] \notin Wildcards
        AllOrNone(S, P(_)) == (\A x \in S : P(x)) \/ (\A x \in S : ~P(x))
    IN  /\ AllOrNone(fs, LAMBDA f : f.contracts # {})
        /\ AllOrNone(fs, LAMBDA f : f.types # {})
        /\ (\E f \in fs : f.topics = {}) \/ AllOrNone(topicFilters, HasValue)

(* The SQL condition keeps each event that one of the filters matches, as   *)
(* long as the filters of the request are uniform.                          *)
UniformFiltersComplete ==
    answer # "none" /\ Uniform(request) /\ Matching => answer = "returned"

(* ... and for all requests: GetEventsRequest.Matches returns true as soon  *)
(* as one filter matches, and getEvents calls it the "Scan function to      *)
(* apply filters".                                                          *)
AnyFilterSuffices == answer # "none" /\ Matching => answer = "returned"
=============================================================================
