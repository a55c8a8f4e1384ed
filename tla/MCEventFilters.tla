--------------------------- MODULE MCEventFilters ---------------------------
(* A small instance of EventFilters for TLC, with two topic columns.        *)
EXTENDS EventFilters

(* Values, both wildcards, and three topic filters that are not valid.      *)
TopicFilters == {<<"a">>, <<"*">>, <<"a", "**">>, <<"*", "b">>, <<"b", "a", "**">>,
                 <<>>, <<"**", "a">>, <<"*", "*", "a">>}

Filters == [types : {{}, {"contract"}}, contracts : {{}, {"c1"}},
              topics : {{}} \union {{t, u} : t, u \in TopicFilters}]

(* An unknown type, too many contracts, too many topic filters.             *)
FiltersOverLimit ==
    [types : {{"contract"}, {"unknown"}}, contracts : {{}, {"c1", "c2"}},
     topics : {{}, {<<"a">>, <<"*">>, <<"a", "**">>}}]

(* Requests without a filter, with one, with two, and with too many.        *)
MCRequests == {{}} \union {{f, g} : f, g \in Filters}
                  \union {{f} : f \in FiltersOverLimit}
                  \union {{f \in Filters : f.topics = {}}}

MCEvents == [type : {"contract", "system"}, contract : {"c1", NoContract},
             topics : {<<>>, <<"a">>, <<"b">>, <<"a", "b">>, <<"b", "a">>, <<"b", "a", "b">>}]
=============================================================================
