--------------------------- MODULE MCLedgerEntries ---------------------------
(* A small instance of LedgerEntries for TLC.                               *)
EXTENDS LedgerEntries

CONSTANTS k1, k2, r1

MCKeys == {k1, k2}

(* r1 is k1 in another spelling.                                            *)
MCRespelt == [text \in {r1} |-> k1]

(* Lists of up to three keys, one too many, lists with a bad key and with a *)
(* key that is spelt in another way.                                        *)
MCKeyLists ==
    UNION {[1 .. n -> MCKeys] : n \in 0 .. 3}
        \union {<<k1, k2, k1, k2>>, <<NotAKey>>, <<k1, NotAKey>>}
        \union {<<r1>>, <<r1, k2>>, <<k2, r1, k1>>}

(* One that is accepted, and one that is not.                               *)
MCFormats == {"json", "other"}
=============================================================================
