--------------------------- MODULE MCConfiguration ---------------------------
(* Small instances of Configuration for TLC: one or two options, given in   *)
(* any of the three sources, and the file named in any way or not at all.   *)
EXTENDS Configuration, TLC

(* Values that may be given for an option: in range, zero, beyond 16 and    *)
(* beyond 32 bits, or nonsense.                                             *)
Raw(o) ==
    {Unparsable} \cup
    CASE options[o].type = "bool" -> {TRUE, FALSE}
      [] options[o].type = "url" -> {NoURL, [host |-> "core", port |-> 1]}
      [] options[o].type \in {"duration", "level"} -> {0, 1}
      [] options[o].type = "table" -> {"mine"}
      [] options[o].type \in {"string", "directory"} -> {"", "a"}
      [] OTHER -> {0, 1, 2^Bits16 + 2, 2^Bits32}

Small(o) == IF options[o].type = "url" THEN Raw(o) \ {Unparsable} ELSE {1, 2}

(* What a source may say of one option, and of two.                         *)
Giving(o, values) == {<<>>} \cup {o :> v : v \in values}

GivingBoth(o, p) == {a @@ b : a \in Giving(o, Small(o)), b \in Giving(p, Small(p))}

(* The file may be named in the environment, by a flag, by both or not at   *)
(* all, and may be missing; it may have a key that is unknown in it.  What  *)
(* else is required is in both files.                                       *)
InputsAbout(settings, unknown) ==
    LET other == [networkPassphrase |-> "test"]
    IN  [env |-> {s @@ path : s \in settings,
                      path \in Giving("configPath", {"file", "other", "missing"})},
         flags |-> {s @@ path : s \in settings, path \in Giving("configPath", {"file"})},
         files |-> {("file" :> (s @@ u @@ other)) @@ ("other" :> other) :
                        s \in settings, u \in unknown}]

(* Pairs of options of which one is used for, or checked against, the other *)
Related == {<<"httpPort", "stellarCoreURL">>, <<"sorobanFeeWindow", "historyWindow">>,
            <<"defaultLedgersLimit", "maxLedgersLimit">>}

MCInputs ==
    {InputsAbout(Giving(o, Raw(o)), {<<>>}) : o \in Names \ {"configPath", "strict"}}
    \cup {InputsAbout(GivingBoth(r[1], r[2]), {<<>>}) : r \in Related}
    \cup {InputsAbout(Giving("strict", Raw("strict")),
                      {<<>>, "misspelt" :> "a", "configPath" :> "other"})}
=============================================================================
