---------------------------- MODULE Configuration ----------------------------
(***************************************************************************)
(* How a process gets its settings (config/, main.go): defaults, then the   *)
(* environment and the flags to find the config file, then the file, then   *)
(* environment and flags again; the checks of Validate and of the daemon;   *)
(* and the file that gen-config-file prints, given to a new process.        *)
(* The options below stand for the classes of the option table, each under  *)
(* the name of one of them.  Widths of numbers are parameters.              *)
(***************************************************************************)
EXTENDS Integers, Sequences

CONSTANTS
    Bits16, Bits32,     \* widths of uint16 and uint32
    Unparsable,         \* text that is no value of the option's type
    Inputs              \* what a process may be given: records of the sets
                        \* that env, flags and files are taken from

ASSUME Widths ==
    /\ Bits16 \in Nat /\ Bits32 \in Nat /\ Bits16 < Bits32
    /\ 2^Bits16 \in Nat \ {0} /\ 2^Bits32 \in Nat /\ 2^Bits16 <= 2^Bits32

VARIABLES
    command,    \* "run", or "gen-config-file"
    env, flags, \* the settings that are given there, by option
    files,      \* the settings of config files, by path
    stage,      \* what is done next
    cfg,        \* Config
    printed     \* the configuration that was printed (history)

vars == <<command, env, flags, files, stage, cfg, printed>>

inputVars == <<command, env, flags, files, printed>>

-----------------------------------------------------------------------------
NoURL == [host |-> "", port |-> 0]

LocalCore(port) == [host |-> "localhost", port |-> port]

Option(type, sources, default, check) ==
    [type |-> type, sources |-> sources, default |-> default, check |-> check]

Anywhere == {"env", "flag", "toml"}

(* Config.options: Name, where it can be set, DefaultValue and Validate.    *)
(* An option without a name is set by the file only.                        *)
coreOptions ==
    [configPath          |-> Option("string", {"env", "flag"}, "", "none"),
     strict              |-> Option("bool", Anywhere, FALSE, "none"),
     stellarCoreURL      |-> Option("url", Anywhere, NoURL, "none"),
     httpPort            |-> Option("uint16", Anywhere, 2, "none"),
     httpQueryPort       |-> Option("uint16", Anywhere, 3, "positive"),
     logLevel            |-> Option("level", Anywhere, 4, "none")]

storageOptions ==
    [storagePath         |-> Option("directory", Anywhere, "cwd", "none"),
     networkPassphrase   |-> Option("string", Anywhere, "", "required"),
     historyWindow       |-> Option("uint32", Anywhere, 6, "positive"),
     classicFeeWindow    |-> Option("uint32", Anywhere, 1, "positive"),
     sorobanFeeWindow    |-> Option("uint32", Anywhere, 2, "positive")]

methodOptions ==
    [maxLedgersLimit     |-> Option("uint", Anywhere, 6, "none"),
     defaultLedgersLimit |-> Option("uint", Anywhere, 3, "atMostMax"),
     preflightDebug      |-> Option("bool", Anywhere, TRUE, "none")]

requestOptions ==
    [backlogLimit        |-> Option("uint", {"toml"}, 5, "positive"),
     executionDuration   |-> Option("duration", {"toml"}, 2, "none")]

datastoreOptions ==
    [dataStoreConfig     |-> Option("table", {"toml"}, "none", "none")]

Groups == <<coreOptions, storageOptions, methodOptions, requestOptions, datastoreOptions>>

Names == UNION {DOMAIN Groups[g] : g \in DOMAIN Groups}

options ==
    [o \in Names |-> LET g == CHOOSE g \in DOMAIN Groups : o \in DOMAIN Groups[g] IN Groups[g][o]]

From(source) == {o \in Names : source \in options[o].sources}

Zero(o) ==
    CASE options[o].type = "bool" -> FALSE
      [] options[o].type = "url" -> NoURL
      [] options[o].type \in {"string", "directory"} -> ""
      [] options[o].type = "table" -> "none"
      [] OTHER -> 0

Unsigned(o) == options[o].type \in {"uint16", "uint32", "uint"}

(* parseBool, parseUint32, parseString, ...: uint, uint16 and uint32 are    *)
(* refused beyond 2^32 only, and reflection stores what the field can hold. *)
Parses(o, raw) ==
    /\ raw # Unparsable
    /\ Unsigned(o) => raw < 2^Bits32

Stored(o, raw) ==
    CASE options[o].type = "uint16" -> raw % 2^Bits16
      [] options[o].type = "directory" -> IF raw = "" THEN "cwd" ELSE raw
      [] OTHER -> raw

(* What pflag takes for an option: numbers of its own width.                *)
FlagParses(o, raw) ==
    /\ raw # Unparsable
    /\ options[o].type = "uint16" => raw < 2^Bits16
    /\ options[o].type = "uint32" => raw < 2^Bits32

(* Defaults are values of the fields they are for; what is no value is not  *)
(* a number, nor any of the texts that the program puts into a setting.     *)
ASSUME DefaultsFit ==
    /\ \A o \in Names :
          /\ options[o].default # Unparsable
          /\ Unsigned(o) => options[o].default \in 0 .. 2^Bits32 - 1
          /\ options[o].type = "uint16" => options[o].default \in 0 .. 2^Bits16 - 1
    /\ Unparsable \notin Nat /\ Unparsable \notin {"cwd", "default", "printed"}

(* Text that is given for a number is a number, or is no value.             *)
NumbersGiven(given) ==
    \A o \in DOMAIN given \cap Names : Unsigned(o) => given[o] = Unparsable \/ given[o] \in Nat

ASSUME InputsAreText ==
    \A in \in Inputs :
        /\ \A given \in in.env \cup in.flags : NumbersGiven(given)
        /\ \A f \in in.files : \A path \in DOMAIN f : NumbersGiven(f[path])

Init ==
    /\ \E in \in Inputs : env \in in.env /\ flags \in in.flags /\ files \in in.files
    /\ command \in {"run", "gen-config-file"}
    /\ stage = "parseFlags"
    /\ cfg = [o \in Names |-> Zero(o)]
    /\ printed = {}

-----------------------------------------------------------------------------
Refuse == stage' = "refused" /\ UNCHANGED cfg

(* cobra parses the command line before anything of the program runs.       *)
ParseFlags ==
    /\ stage = "parseFlags"
    /\ \/ /\ \A o \in DOMAIN flags : o \in From("flag") /\ FlagParses(o, flags[o])
          /\ stage' = "loadDefaults" /\ UNCHANGED cfg
       \/ /\ \E o \in DOMAIN flags : o \notin From("flag") \/ ~FlagParses(o, flags[o])
          /\ Refuse
    /\ UNCHANGED inputVars

loadDefaults ==
    /\ stage = "loadDefaults"
    /\ cfg' = [o \in Names |-> options[o].default]
    /\ stage' = "loadEnv"
    /\ UNCHANGED inputVars

(* c with the settings given in a source that the options can be set by.    *)
With(c, given, source) ==
    [o \in Names |-> IF o \in DOMAIN given \cap From(source) THEN Stored(o, given[o]) ELSE c[o]]

AllParse(given, source) == \A o \in DOMAIN given \cap From(source) : Parses(o, given[o])

Load(given, source, next) ==
    /\ \/ /\ AllParse(given, source)
          /\ cfg' = With(cfg, given, source)
          /\ stage' = next
       \/ ~AllParse(given, source) /\ Refuse
    /\ UNCHANGED inputVars

loadEnv ==
    \/ stage = "loadEnv" /\ Load(env, "env", "loadFlags")
    \/ stage = "reloadEnv" /\ Load(env, "env", "reloadFlags")

loadFlags ==
    \/ /\ stage = "loadFlags"
       /\ LET path == With(cfg, flags, "flag").configPath
          IN  Load(flags, "flag", IF path # "" THEN "loadConfigPath" ELSE "set")
    \/ stage = "reloadFlags" /\ Load(flags, "flag", "set")

Unknown(file) == DOMAIN file \ From("toml") # {}

(* Mutant: only the strictness that the file and the defaults leave counts. *)
StrictlyOfFile(file) == With(cfg, file, "toml").strict

(* Strict mode is that of the environment and the flags, or of the file.    *)
Strictly(file) == cfg.strict \/ With(cfg, file, "toml").strict

(* parseToml: whether the file is taken.                                    *)
Loads(file) == AllParse(file, "toml") /\ (Strictly(file) => ~Unknown(file))

loadConfigPath ==
    /\ stage = "loadConfigPath"
    /\ \/ /\ cfg.configPath \in DOMAIN files
          /\ LET file == files[cfg.configPath]
             IN  \/ /\ Loads(file)
                    /\ cfg' = With(cfg, file, "toml")
                    /\ stage' = "reloadEnv"
                 \/ ~Loads(file) /\ Refuse
       \/ cfg.configPath \notin DOMAIN files /\ Refuse
    /\ UNCHANGED inputVars

-----------------------------------------------------------------------------
(* Options.Validate.                                                        *)
Valid(o) ==
    /\ options[o].check = "positive" => cfg[o] > 0
    /\ options[o].check = "required" => cfg[o] # ""
    /\ options[o].check = "atMostMax" => cfg[o] <= cfg.maxLedgersLimit

(* The validator of the URL of core is what gives it its default.           *)
Validate ==
    /\ command = "run"
    /\ stage = "set"
    /\ \/ /\ \A o \in Names : Valid(o)
          /\ cfg' = [cfg EXCEPT !.stellarCoreURL = IF @ = NoURL THEN LocalCore(cfg.httpPort) ELSE @]
          /\ stage' = "buildMigrations"
       \/ (\E o \in Names : ~Valid(o)) /\ stage' = "invalid" /\ UNCHANGED cfg
    /\ UNCHANGED inputVars

(* The daemon's own check, when it builds the migrations of its database.   *)
BuildMigrations ==
    /\ stage = "buildMigrations"
    /\ LET fit == \A w \in {cfg.classicFeeWindow, cfg.sorobanFeeWindow} : w <= cfg.historyWindow
       IN  stage' = IF fit THEN "running" ELSE "invalid"
    /\ UNCHANGED <<inputVars, cfg>>

(* Mutant: only what has a name is written.                                 *)
MarshalNamed(c) ==
    [o \in {n \in From("toml") \cap From("flag") : c[n] # Zero(n)} |-> c[o]]

(* Config.MarshalTOML: a zero value is commented out; the tables of the     *)
(* datastore are written with their defaults.                               *)
MarshalTOML(c) ==
    [o \in {n \in From("toml") : c[n] # Zero(n)} |->
        IF options[o].type = "table" THEN "default" ELSE c[o]]

(* gen-config-file, without Validate.                                       *)
GenConfigFile ==
    /\ command = "gen-config-file"
    /\ stage = "set"
    /\ files' = [path \in {"printed"} |-> MarshalTOML(cfg)]
    /\ printed' = {cfg}
    /\ stage' = "printed"
    /\ UNCHANGED <<command, env, flags, cfg>>

(* A process that is given the printed file, and nothing else.              *)
RunPrinted ==
    /\ stage = "printed"
    /\ command' = "run"
    /\ env' = <<>>
    /\ flags' = [configPath |-> "printed"]
    /\ stage' = "parseFlags"
    /\ cfg' = [o \in Names |-> Zero(o)]
    /\ UNCHANGED <<files, printed>>

Next ==
    \/ ParseFlags \/ loadDefaults \/ loadEnv \/ loadFlags \/ loadConfigPath
    \/ Validate \/ BuildMigrations \/ GenConfigFile \/ RunPrinted

Spec == Init /\ [][Next]_vars

-----------------------------------------------------------------------------
(* The first of the sources that gives a setting, by their order.           *)
Given(sources, o) ==
    LET givenBy == {i \in DOMAIN sources : o \in DOMAIN sources[i][1] \cap From(sources[i][2])}
    IN  IF givenBy = {} THEN options[o].default
        ELSE LET i == CHOOSE i \in givenBy : \A j \in givenBy : i <= j
             IN  Stored(o, sources[i][1][o])

(* A process that starts has for every option what the flags say, else the  *)
(* environment, else the file that these name, else the default, in the     *)
(* width of the field (for the URL of core: the port that was settled on);  *)
(* and in strict mode its file has nothing unknown (SetValues, parseToml,   *)
(* Validate).                                                               *)
AcceptedAsGiven ==
    stage \in {"buildMigrations", "running"} =>
        LET outer == <<<<flags, "flag">>, <<env, "env">>>>
            path == Given(outer, "configPath")
            file == IF path = "" THEN <<>> ELSE files[path]
            expected(o) == Given(Append(outer, <<file, "toml">>), o)
        IN  /\ \A o \in Names \ {"stellarCoreURL"} : cfg[o] = expected(o)
            /\ cfg.stellarCoreURL = IF expected("stellarCoreURL") = NoURL
                                    THEN LocalCore(expected("httpPort"))
                                    ELSE expected("stellarCoreURL")
            /\ expected("strict") => ~Unknown(file)

(* The printed file is accepted, and gives a new process every setting that *)
(* it was printed from, where that is not a zero value or a table, and the  *)
(* default of the others (MarshalTOML, parseToml).                          *)
PrintedFileKeepsSettings ==
    \A was \in printed :
        /\ stage # "refused"
        /\ command = "run" /\ stage = "set" =>
             \A o \in From("toml") :
                 cfg[o] = IF was[o] = Zero(o) THEN options[o].default
                          ELSE IF options[o].type = "table" THEN "default" ELSE was[o]
=============================================================================
