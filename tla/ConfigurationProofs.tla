------------------------ MODULE ConfigurationProofs ------------------------
(***************************************************************************)
(* Proofs about Configuration: what a process that starts has for settings, *)
(* for any table of defaults, any widths and whatever it is given; and that *)
(* a printed configuration is read back as it was.                          *)
(***************************************************************************)
EXTENDS Configuration, TLAPS

(* The path of the config file is not set by the file.                      *)
LEMMA TableFacts ==
    /\ {"configPath", "strict", "stellarCoreURL", "httpPort"} \subseteq Names
    /\ "configPath" \in From("env") \cap From("flag")
    /\ "configPath" \notin From("toml")
    /\ options["configPath"].type = "string"
    /\ \A source : From(source) \subseteq Names
<1> DEFINE core == {"configPath", "strict", "stellarCoreURL", "httpPort", "httpQueryPort", "logLevel"}
<1>1. DOMAIN Groups = 1 .. 5
  BY DEF Groups
<1>2. /\ Groups[1] = coreOptions /\ Groups[2] = storageOptions /\ Groups[3] = methodOptions
      /\ Groups[4] = requestOptions /\ Groups[5] = datastoreOptions
  BY DEF Groups
<1>3. DOMAIN coreOptions = core
  BY DEF coreOptions
<1>4. /\ "configPath" \notin DOMAIN storageOptions /\ "configPath" \notin DOMAIN methodOptions
      /\ "configPath" \notin DOMAIN requestOptions /\ "configPath" \notin DOMAIN datastoreOptions
  BY DEF storageOptions, methodOptions, requestOptions, datastoreOptions
<1>5. 1 \in DOMAIN Groups /\ \A g \in DOMAIN Groups : g \in {1, 2, 3, 4, 5}
  BY <1>1
<1>6. core \subseteq Names
  BY <1>2, <1>3, <1>5 DEF Names
<1>7. \A g \in DOMAIN Groups : "configPath" \in DOMAIN Groups[g] <=> g = 1
  BY <1>2, <1>3, <1>4, <1>5
<1>8. (CHOOSE g \in DOMAIN Groups : "configPath" \in DOMAIN Groups[g]) = 1
  BY <1>5, <1>7
<1>9. options["configPath"] = Option("string", {"env", "flag"}, "", "none")
  <2>1. options["configPath"] = coreOptions["configPath"]
    BY <1>2, <1>6, <1>8 DEF options
  <2> QED
    BY <2>1 DEF coreOptions
<1> HIDE DEF core
<1>10. options["configPath"].type = "string" /\ options["configPath"].sources = {"env", "flag"}
  <2> DEFINE x == options["configPath"]
             e == Option("string", {"env", "flag"}, "", "none")
  <2>1. e.type = "string"
    BY DEF Option
  <2>2. e.sources = {"env", "flag"}
    BY DEF Option
  <2>3. x = e
    BY <1>9
  <2> HIDE DEF x, e
  <2>4. x.type = "string" /\ x.sources = {"env", "flag"}
    BY <2>1, <2>2, <2>3
  <2> QED
    BY <2>4 DEF x
<1> QED
  BY <1>6, <1>10 DEF From, core

-----------------------------------------------------------------------------
(* The settings at each stage of SetValues, by what they were given.        *)

Defaults == [o \in Names |-> options[o].default]

Outer == With(With(Defaults, env, "env"), flags, "flag")

Named == files[Outer.configPath]

OfFile == With(Outer, Named, "toml")

Settled ==
    IF Outer.configPath = "" THEN Outer
    ELSE With(With(OfFile, env, "env"), flags, "flag")

(* In strict mode, of the outer sources or of the file, the file was found  *)
(* to have nothing unknown in it.                                           *)
FileIsKnown == Outer.configPath # "" /\ (Outer.strict \/ OfFile.strict) => ~Unknown(Named)

Stages ==
    /\ stage = "loadEnv" => cfg = Defaults
    /\ stage = "loadFlags" => cfg = With(Defaults, env, "env")
    /\ stage \in {"loadConfigPath", "reloadEnv", "reloadFlags"} => Outer.configPath # ""
    /\ stage = "loadConfigPath" => cfg = Outer
    /\ stage = "reloadEnv" => cfg = OfFile
    /\ stage = "reloadFlags" => cfg = With(OfFile, env, "env")
    /\ stage = "set" => cfg = Settled
    /\ stage \in {"buildMigrations", "running"} =>
          cfg = [Settled EXCEPT !.stellarCoreURL =
                    IF @ = NoURL THEN LocalCore(Settled.httpPort) ELSE @]
    /\ stage \in {"reloadEnv", "reloadFlags", "set", "buildMigrations", "running"} => FileIsKnown

(* Steps other than those that print a configuration, or begin again, leave *)
(* what the process was given.                                              *)
LEMMA SameInputs ==
    ASSUME UNCHANGED inputVars
    PROVE  /\ Outer' = Outer /\ Named' = Named /\ OfFile' = OfFile /\ Settled' = Settled
           /\ FileIsKnown' = FileIsKnown /\ With(Defaults, env, "env")' = With(Defaults, env, "env")
           /\ With(OfFile, env, "env")' = With(OfFile, env, "env")
BY DEF inputVars, Outer, Named, OfFile, Settled, FileIsKnown

LEMMA StagesHold == Spec => []Stages
<1>1. Init => Stages
  BY DEF Init, Stages
<1>2. Stages /\ [Next]_vars => Stages'
  <2> SUFFICES ASSUME Stages, [Next]_vars PROVE Stages'
    OBVIOUS
  <2>1. CASE ParseFlags
    BY <2>1 DEF ParseFlags, Refuse, Stages
  <2>2. CASE loadDefaults
    BY <2>2 DEF loadDefaults, Defaults, Stages
  <2>3. CASE loadEnv
    <3>1. CASE stage = "loadEnv" /\ Load(env, "env", "loadFlags")
      BY <3>1, SameInputs DEF Load, Refuse, Stages
    <3>2. CASE stage = "reloadEnv" /\ Load(env, "env", "reloadFlags")
      BY <3>2, SameInputs DEF Load, Refuse, Stages
    <3> QED
      BY <2>3, <3>1, <3>2 DEF loadEnv
  <2>4. CASE loadFlags
    <3>1. CASE stage = "loadFlags"
      <4>1. With(cfg, flags, "flag") = Outer
        BY <3>1 DEF Stages, Outer
      <4>2. Load(flags, "flag", IF Outer.configPath # "" THEN "loadConfigPath" ELSE "set")
        BY <2>4, <3>1, <4>1 DEF loadFlags
      <4> QED
        BY <4>1, <4>2, SameInputs DEF Load, Refuse, Stages, Settled, FileIsKnown
    <3>2. CASE stage = "reloadFlags"
      <4>1. Load(flags, "flag", "set")
        BY <2>4, <3>2 DEF loadFlags
      <4>2. Outer.configPath # "" /\ With(cfg, flags, "flag") = Settled
        BY <3>2 DEF Stages, Settled
      <4> QED
        BY <3>2, <4>1, <4>2, SameInputs DEF Load, Refuse, Stages
    <3> QED
      BY <2>4, <3>1, <3>2 DEF loadFlags
  <2>5. CASE loadConfigPath
    <3>1. cfg = Outer /\ Outer.configPath # ""
      BY <2>5 DEF loadConfigPath, Stages
    <3>2. CASE Loads(Named) /\ cfg' = With(cfg, Named, "toml") /\ stage' = "reloadEnv"
      <4>1. cfg' = OfFile
        BY <3>1, <3>2 DEF OfFile
      <4>2. FileIsKnown
        BY <3>1, <3>2 DEF FileIsKnown, Loads, Strictly, OfFile
      <4> QED
        BY <2>5, <3>1, <3>2, <4>1, <4>2, SameInputs DEF loadConfigPath, Stages
    <3>3. CASE Refuse
      BY <3>3 DEF Refuse, Stages
    <3> QED
      BY <2>5, <3>1, <3>2, <3>3 DEF loadConfigPath, Named
  <2>6. CASE Validate
    <3>1. cfg = Settled /\ FileIsKnown /\ UNCHANGED inputVars
      BY <2>6 DEF Validate, Stages
    <3>2. CASE /\ cfg' = [cfg EXCEPT !.stellarCoreURL = IF @ = NoURL THEN LocalCore(cfg.httpPort) ELSE @]
               /\ stage' = "buildMigrations"
      BY <3>1, <3>2, SameInputs DEF Stages
    <3>3. CASE stage' = "invalid"
      BY <3>3 DEF Stages
    <3> QED
      BY <2>6, <3>2, <3>3 DEF Validate
  <2>7. CASE BuildMigrations
    <3>1. stage = "buildMigrations" /\ stage' \in {"running", "invalid"} /\ cfg' = cfg
            /\ UNCHANGED inputVars
      BY <2>7 DEF BuildMigrations
    <3> QED
      BY <3>1, SameInputs DEF Stages
  <2>8. CASE GenConfigFile \/ RunPrinted
    BY <2>8 DEF GenConfigFile, RunPrinted, Stages
  <2>9. CASE UNCHANGED vars
    <3>1. UNCHANGED inputVars /\ cfg' = cfg /\ stage' = stage
      BY <2>9 DEF vars, inputVars
    <3> QED
      BY <3>1, SameInputs DEF Stages
  <2> QED
    BY <2>1, <2>2, <2>3, <2>4, <2>5, <2>6, <2>7, <2>8, <2>9 DEF Next
<1> QED
  BY <1>1, <1>2, PTL DEF Spec

-----------------------------------------------------------------------------
(* The first source that gives a setting.                                   *)

Gives(given, source, o) == o \in DOMAIN given \cap From(source)

LEMMA WithFacts ==
    ASSUME NEW c, NEW given, NEW source
    PROVE  /\ DOMAIN With(c, given, source) = Names
           /\ \A o \in Names : With(c, given, source)[o] =
                 IF Gives(given, source, o) THEN Stored(o, given[o]) ELSE c[o]
BY DEF With, Gives

LEMMA FirstOf ==
    ASSUME NEW G \in SUBSET {1, 2, 3}
    PROVE  LET first == CHOOSE i \in G : \A j \in G : i <= j
           IN  /\ 1 \in G => first = 1
               /\ 1 \notin G /\ 2 \in G => first = 2
               /\ 1 \notin G /\ 2 \notin G /\ 3 \in G => first = 3
<1> DEFINE First(i) == i \in G /\ \A j \in G : i <= j
           first == CHOOSE i \in G : \A j \in G : i <= j
<1>1. 1 \in G => First(1)
  OBVIOUS
<1>2. 1 \notin G /\ 2 \in G => First(2)
  OBVIOUS
<1>3. 1 \notin G /\ 2 \notin G /\ 3 \in G => First(3)
  OBVIOUS
<1>4. \A i : First(i) => First(first)
  OBVIOUS
<1>5. \A i, k : First(i) /\ First(k) => i = k
  OBVIOUS
<1> HIDE DEF First, first
<1>6. \A i : First(i) => first = i
  BY <1>4, <1>5
<1>7. /\ 1 \in G => first = 1
      /\ 1 \notin G /\ 2 \in G => first = 2
      /\ 1 \notin G /\ 2 \notin G /\ 3 \in G => first = 3
  BY <1>1, <1>2, <1>3, <1>6, Zenon
<1> QED
  BY <1>7 DEF first

LEMMA GivenOfTwo ==
    ASSUME NEW a, NEW b, NEW x, NEW y, NEW o
    PROVE  Given(<<<<a, x>>, <<b, y>>>>, o) =
              IF Gives(a, x, o) THEN Stored(o, a[o])
              ELSE IF Gives(b, y, o) THEN Stored(o, b[o]) ELSE options[o].default
<1> DEFINE s == <<<<a, x>>, <<b, y>>>>
           G == {i \in DOMAIN s : o \in DOMAIN s[i][1] \cap From(s[i][2])}
           first == CHOOSE i \in G : \A j \in G : i <= j
<1>1. DOMAIN s = {1, 2} /\ s[1][1] = a /\ s[1][2] = x /\ s[2][1] = b /\ s[2][2] = y
  OBVIOUS
<1>2. Given(s, o) = IF G = {} THEN options[o].default ELSE Stored(o, s[first][1][o])
  BY DEF Given
<1> HIDE DEF s
<1>3. G \subseteq {1, 2} /\ (1 \in G <=> Gives(a, x, o)) /\ (2 \in G <=> Gives(b, y, o))
  BY <1>1 DEF Gives
<1> HIDE DEF G
<1> HIDE DEF first
<1>4. 1 \in G => first = 1
  BY <1>3, FirstOf DEF first
<1>5. 1 \notin G /\ 2 \in G => first = 2
  BY <1>3, FirstOf DEF first
<1>6. 1 \notin G /\ 2 \notin G => G = {}
  BY <1>3
<1> QED
  BY <1>1, <1>2, <1>3, <1>4, <1>5, <1>6 DEF s

LEMMA GivenOfThree ==
    ASSUME NEW a, NEW b, NEW c, NEW x, NEW y, NEW z, NEW o
    PROVE  Given(Append(<<<<a, x>>, <<b, y>>>>, <<c, z>>), o) =
              IF Gives(a, x, o) THEN Stored(o, a[o])
              ELSE IF Gives(b, y, o) THEN Stored(o, b[o])
              ELSE IF Gives(c, z, o) THEN Stored(o, c[o]) ELSE options[o].default
<1> DEFINE s == Append(<<<<a, x>>, <<b, y>>>>, <<c, z>>)
           G == {i \in DOMAIN s : o \in DOMAIN s[i][1] \cap From(s[i][2])}
           first == CHOOSE i \in G : \A j \in G : i <= j
<1>1. /\ DOMAIN s = {1, 2, 3} /\ s[1][1] = a /\ s[1][2] = x /\ s[2][1] = b /\ s[2][2] = y
      /\ s[3][1] = c /\ s[3][2] = z
  <2> DEFINE p == <<a, x>>
             q == <<b, y>>
             r == <<c, z>>
  <2>1. p[1] = a /\ p[2] = x /\ q[1] = b /\ q[2] = y /\ r[1] = c /\ r[2] = z
    OBVIOUS
  <2> HIDE DEF p, q, r
  <2>2. <<p, q>> \in Seq({p, q, r}) /\ r \in {p, q, r} /\ Len(<<p, q>>) = 2
    OBVIOUS
  <2>3. /\ DOMAIN Append(<<p, q>>, r) = 1 .. 3
        /\ \A i \in 1 .. 2 : Append(<<p, q>>, r)[i] = <<p, q>>[i]
        /\ Append(<<p, q>>, r)[3] = r
    BY <2>2
  <2>4. DOMAIN Append(<<p, q>>, r) = {1, 2, 3} /\ Append(<<p, q>>, r)[1] = p
          /\ Append(<<p, q>>, r)[2] = q
    BY <2>3
  <2>5. s = Append(<<p, q>>, r)
    BY DEF p, q, r
  <2> HIDE DEF s
  <2> QED
    BY <2>1, <2>3, <2>4, <2>5
<1>2. Given(s, o) = IF G = {} THEN options[o].default ELSE Stored(o, s[first][1][o])
  BY DEF Given
<1> HIDE DEF s
<1>3. /\ G \subseteq {1, 2, 3} /\ (1 \in G <=> Gives(a, x, o)) /\ (2 \in G <=> Gives(b, y, o))
      /\ (3 \in G <=> Gives(c, z, o))
  BY <1>1 DEF Gives
<1> HIDE DEF G
<1> HIDE DEF first
<1>4. 1 \in G => first = 1
  BY <1>3, FirstOf DEF first
<1>5. 1 \notin G /\ 2 \in G => first = 2
  BY <1>3, FirstOf DEF first
<1>6. 1 \notin G /\ 2 \notin G /\ 3 \in G => first = 3
  BY <1>3, FirstOf DEF first
<1>7. 1 \notin G /\ 2 \notin G /\ 3 \notin G => G = {}
  BY <1>3
<1> QED
  BY <1>1, <1>2, <1>3, <1>4, <1>5, <1>6, <1>7 DEF s

(* Loading the environment and the flags twice, around the file, makes of   *)
(* each option what the first source that gives it says.                    *)
LEMMA SettledAsGiven ==
    LET outer == <<<<flags, "flag">>, <<env, "env">>>>
        path == Given(outer, "configPath")
        file == IF path = "" THEN <<>> ELSE files[path]
    IN  /\ path = Outer.configPath
        /\ \A o \in Names : Settled[o] = Given(Append(outer, <<file, "toml">>), o)
        /\ FileIsKnown => (Settled.strict => ~Unknown(file))
<1> DEFINE outer == <<<<flags, "flag">>, <<env, "env">>>>
           path == Given(outer, "configPath")
           file == IF path = "" THEN <<>> ELSE files[path]
           E(o) == Gives(env, "env", o)
           F(o) == Gives(flags, "flag", o)
<1>1. \A o \in Names : Outer[o] = IF F(o) THEN Stored(o, flags[o])
                                  ELSE IF E(o) THEN Stored(o, env[o]) ELSE options[o].default
  BY WithFacts DEF Outer, Defaults
<1>2. path = Outer.configPath
  BY <1>1, GivenOfTwo, TableFacts
<1>3. \A o \in Names : Given(Append(outer, <<file, "toml">>), o) =
          IF F(o) THEN Stored(o, flags[o]) ELSE IF E(o) THEN Stored(o, env[o])
          ELSE IF Gives(file, "toml", o) THEN Stored(o, file[o]) ELSE options[o].default
  <2>1. \A f, o : Given(Append(outer, <<f, "toml">>), o) =
            IF F(o) THEN Stored(o, flags[o]) ELSE IF E(o) THEN Stored(o, env[o])
            ELSE IF Gives(f, "toml", o) THEN Stored(o, f[o]) ELSE options[o].default
    BY GivenOfThree
  <2> HIDE DEF outer, file, E, F
  <2> QED
    BY <2>1, Zenon
<1> HIDE DEF path, E, F
<1>4. CASE path = ""
  <2>1. file = <<>> /\ Settled = Outer
    BY <1>2, <1>4 DEF Settled
  <2>2. DOMAIN <<>> = {}
    OBVIOUS
  <2>3. \A o : ~Gives(file, "toml", o) /\ ~Unknown(file)
    BY <2>1, <2>2 DEF Gives, Unknown
  <2> HIDE DEF file, outer
  <2>4. \A o \in Names : Settled[o] = Given(Append(outer, <<file, "toml">>), o)
    BY <1>1, <1>3, <2>1, <2>3
  <2> QED
    BY <1>2, <2>3, <2>4 DEF file, outer, path
<1>5. CASE path # ""
  <2>1. file = Named /\ Settled = With(With(OfFile, env, "env"), flags, "flag")
    BY <1>2, <1>5 DEF Settled, Named
  <2> HIDE DEF file, outer
  <2>2. \A o \in Names : OfFile[o] = IF Gives(file, "toml", o) THEN Stored(o, file[o]) ELSE Outer[o]
    BY <2>1, WithFacts DEF OfFile
  <2>3. \A o \in Names : Settled[o] = IF F(o) THEN Stored(o, flags[o])
                                      ELSE IF E(o) THEN Stored(o, env[o]) ELSE OfFile[o]
    BY <2>1, WithFacts DEF E, F
  <2>4. \A o \in Names : Settled[o] = Given(Append(outer, <<file, "toml">>), o)
    BY <1>1, <1>3, <2>2, <2>3
  <2>5. Settled.strict = Outer.strict \/ Settled.strict = OfFile.strict
    BY <1>1, <2>3, TableFacts
  <2>6. FileIsKnown => (Settled.strict => ~Unknown(file))
    BY <1>2, <1>5, <2>1, <2>5 DEF FileIsKnown
  <2> QED
    BY <1>2, <2>4, <2>6 DEF file, outer, path
<1> QED
  BY <1>4, <1>5

(* Whatever a process is given in flags, environment and files, it starts   *)
(* with the settings of the documented precedence, and in strict mode only  *)
(* with a file of known keys.                                               *)
THEOREM StartsAsGiven == Spec => []AcceptedAsGiven
<1>1. Stages => AcceptedAsGiven
  <2> SUFFICES ASSUME Stages, stage \in {"buildMigrations", "running"} PROVE AcceptedAsGiven
    BY DEF AcceptedAsGiven
  <2> DEFINE outer == <<<<flags, "flag">>, <<env, "env">>>>
             path == Given(outer, "configPath")
             file == IF path = "" THEN <<>> ELSE files[path]
             expected(o) == Given(Append(outer, <<file, "toml">>), o)
  <2>1. /\ cfg = [Settled EXCEPT !.stellarCoreURL =
                    IF @ = NoURL THEN LocalCore(Settled.httpPort) ELSE @]
        /\ FileIsKnown
    BY DEF Stages
  <2>2. \A o \in Names : Settled[o] = expected(o)
    BY SettledAsGiven
  <2>3. Settled.strict => ~Unknown(file)
    BY <2>1, SettledAsGiven
  <2> HIDE DEF expected, file
  <2>4. DOMAIN Settled = Names
    BY WithFacts DEF Settled, Outer
  <2>5. \A o \in Names \ {"stellarCoreURL"} : cfg[o] = expected(o)
    BY <2>1, <2>2, <2>4
  <2>6. cfg.stellarCoreURL = IF expected("stellarCoreURL") = NoURL
                             THEN LocalCore(expected("httpPort"))
                             ELSE expected("stellarCoreURL")
    BY <2>1, <2>2, <2>4, TableFacts
  <2>7. expected("strict") => ~Unknown(file)
    BY <2>2, <2>3, TableFacts
  <2> QED
    BY <2>5, <2>6, <2>7 DEF AcceptedAsGiven, expected, file
<1> QED
  BY <1>1, StagesHold, PTL

-----------------------------------------------------------------------------
(* A printed configuration, read back.                                      *)

(* The values that a field can have.                                        *)
Fits(o, v) ==
    /\ v # Unparsable
    /\ Unsigned(o) => v \in Nat /\ v < 2^Bits32
    /\ options[o].type = "uint16" => v < 2^Bits16

Storable(c) == \A o \in Names : Fits(o, c[o])

LEMMA Remainders ==
    ASSUME NEW n \in Nat, NEW m \in Nat, m # 0
    PROVE  n % m \in Nat /\ n % m < m /\ (n < m => n % m = n)
OBVIOUS

LEMMA StoredFits ==
    ASSUME NEW o \in Names, NEW raw, Parses(o, raw), Unsigned(o) => raw \in Nat
    PROVE  Fits(o, Stored(o, raw))
<1>1. CASE options[o].type = "uint16"
  <2>1. Unsigned(o) /\ raw \in Nat
    BY <1>1 DEF Unsigned
  <2>2. Stored(o, raw) = raw % 2^Bits16
    BY <1>1 DEF Stored
  <2>3. raw % 2^Bits16 \in Nat /\ raw % 2^Bits16 < 2^Bits16
    BY <2>1, Remainders, Widths
  <2>4. raw % 2^Bits16 # Unparsable
    BY <2>3, DefaultsFit
  <2>5. raw % 2^Bits16 < 2^Bits32
    BY <2>3, Widths
  <2> QED
    BY <2>2, <2>3, <2>4, <2>5 DEF Fits
<1>2. CASE options[o].type = "directory"
  BY <1>2, DefaultsFit DEF Stored, Fits, Parses, Unsigned
<1>3. CASE options[o].type \notin {"uint16", "directory"}
  BY <1>3 DEF Stored, Fits, Parses
<1> QED
  BY <1>1, <1>2, <1>3

LEMMA StoredAgain ==
    ASSUME NEW o \in Names, NEW v, Fits(o, v), v # Zero(o)
    PROVE  Parses(o, v) /\ Stored(o, v) = v
<1>1. Parses(o, v)
  BY DEF Parses, Fits
<1>2. CASE options[o].type = "uint16"
  <2>1. Unsigned(o)
    BY <1>2 DEF Unsigned
  <2>2. v \in Nat /\ v < 2^Bits16
    BY <1>2, <2>1 DEF Fits
  <2>3. v % 2^Bits16 = v
    BY <2>2, Remainders, Widths
  <2> QED
    BY <1>1, <1>2, <2>3 DEF Stored
<1>3. CASE options[o].type = "directory"
  <2>1. v # ""
    BY <1>3 DEF Zero
  <2> QED
    BY <1>1, <1>3, <2>1 DEF Stored
<1>4. CASE options[o].type \notin {"uint16", "directory"}
  BY <1>1, <1>4 DEF Stored
<1> QED
  BY <1>2, <1>3, <1>4

LEMMA WithStorable ==
    ASSUME NEW c, NEW given, NEW source, Storable(c), NumbersGiven(given), AllParse(given, source)
    PROVE  Storable(With(c, given, source))
<1> SUFFICES ASSUME NEW o \in Names PROVE Fits(o, With(c, given, source)[o])
  BY DEF Storable
<1>1. CASE Gives(given, source, o)
  <2>1. Parses(o, given[o])
    BY <1>1 DEF AllParse, Gives
  <2>2. Unsigned(o) => given[o] \in Nat
    BY <1>1, <2>1 DEF NumbersGiven, Gives, Parses
  <2> QED
    BY <1>1, <2>1, <2>2, StoredFits, WithFacts
<1>2. CASE ~Gives(given, source, o)
  BY <1>2, WithFacts DEF Storable
<1> QED
  BY <1>1, <1>2

(* What is written of a configuration is what its fields can hold, and has  *)
(* no unknown keys.                                                         *)
LEMMA MarshalFacts ==
    ASSUME NEW c, Storable(c)
    PROVE  /\ NumbersGiven(MarshalTOML(c))
           /\ AllParse(MarshalTOML(c), "toml")
           /\ ~Unknown(MarshalTOML(c))
           /\ \A o \in Names : Gives(MarshalTOML(c), "toml", o) <=> o \in From("toml") /\ c[o] # Zero(o)
           /\ \A o \in From("toml") : c[o] # Zero(o) =>
                 Stored(o, MarshalTOML(c)[o]) = IF options[o].type = "table" THEN "default" ELSE c[o]
<1> DEFINE f == MarshalTOML(c)
<1>1. /\ DOMAIN f = {n \in From("toml") : c[n] # Zero(n)}
      /\ \A o \in DOMAIN f : f[o] = IF options[o].type = "table" THEN "default" ELSE c[o]
  BY DEF MarshalTOML
<1> HIDE DEF f
<1>2. \A o \in DOMAIN f : o \in Names /\ Fits(o, c[o]) /\ c[o] # Zero(o)
  BY <1>1, TableFacts DEF Storable
<1>3. ASSUME NEW o \in DOMAIN f
      PROVE  /\ Parses(o, f[o]) /\ Stored(o, f[o]) = f[o] /\ (Unsigned(o) => f[o] \in Nat)
  <2>1. CASE options[o].type = "table"
    BY <1>1, <2>1, DefaultsFit DEF Parses, Stored, Unsigned
  <2>2. CASE options[o].type # "table"
    BY <1>1, <1>2, <2>2, StoredAgain DEF Fits
  <2> QED
    BY <2>1, <2>2
<1>4. NumbersGiven(f)
  BY <1>3 DEF NumbersGiven
<1>5. AllParse(f, "toml")
  BY <1>3 DEF AllParse
<1>6. ~Unknown(f)
  BY <1>1 DEF Unknown
<1>7. \A o \in Names : Gives(f, "toml", o) <=> o \in From("toml") /\ c[o] # Zero(o)
  BY <1>1 DEF Gives
<1>8. \A o \in From("toml") : c[o] # Zero(o) =>
          Stored(o, f[o]) = IF options[o].type = "table" THEN "default" ELSE c[o]
  BY <1>1, <1>3
<1> QED
  BY <1>4, <1>5, <1>6, <1>7, <1>8 DEF f

TextsGiven ==
    /\ NumbersGiven(env) /\ NumbersGiven(flags)
    /\ \A path \in DOMAIN files : NumbersGiven(files[path])

CfgStorable ==
    stage \in {"loadEnv", "loadFlags", "loadConfigPath", "reloadEnv", "reloadFlags", "set"} =>
        Storable(cfg)

(* Once a configuration is printed, a process is given its file and nothing *)
(* else, and has no reason to refuse it.                                    *)
PrintedIsGiven ==
    \A was \in printed :
        /\ Storable(was)
        /\ files = [path \in {"printed"} |-> MarshalTOML(was)]
        /\ stage # "refused"
        /\ stage # "printed" =>
              command = "run" /\ env = <<>> /\ flags = [configPath |-> "printed"]

PrintInv == TextsGiven /\ CfgStorable /\ PrintedIsGiven

LEMMA Texts == TextsGiven /\ CfgStorable /\ [Next]_vars => TextsGiven'
<1> SUFFICES ASSUME TextsGiven, CfgStorable, [Next]_vars PROVE TextsGiven'
  OBVIOUS
<1>1. CASE UNCHANGED <<env, flags, files>>
  BY <1>1 DEF TextsGiven
<1>2. CASE GenConfigFile
  <2>1. Storable(cfg)
    BY <1>2 DEF GenConfigFile, CfgStorable
  <2>2. NumbersGiven(MarshalTOML(cfg))
    BY <2>1, MarshalFacts
  <2>3. files' = [path \in {"printed"} |-> MarshalTOML(cfg)] /\ env' = env /\ flags' = flags
    BY <1>2 DEF GenConfigFile
  <2> QED
    BY <2>2, <2>3 DEF TextsGiven
<1>3. CASE RunPrinted
  <2>1. env' = <<>> /\ DOMAIN <<>> = {} /\ flags' = [configPath |-> "printed"] /\ files' = files
    BY <1>3 DEF RunPrinted
  <2>2. NumbersGiven(env)'
    BY <2>1 DEF NumbersGiven
  <2>3. NumbersGiven(flags)'
    BY <2>1, TableFacts DEF NumbersGiven, Unsigned
  <2> QED
    BY <2>1, <2>2, <2>3 DEF TextsGiven
<1> QED
  BY <1>1, <1>2, <1>3 DEF Next, vars, inputVars, ParseFlags, loadDefaults, loadEnv, loadFlags, Load,
                          loadConfigPath, Validate, BuildMigrations

LEMMA CfgStaysStorable == TextsGiven /\ CfgStorable /\ [Next]_vars => CfgStorable'
<1> SUFFICES ASSUME TextsGiven, CfgStorable, [Next]_vars PROVE CfgStorable'
  OBVIOUS
<1> DEFINE Early == {"loadEnv", "loadFlags", "loadConfigPath", "reloadEnv", "reloadFlags", "set"}
<1>1. CASE stage' \notin Early
  BY <1>1 DEF CfgStorable
<1>2. ASSUME NEW given, NEW source, NEW next, NumbersGiven(given), stage \in Early,
             Load(given, source, next)
      PROVE  CfgStorable'
  <2>1. CASE AllParse(given, source) /\ cfg' = With(cfg, given, source)
    <3>1. Storable(cfg')
      BY <1>2, <2>1, WithStorable DEF CfgStorable
    <3> QED
      BY <3>1 DEF CfgStorable, Storable
  <2>2. CASE Refuse
    BY <2>2 DEF Refuse, CfgStorable
  <2> QED
    BY <1>2, <2>1, <2>2 DEF Load
<1>3. CASE loadDefaults
  <2>1. cfg' = Defaults
    BY <1>3 DEF loadDefaults, Defaults
  <2>2. Storable(Defaults)
    <3>1. ASSUME NEW o \in Names PROVE Fits(o, Defaults[o])
      <4>1. Defaults[o] = options[o].default
        BY DEF Defaults
      <4>2. /\ options[o].default # Unparsable
            /\ Unsigned(o) => options[o].default \in 0 .. 2^Bits32 - 1
            /\ options[o].type = "uint16" => options[o].default \in 0 .. 2^Bits16 - 1
        BY DefaultsFit
      <4>3. \A v, m : m \in Nat /\ v \in 0 .. m - 1 => v \in Nat /\ v < m
        OBVIOUS
      <4> QED
        BY <4>1, <4>2, <4>3, Widths DEF Fits
    <3> QED
      BY <3>1 DEF Storable
  <2> QED
    BY <2>1, <2>2 DEF CfgStorable, Storable
<1>4. CASE loadEnv
  BY <1>2, <1>4 DEF loadEnv, TextsGiven
<1>5. CASE loadFlags
  BY <1>2, <1>5 DEF loadFlags, TextsGiven
<1>6. CASE loadConfigPath
  <2>1. CASE Refuse
    BY <2>1 DEF Refuse, CfgStorable
  <2>2. CASE ~Refuse
    <3> DEFINE file == files[cfg.configPath]
    <3>1. /\ stage = "loadConfigPath" /\ cfg.configPath \in DOMAIN files
          /\ AllParse(file, "toml") /\ cfg' = With(cfg, file, "toml")
      BY <1>6, <2>2 DEF loadConfigPath, Loads
    <3>2. NumbersGiven(file) /\ Storable(cfg)
      BY <3>1 DEF TextsGiven, CfgStorable
    <3> HIDE DEF file
    <3>3. Storable(cfg')
      BY <3>1, <3>2, WithStorable
    <3> QED
      BY <3>3 DEF CfgStorable, Storable
  <2> QED
    BY <2>1, <2>2
<1>7. CASE UNCHANGED vars
  BY <1>7 DEF vars, CfgStorable, Storable
<1>8. CASE ParseFlags \/ Validate \/ BuildMigrations \/ GenConfigFile \/ RunPrinted
  <2>1. stage' \notin Early
    BY <1>8 DEF ParseFlags, Refuse, Validate, BuildMigrations, GenConfigFile, RunPrinted
  <2> QED
    BY <1>1, <2>1
<1> QED
  BY <1>3, <1>4, <1>5, <1>6, <1>7, <1>8 DEF Next

(* The outer sources of a process that is given the printed file only.      *)
LEMMA GivenThePrinted ==
    ASSUME env = <<>>, flags = [configPath |-> "printed"]
    PROVE  /\ AllParse(env, "env") /\ AllParse(flags, "flag")
           /\ DOMAIN flags = {"configPath"} /\ FlagParses("configPath", flags["configPath"])
           /\ Outer.configPath = "printed"
           /\ \A o \in Names \ {"configPath"} :
                 ~Gives(env, "env", o) /\ ~Gives(flags, "flag", o) /\ Outer[o] = options[o].default
<1>1. DOMAIN env = {} /\ DOMAIN flags = {"configPath"} /\ flags["configPath"] = "printed"
  OBVIOUS
<1>2. AllParse(env, "env")
  BY <1>1 DEF AllParse
<1>3. /\ Parses("configPath", "printed") /\ FlagParses("configPath", "printed")
      /\ Stored("configPath", "printed") = "printed"
  BY TableFacts, DefaultsFit DEF Parses, FlagParses, Unsigned, Stored
<1>4. AllParse(flags, "flag")
  BY <1>1, <1>3 DEF AllParse
<1>5. \A o : ~Gives(env, "env", o) /\ (Gives(flags, "flag", o) <=> o = "configPath")
  BY <1>1, TableFacts DEF Gives
<1>6. \A o \in Names : Outer[o] = IF o = "configPath" THEN Stored(o, flags[o]) ELSE options[o].default
  BY <1>5, WithFacts DEF Outer, Defaults
<1> QED
  BY <1>1, <1>2, <1>3, <1>4, <1>5, <1>6, TableFacts

LEMMA PrintedStaysGiven == Stages /\ PrintInv /\ [Next]_vars => PrintedIsGiven'
<1> SUFFICES ASSUME Stages, PrintInv, [Next]_vars, NEW was \in printed'
             PROVE  /\ Storable(was)
                    /\ files' = [path \in {"printed"} |-> MarshalTOML(was)]
                    /\ stage' # "refused"
                    /\ stage' # "printed" =>
                          command' = "run" /\ env' = <<>> /\ flags' = [configPath |-> "printed"]
  BY DEF PrintedIsGiven, Storable, Fits, MarshalTOML
<1>1. CASE GenConfigFile
  <2>1. was = cfg /\ Storable(cfg)
    BY <1>1 DEF GenConfigFile, PrintInv, CfgStorable
  <2> QED
    BY <1>1, <2>1 DEF GenConfigFile
<1>2. CASE ~GenConfigFile
  <2>1. printed' = printed /\ files' = files
    BY <1>2 DEF Next, vars, inputVars, ParseFlags, loadDefaults, loadEnv, loadFlags, Load,
                loadConfigPath, Validate, BuildMigrations, RunPrinted
  <2>2. /\ was \in printed /\ Storable(was)
        /\ files = [path \in {"printed"} |-> MarshalTOML(was)] /\ stage # "refused"
        /\ stage # "printed" =>
              command = "run" /\ env = <<>> /\ flags = [configPath |-> "printed"]
    BY <2>1 DEF PrintInv, PrintedIsGiven
  <2>3. CASE RunPrinted
    BY <2>1, <2>2, <2>3 DEF RunPrinted
  <2>4. CASE UNCHANGED vars
    BY <2>1, <2>2, <2>4 DEF vars
  <2>5. CASE ~RunPrinted /\ Next
    <3>1. stage # "printed" /\ UNCHANGED inputVars /\ stage' # "printed"
      BY <1>2, <2>5 DEF Next, ParseFlags, loadDefaults, loadEnv, loadFlags, Load, Refuse,
                        loadConfigPath, Validate, BuildMigrations, inputVars
    <3>2. command' = "run" /\ env' = <<>> /\ flags' = [configPath |-> "printed"]
      BY <2>2, <3>1 DEF inputVars
    <3>3. /\ AllParse(env, "env") /\ AllParse(flags, "flag") /\ Outer.configPath = "printed"
          /\ DOMAIN flags = {"configPath"} /\ FlagParses("configPath", flags["configPath"])
      BY <2>2, <3>1, GivenThePrinted
    <3>4. ASSUME Refuse PROVE FALSE
      <4>1. CASE ParseFlags
        BY <3>3, <4>1, <3>4, TableFacts DEF ParseFlags, Refuse
      <4>2. CASE loadEnv
        BY <3>3, <4>2, <3>4 DEF loadEnv, Load, Refuse
      <4>3. CASE loadFlags
        BY <3>3, <4>3, <3>4 DEF loadFlags, Load, Refuse
      <4>4. CASE loadConfigPath
        <5>1. cfg.configPath = "printed"
          BY <3>3, <4>4 DEF loadConfigPath, Stages
        <5>2. "printed" \in DOMAIN files /\ files["printed"] = MarshalTOML(was)
          BY <2>2
        <5>3. Loads(MarshalTOML(was))
          BY <2>2, MarshalFacts DEF Loads
        <5> QED
          BY <3>4, <4>4, <5>1, <5>2, <5>3 DEF loadConfigPath, Refuse
      <4> QED
        BY <1>2, <2>5, <3>4, <4>1, <4>2, <4>3, <4>4
           DEF Next, loadDefaults, Validate, BuildMigrations, Refuse
    <3>5. stage' # "refused"
      <4>1. CASE stage' = "refused"
        <5>1. Refuse
          BY <1>2, <2>5, <4>1 DEF Next, ParseFlags, loadDefaults, loadEnv, loadFlags, Load, Refuse,
                                  loadConfigPath, Validate, BuildMigrations
        <5> QED
          BY <3>4, <5>1
      <4> QED
        BY <4>1
    <3> QED
      BY <2>1, <2>2, <3>2, <3>5
  <2> QED
    BY <2>3, <2>4, <2>5
<1> QED
  BY <1>1, <1>2

LEMMA PrintInvHolds == Spec => []PrintInv
<1>1. Init => PrintInv
  BY InputsAreText DEF Init, PrintInv, TextsGiven, CfgStorable, PrintedIsGiven
<1>2. Stages /\ PrintInv /\ [Next]_vars => PrintInv'
  BY Texts, CfgStaysStorable, PrintedStaysGiven DEF PrintInv
<1> QED
  BY <1>1, <1>2, StagesHold, PTL DEF Spec

(* What gen-config-file prints is never refused by the process that is      *)
(* given it, which then has the settings it was printed from: each value    *)
(* that reflection stored is one that is stored unchanged again.            *)
THEOREM PrintedIsReadBack == Spec => []PrintedFileKeepsSettings
<1>1. Stages /\ PrintInv => PrintedFileKeepsSettings
  <2> SUFFICES ASSUME Stages, PrintInv, NEW was \in printed, command = "run", stage = "set",
                      NEW o \in From("toml")
               PROVE  cfg[o] = IF was[o] = Zero(o) THEN options[o].default
                               ELSE IF options[o].type = "table" THEN "default" ELSE was[o]
    BY DEF PrintedFileKeepsSettings, PrintInv, PrintedIsGiven
  <2>1. /\ Storable(was) /\ files = [path \in {"printed"} |-> MarshalTOML(was)]
        /\ env = <<>> /\ flags = [configPath |-> "printed"]
    BY DEF PrintInv, PrintedIsGiven
  <2>2. o \in Names \ {"configPath"}
    BY TableFacts
  <2>3. /\ Outer.configPath = "printed" /\ Outer[o] = options[o].default
        /\ ~Gives(env, "env", o) /\ ~Gives(flags, "flag", o)
    BY <2>1, <2>2, GivenThePrinted
  <2>4. Named = MarshalTOML(was)
    BY <2>1, <2>3 DEF Named
  <2>5. cfg = With(With(OfFile, env, "env"), flags, "flag")
    BY <2>3 DEF Stages, Settled
  <2>6. cfg[o] = OfFile[o]
    BY <2>2, <2>3, <2>5, WithFacts
  <2>7. OfFile[o] = IF Gives(MarshalTOML(was), "toml", o) THEN Stored(o, MarshalTOML(was)[o])
                    ELSE options[o].default
    BY <2>2, <2>3, <2>4, WithFacts DEF OfFile
  <2> QED
    BY <2>1, <2>2, <2>6, <2>7, MarshalFacts
<1> QED
  BY <1>1, StagesHold, PrintInvHolds, PTL
=============================================================================
