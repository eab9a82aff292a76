---------------------------- MODULE StartupProofs ----------------------------
(***************************************************************************)
(* Proofs about Config and Startup for any command line, environment and   *)
(* files.  The configuration is the same pass over three sources in both   *)
(* programs; the inductive invariant says after each of its steps which    *)
(* source every option has its value from.                                 *)
(***************************************************************************)
EXTENDS Startup, TLAPS

(* The configuration has been started, and has not failed.                  *)
Read == phase \notin {"file", "fatal"}

(* The value an option has before the flags: from the file or built in.     *)
Base == [o \in DOMAIN Options |->
            IF HasField(Fields, o) THEN FromFile(o, Fields[o]) ELSE Options[o].default]

(* The flag that wins for an option; or there is none.                      *)
Wins(g, o) == g \in given /\ g[1] = o /\ \A h \in given : h[1] = o => h[2] <= g[2]
NoFlag(o) == \A g \in given : g[1] # o

(* What has been parsed of the command line: one value for an option and a  *)
(* position, in front of the next argument.                                 *)
GivenInv ==
    /\ input \in Inputs
    /\ pos \in Nat /\ pos >= 1
    /\ phase = "file" => given = {}
    /\ \A g \in given : g[2] \in Nat /\ g[2] < pos /\ g[2] \in DOMAIN input.args
    /\ \A g, h \in given : g[1] = h[1] /\ g[2] = h[2] => g[3] = h[3]

(* Where every option has its value from.                                   *)
ValueInv ==
    Read =>
        /\ DOMAIN cfg = DOMAIN Options
        /\ \A o \in DOMAIN Options :
              \/ Parsed /\ o \in InEnv /\ cfg[o] = input.env[o]
              \/ /\ ~(Parsed /\ o \in InEnv)
                 /\ \/ \E g \in given : Wins(g, o) /\ cfg[o] = g[3]
                    \/ NoFlag(o) /\ cfg[o] = Base[o]

CInv == GivenInv /\ ValueInv

-----------------------------------------------------------------------------
(* What follows from the command line, the environment and the files does   *)
(* not change.                                                              *)
LEMMA Unmoved ==
    ASSUME UNCHANGED input
    PROVE  Options' = Options /\ InEnv' = InEnv /\ Fields' = Fields /\ Base' = Base
<1>1. Options' = Options /\ InEnv' = InEnv
  BY DEF Options, OptionsOf, InEnv
<1>2. Fields' = Fields
  BY DEF Fields, FileFields
<1>3. Base' = Base
  BY <1>1, <1>2 DEF Base, HasField, FromFile
<1> QED BY <1>1, <1>2, <1>3

(* The flag for the file has no option.                                     *)
LEMMA NoOption ==
    /\ "config" \notin DOMAIN Options
    /\ FlagOptions("c") = {} /\ FlagOptions("config") = {}
<1>1. CASE input.program = "agent"
  BY <1>1 DEF FlagOptions, Options, OptionsOf, AgentOptions, Option
<1>2. CASE input.program # "agent"
  BY <1>2 DEF FlagOptions, Options, OptionsOf, ServerOptions, Option
<1> QED BY <1>1, <1>2

(* The invariant holds before the file is read.                             *)
LEMMA CInvInit == Init => CInv
BY DEF Init, ConfigInit, CInv, GivenInv, ValueInv, Read

(* The file gives every option its first value.                             *)
LEMMA ReadFileStep == CInv /\ ReadFile => CInv'
<1> SUFFICES ASSUME CInv, ReadFile PROVE CInv'
  OBVIOUS
<1>1. UNCHANGED <<input, pos, given>> /\ phase = "file" /\ given = {}
  BY DEF ReadFile, CInv, GivenInv
<1>2. phase' \in {"fatal", "flags"}
  BY DEF ReadFile
<1>3. GivenInv'
  BY <1>1, <1>2 DEF CInv, GivenInv
<1>4. CASE phase' = "flags"
  <2>1. cfg' = Base
    BY <1>4 DEF ReadFile, Base, Fields
  <2>2. DOMAIN cfg' = DOMAIN Options /\ \A o \in DOMAIN Options : cfg'[o] = Base[o]
    BY <2>1 DEF Base
  <2> QED BY <1>1, <1>3, <1>4, <2>2, Unmoved DEF CInv, ValueInv, Parsed, NoFlag
<1> QED BY <1>2, <1>3, <1>4 DEF CInv, ValueInv, Read

(* A flag is behind all the flags before it, so its value wins.             *)
LEMMA ParseFlagStep == CInv /\ ParseFlag => CInv'
<1> SUFFICES ASSUME CInv, ParseFlag PROVE CInv'
  OBVIOUS
<1> DEFINE arg == input.args[pos]
           alone == arg.val # None \/ IsBool(arg.name)
           text == IF arg.val # None THEN arg.val
                   ELSE IF IsBool(arg.name) THEN Bool(TRUE) ELSE Text(input.args[pos + 1])
           opts == FlagOptions(arg.name)
           names == IF opts = {} THEN {"config"} ELSE opts
           new == {<<o, pos, text>> : o \in names}
<1>1. UNCHANGED input /\ phase = "flags" /\ phase' \in {"fatal", "flags"} /\ pos <= Len(input.args)
  BY DEF ParseFlag, AtFlag
<1>2. CASE phase' = "fatal"
  BY <1>1, <1>2 DEF ParseFlag, CInv, GivenInv, ValueInv, Read
<1>3. CASE phase' = "flags"
  <2>1. /\ pos' = pos + (IF alone THEN 1 ELSE 2)
        /\ cfg' = [o \in DOMAIN cfg |-> IF o \in opts THEN text ELSE cfg[o]]
        /\ given' = given \cup new
    BY <1>3 DEF ParseFlag
  <2> HIDE DEF alone, text, opts
  <2>2. pos \in Nat /\ pos >= 1 /\ pos' \in Nat /\ pos' > pos /\ input \in Inputs
    BY <2>1 DEF CInv, GivenInv
  <2>3. pos \in DOMAIN input.args
    BY <1>1, <2>2, InputsAssumption
  <2>4. \A g \in new : g[2] = pos /\ g[3] = text /\ g[1] \in names
    OBVIOUS
  <2>5. \A g \in given : g[2] \in Nat /\ g[2] < pos /\ g[2] \in DOMAIN input.args
    BY DEF CInv, GivenInv
  <2>6. \A g, h \in given' : g[1] = h[1] /\ g[2] = h[2] => g[3] = h[3]
    <3>1. \A g, h \in given : g[1] = h[1] /\ g[2] = h[2] => g[3] = h[3]
      BY DEF CInv, GivenInv
    <3>2. \A g \in given : g[2] # pos
      BY <2>2, <2>5
    <3> HIDE DEF new
    <3> QED BY <2>1, <2>4, <3>1, <3>2
  <2>7. \A g \in given' : g[2] \in Nat /\ g[2] < pos' /\ g[2] \in DOMAIN input.args
    <3> HIDE DEF new
    <3> QED BY <2>1, <2>2, <2>3, <2>4, <2>5
  <2>8. GivenInv'
    BY <1>1, <1>3, <2>2, <2>6, <2>7 DEF GivenInv
  <2>9. DOMAIN cfg = DOMAIN Options
    BY <1>1 DEF CInv, ValueInv, Read
  <2>10. ASSUME NEW o \in DOMAIN Options
         PROVE  \/ \E g \in given' : Wins(g, o)' /\ cfg'[o] = g[3]
                \/ NoFlag(o)' /\ cfg'[o] = Base[o]
    <3>1. CASE o \in opts
      <4>1. PICK g \in new : g[1] = o /\ g[2] = pos /\ g[3] = text
        <5>1. <<o, pos, text>> \in new
          BY <3>1
        <5> HIDE DEF new
        <5> QED BY <5>1
      <4>2. cfg'[o] = text
        BY <2>1, <2>9, <3>1
      <4> HIDE DEF new
      <4>3. \A h \in given' : h[2] <= pos
        BY <2>1, <2>2, <2>4, <2>5
      <4>4. g \in given' /\ Wins(g, o)'
        BY <2>1, <4>1, <4>3 DEF Wins
      <4> QED BY <4>1, <4>2, <4>4
    <3>2. CASE o \notin opts
      <4>1. cfg'[o] = cfg[o]
        BY <2>1, <2>9, <3>2
      <4>2. \A g \in new : g[1] # o
        BY <2>4, <3>2, NoOption
      <4>3. CASE NoFlag(o) /\ cfg[o] = Base[o]
        <5> HIDE DEF new
        <5> QED BY <2>1, <4>1, <4>2, <4>3 DEF NoFlag
      <4>4. ASSUME NEW g \in given, Wins(g, o), cfg[o] = g[3]
            PROVE  g \in given' /\ Wins(g, o)' /\ cfg'[o] = g[3]
        <5> HIDE DEF new
        <5> QED BY <2>1, <4>1, <4>2, <4>4 DEF Wins
      <4> QED BY <1>1, <4>3, <4>4 DEF CInv, ValueInv, Read, Parsed
    <3> QED BY <3>1, <3>2
  <2>11. DOMAIN cfg' = DOMAIN Options
    BY <2>1, <2>9
  <2>12. ~Parsed'
    BY <1>3 DEF Parsed
  <2> QED BY <1>1, <2>8, <2>10, <2>11, <2>12, Unmoved DEF CInv, ValueInv
<1> QED BY <1>1, <1>2, <1>3

(* The environment wins over what the flags have left.                      *)
LEMMA ReadEnvStep == CInv /\ ReadEnv => CInv'
<1> SUFFICES ASSUME CInv, ReadEnv PROVE CInv'
  OBVIOUS
<1>1. UNCHANGED <<input, pos, given>> /\ phase = "env" /\ phase' \in {"fatal", "parsed"}
  BY DEF ReadEnv
<1>2. GivenInv'
  BY <1>1 DEF CInv, GivenInv
<1>3. CASE phase' = "fatal"
  BY <1>2, <1>3 DEF CInv, ValueInv, Read
<1>4. CASE phase' = "parsed"
  <2>1. cfg' = [o \in DOMAIN cfg |-> IF o \in InEnv THEN input.env[o] ELSE cfg[o]]
    BY <1>4 DEF ReadEnv
  <2>2. /\ DOMAIN cfg = DOMAIN Options
        /\ \A o \in DOMAIN Options :
              \/ \E g \in given : Wins(g, o) /\ cfg[o] = g[3]
              \/ NoFlag(o) /\ cfg[o] = Base[o]
    BY <1>1 DEF CInv, ValueInv, Read, Parsed
  <2>3. Parsed'
    BY <1>4 DEF Parsed
  <2>4. \A o : NoFlag(o)' <=> NoFlag(o)
    BY <1>1 DEF NoFlag
  <2>5. \A g, o : Wins(g, o)' <=> Wins(g, o)
    BY <1>1 DEF Wins
  <2>6. DOMAIN cfg' = DOMAIN Options
    BY <2>1, <2>2
  <2>7. \A o \in DOMAIN Options : cfg'[o] = IF o \in InEnv THEN input.env[o] ELSE cfg[o]
    BY <2>1, <2>2
  <2> QED BY <1>1, <1>2, <2>2, <2>3, <2>4, <2>5, <2>6, <2>7, Unmoved DEF CInv, ValueInv
<1> QED BY <1>1, <1>3, <1>4

(* Nothing else touches the configuration.                                  *)
LEMMA KeepStep ==
    ASSUME CInv, UNCHANGED <<input, pos, given, cfg>>,
           \/ phase' = phase
           \/ phase' = "fatal"
           \/ phase = "flags" /\ phase' = "env"
           \/ Parsed /\ Parsed'
    PROVE  CInv'
<1>1. phase' = "file" => phase = "file"
  BY DEF Parsed
<1>2. GivenInv'
  BY <1>1 DEF CInv, GivenInv
<1>3. CASE phase' = "fatal"
  BY <1>2, <1>3 DEF CInv, ValueInv, Read
<1>4. CASE phase' # "fatal"
  <2>1. (Parsed' <=> Parsed) /\ (Read' => Read)
    BY <1>4 DEF Parsed, Read
  <2>2. \A o : NoFlag(o)' <=> NoFlag(o)
    BY DEF NoFlag
  <2>3. \A g, o : Wins(g, o)' <=> Wins(g, o)
    BY DEF Wins
  <2> QED BY <1>2, <2>1, <2>2, <2>3, Unmoved DEF CInv, ValueInv
<1> QED BY <1>3, <1>4

(* Every step of the start keeps the invariant.                             *)
LEMMA CInvHolds == Spec => []CInv
<1>1. CInv /\ [Next]_vars => CInv'
  <2> SUFFICES ASSUME CInv, [Next]_vars PROVE CInv'
    OBVIOUS
  <2>1. CASE FlagsDone
    BY <2>1, KeepStep DEF FlagsDone
  <2>2. CASE AgentBuildFails \/ AgentStarts
    BY <2>2, KeepStep DEF AgentBuildFails, AgentStarts, Parsed
  <2>3. CASE ConnectDB \/ ConnectFails \/ WithoutDB \/ ChooseStorage
    BY <2>3, KeepStep DEF ConnectDB, ConnectFails, WithoutDB, ChooseStorage, Parsed
  <2>4. CASE PeriodicSave \/ SaveOnUpdate \/ SaveEnds \/ HTTPListen
    BY <2>4, KeepStep DEF PeriodicSave, SaveOnUpdate, SaveEnds, HTTPListen, configVars
  <2>5. CASE Build \/ GRPCListen \/ Serve \/ Stop
    BY <2>5, KeepStep DEF Build, GRPCListen, Serve, Stop, Parsed
  <2>6. CASE SaverPanics \/ Close \/ CloseReturns \/ Exit
    BY <2>6, KeepStep DEF SaverPanics, Close, CloseReturns, Exit, Parsed, Alive
  <2>7. CASE UNCHANGED vars
    BY <2>7, KeepStep DEF vars, configVars
  <2> QED BY <2>1, <2>2, <2>3, <2>4, <2>5, <2>6, <2>7, ReadFileStep, ParseFlagStep, ReadEnvStep
          DEF Next, ConfigNext, Terminated
<1> QED BY <1>1, CInvInit, PTL DEF Spec

(* The value that the flag package has left for an option is the one of its *)
(* last flag.                                                               *)
LEMMA LastFlagWins ==
    ASSUME GivenInv, NEW o, NEW g, Wins(g, o)
    PROVE  FlagsFor(o) # {} /\ LastFlag(o) = g[3]
<1> DEFINE last == CHOOSE h \in FlagsFor(o) : \A k \in FlagsFor(o) : k[2] <= h[2]
<1>1. g \in FlagsFor(o) /\ \A k \in FlagsFor(o) : k[2] <= g[2]
  BY DEF Wins, FlagsFor
<1>2. last \in FlagsFor(o) /\ \A k \in FlagsFor(o) : k[2] <= last[2]
  BY <1>1
<1>3. last[2] = g[2]
  <2>1. last[2] <= g[2] /\ g[2] <= last[2]
    BY <1>1, <1>2
  <2>2. last[2] \in Nat /\ g[2] \in Nat
    BY <1>1, <1>2 DEF GivenInv, FlagsFor
  <2> HIDE DEF last
  <2> QED BY <2>1, <2>2
<1>4. last[3] = g[3]
  BY <1>1, <1>2, <1>3 DEF GivenInv, FlagsFor
<1> QED BY <1>1, <1>4 DEF LastFlag

(* For every option of both programs and whatever is on the command line:   *)
(* the environment wins over the flags, the last of several flags over the  *)
(* file, and the file over the default.                                     *)
THEOREM SourcesInOrder == Spec => []PrecedenceHolds
<1>1. ASSUME CInv, Parsed, NEW o \in DOMAIN Options
      PROVE  cfg[o] = CASE FromEnv(o) -> input.env[o]
                   [] ~FromEnv(o) /\ FlagsFor(o) # {} -> LastFlag(o)
                   [] ~FromEnv(o) /\ FlagsFor(o) = {} /\ HasField(Fields, o) ->
                        FromFile(o, Fields[o])
                   [] OTHER -> Options[o].default
  <2>1. Read
    BY <1>1 DEF Parsed, Read
  <2>2. CASE o \in InEnv
    BY <1>1, <2>1, <2>2 DEF CInv, ValueInv, FromEnv
  <2>3. CASE o \notin InEnv /\ \E g \in given : Wins(g, o) /\ cfg[o] = g[3]
    <3>1. FlagsFor(o) # {} /\ cfg[o] = LastFlag(o)
      BY <1>1, <2>3, LastFlagWins DEF CInv
    <3> QED BY <2>3, <3>1 DEF FromEnv
  <2>4. CASE o \notin InEnv /\ NoFlag(o) /\ cfg[o] = Base[o]
    <3>1. FlagsFor(o) = {}
      BY <2>4 DEF NoFlag, FlagsFor
    <3>2. cfg[o] = IF HasField(Fields, o) THEN FromFile(o, Fields[o]) ELSE Options[o].default
      BY <2>4 DEF Base
    <3> QED BY <2>4, <3>1, <3>2 DEF FromEnv
  <2> QED BY <1>1, <2>1, <2>2, <2>3, <2>4 DEF CInv, ValueInv
<1>2. CInv => PrecedenceHolds
  BY <1>1 DEF PrecedenceHolds
<1> QED BY <1>2, CInvHolds, PTL

-----------------------------------------------------------------------------
(* The flag for the file has been given the value that extractConfigPath    *)
(* takes for it.                                                            *)
ConfigFlagInv ==
    \A g \in given : LET arg == input.args[g[2]] IN
        g[1] = "config" /\ SpellsConfig(arg) =>
            /\ arg.val # None \/ g[2] < Len(input.args)
            /\ g[3] = IF arg.val # None THEN arg.val ELSE Text(input.args[g[2] + 1])

(* The flag package and extractConfigPath read the value of the flag for    *)
(* the file in the same place.                                              *)
LEMMA ConfigFlagHolds == Spec => []ConfigFlagInv
<1>1. Init => ConfigFlagInv
  BY DEF Init, ConfigInit, ConfigFlagInv
<1>2. CInv /\ ConfigFlagInv /\ ParseFlag => ConfigFlagInv'
  <2> SUFFICES ASSUME CInv, ConfigFlagInv, ParseFlag, NEW g \in given',
                      g[1] = "config", SpellsConfig(input.args[g[2]])
               PROVE  /\ input.args[g[2]].val # None \/ g[2] < Len(input.args)
                      /\ g[3] = IF input.args[g[2]].val # None THEN input.args[g[2]].val
                                ELSE Text(input.args[g[2] + 1])
    BY DEF ParseFlag, ConfigFlagInv
  <2> DEFINE arg == input.args[pos]
             alone == arg.val # None \/ IsBool(arg.name)
             text == IF arg.val # None THEN arg.val
                     ELSE IF IsBool(arg.name) THEN Bool(TRUE) ELSE Text(input.args[pos + 1])
  <2>1. CASE g \in given
    BY <2>1 DEF ConfigFlagInv
  <2>2. CASE g \notin given
    <3>1. g[2] = pos /\ g[3] = text /\ (alone \/ pos # Len(input.args)) /\ pos <= Len(input.args)
      <4> DEFINE names == IF FlagOptions(arg.name) = {} THEN {"config"} ELSE FlagOptions(arg.name)
      <4>1. /\ given' = given \cup {<<o, pos, text>> : o \in names}
            /\ alone \/ pos # Len(input.args)
        BY <2>2 DEF ParseFlag
      <4>2. pos <= Len(input.args)
        BY DEF ParseFlag, AtFlag
      <4> HIDE DEF names, text, alone
      <4> QED BY <2>2, <4>1, <4>2
    <3>2. arg.name \in {"c", "config"}
      BY <3>1 DEF SpellsConfig
    <3>3. ~IsBool(arg.name)
      BY <3>2, NoOption DEF IsBool
    <3>4. Len(input.args) \in Nat /\ pos \in Nat
      BY InputsAssumption DEF CInv, GivenInv
    <3> QED BY <3>1, <3>3, <3>4
  <2> QED BY <2>1, <2>2
<1>3. UNCHANGED <<input, given>> /\ ConfigFlagInv => ConfigFlagInv'
  BY DEF ConfigFlagInv
<1>4. CInv /\ ConfigFlagInv /\ [Next]_vars => ConfigFlagInv'
  <2> SUFFICES ASSUME CInv, ConfigFlagInv, [Next]_vars PROVE ConfigFlagInv'
    OBVIOUS
  <2>1. ParseFlag \/ UNCHANGED <<input, given>>
    BY DEF Next, ConfigNext, ReadFile, FlagsDone, ReadEnv, AgentBuildFails, AgentStarts,
           ConnectDB, ConnectFails, WithoutDB, ChooseStorage, PeriodicSave, SaverPanics,
           SaveOnUpdate, SaveEnds, Build, HTTPListen, GRPCListen, Serve, Stop, Close,
           CloseReturns, Exit, Terminated, vars, configVars
  <2> QED BY <1>2, <1>3, <2>1
<1> QED BY <1>1, <1>4, CInvHolds, PTL DEF Spec

(* For any command line: a file named by CONFIG is the one that is read, or *)
(* else the one the flag package has seen first, and none without either.   *)
THEOREM NamedFileIsRead == Spec => []ConfigFileHonoured
<1> DEFINE path == extractConfigPath(input.args, input.CONFIG)
           hits == {i \in DOMAIN input.args : SpellsConfig(input.args[i]) /\
                       (input.args[i].val # None \/ i < Len(input.args))}
<1>1. input.CONFIG # Empty => path = input.CONFIG
  BY DEF extractConfigPath
<1>2. ASSUME input.CONFIG = Empty, \A i \in DOMAIN input.args : ~SpellsConfig(input.args[i])
      PROVE  path = Empty
  <2>1. hits = {}
    BY <1>2
  <2> QED BY <1>2, <2>1 DEF extractConfigPath
<1>3. ASSUME CInv, ConfigFlagInv, input.CONFIG = Empty, NEW g \in ConfigFlag
      PROVE  path = g[3]
  <2>1. /\ g \in given /\ g[1] = "config" /\ SpellsConfig(input.args[g[2]])
        /\ \A i \in 1..(g[2] - 1) : ~SpellsConfig(input.args[i])
    BY DEF ConfigFlag, FlagsFor
  <2>2. g[2] \in Nat /\ g[2] \in DOMAIN input.args
    BY <1>3, <2>1 DEF CInv, GivenInv
  <2>3. Len(input.args) \in Nat /\ DOMAIN input.args = 1..Len(input.args)
    BY <1>3, InputsAssumption DEF CInv, GivenInv
  <2>4. /\ input.args[g[2]].val # None \/ g[2] < Len(input.args)
        /\ g[3] = IF input.args[g[2]].val # None THEN input.args[g[2]].val
                  ELSE Text(input.args[g[2] + 1])
    BY <1>3, <2>1 DEF ConfigFlagInv
  <2>5. g[2] \in hits
    BY <2>1, <2>2, <2>4
  <2>6. \A i \in hits : i \in Nat /\ g[2] <= i
    BY <2>1, <2>2, <2>3
  <2>7. Min(hits) = g[2]
    <3> HIDE DEF hits
    <3>1. Min(hits) \in hits /\ \A i \in hits : Min(hits) <= i
      BY <2>5, <2>6 DEF Min
    <3> QED BY <2>2, <2>5, <2>6, <3>1
  <2>8. hits # {}
    BY <2>5
  <2>9. path = IF input.args[Min(hits)].val # None THEN input.args[Min(hits)].val
               ELSE Text(input.args[Min(hits) + 1])
    BY <1>3, <2>8 DEF extractConfigPath
  <2> QED BY <2>4, <2>7, <2>9
<1>4. CInv /\ ConfigFlagInv => ConfigFileHonoured
  BY <1>1, <1>2, <1>3 DEF ConfigFileHonoured
<1> QED BY <1>4, CInvHolds, ConfigFlagHolds, PTL

-----------------------------------------------------------------------------
(* The values of the options of type int are numbers, and what the file has *)
(* for them are durations of not more nanoseconds than an int64 has.        *)
IntInv ==
    Read => \A o \in DOMAIN Options : Options[o].type = "int" =>
        /\ cfg[o][2] \in Int
        /\ HasField(Fields, o) => Fields[o][2] \in Int /\ ParsesDuration(Fields[o])

(* Only the server gets beyond its configuration, and a panic is one of     *)
(* time.NewTicker.                                                          *)
PanicInv ==
    /\ Alive \/ phase = "storage" => input.program # "agent"
    /\ phase = "panic" => \E o \in Intervals : Duration(cfg[o][2]) <= 0

(* The fields of the file are texts, also when there is no file.            *)
LEMMA FieldsAreTexts ==
    ASSUME input \in Inputs
    PROVE  \A o \in DOMAIN Fields : IsText(Fields[o])
<1> DEFINE path == extractConfigPath(input.args, input.CONFIG)
<1>1. CASE path # Empty /\ path \in DOMAIN input.files
  <2>1. Fields = input.files[path].fields
    BY <1>1 DEF Fields, FileFields
  <2> QED BY <1>1, <2>1, InputsAssumption
<1>2. CASE ~(path # Empty /\ path \in DOMAIN input.files)
  <2>1. Fields = <<>>
    BY <1>2 DEF Fields, FileFields
  <2> QED BY <2>1
<1> QED BY <1>1, <1>2

(* An argument in the place of a value is a text.                           *)
LEMMA ValuesAreTexts ==
    ASSUME input \in Inputs, NEW k \in DOMAIN input.args
    PROVE  /\ input.args[k].val # None => IsText(input.args[k].val)
           /\ IsText(Text(input.args[k]))
BY InputsAssumption DEF Text, IsText

(* Seconds of a number are a number, and positive from a second on.         *)
LEMMA SecondsTruncate ==
    ASSUME NEW ms \in Int
    PROVE  Seconds(ms) \in Int /\ (Seconds(ms) <= 0 => ms < 1000)
BY DEF Seconds

(* A remainder is its dividend when that is smaller than the divisor.       *)
LEMMA SmallRemainder ==
    \A d \in Nat \ {0} : \A a \in 0..(d - 1) : a % d = a
<1> SUFFICES ASSUME NEW d \in Nat \ {0}, NEW a \in 0..(d - 1) PROVE a % d = a
  OBVIOUS
<1> DEFINE q == a \div d
           r == a % d
<1>1. r \in 0..(d - 1) /\ q \in Int /\ a = d * q + r
  BY SMT
<1>2. \A k \in Int : \A x, y \in 0..(d - 1) : x = d * k + y => x = y
  BY SMT
<1> HIDE DEF q, r
<1>3. a = r
  BY <1>1, <1>2
<1> QED BY <1>3 DEF r

(* A number of seconds that fits is a positive duration.                    *)
LEMMA FitsIsPositive ==
    ASSUME NEW n \in Int, Fits(n)
    PROVE  Duration(n) > 0
<1> DEFINE m == n * Second
<1>1. m \in Int /\ m > 0 /\ m < Half
  BY DurationAssumption DEF Fits
<1> HIDE DEF m
<1>2. 2 * Half \in Nat \ {0} /\ m + Half \in 0..(2 * Half - 1)
  BY <1>1, DurationAssumption
<1>3. (m + Half) % (2 * Half) = m + Half
  BY <1>2, SmallRemainder
<1>4. Wrap(m) = m
  BY <1>1, <1>3, DurationAssumption DEF Wrap
<1> QED BY <1>1, <1>4 DEF Duration, m

(* So is a duration of the file from a second on, cut to whole seconds.     *)
LEMMA FileFits ==
    ASSUME NEW text, text[2] \in Int, text[2] >= 1000, ParsesDuration(text)
    PROVE  Seconds(text[2]) \in Int /\ Fits(Seconds(text[2]))
<1> DEFINE ms == text[2]
           n == ms \div 1000
<1>1. Seconds(ms) = n /\ n \in Int /\ n > 0 /\ 1000 * n <= ms
  BY DEF Seconds
<1>2. ms * Second <= 1000 * (Half - 1)
  BY DEF ParsesDuration
<1> HIDE DEF ms, n
<1>3. (1000 * n) * Second <= ms * Second
  BY <1>1, DurationAssumption DEF ms
<1>4. (1000 * n) * Second = 1000 * (n * Second) /\ n * Second \in Int /\ ms * Second \in Int
  BY <1>1, DurationAssumption DEF ms
<1>5. n * Second < Half
  BY <1>2, <1>3, <1>4, DurationAssumption
<1> QED BY <1>1, <1>5 DEF Fits, ms

(* The defaults of the options of type int are numbers that fit.            *)
LEMMA DefaultsFit ==
    \A o \in DOMAIN Options : Options[o].type = "int" =>
        Options[o].default[2] \in Int /\ Fits(Options[o].default[2])
<1>1. \A o \in DOMAIN Options : Options[o].type = "int" =>
          Options[o].default \in {Num(300), Num(10), Num(2), Num(1)}
  <2>1. CASE input.program = "agent"
    BY <2>1 DEF Options, OptionsOf, AgentOptions, Option
  <2>2. CASE input.program # "agent"
    BY <2>2 DEF Options, OptionsOf, ServerOptions, Option
  <2> QED BY <2>1, <2>2
<1>2. \A n \in {300, 10, 2, 1} : n \in Int /\ Fits(n)
  BY DurationAssumption DEF Fits
<1> QED BY <1>1, <1>2 DEF Num

(* What parses as a number is one.                                          *)
LEMMA ParsedIsNumber ==
    ASSUME NEW text, IsText(text), Parses("int", text)
    PROVE  text[2] \in Int
BY DEF IsText, Parses

(* The invariant about numbers holds throughout the start.                  *)
LEMMA IntHolds == Spec => [](IntInv /\ PanicInv)
<1> DEFINE InRange(o) == Fields[o][2] \in Int /\ ParsesDuration(Fields[o])
<1>1. Init => IntInv /\ PanicInv
  BY DEF Init, ConfigInit, IntInv, PanicInv, Read, Alive
<1>2. ASSUME CInv, IntInv, PanicInv, ReadFile PROVE IntInv' /\ PanicInv'
  <2>1. UNCHANGED input /\ phase' \in {"fatal", "flags"} /\ input \in Inputs
    BY <1>2 DEF ReadFile, CInv, GivenInv
  <2>2. CASE phase' = "flags"
    <3>1. cfg' = Base
      BY <1>2, <2>2 DEF ReadFile, Base, Fields
    <3>2. \A o \in DOMAIN Options :
              HasField(Fields, o) /\ Options[o].type = "int" => ParsesDuration(Fields[o])
      BY <1>2, <2>2 DEF ReadFile, Fields
    <3>3. ASSUME NEW o \in DOMAIN Options, Options[o].type = "int", HasField(Fields, o)
          PROVE  /\ Fields[o][2] \in Int /\ ParsesDuration(Fields[o])
                 /\ Base[o][2] \in Int
      <4>1. Fields[o][2] \in Int
        BY <2>1, <3>2, <3>3, FieldsAreTexts DEF HasField, IsText, ParsesDuration
      <4>2. Base[o] = Num(Seconds(Fields[o][2]))
        BY <3>3 DEF Base, FromFile
      <4>3. Seconds(Fields[o][2]) \in Int
        BY <4>1, SecondsTruncate
      <4> QED BY <3>2, <3>3, <4>1, <4>2, <4>3 DEF Num
    <3>4. ASSUME NEW o \in DOMAIN Options, Options[o].type = "int", ~HasField(Fields, o)
          PROVE  Base[o][2] \in Int
      BY <3>4, DefaultsFit DEF Base
    <3>5. \A o : HasField(Fields, o)' <=> HasField(Fields, o)
      BY <2>1, Unmoved DEF HasField
    <3> QED BY <2>1, <2>2, <3>1, <3>3, <3>4, <3>5, Unmoved DEF IntInv, PanicInv, Alive
  <2> QED BY <2>1, <2>2 DEF IntInv, PanicInv, Read, Alive
<1>3. ASSUME CInv, IntInv, PanicInv, ParseFlag PROVE IntInv' /\ PanicInv'
  <2> DEFINE arg == input.args[pos]
             text == IF arg.val # None THEN arg.val
                     ELSE IF IsBool(arg.name) THEN Bool(TRUE) ELSE Text(input.args[pos + 1])
             opts == FlagOptions(arg.name)
  <2>1. UNCHANGED input /\ phase = "flags" /\ phase' \in {"fatal", "flags"} /\ input \in Inputs
    BY <1>3 DEF ParseFlag, CInv, GivenInv
  <2>2. CASE phase' = "flags"
    <3>1. /\ cfg' = [o \in DOMAIN cfg |-> IF o \in opts THEN text ELSE cfg[o]]
          /\ \A o \in opts : Parses(Options[o].type, text)
          /\ arg.val # None \/ IsBool(arg.name) \/ pos # Len(input.args)
          /\ pos <= Len(input.args)
      BY <1>3, <2>2 DEF ParseFlag, AtFlag
    <3>2. IsText(text)
      <4>1. Len(input.args) \in Nat /\ DOMAIN input.args = 1..Len(input.args)
            /\ pos \in Nat /\ pos >= 1
        BY <1>3, InputsAssumption DEF CInv, GivenInv
      <4>2. pos \in DOMAIN input.args
        BY <3>1, <4>1
      <4>3. pos # Len(input.args) => pos + 1 \in DOMAIN input.args
        BY <3>1, <4>1
      <4>4. IsText(Bool(TRUE))
        BY DEF IsText, Bool
      <4> QED BY <2>1, <3>1, <4>2, <4>3, <4>4, ValuesAreTexts
    <3> HIDE DEF text, opts
    <3>3. DOMAIN cfg = DOMAIN Options
      BY <1>3, <2>1 DEF CInv, ValueInv, Read
    <3>4. ASSUME NEW o \in DOMAIN Options, Options[o].type = "int"
          PROVE  cfg'[o][2] \in Int /\ (HasField(Fields, o) => InRange(o))
      <4>1. cfg[o][2] \in Int /\ (HasField(Fields, o) => InRange(o))
        BY <1>3, <2>1, <3>4 DEF IntInv, Read
      <4>2. o \in opts => text[2] \in Int
        BY <3>1, <3>2, <3>4, ParsedIsNumber
      <4>3. cfg'[o] = IF o \in opts THEN text ELSE cfg[o]
        BY <3>1, <3>3
      <4> QED BY <4>1, <4>2, <4>3
    <3>5. \A o : HasField(Fields, o)' <=> HasField(Fields, o)
      BY <2>1, Unmoved DEF HasField
    <3> QED BY <2>1, <2>2, <3>4, <3>5, Unmoved DEF IntInv, PanicInv, Alive
  <2> QED BY <2>1, <2>2 DEF IntInv, PanicInv, Read, Alive
<1>4. ASSUME CInv, IntInv, PanicInv, ReadEnv PROVE IntInv' /\ PanicInv'
  <2>1. UNCHANGED input /\ phase = "env" /\ phase' \in {"fatal", "parsed"} /\ input \in Inputs
    BY <1>4 DEF ReadEnv, CInv, GivenInv
  <2>2. CASE phase' = "parsed"
    <3>1. /\ cfg' = [o \in DOMAIN cfg |-> IF o \in InEnv THEN input.env[o] ELSE cfg[o]]
          /\ \A o \in InEnv : Parses(Options[o].type, input.env[o])
      BY <1>4, <2>2 DEF ReadEnv
    <3>2. DOMAIN cfg = DOMAIN Options
      BY <1>4, <2>1 DEF CInv, ValueInv, Read
    <3>3. ASSUME NEW o \in DOMAIN Options, Options[o].type = "int"
          PROVE  cfg'[o][2] \in Int /\ (HasField(Fields, o) => InRange(o))
      <4>1. cfg[o][2] \in Int /\ (HasField(Fields, o) => InRange(o))
        BY <1>4, <2>1, <3>3 DEF IntInv, Read
      <4>2. o \in InEnv => IsText(input.env[o])
        BY <2>1, InputsAssumption DEF InEnv
      <4>3. o \in InEnv => input.env[o][2] \in Int
        BY <3>1, <3>3, <4>2, ParsedIsNumber
      <4>4. cfg'[o] = IF o \in InEnv THEN input.env[o] ELSE cfg[o]
        BY <3>1, <3>2
      <4> QED BY <4>1, <4>3, <4>4
    <3>4. \A o : HasField(Fields, o)' <=> HasField(Fields, o)
      BY <2>1, Unmoved DEF HasField
    <3> QED BY <2>1, <2>2, <3>3, <3>4, Unmoved DEF IntInv, PanicInv, Alive
  <2> QED BY <2>1, <2>2 DEF IntInv, PanicInv, Read, Alive
<1>5. ASSUME IntInv, UNCHANGED <<input, cfg>>, Read' => Read PROVE IntInv'
  <2>1. \A o : HasField(Fields, o)' <=> HasField(Fields, o)
    BY <1>5, Unmoved DEF HasField
  <2>2. UNCHANGED <<Options, Fields>>
    BY <1>5, Unmoved
  <2> QED BY <1>5, <2>1, <2>2 DEF IntInv
<1>6. ASSUME IntInv, PanicInv, UNCHANGED <<input, cfg>>,
             \/ phase' = phase
             \/ phase' = "fatal"
             \/ Read /\ phase' \in {"env", "stopped"}
             \/ Alive /\ Alive'
      PROVE  IntInv' /\ PanicInv'
  <2>1. Read' => Read
    BY <1>6 DEF Read, Alive
  <2>2. PanicInv'
    BY <1>6 DEF PanicInv, Alive, Intervals
  <2> QED BY <1>5, <1>6, <2>1, <2>2
<1>7. ASSUME IntInv, PanicInv, AgentStarts \/ SaverPanics PROVE IntInv' /\ PanicInv'
  <2>1. Read /\ UNCHANGED <<input, cfg>>
    BY <1>7 DEF AgentStarts, SaverPanics, Read, Alive
  <2>2. ASSUME AgentStarts PROVE PanicInv'
    BY <2>2 DEF PanicInv, AgentStarts, Alive, Intervals
  <2>3. ASSUME SaverPanics PROVE PanicInv'
    <3>1. Intervals' = {"StoreInterval"} /\ cfg'["StoreInterval"] = cfg.StoreInterval
      BY <1>7, <2>1, <2>3 DEF PanicInv, SaverPanics, Intervals
    <3>2. \E o \in Intervals' : Duration(cfg'[o][2]) <= 0
      BY <2>3, <3>1 DEF SaverPanics
    <3>3. phase' = "panic"
      BY <2>3 DEF SaverPanics
    <3> QED BY <3>2, <3>3 DEF PanicInv, Alive
  <2> QED BY <1>5, <1>7, <2>1, <2>2, <2>3
<1>8. ASSUME IntInv, PanicInv, ConnectDB \/ ConnectFails \/ WithoutDB \/ ChooseStorage
      PROVE  IntInv' /\ PanicInv'
  <2>1. /\ Read /\ UNCHANGED <<input, cfg>>
        /\ phase' \in {"storage", "build"} /\ input.program # "agent"
    BY <1>8 DEF ConnectDB, ConnectFails, WithoutDB, ChooseStorage, Read, PanicInv
  <2> QED BY <1>5, <1>8, <2>1 DEF PanicInv, Alive
<1>9. CInv /\ IntInv /\ PanicInv /\ [Next]_vars => IntInv' /\ PanicInv'
  <2> SUFFICES ASSUME CInv, IntInv, PanicInv, [Next]_vars PROVE IntInv' /\ PanicInv'
    OBVIOUS
  <2>1. CASE FlagsDone \/ AgentBuildFails \/ Exit
    BY <1>6, <2>1 DEF FlagsDone, AgentBuildFails, Exit, Read
  <2>2. CASE PeriodicSave \/ SaveOnUpdate \/ SaveEnds \/ HTTPListen
    BY <1>6, <2>2 DEF PeriodicSave, SaveOnUpdate, SaveEnds, HTTPListen, configVars
  <2>3. CASE Build \/ GRPCListen \/ Serve \/ Stop \/ Close \/ CloseReturns
    BY <1>6, <2>3 DEF Build, GRPCListen, Serve, Stop, Close, CloseReturns, Alive
  <2>4. CASE UNCHANGED vars
    BY <1>6, <2>4 DEF vars, configVars
  <2> QED BY <1>2, <1>3, <1>4, <1>7, <1>8, <2>1, <2>2, <2>3, <2>4 DEF Next, ConfigNext, Terminated
<1> QED BY <1>1, <1>9, CInvHolds, PTL DEF Spec

(* An interval that fits where it is written is a positive duration when it *)
(* is made a ticker of, unless the file gives less than a second.           *)
LEMMA MeantIsPositive ==
    ASSUME CInv, IntInv, Parsed, NEW o \in DOMAIN Options, Options[o].type = "int",
           MeantPositive(o)
    PROVE  Duration(cfg[o][2]) > 0
<1>1. Read
  BY DEF Parsed, Read
<1>2. ASSUME o \in InEnv PROVE Fits(cfg[o][2])
  BY <1>1, <1>2 DEF CInv, ValueInv, MeantPositive, FromEnv
<1>3. ASSUME o \notin InEnv, NEW g \in given, Wins(g, o), cfg[o] = g[3]
      PROVE  Fits(cfg[o][2])
  <2>1. FlagsFor(o) # {} /\ LastFlag(o) = g[3]
    BY <1>3, LastFlagWins DEF CInv
  <2> QED BY <1>3, <2>1 DEF MeantPositive, FromEnv
<1>4. ASSUME o \notin InEnv, NoFlag(o), cfg[o] = Base[o]
      PROVE  Fits(cfg[o][2])
  <2>1. FlagsFor(o) = {}
    BY <1>4 DEF NoFlag, FlagsFor
  <2>2. CASE HasField(Fields, o)
    <3>1. /\ Fields[o][2] \in Int /\ Fields[o][2] >= 1000
          /\ ParsesDuration(Fields[o])
      BY <1>1, <1>4, <2>1, <2>2 DEF IntInv, MeantPositive, FromEnv
    <3>2. cfg[o] = Num(Seconds(Fields[o][2]))
      BY <1>4, <2>2 DEF Base, FromFile
    <3> QED BY <3>1, <3>2, FileFits DEF Num
  <2>3. CASE ~HasField(Fields, o)
    BY <1>4, <2>3, DefaultsFit DEF Base
  <2> QED BY <2>2, <2>3
<1>5. Fits(cfg[o][2]) /\ cfg[o][2] \in Int
  BY <1>1, <1>2, <1>3, <1>4 DEF CInv, ValueInv, IntInv
<1> QED BY <1>5, FitsIsPositive

(* The tickers of the agent and of the periodic saver only panic for an     *)
(* interval that was written as zero or less, as less than a second in the  *)
(* file, or as more seconds than a time.Duration has.                       *)
THEOREM PanicsAreMeant == Spec => []PanicIsMeant
<1>1. ASSUME CInv, IntInv, PanicInv, phase = "panic"
      PROVE  \E o \in Intervals : ~MeantPositive(o)
  <2>1. Parsed /\ Read
    BY <1>1 DEF Parsed, Read
  <2>2. PICK o \in Intervals : Duration(cfg[o][2]) <= 0
    BY <1>1 DEF PanicInv
  <2>3. o \in DOMAIN Options /\ Options[o].type = "int"
    BY DEF Intervals, Options, OptionsOf, AgentOptions, ServerOptions, Option
  <2>4. cfg[o][2] \in Int
    BY <1>1, <2>1, <2>3 DEF IntInv
  <2>5. Duration(cfg[o][2]) \in Int
    BY <2>4, DurationAssumption DEF Duration, Wrap
  <2> QED BY <1>1, <2>1, <2>2, <2>3, <2>5, MeantIsPositive
<1>2. CInv /\ IntInv /\ PanicInv => PanicIsMeant
  BY <1>1 DEF PanicIsMeant
<1> QED BY <1>2, CInvHolds, IntHolds, PTL

-----------------------------------------------------------------------------
(* Before the storage is chosen nothing is written.  A server with a file   *)
(* that was to be restored, and could be, has the stored metrics in memory, *)
(* so that every save that is not cut off writes them back.                 *)
Early == phase \in {"file", "flags", "env", "parsed", "storage"}

StorageInv ==
    /\ Early => storage # "file"
    /\ phase = "closing" => storage = "file"
    /\ storage # "file" => saving = "nobody" /\ (stored = TRUE => fileData = "data")
    /\ storage = "file" /\ cfg.Restore = Bool(TRUE) /\ stored = TRUE =>
          loaded = TRUE \/ loadFailed = TRUE
    /\ stored = TRUE /\ fileData # "data" =>
          loaded # TRUE \/ writeFailed = TRUE \/ saving # "nobody"

(* Whoever saves keeps it, as only a server with a file saves.              *)
LEMMA SavesKeepIt ==
    ASSUME NEW who, StorageInv, ~Early, ~Early', UNCHANGED cfg,
           who # "nobody", storage = "file" \/ saving = who,
           SaveOpen(who) \/ SaveWrite(who)
    PROVE  StorageInv'
<1>1. storage = "file" /\ UNCHANGED <<storage, loaded, loadFailed, stored>>
  BY DEF StorageInv, SaveOpen, SaveWrite
<1>2. CASE SaveOpen(who)
  BY <1>1, <1>2 DEF StorageInv, SaveOpen
<1>3. CASE SaveWrite(who)
  <2>1. loaded = TRUE => (IF loaded THEN "data" ELSE "fresh") = "data"
    BY Zenon
  <2>2. loaded = TRUE => fileData' = "data" \/ (writeFailed' = TRUE /\ UNCHANGED fileData)
    BY <1>3, <2>1 DEF SaveWrite
  <2> QED BY <1>1, <1>3, <2>2 DEF StorageInv, SaveWrite
<1> QED BY <1>2, <1>3

(* The invariant about the storage holds throughout the start.              *)
LEMMA StorageHolds == Spec => []StorageInv
<1>1. Init => StorageInv
  <2> SUFFICES ASSUME Init PROVE StorageInv
    OBVIOUS
  <2>1. stored = TRUE => fileData = "data"
    BY Zenon DEF Init
  <2> QED BY <2>1 DEF Init, ConfigInit, StorageInv
<1>2. StorageInv /\ [Next]_vars => StorageInv'
  <2> SUFFICES ASSUME StorageInv, [Next]_vars PROVE StorageInv'
    OBVIOUS
  <2>1. CASE ConfigNext /\ UNCHANGED serverVars
    BY <2>1 DEF StorageInv, Early, ConfigNext, serverVars, fileVars, ReadFile, ParseFlag,
                FlagsDone, ReadEnv, AgentBuildFails, AgentStarts
  <2>2. CASE ConnectDB \/ ConnectFails \/ WithoutDB
    BY <2>2 DEF StorageInv, Early, ConnectDB, ConnectFails, WithoutDB, serverVars, fileVars
  <2>3. CASE ChooseStorage
    BY <2>3 DEF StorageInv, Early, ChooseStorage, fileVars
  <2>4. CASE PeriodicSave \/ SaveOnUpdate \/ SaveEnds
    <3>1. ~Early /\ ~Early' /\ UNCHANGED cfg
      BY <2>4 DEF PeriodicSave, SaveOnUpdate, SaveEnds, Alive, Early, configVars
    <3>2. \E who \in {"saver", "handler"} :
              /\ storage = "file" \/ saving = who
              /\ SaveOpen(who) \/ SaveWrite(who)
      BY <2>4 DEF PeriodicSave, SaveOnUpdate, SaveEnds, SaveWrite
    <3> QED BY <3>1, <3>2, SavesKeepIt
  <2>5. CASE Close \/ CloseReturns
    <3>1. ~Early /\ ~Early' /\ UNCHANGED cfg /\ phase' # "closing"
      BY <2>5 DEF Close, CloseReturns, Early
    <3>2. CASE UNCHANGED serverVars
      BY <3>1, <3>2 DEF StorageInv, serverVars, fileVars
    <3>3. CASE SaveOpen("main") /\ storage = "file"
      BY <3>1, <3>3, SavesKeepIt
    <3>4. CASE SaveWrite("main")
      BY <3>1, <3>4, SavesKeepIt DEF SaveWrite
    <3> QED BY <2>5, <3>2, <3>3, <3>4 DEF StorageInv, Close, CloseReturns
  <2>6. CASE Build \/ HTTPListen \/ GRPCListen \/ Serve \/ Stop \/ Exit \/ SaverPanics
    BY <2>6 DEF StorageInv, Early, Build, HTTPListen, GRPCListen, Serve, Stop, Exit,
                SaverPanics, Alive, serverVars, fileVars, configVars
  <2>7. CASE UNCHANGED vars
    BY <2>7 DEF StorageInv, Early, vars, configVars, serverVars, fileVars
  <2> QED BY <2>1, <2>2, <2>3, <2>4, <2>5, <2>6, <2>7 DEF Next, Terminated
<1> QED BY <1>1, <1>2, PTL DEF Spec

(* In every state of a start of the server, in whatever order the saves and *)
(* the failing steps come and wherever a save is cut off, the stored        *)
(* metrics are in the file, unless it was told not to restore them, could   *)
(* not read them, could not write, or is in the middle of a save.           *)
THEOREM FailedStartIsHarmless == Spec => []FailedStartKeepsFile
<1>1. StorageInv => FailedStartKeepsFile
  BY DEF StorageInv, FailedStartKeepsFile
<1> QED BY <1>1, StorageHolds, PTL
=============================================================================
