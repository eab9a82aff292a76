------------------------------- MODULE Config -------------------------------
(***************************************************************************)
(* How the agent and the server get their configuration: extractConfigPath *)
(* over the raw arguments, the JSON file as a source of defaults, the      *)
(* standard flag package over the same arguments, the environment on top.  *)
(*                                                                         *)
(* A text is a pair of its kind and its content: <<"num", n>> for a        *)
(* decimal number, <<"ms", n>> for a duration of n milliseconds,           *)
(* <<"bool", b>> for true or false and <<"str", s>> for any other text.    *)
(* An argument is a record: dash = 0 is a plain word with its text in val, *)
(* otherwise the number of dashes of a flag, whose val is what follows     *)
(* "=", or None.                                                           *)
(***************************************************************************)
EXTENDS Integers, Sequences, FiniteSets, FiniteSetsExt

CONSTANTS
    None,
    Inputs, \* records of program, args, CONFIG, env and files
    Second, \* time.Second: the nanoseconds in a second, 10^9
    Half    \* half the values of int64, 2^63

\* Every interval that is built in fits a time.Duration.
ASSUME DurationAssumption == Second \in Nat \ {0} /\ Half \in Nat /\ 300 * Second < Half

\* A text that is a number or a duration has a number in it.
IsText(text) == text[1] \in {"num", "ms"} => text[2] \in Int

\* os.Args and the environment consist of texts; a word is one.
ASSUME InputsAssumption ==
    \A i \in Inputs :
        /\ Len(i.args) \in Nat /\ DOMAIN i.args = 1..Len(i.args)
        /\ \A k \in DOMAIN i.args :
              IF i.args[k].val = None THEN i.args[k].dash # 0 ELSE IsText(i.args[k].val)
        /\ \A o \in DOMAIN i.env : IsText(i.env[o])
        /\ \A path \in DOMAIN i.files : \A o \in DOMAIN i.files[path].fields :
              IsText(i.files[path].fields[o])

VARIABLES
    input,  \* the command line, the environment and the files
    phase,  \* "file", "flags", "env", "parsed" or how the process ended
    pos,    \* the next argument of fs.Parse
    given,  \* history: what the flags have set, "config" or an option, by position
    cfg     \* the configuration, an option's name to its text

configVars == <<input, phase, pos, given, cfg>>

Num(n) == <<"num", n>>
Str(s) == <<"str", s>>
Bool(b) == <<"bool", b>>
Empty == Str("")

-----------------------------------------------------------------------------
(* The options: flag, type, whether the file has a field, default.  The     *)
(* variable of the environment goes by the name of the option.              *)

Option(flag, type, inFile, default) ==
    [flag |-> flag, type |-> type, inFile |-> inFile, default |-> default]

AgentOptions ==
    [Addr           |-> Option("a", "string", TRUE, Str("localhost:8080")),
     ReportInterval |-> Option("r", "int", TRUE, Num(10)),
     PollInterval   |-> Option("p", "int", TRUE, Num(2)),
     Key            |-> Option("k", "string", FALSE, Empty),
     RateLimit      |-> Option("l", "int", FALSE, Num(1)),
     CryptoKey      |-> Option("crypto-key", "string", TRUE, Empty),
     GRPCAddr       |-> Option("grpc-address", "string", TRUE, Empty)]

ServerOptions ==
    [Addr            |-> Option("a", "string", TRUE, Str("localhost:8080")),
     StoreInterval   |-> Option("i", "int", TRUE, Num(300)),
     FileStoragePath |-> Option("f", "string", TRUE, Str("metrics-db.json")),
     Restore         |-> Option("r", "bool", TRUE, Bool(TRUE)),
     DatabaseDSN     |-> Option("d", "string", TRUE, Empty),
     Key             |-> Option("k", "string", FALSE, Empty),
     AuditFile       |-> Option("audit-file", "string", FALSE, Empty),
     AuditURL        |-> Option("audit-url", "string", FALSE, Empty),
     CryptoKey       |-> Option("crypto-key", "string", TRUE, Empty),
     TrustedSubnet   |-> Option("t", "string", TRUE, Empty),
     GRPCAddr        |-> Option("grpc-address", "string", TRUE, Empty)]

OptionsOf(program) == IF program = "agent" THEN AgentOptions ELSE ServerOptions
Options == OptionsOf(input.program)

\* An int and a time.Duration have 64 bits.
Int64 == (-Half) .. (Half - 1)
Wrap(n) == ((n + Half) % (2 * Half)) - Half

\* time.Duration(n) * time.Second
Duration(n) == Wrap(n * Second)

\* Atoi and ParseBool: does a text parse as a value of this type?
Parses(type, text) ==
    CASE type = "int" -> text[1] = "num" /\ text[2] \in Int64
      [] type = "bool" -> text[1] = "bool"
      [] OTHER -> TRUE

\* ParseDuration: a duration, of not more nanoseconds than an int64 has.
ParsesDuration(text) ==
    /\ text[1] = "ms"
    /\ text[2] * Second <= 1000 * (Half - 1)
    /\ -(text[2] * Second) <= 1000 * Half

\* MUTANT of Seconds: the duration is taken in minutes.
SecondsAsMinutes(ms) == ms \div 60000

\* int(d.Seconds()) truncates towards zero.
Seconds(ms) == IF ms >= 0 THEN ms \div 1000 ELSE -((-ms) \div 1000)

-----------------------------------------------------------------------------
(* extractConfigPath.                                                       *)

\* The text of an argument that stands where a value is expected.
Text(arg) == IF arg.dash = 0 THEN arg.val ELSE <<"flag", arg>>

\* The spellings it knows: -c, -config and --config, not --c.
SpellsConfig(arg) ==
    \/ arg.dash = 1 /\ arg.name \in {"c", "config"}
    \/ arg.dash = 2 /\ arg.name = "config"

\* MUTANT of extractConfigPath: only the form with "=" is recognised.
extractConfigPathEqualsOnly(args, CONFIG) ==
    LET hits == {i \in DOMAIN args : SpellsConfig(args[i]) /\ args[i].val # None}
    IN  IF CONFIG # Empty THEN CONFIG
        ELSE IF hits = {} THEN Empty ELSE args[Min(hits)].val

\* CONFIG if it is not empty, otherwise the first argument that looks like
\* the flag, whatever place it has in the eyes of the flag package.
extractConfigPath(args, CONFIG) ==
    LET hits == {i \in DOMAIN args : SpellsConfig(args[i]) /\
                    (args[i].val # None \/ i < Len(args))}
        first == Min(hits)
    IN  IF CONFIG # Empty THEN CONFIG
        ELSE IF hits = {} THEN Empty
        ELSE IF args[first].val # None THEN args[first].val ELSE Text(args[first + 1])

-----------------------------------------------------------------------------
ConfigInit ==
    /\ input \in Inputs
    /\ phase = "file"
    /\ pos = 1
    /\ given = {}
    /\ cfg = <<>>

\* The fields of the file, or "error" when it cannot be read or parsed.
FileFields ==
    LET path == extractConfigPath(input.args, input.CONFIG)
    IN  IF path = Empty THEN [ok |-> TRUE, fields |-> <<>>]
        ELSE IF path \in DOMAIN input.files THEN input.files[path]
        ELSE [ok |-> FALSE, fields |-> <<>>]

HasField(fields, o) == Options[o].inFile /\ o \in DOMAIN fields

\* A field of the file as a default: intervals are durations there.
FromFile(o, text) == IF Options[o].type = "int" THEN Num(Seconds(text[2])) ELSE text

\* The file gives the defaults of the flags.  Fails without a file at the
\* path, without valid JSON in it, or with an interval that is no duration.
ReadFile ==
    LET f == FileFields
        bad == ~f.ok \/ \E o \in DOMAIN Options :
                   HasField(f.fields, o) /\ Options[o].type = "int" /\ ~ParsesDuration(f.fields[o])
    IN  /\ phase = "file"
        /\ IF bad
           THEN phase' = "fatal" /\ UNCHANGED cfg
           ELSE /\ phase' = "flags"
                /\ cfg' = [o \in DOMAIN Options |->
                              IF HasField(f.fields, o) THEN FromFile(o, f.fields[o])
                              ELSE Options[o].default]
        /\ UNCHANGED <<input, pos, given>>

\* The options a flag sets: -c and -config only set a variable nobody reads.
FlagOptions(name) == {o \in DOMAIN Options : Options[o].flag = name}
IsBool(name) == \E o \in FlagOptions(name) : Options[o].type = "bool"

AtFlag == pos <= Len(input.args) /\ input.args[pos].dash # 0

\* One round of fs.Parse.  It stops at the first word, ends the process on a
\* flag it does not know, a value that is missing or one that does not parse,
\* and takes the next argument, whatever it is, as the value of a flag
\* without "=", unless the flag is a bool.
ParseFlag ==
    LET arg  == input.args[pos]
        alone == arg.val # None \/ IsBool(arg.name)
        text == IF arg.val # None THEN arg.val
                ELSE IF IsBool(arg.name) THEN Bool(TRUE) ELSE Text(input.args[pos + 1])
        opts == FlagOptions(arg.name)
        bad  == \/ opts = {} /\ arg.name \notin {"c", "config"}
                \/ ~alone /\ pos = Len(input.args)
                \/ \E o \in opts : ~Parses(Options[o].type, text)
    IN  /\ phase = "flags"
        /\ AtFlag
        /\ IF bad
           THEN phase' = "fatal" /\ UNCHANGED <<pos, given, cfg>>
           ELSE /\ pos' = pos + (IF alone THEN 1 ELSE 2)
                /\ cfg' = [o \in DOMAIN cfg |-> IF o \in opts THEN text ELSE cfg[o]]
                /\ given' = given \cup {<<o, pos, text>> :
                                          o \in IF opts = {} THEN {"config"} ELSE opts}
                /\ UNCHANGED phase
        /\ UNCHANGED input

FlagsDone ==
    /\ phase = "flags"
    /\ ~AtFlag
    /\ phase' = "env"
    /\ UNCHANGED <<input, pos, given, cfg>>

\* LookupEnv for every option: a variable that is set but empty counts.
InEnv == DOMAIN Options \cap DOMAIN input.env

\* MUTANT of ReadEnv: the variables only fill in what no flag has set.
ReadEnvAsDefault ==
    LET set == {o \in InEnv : ~\E g \in given : g[1] = o}
    IN  /\ phase = "env"
        /\ IF \E o \in set : ~Parses(Options[o].type, input.env[o])
           THEN phase' = "fatal" /\ UNCHANGED cfg
           ELSE /\ phase' = "parsed"
                /\ cfg' = [o \in DOMAIN cfg |-> IF o \in set THEN input.env[o] ELSE cfg[o]]
        /\ UNCHANGED <<input, pos, given>>

\* The environment wins; a number or bool that does not parse is fatal.
ReadEnv ==
    /\ phase = "env"
    /\ IF \E o \in InEnv : ~Parses(Options[o].type, input.env[o])
       THEN phase' = "fatal" /\ UNCHANGED cfg
       ELSE /\ phase' = "parsed"
            /\ cfg' = [o \in DOMAIN cfg |-> IF o \in InEnv THEN input.env[o] ELSE cfg[o]]
    /\ UNCHANGED <<input, pos, given>>

Set(o) == cfg[o] # Empty

\* The public key or the address of the gRPC server is of no use.
AgentBuildFails ==
    /\ input.program = "agent"
    /\ phase = "parsed"
    /\ Set("CryptoKey") \/ Set("GRPCAddr")
    /\ phase' = "fatal"
    /\ UNCHANGED <<input, pos, given, cfg>>

\* The agent's main: NewWithSender ends the process for a rate limit that is
\* not positive, and time.NewTicker panics for such a duration, which is also
\* what some intervals of more than 292 years become.
AgentStarts ==
    /\ input.program = "agent"
    /\ phase = "parsed"
    /\ phase' = IF cfg.RateLimit[2] <= 0 THEN "fatal"
                ELSE IF \E o \in {"PollInterval", "ReportInterval"} : Duration(cfg[o][2]) <= 0
                     THEN "panic"
                ELSE "running"
    /\ UNCHANGED <<input, pos, given, cfg>>

ConfigNext ==
    ReadFile \/ ParseFlag \/ FlagsDone \/ ReadEnv \/ AgentBuildFails \/ AgentStarts
-----------------------------------------------------------------------------
Parsed == phase \notin {"file", "flags", "env", "fatal"}

\* The fields of the file that has been read.
Fields == FileFields.fields

\* Where the value of an option comes from.
FromEnv(o) == o \in InEnv
FlagsFor(o) == {g \in given : g[1] = o}
LastFlag(o) == (CHOOSE g \in FlagsFor(o) : \A h \in FlagsFor(o) : h[2] <= g[2])[3]

(* "env > flag > config file > hardcoded default": for every option of both *)
(* programs, whatever else is on the command line.                          *)
PrecedenceHolds ==
    Parsed => \A o \in DOMAIN Options :
        cfg[o] = CASE FromEnv(o) -> input.env[o]
                   [] ~FromEnv(o) /\ FlagsFor(o) # {} -> LastFlag(o)
                   [] ~FromEnv(o) /\ FlagsFor(o) = {} /\ HasField(Fields, o) ->
                        FromFile(o, Fields[o])
                   [] OTHER -> Options[o].default

\* The flag for the file as the flag package sees it: the first one, unless
\* an argument before it (the value of another flag) is spelled like it or it
\* is spelled --c itself.
ConfigFlag ==
    {g \in FlagsFor("config") :
        /\ SpellsConfig(input.args[g[2]])
        /\ \A i \in 1..(g[2] - 1) : ~SpellsConfig(input.args[i])}

(* The file named by -c or -config is the file that is read, although it is *)
(* looked for before and apart from the parsing of the flags; what CONFIG   *)
(* names wins over any flag.                                                *)
ConfigFileHonoured ==
    LET path == extractConfigPath(input.args, input.CONFIG)
    IN  Parsed =>
        IF input.CONFIG # Empty THEN path = input.CONFIG
        ELSE /\ \A g \in ConfigFlag : path = g[3]
             /\ (\A i \in DOMAIN input.args : ~SpellsConfig(input.args[i])) => path = Empty

\* The interval that wins is one as it was written: positive, and short
\* enough to be counted in nanoseconds.
Fits(n) == n > 0 /\ n * Second < Half
MeantPositive(o) ==
    CASE FromEnv(o) -> Fits(input.env[o][2])
      [] ~FromEnv(o) /\ FlagsFor(o) # {} -> Fits(LastFlag(o)[2])
      [] ~FromEnv(o) /\ FlagsFor(o) = {} /\ HasField(Fields, o) -> Fields[o][2] >= 1000
      [] OTHER -> TRUE

\* The options that are made a ticker of.
Intervals == IF input.program = "agent" THEN {"PollInterval", "ReportInterval"} ELSE {"StoreInterval"}

(* A process only panics at its tickers, the agent's two and the one of the *)
(* server's periodic saver, for an interval that was meant to be none, for  *)
(* one of less than a second in the file, which int(d.Seconds()) makes 0,   *)
(* or for one of more seconds than fit a time.Duration, which wraps around. *)
PanicIsMeant == phase = "panic" => \E o \in Intervals : ~MeantPositive(o)
=============================================================================
