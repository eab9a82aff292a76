---- MODULE MCStartup ----
(* Command lines of up to three arguments for both programs, with and       *)
(* without CONFIG, a variable in the environment and a file at the path.    *)
(* Three nanoseconds make a second and an int64 has 2048 values: 400        *)
(* seconds are a negative duration, 700 a short one, 2000 not an int.       *)
EXTENDS Startup, TLC

Flag(n, name) == [dash |-> n, name |-> name, val |-> None]
FlagIs(n, name, v) == [dash |-> n, name |-> name, val |-> v]
Word(v) == [dash |-> 0, name |-> "", val |-> v]

Path == Str("path")
Other == Str("other")

CommonArgs == {Flag(1, "c"), Flag(2, "c"), Flag(2, "config"), FlagIs(1, "config", Path),
               Flag(1, "k"), Flag(1, "r"), Word(Path), Word(Num(3))}
AgentArgs == CommonArgs \cup {FlagIs(1, "p", Num(0))}
ServerArgs == CommonArgs \cup {FlagIs(1, "r", Bool(FALSE)), FlagIs(1, "i", Num(0))}

UpTo(S, n) == UNION {[1..k -> S] : k \in 0..n}

FileWith(f) == [ok |-> TRUE, fields |-> f]
AgentFiles ==
    {FileWith([PollInterval |-> <<"ms", n>>]) : n \in {500, 2500, 345000}}
    \cup {FileWith([ReportInterval |-> Str("soon")])}
ServerFiles ==
    {FileWith([Restore |-> Bool(FALSE), DatabaseDSN |-> Str("dsn")]),
     FileWith([StoreInterval |-> <<"ms", 999>>, FileStoragePath |-> Empty]),
     [ok |-> FALSE, fields |-> <<>>]}

AgentEnvs == {<<>>, [ReportInterval |-> Num(7), Key |-> Empty, CryptoKey |-> Str("pem")],
              [PollInterval |-> Num(-1)], [PollInterval |-> Num(400)],
              [PollInterval |-> Num(700)], [ReportInterval |-> Num(2000)], [RateLimit |-> Num(0)], [RateLimit |-> Str("many")]}
ServerEnvs == {<<>>, [Restore |-> Bool(TRUE), StoreInterval |-> Num(-1)],
               [GRPCAddr |-> Str("addr"), AuditFile |-> Str("log"), Restore |-> Bool(FALSE)],
               [Restore |-> Str("no")], [StoreInterval |-> Num(400)]}

\* Long command lines in a plain environment, short ones in every environment.
InputsOf(program, args, files, envs) ==
    {[program |-> program, args |-> a, CONFIG |-> c, env |-> e,
      files |-> (Path :> f) @@ (Other :> FileWith(<<>>))] :
        <<a, c, e, f>> \in (UpTo(args, 3) \X {Empty} \X {<<>>} \X files)
                      \cup (UpTo(args, 2) \X {Empty, Other} \X envs \X files)}

MCInputs == InputsOf("agent", AgentArgs, AgentFiles, AgentEnvs)
            \cup InputsOf("server", ServerArgs, ServerFiles, ServerEnvs)
====
