------------------------------- MODULE Startup -------------------------------
(***************************************************************************)
(* main (src/src/main.c) from its first line to the event loop, and from   *)
(* the end of the loop to its last line: the early options, the logger,    *)
(* the plugin (src/src/container.c), the options and their four sources,   *)
(* and the order in which all of it is destroyed.  Server takes over in    *)
(* between.                                                                *)
(*                                                                         *)
(* The command line and the environment are chosen at the start; plugins,  *)
(* directories and files when they are opened.  argp is external.          *)
(***************************************************************************)
EXTENDS ConfigYaml, Logger

CONSTANTS
    CommandLines,   \* sequences of [kind, name, text]
    Environments,   \* functions from names to variables
    Plugins,        \* [opens, abi, symbols, creates, declares, destroys]
    Directories,    \* sequences of files, what is no .yaml file being NULL
    Files,          \* documents
    Writable,       \* the texts that are paths of files one can write
    Levels,         \* the level each text is the name of
    Faulty          \* whether files may be unreadable and allocations fail

ASSUME StartupAssumption ==
    /\ \A line \in CommandLines : line \in Seq([kind : {"load", "log_output", "log_level",
                                                        "config", "positional"},
                                                name : Seq(STRING), text : STRING])
    /\ \A env \in Environments : \A name \in DOMAIN env :
            env[name] \in [text : STRING, list : BOOLEAN, tokens : Seq(STRING)]
    /\ \A p \in Plugins : /\ p.declares \in Seq(ToSet(p.declares))
                          /\ \A d \in ToSet(p.declares) : d.type \in ParamTypes
    /\ Files \subseteq Documents
    /\ \A dir \in Directories : dir \in Seq(Documents \cup {NULL})
    /\ \A text \in DOMAIN Levels : Levels[text] \in Int
    /\ NULL \notin STRING \cup Seq(STRING) \cup Documents
    \* the literals of the source, which the provers do not take for strings
    /\ NULL \notin {"stdout", "stderr", "text", "127.0.0.1"}
    /\ NULL \notin {[is |-> "string", value |-> "127.0.0.1"], [is |-> "int", value |-> 8080]}
    /\ Faulty \in BOOLEAN

VARIABLES
    pc,
    argv, environ,
    arguments,      \* struct RappArguments
    logger,
    plugin,         \* the shared object of the container, or NULL
    container,      \* "none", "made", "freed", or "kept" when it declines to go
    files,          \* what is left of the directory that is being scanned
    i, num,
    address, port,
    reason,         \* why main gave up
    read,           \* the documents that were read to the end
    opened          \* the paths of directories and files that were opened

given == <<argv, environ, arguments>>
made == <<logger, plugin, container>>
parserVars == <<doc, tokens, yaml>>
loopVars == <<files, i, num>>
listening == <<address, port>>
history == <<read, opened>>
vars == <<pc, given, made, conf, parserVars, loopVars, listening, reason, history>>

NoArguments == [container |-> FALSE, loglevel |-> LOG_INFO, logoutput |-> "stderr", stopped |-> FALSE]

Init ==
    /\ pc = "start"
    /\ argv \in CommandLines /\ environ \in Environments
    /\ arguments = NoArguments
    /\ logger = NoLogger /\ plugin = NULL /\ container = "none"
    /\ conf = NoConfig
    /\ doc = NULL /\ tokens = <<>> /\ yaml = IdleYaml
    /\ files = <<>> /\ i = 1 /\ num = 0
    /\ address = NULL /\ port = NULL
    /\ reason = "none"
    /\ read = <<>> /\ opened = [confd |-> <<>>, config |-> <<>>]

\* Mutant: the program goes on to its regular end.
Exit_regular(why) == pc' = "destroy_config" /\ reason' = why
Exit(why) == pc' = "exit" /\ reason' = why
Go(label) == pc' = label /\ UNCHANGED reason

-----------------------------------------------------------------------------
(* The early options, the logger and the container.                        *)

\* Mutant: the log level is taken for an option that is not known yet.
parse_early_opt_no_level(args, arg) ==
    IF args.stopped \/ arg.kind = "positional" THEN args
    ELSE CASE arg.kind = "load" -> [args EXCEPT !.container = TRUE]
           [] arg.kind = "log_output" ->
                IF arg.text = "-" THEN [args EXCEPT !.logoutput = "stdout"]
                ELSE IF arg.text \in Writable THEN [args EXCEPT !.logoutput = arg.text]
                ELSE [args EXCEPT !.logoutput = NULL, !.stopped = TRUE]
           [] OTHER -> [args EXCEPT !.stopped = TRUE]

\* parse_early_opt.  The options of the configuration are not declared yet:
\* argp, which is told to be silent, stops at the first of them.
parse_early_opt(args, arg) ==
    IF args.stopped \/ arg.kind = "positional" THEN args
    ELSE CASE arg.kind = "load" -> [args EXCEPT !.container = TRUE]
           [] arg.kind = "log_output" ->
                IF arg.text = "-" THEN [args EXCEPT !.logoutput = "stdout"]
                ELSE IF arg.text \in Writable THEN [args EXCEPT !.logoutput = arg.text]
                ELSE [args EXCEPT !.logoutput = NULL, !.stopped = TRUE]
           [] arg.kind = "log_level" ->
                IF arg.text \in DOMAIN Levels THEN [args EXCEPT !.loglevel = Levels[arg.text]] ELSE args
           [] OTHER -> [args EXCEPT !.stopped = TRUE]

\* config_parse_early_commandline, argument by argument.
ParseEarlyArgument ==
    /\ pc = "start" /\ i <= Len(argv)
    /\ arguments' = parse_early_opt(arguments, argv[i])
    /\ i' = i + 1
    /\ UNCHANGED <<pc, reason, argv, environ, made, conf, parserVars, files, num, listening, history>>

EarlyArgumentsDone ==
    /\ pc = "start" /\ i > Len(argv)
    /\ IF arguments.logoutput = NULL THEN Exit("log_output") ELSE Go("logger")
    /\ UNCHANGED <<given, made, conf, parserVars, loopVars, listening, history>>

LoggerNew ==
    /\ pc = "logger"
    /\ \/ logger' = logger_new_fp(arguments.loglevel) /\ Go("config")
       \/ Faulty /\ Exit("no_logger") /\ UNCHANGED logger
    /\ UNCHANGED <<given, plugin, container, conf, parserVars, loopVars, listening, history>>

ConfigNew ==
    /\ pc = "config"
    /\ \/ conf' = config_new /\ UNCHANGED logger
          /\ Go(IF arguments.container THEN "load" ELSE "declare")
       \/ Faulty /\ Exit("no_config") /\ logger' = NoLogger /\ UNCHANGED conf
    /\ UNCHANGED <<given, plugin, container, parserVars, loopVars, listening, history>>

Symbols == {"rapp_create", "rapp_serve", "rapp_destroy", "rapp_init"}

Loadable(p) == p.opens /\ p.abi = "same" /\ "rapp_create" \in p.symbols

\* container_new up to rapp_create of the plugin.
LoadContainer ==
    /\ pc = "load"
    /\ \E p \in Plugins :
        IF Loadable(p)
        THEN plugin' = p /\ i' = 1 /\ Go("create") /\ UNCHANGED <<logger, conf>>
        ELSE conf' = NoConfig /\ logger' = NoLogger /\ Exit("container") /\ UNCHANGED <<plugin, i>>
    /\ UNCHANGED <<given, container, parserVars, files, num, listening, history>>

\* rapp_create declares an option of the plugin.
PluginDeclares ==
    /\ pc = "create" /\ i <= Len(plugin.declares)
    /\ LET d     == plugin.declares[i]
           added == rapp_config_opt_add(conf, d.section, d.name, d.type)
       IN  conf' = IF d.default = NULL THEN added
                   ELSE rapp_config_opt_set_default_string(added, d.section, d.name, d.default)
    /\ i' = i + 1
    /\ UNCHANGED <<pc, reason, given, made, parserVars, files, num, listening, history>>

\* The rest of container_make.  The options stay declared when a symbol is
\* found missing, but main gives up then.
ContainerMade ==
    /\ pc = "create" /\ i > Len(plugin.declares)
    /\ IF plugin.creates /\ Symbols \subseteq plugin.symbols
       THEN container' = "made" /\ Go("declare") /\ UNCHANGED <<logger, conf>>
       ELSE conf' = NoConfig /\ logger' = NoLogger /\ Exit("container") /\ UNCHANGED container
    /\ UNCHANGED <<given, plugin, parserVars, loopVars, listening, history>>

Core == RAPP_CONFIG_SECTION

WithCoreOptions(c) ==
    LET Add(d, name, type) == rapp_config_opt_add(d, Core, <<name>>, type)
    IN  Add(Add(Add(Add(c, "address", "PARAM_STRING"), "port", "PARAM_INT"),
                "config", "PARAM_STRING"), "confd", "PARAM_STRING")

MaxPort == 65535

\* Mutant: the port has no range.
CoreSettings_no_range(c) ==
    LET default == rapp_config_opt_set_default_int(
                        rapp_config_opt_set_default_string(c, Core, <<"address">>, "127.0.0.1"),
                        Core, <<"port">>, 8080)
    IN  rapp_config_opt_set_multivalued(
            rapp_config_opt_set_multivalued(default, Core, <<"config">>, TRUE), Core, <<"confd">>, TRUE)

CoreSettings(c) ==
    LET ranged  == rapp_config_opt_set_range_int(c, Core, <<"port">>, 0, MaxPort)
        default == rapp_config_opt_set_default_int(
                        rapp_config_opt_set_default_string(ranged, Core, <<"address">>, "127.0.0.1"),
                        Core, <<"port">>, 8080)
    IN  rapp_config_opt_set_multivalued(
            rapp_config_opt_set_multivalued(default, Core, <<"config">>, TRUE), Core, <<"confd">>, TRUE)

DeclareOptions ==
    /\ pc = "declare"
    /\ conf' = CoreSettings(WithCoreOptions(conf))
    /\ i' = 1
    /\ Go("args")
    /\ UNCHANGED <<given, made, parserVars, files, num, listening, history>>

-----------------------------------------------------------------------------
(* The sources.                                                            *)

\* One argument of config_parse_commandline, by argp_parse.
ParseArgument ==
    /\ pc = "args" /\ i <= Len(argv)
    /\ LET arg == argv[i]
           opt == ArgpOption(conf, arg.name)
       IN  IF arg.kind \in {"load", "log_output", "log_level"}
           THEN UNCHANGED <<conf, pc, reason>>
           ELSE IF arg.kind = "positional" THEN Exit("argument") /\ UNCHANGED conf
           ELSE IF opt = 0 THEN Exit("argument") /\ UNCHANGED conf
           ELSE IF conf.options[opt].type = "PARAM_BOOL" THEN Exit("no_argument") /\ UNCHANGED conf
           ELSE IF ~ArgumentAccepted(conf.options[opt], arg.text) THEN Exit("argument") /\ UNCHANGED conf
           ELSE conf' = parse_commandline_opt(conf, opt, arg.text) /\ UNCHANGED <<pc, reason>>
    /\ i' = i + 1
    /\ UNCHANGED <<given, made, parserVars, files, num, listening, history>>

ArgumentsDone ==
    /\ pc = "args" /\ i > Len(argv)
    /\ i' = 1
    /\ Go("env")
    /\ UNCHANGED <<given, made, conf, parserVars, files, num, listening, history>>

getenv(name) == IF name \in DOMAIN environ THEN environ[name] ELSE NULL

\* config_read_env, option by option.
ReadEnv ==
    /\ pc = "env" /\ i <= Len(conf.options)
    /\ LET o   == conf.options[i]
           var == getenv(OuterName(o))
       IN  \/ EnvSkips(o, var) /\ i' = i + 1 /\ UNCHANGED <<conf, num, pc>>
           \/ /\ ~EnvSkips(o, var) /\ ~IsEnvList(o, var)
              /\ conf' = [conf EXCEPT !.options[i] = EnvText(o, var.text)]
              /\ i' = i + 1 /\ UNCHANGED <<num, pc>>
           \/ ~EnvSkips(o, var) /\ IsEnvList(o, var) /\ num' = 1 /\ pc' = "env_list" /\ UNCHANGED <<conf, i>>
    /\ UNCHANGED <<reason, given, made, parserVars, files, listening, history>>

\* add_value_from_env_list, token by token; what it makes of a token is
\* ignored, and the option is locked at its end.
EnvToken ==
    /\ pc = "env_list"
    /\ LET toks == getenv(OuterName(conf.options[i])).tokens
       IN  \/ /\ num <= Len(toks)
              /\ conf' = [conf EXCEPT !.options[i] = config_add_value_from_string(@, toks[num])]
              /\ num' = num + 1 /\ UNCHANGED <<pc, i>>
           \/ /\ num > Len(toks)
              /\ conf' = [conf EXCEPT !.options[i] = Locked(@)]
              /\ i' = i + 1 /\ pc' = "env" /\ UNCHANGED num
    /\ UNCHANGED <<reason, given, made, parserVars, files, listening, history>>

\* The number of directories is read once.
EnvDone ==
    /\ pc = "env" /\ i > Len(conf.options)
    /\ i' = 0 /\ num' = rapp_config_get_num_values(conf, Core, <<"confd">>)
    /\ Go("confd")
    /\ UNCHANGED <<given, made, conf, parserVars, files, listening, history>>

\* The path at place i of such an option.
Path(name) == rapp_config_get_nth(conf, Core, name, {"PARAM_STRING"}, i)

NextDirectory ==
    /\ pc = "confd" /\ i < num
    /\ i' = i + 1
    /\ \/ /\ Path(<<"confd">>) = NULL
          /\ Exit("stale_count") /\ UNCHANGED <<files, opened>>
       \/ /\ Path(<<"confd">>) # NULL
          /\ opened' = [opened EXCEPT !.confd = Append(@, Path(<<"confd">>))]
          /\ \/ \E d \in Directories : files' = d /\ Go("scan")
             \/ Faulty /\ Exit("unreadable") /\ UNCHANGED files
    /\ UNCHANGED <<given, made, conf, parserVars, num, listening, read>>

\* The number of files is read once, when all directories are done.
DirectoriesDone ==
    /\ pc = "confd" /\ i >= num
    /\ i' = 0 /\ num' = rapp_config_get_num_values(conf, Core, <<"config">>)
    /\ Go("configs")
    /\ UNCHANGED <<given, made, conf, parserVars, files, listening, history>>

\* config_scan_directory: the files in their order.
ScanEntry ==
    /\ pc = "scan" /\ yaml.mode = "idle"
    /\ IF files = <<>>
       THEN Go("confd") /\ UNCHANGED <<files, parserVars>>
       ELSE /\ files' = Tail(files)
            /\ \/ Head(files) = NULL /\ UNCHANGED <<pc, reason, parserVars>>
               \/ Head(files) # NULL /\ config_parse(Head(files)) /\ UNCHANGED <<pc, reason>>
               \/ Head(files) # NULL /\ Faulty /\ Exit("unreadable") /\ UNCHANGED parserVars
    /\ UNCHANGED <<given, made, conf, i, num, listening, history>>

NextFile ==
    /\ pc = "configs" /\ yaml.mode = "idle" /\ i < num
    /\ i' = i + 1
    /\ \/ /\ Path(<<"config">>) = NULL
          /\ Exit("stale_count") /\ UNCHANGED <<parserVars, opened>>
       \/ /\ Path(<<"config">>) # NULL
          /\ opened' = [opened EXCEPT !.config = Append(@, Path(<<"config">>))]
          /\ \/ \E d \in Files : config_parse(d) /\ UNCHANGED <<pc, reason>>
             \/ Faulty /\ Exit("unreadable") /\ UNCHANGED parserVars
    /\ UNCHANGED <<given, made, conf, files, num, listening, read>>

ParseStep ==
    /\ pc \in {"scan", "configs"}
    /\ config_parse_main
    /\ UNCHANGED <<pc, reason, given, made, loopVars, listening, history>>

\* config_parse returns to main or to config_scan_directory.
FileParsed ==
    /\ pc \in {"scan", "configs"}
    /\ \/ yaml.mode = "done" /\ read' = Append(read, doc) /\ UNCHANGED <<pc, reason>>
       \/ Rejected /\ Exit(IF yaml.mode = "failed" THEN "file" ELSE "option") /\ UNCHANGED read
    /\ yaml' = IdleYaml
    /\ UNCHANGED <<given, made, conf, doc, tokens, loopVars, listening, opened>>

FilesDone ==
    /\ pc = "configs" /\ yaml.mode = "idle" /\ i >= num
    /\ IF arguments.container THEN Go("init") ELSE Exit("no_container")
    /\ UNCHANGED <<given, made, conf, parserVars, loopVars, listening, history>>

-----------------------------------------------------------------------------
(* Use and end.                                                            *)

\* container_init, whose result nobody looks at, and what main reads.  NULL
\* is no address, and a port that was never written.
ContainerInit ==
    /\ pc = "init"
    /\ address' = rapp_config_get_nth(conf, Core, <<"address">>, {"PARAM_STRING"}, 0)
    /\ port' = rapp_config_get_nth(conf, Core, <<"port">>, {"PARAM_INT", "PARAM_BOOL"}, 0)
    /\ Go("serving")
    /\ UNCHANGED <<given, made, conf, parserVars, loopVars, history>>

\* event_loop_run has returned; container_destroy keeps a container whose
\* plugin declines to go.
ContainerDestroy ==
    /\ pc = "serving"
    /\ container' = IF plugin.destroys THEN "freed" ELSE "kept"
    /\ Go("destroy_config")
    /\ UNCHANGED <<given, logger, plugin, conf, parserVars, loopVars, listening, history>>

\* Mutant: the logger goes first.
ConfigDestroy_after_logger ==
    /\ pc = "destroy_config"
    /\ logger' = NoLogger
    /\ Go("destroy_logger")
    /\ UNCHANGED <<given, plugin, container, conf, parserVars, loopVars, listening, history>>

ConfigDestroy ==
    /\ pc = "destroy_config"
    /\ conf' = NoConfig
    /\ Go(IF DestroyIsSafe(conf) THEN "destroy_logger" ELSE "undefined")
    /\ UNCHANGED <<given, made, parserVars, loopVars, listening, history>>

LoggerDestroy ==
    /\ pc = "destroy_logger"
    /\ logger' = NoLogger
    /\ Go("ended")
    /\ UNCHANGED <<given, plugin, container, conf, parserVars, loopVars, listening, history>>

Stopped == pc \in {"exit", "ended", "undefined"} /\ UNCHANGED vars

Main ==
    \/ ParseEarlyArgument \/ EarlyArgumentsDone \/ LoggerNew \/ ConfigNew
    \/ LoadContainer \/ PluginDeclares \/ ContainerMade \/ DeclareOptions
    \/ ParseArgument \/ ArgumentsDone \/ ReadEnv \/ EnvToken \/ EnvDone
    \/ NextDirectory \/ DirectoriesDone \/ ScanEntry \/ NextFile
    \/ ParseStep \/ FileParsed \/ FilesDone
    \/ ContainerInit \/ ContainerDestroy \/ ConfigDestroy \/ LoggerDestroy

Next == Main \/ Stopped

Spec == Init /\ [][Next]_vars

\* main is scheduled: WF_vars(Main), written out but for the parser.  Outside
\* of it a step of Main changes something wherever main has not come to an end
\* (the absence of deadlock shows that there is one).
Parsing == yaml.mode \in {"init", "main", "skip", "pairs", "list"}
Halted == pc \in {"exit", "ended", "undefined"} \/ Parsing
Fairness == ([]<>Halted \/ []<><<Main>>_vars) /\ WF_<<conf, parserVars>>(ParseStep)

FairSpec == Spec /\ Fairness

-----------------------------------------------------------------------------
(* Properties.                                                             *)

Options == DOMAIN conf.options
Opt(o) == conf.options[o]

Reasons == {"none", "log_output", "no_logger", "no_config", "container", "argument", "no_argument",
            "stale_count", "unreadable", "file", "option", "no_container"}

\* The type invariant.
TypeOK ==
    /\ pc \in {"start", "logger", "config", "load", "create", "declare", "args", "env", "env_list", "confd", "scan",
               "configs", "init", "serving", "destroy_config", "destroy_logger", "exit", "ended",
               "undefined"}
    /\ container \in {"none", "made", "freed", "kept"}
    /\ i \in Nat /\ num \in Nat
    /\ reason \in Reasons /\ (reason = "none" <=> pc # "exit")
    /\ yaml.mode \in {"idle", "init", "main", "skip", "pairs", "list", "done", "failed", "unknown"}
    /\ yaml.mode # "idle" => pc \in {"scan", "configs"}
    /\ Configuration(conf)

\* Whatever the sources say and in whatever order, an option that takes one
\* value never has two, and every number is within the option's range.
ValuesValid == \A o \in Options : ValuesFit(Opt(o))

\* The configuration keeps what ConfigSources promises.
Phase ==
    CASE pc \in {"start", "logger", "config", "load", "create", "declare"} -> "declare"
      [] pc = "args" -> "line"
      [] pc \in {"env", "env_list"} -> "env"
      [] pc \in {"confd", "scan", "configs"} -> "files"
      [] pc \in {"init", "serving", "destroy_config"} -> "use"
      [] OTHER -> "end"
Values == [o \in Options |-> Opt(o).values]
Held == [o \in Options |-> Opt(o).no_override]
Sources == INSTANCE ConfigSources WITH phase <- Phase, values <- Values, held <- Held
KeepsPrecedence == Sources!Spec

\* What the strongest source says of an option, read off the command line,
\* the environment and the files: the reference for AsGiven.
Number(o, text) == IF Opt(o).type = "PARAM_INT" THEN AsLong[text] ELSE text

OnCommandLine(o) ==
    FlattenSeq([k \in DOMAIN argv |->
        IF argv[k].kind = "config" /\ ArgpOption(conf, argv[k].name) = o THEN <<argv[k].text>> ELSE <<>>])

InEnvironment(o) ==
    LET var   == getenv(OuterName(Opt(o)))
        texts == IF IsEnvList(Opt(o), var) THEN var.tokens ELSE <<var.text>>
    IN  IF var = NULL THEN <<>>
        ELSE FlattenSeq([k \in DOMAIN texts |-> IF Valid(Opt(o), texts[k]) THEN <<texts[k]>> ELSE <<>>])

InFiles(o) == LET texts == LastTexts(read, o) IN IF texts = NULL THEN <<>> ELSE texts

Strongest(o) ==
    LET all == IF OnCommandLine(o) # <<>> THEN OnCommandLine(o)
               ELSE IF InEnvironment(o) # <<>> THEN InEnvironment(o)
               ELSE InFiles(o)
        one == IF Opt(o).multivalued \/ all = <<>> THEN all ELSE <<Head(all)>>
    IN  [k \in DOMAIN one |-> Number(o, one[k])]

\* A variable with nothing but colons locks its option without a value.
EmptyList(o) ==
    LET var == getenv(OuterName(Opt(o)))
    IN  var # NULL /\ IsEnvList(Opt(o), var) /\ InEnvironment(o) = <<>>

\* When the server starts, every option that is not a boolean has exactly the
\* values its strongest source gave it, through every combination of repeated
\* arguments, lists, locks and files that override each other.
AsGiven ==
    pc = "serving" /\ (\A d \in ToSet(read) : Plain(d)) =>
        \A o \in Options :
            Opt(o).type # "PARAM_BOOL" /\ ~EmptyList(o) => Opt(o).values = Strongest(o)

\* A file is accepted exactly if every section of it that is known says only
\* what its options accept, as long as its unknown sections are plain blocks.
FileVerdict ==
    (yaml.mode = "done" \/ Rejected) /\ Plain(doc) => (yaml.mode = "done" <=> Faultless(doc))

\* The same of any unknown section, which yaml.c says is skipped.
UnknownSectionsSkipped == Rejected => ~Faultless(doc)

\* Whether a plugin has declared an option of the core again.
Redeclares == container # "none" /\ \E d \in ToSet(plugin.declares) : d.section = Core

\* The counts main reads once are those of the options: unless a file could
\* change core.confd or core.config, every path they hold was opened once, in
\* order, and no path is missing where main expects one.  A plugin that has
\* declared one of them in front of main may have made it a number.
PathsOpened ==
    /\ pc \in {"init", "serving"} =>
        \A name \in {"confd", "config"} :
            LET o == Opt(Find(conf, Core, <<name>>))
            IN  o.no_override => opened[name] = o.values
    /\ reason = "stale_count" /\ ~Redeclares => ~Opt(Find(conf, Core, <<"config">>)).no_override

\* The server gets an address and a port number, whatever was configured,
\* and the configuration can be destroyed, unless a plugin has declared
\* an option of the core in front of main.
Listens ==
    /\ pc = "serving" /\ ~Redeclares => address # NULL /\ port \in 0 .. MaxPort
    /\ pc = "undefined" => Redeclares

\* A --load is overlooked only behind an option of the configuration.
LoadSeen ==
    reason = "no_container" =>
        \A k \in DOMAIN argv : argv[k].kind = "load" =>
            \E j \in 1 .. k - 1 : argv[j].kind = "config"

\* Whatever log level was asked for, main gives up without a message only for
\* an argument a boolean did not get and an unknown option in a file (warnings
\* both), and for a path that is gone (no message at all).
Loudness ==
    [why \in Reasons |-> CASE why \in {"argument", "no_container", "unreadable"} -> LOG_CRITICAL
                           [] why \in {"no_config", "container", "file"} -> LOG_ERROR
                           [] why \in {"no_argument", "option"} -> LOG_WARNING
                           [] OTHER -> LOG_LAST]
RefusalIsTold ==
    reason \notin {"none", "log_output", "no_logger", "no_argument", "option", "stale_count"} =>
        Traced(logger_new_fp(arguments.loglevel), Loudness[reason])

\* The container is destroyed before the configuration, and that before the
\* logger they both write to; only a complete plugin is served.
Lifetimes ==
    /\ conf.live => logger.live
    /\ container = "made" => conf.live /\ plugin.abi = "same" /\ "rapp_init" \in plugin.symbols
    /\ pc = "serving" => container = "made"

\* main gets as far as the event loop or gives up, except while it skips a
\* section and there is no end of a block to come.
Skipping == yaml.mode = "skip" /\ tokens = <<>>
StartEnds == <>(pc \in {"serving", "exit"} \/ Skipping)
=============================================================================
