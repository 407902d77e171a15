---------------------------- MODULE StartupProofs ----------------------------
(***************************************************************************)
(* The invariants of Startup, and that it implements ConfigSources, for    *)
(* all command lines, environments, plugins, directories and files.        *)
(***************************************************************************)
EXTENDS Startup, ConfigProofs

\* What a source says is never NULL.
LEMMA RealTexts ==
    /\ \A text \in STRING : text # NULL
    /\ "stdout" # NULL /\ "stderr" # NULL /\ "127.0.0.1" # NULL /\ "text" # NULL
BY StartupAssumption

-----------------------------------------------------------------------------
(* The inductive invariant.                                                *)

Declaring == {"start", "logger", "config", "load", "create", "declare"}
Reading == {"args", "env", "env_list", "confd", "scan", "configs"}
Labels == Declaring \cup Reading \cup
          {"init", "serving", "destroy_config", "destroy_logger", "exit", "ended", "undefined"}
Modes == {"idle", "init", "main", "skip", "pairs", "list", "done", "failed", "unknown"}

\* The options: none has a value before the command line is read, and the two
\* main asks for the number of values of are there when it does.
ConfInv ==
    /\ Well(conf)
    /\ pc \in Declaring => Fresh(conf)
    /\ pc \in {"start", "logger", "config"} => conf = NoConfig
    /\ pc \in Reading => Has(conf, Core, <<"confd">>) /\ Has(conf, Core, <<"config">>)
    /\ pc = "env_list" /\ i \in DOMAIN conf.options => ~conf.options[i].no_override

\* Where main and the parser are.
Control ==
    /\ pc \in Labels /\ container \in {"none", "made", "freed", "kept"}
    /\ i \in Nat /\ num \in Nat
    /\ reason \in Reasons /\ (reason = "none" <=> pc # "exit")
    /\ yaml = [mode |-> yaml.mode, section |-> yaml.section, opt |-> yaml.opt]
    /\ yaml.mode \in Modes
    /\ yaml.mode # "idle" => pc \in {"scan", "configs"}
    /\ pc = "create" => plugin \in Plugins
    /\ pc \in {"create", "args"} => i # 0
    /\ pc = "env_list" => num # 0

\* What is there, and when.
Life ==
    /\ conf.live => logger.live
    /\ pc = "config" => logger.live
    /\ pc \in {"load", "create", "declare", "init", "serving", "destroy_config"} \cup Reading => conf.live
    /\ container = "made" => conf.live /\ plugin.abi = "same" /\ "rapp_init" \in plugin.symbols
    /\ pc \in Declaring \ {"declare"} => container = "none"
    /\ pc = "create" => Loadable(plugin)
    /\ pc \in {"declare"} \cup Reading /\ arguments.container => container = "made"
    /\ pc \in {"init", "serving"} => container = "made"
    /\ pc \in {"destroy_config", "destroy_logger", "ended", "undefined"} => container # "made"
    /\ pc \in {"destroy_logger", "ended"} => ~conf.live
    /\ reason = "no_container" => ~arguments.container

\* The early options that were looked at.
Parsed == IF pc = "start" THEN i - 1 ELSE Len(argv)
Named(k) == \E j \in 1 .. k : argv[j].kind = "config"

Early ==
    /\ argv \in CommandLines
    /\ arguments = [container |-> arguments.container, loglevel |-> arguments.loglevel,
                    logoutput |-> arguments.logoutput, stopped |-> arguments.stopped]
    /\ arguments.loglevel \in Int
    /\ pc = "start" => i \in 1 .. Len(argv) + 1
    /\ pc = "start" /\ arguments.logoutput = NULL => arguments.stopped
    /\ pc # "start" /\ arguments.logoutput = NULL => reason = "log_output"
    /\ arguments.logoutput # NULL =>
        /\ arguments.stopped => Named(Parsed)
        /\ ~arguments.container =>
            \A k \in 1 .. Parsed : argv[k].kind = "load" => Named(k - 1)

IInv == ConfInv /\ Control /\ Life /\ Early

\* config_new, and what config_destroy leaves.
LEMMA EmptyConfig ==
    /\ Well(NoConfig) /\ Fresh(NoConfig) /\ NoConfig.live = FALSE
    /\ Well(config_new) /\ Fresh(config_new) /\ config_new.live = TRUE
    /\ NoConfig.options = <<>> /\ config_new.options = <<>>
<1>1. <<>> \in Seq(ToSet(<<>>)) /\ DOMAIN <<>> = {}
  BY DEF ToSet
<1> QED
  BY <1>1 DEF Well, Fresh, Configuration, NoConfig, config_new

LEMMA InitIInv == Init => IInv
<1> SUFFICES ASSUME Init PROVE IInv
  OBVIOUS
<1> USE DEF Init
<1>1. ConfInv
  BY EmptyConfig DEF ConfInv, Declaring, Reading
<1>2. Control
  BY DEF Control, Labels, Declaring, Reasons, IdleYaml, Modes
<1>3. Life
  BY EmptyConfig DEF Life, Declaring, Reading
<1>4. Early
  <2>1. argv \in CommandLines /\ Len(argv) \in Nat
    <3>1. argv \in CommandLines
      OBVIOUS
    <3>2. argv \in Seq([kind : {"load", "log_output", "log_level", "config", "positional"},
                        name : Seq(STRING), text : STRING])
      BY <3>1, StartupAssumption
    <3> QED
      BY <3>1, <3>2, LenProperties
  <2>2. "stderr" # NULL
    BY RealTexts
  <2> QED
    BY <2>1, <2>2 DEF Early, NoArguments, Parsed, Named, LOG_INFO
<1> QED
  BY <1>1, <1>2, <1>3, <1>4 DEF IInv

-----------------------------------------------------------------------------
(* Steps and the options.                                                  *)

\* The names main declares are valid.
LEMMA CoreNames ==
    /\ validate_name(Core) /\ validate_name(<<"address">>) /\ validate_name(<<"port">>)
    /\ validate_name(<<"config">>) /\ validate_name(<<"confd">>)
BY DEF validate_name, Core, RAPP_CONFIG_SECTION, Last

CoreNamed == {"address", "port", "config", "confd"}

LEMMA CoreDeclared ==
    ASSUME NEW c, Well(c), Fresh(c)
    PROVE  LET new == CoreSettings(WithCoreOptions(c))
           IN  Grows(new, c) /\ \A name \in CoreNamed : Has(new, Core, <<name>>)
<1> DEFINE c1 == rapp_config_opt_add(c, Core, <<"address">>, "PARAM_STRING")
           c2 == rapp_config_opt_add(c1, Core, <<"port">>, "PARAM_INT")
           c3 == rapp_config_opt_add(c2, Core, <<"config">>, "PARAM_STRING")
           c4 == rapp_config_opt_add(c3, Core, <<"confd">>, "PARAM_STRING")
           c5 == rapp_config_opt_set_range_int(c4, Core, <<"port">>, 0, MaxPort)
           c6 == rapp_config_opt_set_default_string(c5, Core, <<"address">>, "127.0.0.1")
           c7 == rapp_config_opt_set_default_int(c6, Core, <<"port">>, 8080)
           c8 == rapp_config_opt_set_multivalued(c7, Core, <<"config">>, TRUE)
           c9 == rapp_config_opt_set_multivalued(c8, Core, <<"confd">>, TRUE)
<1>1. CoreSettings(WithCoreOptions(c)) = c9
  BY DEF CoreSettings, WithCoreOptions
<1>2. {"PARAM_STRING", "PARAM_INT"} \subseteq ParamTypes
  BY DEF ParamTypes
<1>3. Grows(c1, c) /\ Has(c1, Core, <<"address">>)
  BY <1>2, OptionAdded, CoreNames
<1> HIDE DEF c1
<1>4. Grows(c2, c1) /\ Has(c2, Core, <<"port">>)
  BY <1>2, <1>3, OptionAdded, CoreNames DEF Grows
<1> HIDE DEF c2
<1>5. Grows(c3, c2) /\ Has(c3, Core, <<"config">>)
  BY <1>2, <1>4, OptionAdded, CoreNames DEF Grows
<1> HIDE DEF c3
<1>6. Grows(c4, c3) /\ Has(c4, Core, <<"confd">>)
  BY <1>2, <1>5, OptionAdded, CoreNames DEF Grows
<1> HIDE DEF c4
<1>7. Grows(c5, c4)
  BY <1>6, RangeSet DEF Grows, MaxPort
<1> HIDE DEF c5
<1>8. Grows(c6, c5)
  BY <1>7, DefaultSet DEF Grows, rapp_config_opt_set_default_string
<1> HIDE DEF c6
<1>9. Grows(c7, c6)
  BY <1>8, DefaultSet DEF Grows, rapp_config_opt_set_default_int
<1> HIDE DEF c7
<1>10. Grows(c8, c7)
  BY <1>9, MultivaluedSet DEF Grows
<1> HIDE DEF c8
<1>11. Grows(c9, c8)
  BY <1>10, MultivaluedSet DEF Grows
<1> HIDE DEF c9
<1>12. Grows(c9, c4)
  BY <1>7, <1>8, <1>9, <1>10, <1>11, GrowsIsTransitive
<1>13. Grows(c9, c)
  BY <1>3, <1>4, <1>5, <1>6, <1>12, GrowsIsTransitive
<1>14. \A name \in CoreNamed : Has(c9, Core, <<name>>)
  BY <1>3, <1>4, <1>5, <1>6, <1>12 DEF Grows, CoreNamed
<1> QED
  BY <1>1, <1>13, <1>14

\* What rapp_create declares.
LEMMA PluginDeclared ==
    ASSUME ConfInv, Control, PluginDeclares
    PROVE  Grows(conf', conf)
<1> DEFINE d     == plugin.declares[i]
           added == rapp_config_opt_add(conf, d.section, d.name, d.type)
<1>1. Well(conf) /\ Fresh(conf) /\ pc = "create"
  BY DEF ConfInv, PluginDeclares, Declaring
<1>2. d.type \in ParamTypes
  <2>1. i \in 1 .. Len(plugin.declares) /\ plugin \in Plugins
    BY <1>1, StartupAssumption DEF Control, PluginDeclares
  <2>2. plugin.declares[i] \in ToSet(plugin.declares)
    BY <2>1, StartupAssumption DEF ToSet
  <2> QED
    BY <2>1, <2>2, StartupAssumption
<1>3. Grows(added, conf)
  BY <1>1, <1>2, OptionAdded
<1>4. conf' = added \/ conf' = SetDefault(added, d.section, d.name, [is |-> "string", value |-> d.default])
  BY DEF PluginDeclares, rapp_config_opt_set_default_string
<1> HIDE DEF added, d
<1>5. Grows(SetDefault(added, d.section, d.name, [is |-> "string", value |-> d.default]), added)
  BY <1>3, DefaultSet DEF Grows
<1> QED
  BY <1>3, <1>4, <1>5, GrowsIsTransitive

\* What the command line does to an option it names.
LineChanges(x, o) ==
    /\ Sound(x) /\ SameButValues(x, o) /\ Extends(x, o)
    /\ x.values # <<>> /\ x.no_override = TRUE

\* What the environment does to an option that is not locked.
EnvChanges(x, o) ==
    /\ Sound(x) /\ SameButValues(x, o) /\ Extends(x, o)
    /\ ~o.no_override

LEMMA ArgumentOption ==
    ASSUME NEW o, Sound(o), NEW text, ArgumentAccepted(o, text)
    PROVE  LineChanges(Locked(config_add_value_from_string(o, text)), o)
<1> DEFINE v == config_add_value_from_string(o, text)
<1>1. Valid(o, text)
  BY DEF ArgumentAccepted
<1>2. /\ Sound(v) /\ Extends(v, o) /\ SameButValues(v, o) /\ v.values # <<>>
  BY <1>1, ValueFromString
<1> HIDE DEF v
<1>3. /\ Sound(Locked(v)) /\ Locked(v).values = v.values
      /\ SameButValues(Locked(v), v) /\ Locked(v).no_override = TRUE
  BY <1>2, OptionLocked
<1> HIDE DEF LineChanges
<1>4. LineChanges(Locked(v), o)
  BY <1>2, <1>3 DEF LineChanges, SameButValues, Extends
<1> QED
  BY <1>4 DEF v

LEMMA TokenOption ==
    ASSUME NEW o, Sound(o), ~o.no_override, NEW text
    PROVE  /\ EnvChanges(config_add_value_from_string(o, text), o)
           /\ ~config_add_value_from_string(o, text).no_override
<1> DEFINE v == config_add_value_from_string(o, text)
<1>1. /\ Sound(v) /\ Extends(v, o) /\ SameButValues(v, o) /\ v.no_override = o.no_override
  BY ValueFromString
<1> QED
  BY <1>1 DEF EnvChanges

LEMMA LockedOption ==
    ASSUME NEW o, Sound(o), ~o.no_override
    PROVE  EnvChanges(Locked(o), o)
<1>1. /\ Sound(Locked(o)) /\ Locked(o).values = o.values /\ SameButValues(Locked(o), o)
  BY OptionLocked
<1>2. Len(o.values) \in Nat
  BY DEF Sound, Option
<1> QED
  BY <1>1, <1>2 DEF EnvChanges, Extends

LEMMA TextOption ==
    ASSUME NEW o, Sound(o), ~o.no_override, NEW text
    PROVE  EnvChanges(EnvText(o, text), o)
<1> DEFINE v == config_add_value_from_string(o, text)
<1>1. CASE Valid(o, text)
  <2>1. EnvText(o, text) = Locked(v)
    BY <1>1 DEF EnvText
  <2>2. EnvChanges(v, o) /\ ~v.no_override
    BY TokenOption
  <2> HIDE DEF v
  <2>3. EnvChanges(Locked(v), v) /\ Locked(v).values = v.values
    BY <2>2, LockedOption, OptionLocked DEF EnvChanges
  <2>4. EnvChanges(Locked(v), o)
    BY <2>2, <2>3 DEF EnvChanges, SameButValues, Extends
  <2> QED
    BY <2>1, <2>4
<1>2. CASE ~Valid(o, text)
  <2>1. Len(o.values) \in Nat
    BY DEF Sound, Option
  <2> QED
    BY <1>2, <2>1 DEF EnvText, EnvChanges, SameButValues, Extends
<1> QED
  BY <1>1, <1>2

LEMMA ArgumentChanges ==
    ASSUME Well(conf), ParseArgument
    PROVE  \/ UNCHANGED conf
           \/ \E o \in DOMAIN conf.options : \E x :
                LineChanges(x, conf.options[o]) /\ conf' = Put(conf, o, x)
<1> DEFINE o == ArgpOption(conf, argv[i].name)
           x == Locked(config_add_value_from_string(conf.options[o], argv[i].text))
<1>1. \/ UNCHANGED conf
      \/ ArgumentAccepted(conf.options[o], argv[i].text) /\ conf' = Put(conf, o, x)
  BY DEF ParseArgument, parse_commandline_opt, Exit, Put
<1>2. CASE o \notin DOMAIN conf.options
  BY <1>1, <1>2, PutOutside
<1>3. CASE o \in DOMAIN conf.options /\ ~UNCHANGED conf
  <2>1. Sound(conf.options[o])
    BY <1>3 DEF Well
  <2>2. LineChanges(x, conf.options[o])
    BY <1>1, <1>3, <2>1, ArgumentOption
  <2> QED
    BY <1>1, <1>3, <2>2
<1> QED
  BY <1>2, <1>3

LEMMA EnvironmentChanges ==
    ASSUME ConfInv, ReadEnv \/ EnvToken
    PROVE  \/ UNCHANGED conf
           \/ \E x : i \in DOMAIN conf.options /\ EnvChanges(x, conf.options[i]) /\ conf' = Put(conf, i, x)
<1>1. Well(conf) /\ (i \in DOMAIN conf.options => Sound(conf.options[i]))
  BY DEF ConfInv, Well
<1>2. CASE i \notin DOMAIN conf.options
  <2>1. UNCHANGED conf \/ \E x : conf' = Put(conf, i, x)
    BY DEF ReadEnv, EnvToken, Put
  <2> QED
    BY <1>1, <1>2, <2>1, PutOutside
<1>3. CASE i \in DOMAIN conf.options /\ ReadEnv
  <2> DEFINE var == getenv(OuterName(conf.options[i]))
  <2>1. \/ UNCHANGED conf
        \/ ~EnvSkips(conf.options[i], var) /\ conf' = Put(conf, i, EnvText(conf.options[i], var.text))
    BY <1>3 DEF ReadEnv, Put
  <2>2. ~EnvSkips(conf.options[i], var) => EnvChanges(EnvText(conf.options[i], var.text), conf.options[i])
    BY <1>1, <1>3, TextOption DEF EnvSkips
  <2> QED
    BY <1>3, <2>1, <2>2
<1>4. CASE i \in DOMAIN conf.options /\ EnvToken
  <2>1. ~conf.options[i].no_override
    BY <1>4 DEF ConfInv, EnvToken
  <2>2. \/ \E text : conf' = Put(conf, i, config_add_value_from_string(conf.options[i], text))
        \/ conf' = Put(conf, i, Locked(conf.options[i]))
    BY <1>4 DEF EnvToken, Put
  <2> QED
    BY <1>1, <1>4, <2>1, <2>2, TokenOption, LockedOption
<1> QED
  BY <1>2, <1>3, <1>4

\* Any of these steps keeps the options sound and in place.
LEMMA SourceStep ==
    ASSUME ConfInv, ParseArgument \/ ReadEnv \/ EnvToken \/ ParseStep
    PROVE  /\ Well(conf') /\ conf'.live = conf.live
           /\ Kept(conf', conf)
           /\ \A section, name : Has(conf, section, name) => Has(conf', section, name)
<1> DEFINE Goal == Well(conf') /\ conf'.live = conf.live /\ Kept(conf', conf)
<1> SUFFICES Goal
  BY DEF Kept, SameButValues, Has
<1>1. Well(conf)
  BY DEF ConfInv
<1>2. CASE UNCHANGED conf
  BY <1>1, <1>2 DEF Kept, SameButValues
<1>3. ASSUME NEW o \in DOMAIN conf.options, NEW x, Sound(x), SameButValues(x, conf.options[o]),
             conf' = Put(conf, o, x)
      PROVE  Goal
  <2>1. /\ Well(conf')
        /\ conf'.live = conf.live
        /\ DOMAIN conf'.options = DOMAIN conf.options
        /\ \A j \in DOMAIN conf.options : conf'.options[j] = IF j = o THEN x ELSE conf.options[j]
    BY <1>1, <1>3, OptionChanged
  <2>2. \A j \in DOMAIN conf.options : SameButValues(conf'.options[j], conf.options[j])
    BY <1>3, <2>1 DEF SameButValues
  <2> QED
    BY <2>1, <2>2 DEF Kept
<1> HIDE DEF Goal
<1>4. CASE ParseArgument
  BY <1>1, <1>2, <1>3, <1>4, ArgumentChanges DEF LineChanges
<1>5. CASE ReadEnv \/ EnvToken
  BY <1>2, <1>3, <1>5, EnvironmentChanges DEF EnvChanges
<1>6. CASE ParseStep
  BY <1>1, <1>2, <1>3, <1>6, ParserChanges DEF ParseStep, FileChanges
<1> QED
  BY <1>4, <1>5, <1>6

\* The lock of the option whose list is being read is set at its end only.
LEMMA ListNotLocked ==
    ASSUME IInv, ReadEnv \/ EnvToken
    PROVE  pc' = "env_list" /\ i' \in DOMAIN conf'.options => ~conf'.options[i'].no_override
<1> SUFFICES ASSUME pc' = "env_list", i' \in DOMAIN conf'.options
             PROVE  ~conf'.options[i'].no_override
  OBVIOUS
<1>1. Well(conf)
  BY DEF IInv, ConfInv
<1>2. CASE ReadEnv
  <2>1. UNCHANGED <<conf, i>> /\ ~conf.options[i].no_override
    BY <1>2 DEF ReadEnv, EnvSkips
  <2> QED
    BY <2>1
<1>3. CASE EnvToken
  <2> DEFINE toks == getenv(OuterName(conf.options[i])).tokens
             x == config_add_value_from_string(conf.options[i], toks[num])
  <2>1. i' = i /\ pc = "env_list" /\ conf' = Put(conf, i, x)
    BY <1>3 DEF EnvToken, Put
  <2>2. i \in DOMAIN conf.options
    BY <1>1, <2>1, PutOutside
  <2>3. Sound(conf.options[i]) /\ ~conf.options[i].no_override
    BY <1>1, <2>1, <2>2 DEF IInv, ConfInv, Well
  <2>4. Sound(x) /\ ~x.no_override
    BY <2>3, TokenOption DEF EnvChanges
  <2> HIDE DEF x
  <2>5. conf'.options[i] = x
    BY <1>1, <2>1, <2>2, <2>4, OptionChanged
  <2> QED
    BY <2>1, <2>4, <2>5
<1> QED
  BY <1>2, <1>3

LEMMA ConfStep ==
    ASSUME IInv, Main
    PROVE  ConfInv'
<1> DEFINE CD == Has(conf, Core, <<"confd">>) /\ Has(conf, Core, <<"config">>)
<1>1. ConfInv /\ Control
  BY DEF IInv
<1>2. CASE ParseEarlyArgument \/ EarlyArgumentsDone \/ LoggerNew
  BY <1>1, <1>2 DEF ConfInv, ParseEarlyArgument, EarlyArgumentsDone, LoggerNew, Exit, Go,
                    Declaring, Reading
<1>3. CASE ConfigNew
  BY <1>1, <1>3, EmptyConfig DEF ConfInv, ConfigNew, Exit, Go, Declaring, Reading
<1>4. CASE LoadContainer \/ ContainerMade
  BY <1>1, <1>4, EmptyConfig DEF ConfInv, LoadContainer, ContainerMade, Exit, Go, Declaring, Reading
<1>5. CASE PluginDeclares
  <2>1. Grows(conf', conf) /\ pc = "create" /\ pc' = "create"
    BY <1>1, <1>5, PluginDeclared DEF PluginDeclares
  <2> QED
    BY <2>1 DEF ConfInv, Grows, Reading
<1>6. CASE DeclareOptions
  <2>1. Well(conf) /\ Fresh(conf) /\ pc' = "args" /\ conf' = CoreSettings(WithCoreOptions(conf))
    BY <1>1, <1>6 DEF ConfInv, DeclareOptions, Go, Declaring
  <2>2. Grows(conf', conf) /\ Has(conf', Core, <<"confd">>) /\ Has(conf', Core, <<"config">>)
    BY <2>1, CoreDeclared DEF CoreNamed
  <2> QED
    BY <2>1, <2>2 DEF ConfInv, Grows, Declaring
<1>7. CASE ParseArgument \/ ReadEnv \/ EnvToken \/ ParseStep
  <2>1. /\ Well(conf')
        /\ \A section, name : Has(conf, section, name) => Has(conf', section, name)
    BY <1>1, <1>7, SourceStep
  <2>2. pc \in Reading /\ pc' \in Reading \cup {"exit"}
    BY <1>7 DEF ParseArgument, ReadEnv, EnvToken, ParseStep, Exit, Go, Reading
  <2>3. pc' = "env_list" /\ i' \in DOMAIN conf'.options => ~conf'.options[i'].no_override
    <3>1. CASE ReadEnv \/ EnvToken
      BY <3>1, ListNotLocked
    <3>2. CASE ParseArgument \/ ParseStep
      BY <3>2 DEF ParseArgument, ParseStep, Exit
    <3> QED
      BY <1>7, <3>1, <3>2
  <2> QED
    BY <1>1, <2>1, <2>2, <2>3 DEF ConfInv, Declaring, Reading
<1>8. CASE ArgumentsDone \/ EnvDone \/ NextDirectory \/ DirectoriesDone \/ ScanEntry \/ NextFile
           \/ FileParsed \/ FilesDone
  <2>1. UNCHANGED conf /\ pc \in Reading /\ pc' \in (Reading \ {"env_list"}) \cup {"exit", "init"}
    BY <1>1, <1>8 DEF ArgumentsDone, EnvDone, NextDirectory, DirectoriesDone, ScanEntry, NextFile,
                      FileParsed, FilesDone, Exit, Go, Reading
  <2> QED
    BY <1>1, <2>1 DEF ConfInv, Declaring, Reading
<1>9. CASE ContainerInit \/ ContainerDestroy \/ LoggerDestroy
  BY <1>1, <1>9 DEF ConfInv, ContainerInit, ContainerDestroy, LoggerDestroy, Go, Declaring, Reading
<1>10. CASE ConfigDestroy
  BY <1>10, EmptyConfig DEF ConfInv, ConfigDestroy, Go, Declaring, Reading
<1> QED
  BY <1>2, <1>3, <1>4, <1>5, <1>6, <1>7, <1>8, <1>9, <1>10 DEF Main

-----------------------------------------------------------------------------
(* Steps and control.                                                      *)

LEMMA NumValues ==
    ASSUME NEW c, Well(c), NEW name, Has(c, Core, name)
    PROVE  rapp_config_get_num_values(c, Core, name) \in Nat
<1> DEFINE o == Find(c, Core, name)
<1>1. o \in DOMAIN c.options
  BY FindIs
<1>2. Sound(c.options[o])
  BY <1>1 DEF Well
<1>3. Len(c.options[o].values) \in Nat
  BY <1>2 DEF Sound, Option
<1> QED
  BY <1>3 DEF rapp_config_get_num_values

\* The parser's own moves.
LEMMA ParserMoves ==
    ASSUME Control, config_parse_main
    PROVE  /\ yaml' = [mode |-> yaml'.mode, section |-> yaml'.section, opt |-> yaml'.opt]
           /\ yaml'.mode \in Modes
           /\ yaml.mode # "idle"
<1>1. yaml = [mode |-> yaml.mode, section |-> yaml.section, opt |-> yaml.opt] /\ yaml.mode \in Modes
  BY DEF Control
<1>2. ASSUME NEW mode \in Modes, Goto(mode)
      PROVE  /\ yaml' = [mode |-> yaml'.mode, section |-> yaml'.section, opt |-> yaml'.opt]
             /\ yaml'.mode \in Modes
  BY <1>1, <1>2 DEF Goto
<1>3. {"main", "done", "skip", "pairs", "list", "failed", "unknown"} \subseteq Modes
  BY DEF Modes
<1>4. CASE ParseInit
  BY <1>2, <1>3, <1>4 DEF ParseInit, ParseFails
<1>5. CASE ParseSection
  <2>1. \/ \E mode \in {"done", "failed", "skip"} : Goto(mode)
        \/ \E section : yaml' = [yaml EXCEPT !.mode = "pairs", !.section = section]
    BY <1>5 DEF ParseSection, ParseFails
  <2> QED
    BY <1>1, <1>2, <1>3, <1>5, <2>1 DEF ParseSection
<1>6. CASE SkipSection
  BY <1>2, <1>3, <1>6 DEF SkipSection
<1>7. CASE KeyValue
  <2>1. \/ \E mode \in {"main", "failed", "unknown"} : Goto(mode)
        \/ UNCHANGED yaml
        \/ \E o : yaml' = [yaml EXCEPT !.mode = "list", !.opt = o]
    BY <1>7 DEF KeyValue, ParseFails
  <2> QED
    BY <1>1, <1>2, <1>3, <1>7, <2>1 DEF KeyValue
<1>8. CASE ListItem
  <2>1. (\E mode \in {"pairs", "failed"} : Goto(mode)) \/ UNCHANGED yaml
    BY <1>8 DEF ListItem, ParseFails
  <2> QED
    BY <1>1, <1>2, <1>3, <1>8, <2>1 DEF ListItem
<1> QED
  BY <1>4, <1>5, <1>6, <1>7, <1>8 DEF config_parse_main

LEMMA ControlStep ==
    ASSUME IInv, Main
    PROVE  Control'
<1>1. ConfInv /\ Control
  BY DEF IInv
<1> USE DEF Control, Labels, Declaring, Reading, Reasons, Modes, Exit, Go
<1>2. CASE ParseEarlyArgument \/ EarlyArgumentsDone \/ LoggerNew \/ ConfigNew
  BY <1>1, <1>2 DEF ParseEarlyArgument, EarlyArgumentsDone, LoggerNew, ConfigNew, loopVars, made, parserVars
<1>3. CASE LoadContainer \/ PluginDeclares \/ ContainerMade \/ DeclareOptions
  BY <1>1, <1>3 DEF LoadContainer, PluginDeclares, ContainerMade, DeclareOptions, loopVars, made, parserVars
<1>4. CASE ParseArgument \/ ArgumentsDone
  BY <1>1, <1>4 DEF ParseArgument, ArgumentsDone, loopVars, made, parserVars
<1>5. CASE ReadEnv
  BY <1>1, <1>5 DEF ReadEnv, loopVars, made, parserVars
<1>6. CASE EnvToken
  BY <1>1, <1>6 DEF EnvToken, loopVars, made, parserVars
<1>7. CASE EnvDone \/ DirectoriesDone
  <2>1. /\ rapp_config_get_num_values(conf, Core, <<"confd">>) \in Nat
        /\ rapp_config_get_num_values(conf, Core, <<"config">>) \in Nat
    BY <1>1, <1>7, NumValues DEF ConfInv, EnvDone, DirectoriesDone
  <2> QED
    BY <1>1, <1>7, <2>1 DEF EnvDone, DirectoriesDone, loopVars, made, parserVars
<1>8. CASE NextDirectory
  BY <1>1, <1>8 DEF NextDirectory, loopVars, made, parserVars
<1>9. CASE ScanEntry \/ NextFile
  <2>1. \/ UNCHANGED yaml
        \/ yaml' = [mode |-> "init", section |-> NULL, opt |-> 0] /\ UNCHANGED <<pc, reason>>
    BY <1>9 DEF ScanEntry, NextFile, config_parse, IdleYaml, parserVars
  <2>2. /\ i' \in Nat /\ num' \in Nat /\ container' = container
        /\ pc' \in {"scan", "configs", "confd", "exit"}
        /\ reason' \in Reasons /\ (reason' = "none" <=> pc' # "exit")
        /\ yaml.mode = "idle" /\ pc \in {"scan", "configs"}
    BY <1>1, <1>9 DEF ScanEntry, NextFile, loopVars, made
  <2> QED
    BY <1>1, <2>1, <2>2
<1>10. CASE ParseStep
  <2>1. /\ yaml' = [mode |-> yaml'.mode, section |-> yaml'.section, opt |-> yaml'.opt]
        /\ yaml'.mode \in Modes
    BY <1>1, <1>10, ParserMoves DEF ParseStep
  <2> QED
    BY <1>1, <1>10, <2>1 DEF ParseStep, loopVars, made
<1>11. CASE FileParsed
  BY <1>1, <1>11 DEF FileParsed, IdleYaml, loopVars, made
<1>12. CASE FilesDone \/ ContainerInit
  BY <1>1, <1>12 DEF FilesDone, ContainerInit, loopVars, made, parserVars
<1>13. CASE ContainerDestroy \/ ConfigDestroy \/ LoggerDestroy
  BY <1>1, <1>13 DEF ContainerDestroy, ConfigDestroy, LoggerDestroy, loopVars, made, parserVars
<1> QED
  BY <1>2, <1>3, <1>4, <1>5, <1>6, <1>7, <1>8, <1>9, <1>10, <1>11, <1>12, <1>13 DEF Main

LEMMA LifeStep ==
    ASSUME IInv, Main
    PROVE  Life'
<1>1. ConfInv /\ Control /\ Life
  BY DEF IInv
<1> USE DEF Life, Declaring, Reading, Exit, Go, given, made
<1>0. pc # "exit" => reason = "none"
  BY <1>1 DEF Control
<1>2. CASE ParseEarlyArgument \/ EarlyArgumentsDone
  BY <1>0, <1>1, <1>2 DEF ParseEarlyArgument, EarlyArgumentsDone
<1>3. CASE LoggerNew
  BY <1>0, <1>1, <1>3, EmptyConfig DEF ConfInv, LoggerNew, logger_new_fp
<1>4. CASE ConfigNew
  <2>1. conf.live = FALSE /\ container = "none" /\ logger.live /\ pc = "config"
    BY <1>0, <1>1, <1>4, EmptyConfig DEF ConfInv, ConfigNew
  <2>2. CASE conf' = config_new /\ UNCHANGED logger
             /\ pc' = IF arguments.container THEN "load" ELSE "declare"
    BY <1>0, <1>1, <1>4, <2>1, <2>2, EmptyConfig DEF ConfigNew
  <2>3. CASE UNCHANGED conf /\ pc' = "exit"
    BY <1>0, <1>1, <1>4, <2>1, <2>3 DEF ConfigNew
  <2> QED
    BY <1>4, <2>2, <2>3 DEF ConfigNew
<1>5. CASE LoadContainer
  BY <1>0, <1>1, <1>5, EmptyConfig DEF LoadContainer
<1>6. CASE PluginDeclares
  <2>1. conf'.live = conf.live
    BY <1>0, <1>1, <1>6, PluginDeclared DEF Grows
  <2> QED
    BY <1>0, <1>1, <1>6, <2>1 DEF PluginDeclares
<1>7. CASE ContainerMade
  BY <1>0, <1>1, <1>7, EmptyConfig DEF ContainerMade, Loadable, Symbols
<1>8. CASE DeclareOptions
  <2>1. Well(conf) /\ Fresh(conf) /\ conf' = CoreSettings(WithCoreOptions(conf))
    BY <1>0, <1>1, <1>8 DEF ConfInv, DeclareOptions, Declaring
  <2>2. conf'.live = conf.live
    BY <2>1, CoreDeclared DEF Grows
  <2> QED
    BY <1>0, <1>1, <1>8, <2>2 DEF DeclareOptions
<1>9. CASE ParseArgument \/ ReadEnv \/ EnvToken \/ ParseStep
  <2>1. conf'.live = conf.live
    BY <1>0, <1>1, <1>9, SourceStep
  <2>2. /\ UNCHANGED <<logger, plugin, container, arguments>>
        /\ pc \in Reading /\ pc' \in Reading \cup {"exit"} /\ reason' # "no_container"
    BY <1>0, <1>9 DEF ParseArgument, ReadEnv, EnvToken, ParseStep
  <2> QED
    BY <1>1, <2>1, <2>2
<1>10. CASE ArgumentsDone \/ EnvDone \/ NextDirectory \/ DirectoriesDone \/ ScanEntry \/ NextFile
            \/ FileParsed
  <2>1. /\ UNCHANGED <<conf, logger, plugin, container, arguments>>
        /\ pc \in Reading /\ pc' \in Reading \cup {"exit"} /\ reason' # "no_container"
    BY <1>0, <1>10 DEF ArgumentsDone, EnvDone, NextDirectory, DirectoriesDone, ScanEntry, NextFile, FileParsed
  <2> QED
    BY <1>1, <2>1
<1>11. CASE FilesDone \/ ContainerInit
  BY <1>0, <1>1, <1>11 DEF FilesDone, ContainerInit
<1>12. CASE ContainerDestroy
  BY <1>0, <1>1, <1>12 DEF ContainerDestroy
<1>13. CASE ConfigDestroy
  BY <1>0, <1>1, <1>13, EmptyConfig DEF ConfigDestroy
<1>14. CASE LoggerDestroy
  BY <1>0, <1>1, <1>14, EmptyConfig DEF ConfInv, LoggerDestroy
<1> QED
  BY <1>2, <1>3, <1>4, <1>5, <1>6, <1>7, <1>8, <1>9, <1>10, <1>11, <1>12, <1>13, <1>14 DEF Main

\* An early option, looked at.
LEMMA EarlyArgument ==
    ASSUME Early, ParseEarlyArgument
    PROVE  Early'
<1>1. /\ argv \in CommandLines /\ argv' = argv
      /\ i \in 1 .. Len(argv) /\ i' = i + 1 /\ pc = "start" /\ pc' = "start" /\ Len(argv) \in Nat
      /\ arguments' = parse_early_opt(arguments, argv[i])
  BY StartupAssumption DEF Early, ParseEarlyArgument
<1>2. /\ argv[i].kind \in {"load", "log_output", "log_level", "config", "positional"}
      /\ argv[i].text \in STRING
  <2> DEFINE A == [kind : {"load", "log_output", "log_level", "config", "positional"},
                   name : Seq(STRING), text : STRING]
  <2>1. argv \in Seq(A)
    BY <1>1, StartupAssumption
  <2>2. argv[i] \in A
    BY <1>1, <2>1, ElementOfSeq
  <2> QED
    BY <2>2
<1>3. /\ "stdout" # NULL
      /\ argv[i].text # NULL
      /\ argv[i].text \in DOMAIN Levels => Levels[argv[i].text] \in Int
  <2>1. \A text \in DOMAIN Levels : Levels[text] \in Int
    BY StartupAssumption
  <2> QED
    BY <1>2, <2>1, RealTexts
<1>4. Parsed = i - 1 /\ Parsed' = i
  BY <1>1 DEF Parsed
<1>5. /\ arguments = [container |-> arguments.container, loglevel |-> arguments.loglevel,
                      logoutput |-> arguments.logoutput, stopped |-> arguments.stopped]
      /\ arguments.loglevel \in Int
      /\ arguments.logoutput = NULL => arguments.stopped
  BY <1>1 DEF Early
<1> DEFINE arg == argv[i]
<1>6. /\ arguments' = parse_early_opt(arguments, arg)
      /\ arg.kind \in {"load", "log_output", "log_level", "config", "positional"}
      /\ arg.text # NULL
      /\ arg.text \in DOMAIN Levels => Levels[arg.text] \in Int
  BY <1>1, <1>2, <1>3
<1> HIDE DEF arg
<1> DEFINE Looked ==
           /\ arguments' = [container |-> arguments'.container, loglevel |-> arguments'.loglevel,
                logoutput |-> arguments'.logoutput, stopped |-> arguments'.stopped]
           /\ arguments'.loglevel \in Int
           /\ arguments'.logoutput = NULL => arguments'.stopped
           /\ arguments.logoutput = NULL => arguments'.logoutput = NULL
           /\ arguments.container => arguments'.container
           /\ arg.kind = "load" => arguments.stopped \/ arguments'.container
           /\ arguments'.stopped => arguments.stopped \/ arguments'.logoutput = NULL \/ arg.kind = "config"
<1>7. Looked
  <2>1. CASE arguments.stopped \/ arg.kind = "positional"
    <3>1. arguments' = arguments
      BY <1>6, <2>1 DEF parse_early_opt
    <3> QED
      BY <1>5, <2>1, <3>1
  <2>2. CASE ~arguments.stopped /\ arg.kind = "load"
    <3>1. arguments' = [arguments EXCEPT !.container = TRUE]
      BY <1>6, <2>2 DEF parse_early_opt
    <3> QED
      BY <1>5, <2>2, <3>1
  <2>3. CASE ~arguments.stopped /\ arg.kind = "log_output"
    <3>1. \/ arguments' = [arguments EXCEPT !.logoutput = "stdout"]
          \/ arguments' = [arguments EXCEPT !.logoutput = arg.text] /\ arg.text \in Writable
          \/ arguments' = [arguments EXCEPT !.logoutput = NULL, !.stopped = TRUE]
      BY <1>6, <2>3 DEF parse_early_opt
    <3>2. CASE arguments' = [arguments EXCEPT !.logoutput = NULL, !.stopped = TRUE]
      BY <1>5, <2>3, <3>2
    <3>3. ASSUME NEW text, text # NULL, arguments' = [arguments EXCEPT !.logoutput = text]
          PROVE  Looked
      BY <1>5, <2>3, <3>3
    <3> QED
      BY <1>3, <1>6, <3>1, <3>2, <3>3
  <2>4. CASE ~arguments.stopped /\ arg.kind = "log_level"
    <3>1. \/ arguments' = [arguments EXCEPT !.loglevel = Levels[arg.text]] /\ arg.text \in DOMAIN Levels
          \/ arguments' = arguments
      BY <1>6, <2>4 DEF parse_early_opt
    <3> QED
      BY <1>5, <1>6, <2>4, <3>1
  <2>5. CASE ~arguments.stopped /\ arg.kind = "config"
    <3>1. arguments' = [arguments EXCEPT !.stopped = TRUE]
      BY <1>6, <2>5 DEF parse_early_opt
    <3> QED
      BY <1>5, <2>5, <3>1
  <2> QED
    BY <1>6, <2>1, <2>2, <2>3, <2>4, <2>5
<1>8. ASSUME arguments'.logoutput # NULL
      PROVE  /\ arguments'.stopped => Named(Parsed)'
             /\ ~arguments'.container => \A k \in 1 .. i : argv[k].kind = "load" => Named(k - 1)
  <2>1. /\ arguments.stopped => Named(i - 1)
        /\ ~arguments.container => \A k \in 1 .. i - 1 : argv[k].kind = "load" => Named(k - 1)
    BY <1>4, <1>7, <1>8 DEF Early
  <2>2. arguments'.stopped => Named(i)
    BY <1>1, <1>7, <1>8, <2>1 DEF Named, arg
  <2>3. Named(Parsed)' = Named(i)
    BY <1>1, <1>4 DEF Named
  <2>4. ASSUME ~arguments'.container, NEW k \in 1 .. i, argv[k].kind = "load"
        PROVE  Named(k - 1)
    <3>1. CASE k = i
      BY <1>7, <2>1, <2>4, <3>1 DEF arg
    <3>2. CASE k \in 1 .. i - 1
      BY <1>7, <2>1, <2>4, <3>2
    <3> QED
      BY <1>1, <3>1, <3>2
  <2> QED
    BY <2>2, <2>3, <2>4
<1>9. \A k : Named(k)' <=> Named(k)
  BY <1>1 DEF Named
<1> QED
  BY <1>1, <1>4, <1>7, <1>8, <1>9 DEF Early

LEMMA EarlyStep ==
    ASSUME IInv, Main
    PROVE  Early'
<1>1. Control /\ Early
  BY DEF IInv
<1>2. CASE ParseEarlyArgument
  BY <1>1, <1>2, EarlyArgument
<1>3. CASE EarlyArgumentsDone
  <2>1. /\ UNCHANGED <<argv, arguments, i>>
        /\ pc = "start" /\ i > Len(argv)
        /\ pc' = (IF arguments.logoutput = NULL THEN "exit" ELSE "logger")
        /\ arguments.logoutput = NULL => reason' = "log_output"
    BY <1>3 DEF EarlyArgumentsDone, Exit, Go, given, loopVars
  <2>2. argv \in CommandLines /\ i \in 1 .. Len(argv) + 1 /\ Len(argv) \in Nat
    BY <1>1, <2>1, StartupAssumption DEF Early
  <2>3. Parsed = Len(argv) /\ Parsed' = Len(argv)
    BY <2>1, <2>2 DEF Parsed
  <2>4. \A k : Named(k)' <=> Named(k)
    BY <2>1 DEF Named
  <2> QED
    BY <1>1, <2>1, <2>3, <2>4 DEF Early
<1>4. ASSUME UNCHANGED <<argv, arguments>>, pc # "start", pc' # "start", pc # "exit"
      PROVE  Early'
  <2>1. arguments.logoutput # NULL
    BY <1>1, <1>4 DEF Control, Early
  <2>2. Parsed = Len(argv) /\ Parsed' = Len(argv)
    BY <1>4 DEF Parsed
  <2>3. \A k : Named(k)' <=> Named(k)
    BY <1>4 DEF Named
  <2> QED
    BY <1>1, <1>4, <2>1, <2>2, <2>3 DEF Early
<1>5. CASE ~ParseEarlyArgument /\ ~EarlyArgumentsDone
  <2> USE DEF Exit, Go, given
  <2>1. CASE \/ LoggerNew \/ ConfigNew \/ LoadContainer \/ PluginDeclares \/ ContainerMade
             \/ DeclareOptions
    BY <1>4, <2>1 DEF LoggerNew, ConfigNew, LoadContainer, PluginDeclares, ContainerMade, DeclareOptions
  <2>2. CASE ParseArgument \/ ArgumentsDone \/ ReadEnv \/ EnvToken \/ EnvDone
    BY <1>4, <2>2 DEF ParseArgument, ArgumentsDone, ReadEnv, EnvToken, EnvDone
  <2>3. CASE \/ NextDirectory \/ DirectoriesDone \/ ScanEntry \/ NextFile \/ ParseStep \/ FileParsed
             \/ FilesDone
    BY <1>4, <2>3 DEF NextDirectory, DirectoriesDone, ScanEntry, NextFile, ParseStep, FileParsed, FilesDone
  <2>4. CASE ContainerInit \/ ContainerDestroy \/ ConfigDestroy \/ LoggerDestroy
    BY <1>4, <2>4 DEF ContainerInit, ContainerDestroy, ConfigDestroy, LoggerDestroy
  <2> QED
    BY <1>5, <2>1, <2>2, <2>3, <2>4 DEF Main
<1> QED
  BY <1>2, <1>3, <1>5

LEMMA NextIInv == IInv /\ [Next]_vars => IInv'
<1> SUFFICES ASSUME IInv, [Next]_vars PROVE IInv'
  OBVIOUS
<1>1. CASE Main
  BY <1>1, ConfStep, ControlStep, LifeStep, EarlyStep DEF IInv
<1>2. CASE UNCHANGED vars
  <2>1. UNCHANGED <<pc, argv, arguments, logger, plugin, container, conf, yaml, i, num, reason>>
    BY <1>2 DEF vars, given, made, parserVars, loopVars
  <2> QED
    BY <2>1 DEF IInv, ConfInv, Control, Life, Early, Parsed, Named
<1> QED
  BY <1>1, <1>2 DEF Next, Stopped

-----------------------------------------------------------------------------
(* The theorems.                                                           *)

LEMMA Invariance == Spec => []IInv
BY InitIInv, NextIInv, PTL DEF Spec

\* Every reachable state is well typed; in particular main never asks for the
\* number of values of an option that is not there.
THEOREM TypeCorrect == Spec => []TypeOK
<1>1. IInv => TypeOK
  BY DEF IInv, ConfInv, Control, Well, TypeOK, Labels, Declaring, Reading, Modes
<1> QED
  BY <1>1, Invariance, PTL

\* Whatever the sources say, the values of an option fit it
\* (config_add_value_from_string and its callers).
THEOREM ValuesAlwaysFit == Spec => []ValuesValid
<1>1. IInv => ValuesValid
  BY DEF IInv, ConfInv, Well, Sound, ValuesValid, Options, Opt
<1> QED
  BY <1>1, Invariance, PTL

\* The configuration outlives the container and the logger both of them, on
\* every way main can take.
THEOREM DestroyedInOrder == Spec => []Lifetimes
<1>1. IInv => Lifetimes
  BY DEF IInv, Life, Lifetimes
<1> QED
  BY <1>1, Invariance, PTL

\* config_parse_early_commandline misses a --load only behind an option of the
\* configuration.
THEOREM LoadIsSeen == Spec => []LoadSeen
<1>1. IInv => LoadSeen
  <2> SUFFICES ASSUME IInv, reason = "no_container", NEW k \in DOMAIN argv, argv[k].kind = "load"
               PROVE  \E j \in 1 .. k - 1 : argv[j].kind = "config"
    BY DEF LoadSeen
  <2>1. pc = "exit" /\ ~arguments.container /\ arguments.logoutput # NULL
    BY DEF IInv, Control, Life, Early
  <2>2. argv \in CommandLines
    BY DEF IInv, Early
  <2>3. DOMAIN argv = 1 .. Len(argv)
    BY <2>2, StartupAssumption
  <2>4. Named(k - 1)
    BY <2>1, <2>3 DEF IInv, Early, Parsed
  <2> QED
    BY <2>4 DEF Named
<1> QED
  BY <1>1, Invariance, PTL

\* No log level hides the reason for which main gives up, but for those that
\* are only a warning.
THEOREM RefusalsAreTold == Spec => []RefusalIsTold
<1>1. IInv => RefusalIsTold
  <2> SUFFICES ASSUME IInv PROVE RefusalIsTold
    OBVIOUS
  <2>1. reason \in Reasons /\ arguments.loglevel \in Int
    BY DEF IInv, Control, Early
  <2>2. reason \notin {"none", "log_output", "no_logger", "no_argument", "option", "stale_count"} =>
            Loudness[reason] \in {LOG_CRITICAL, LOG_ERROR}
    BY <2>1 DEF Loudness, Reasons
  <2>3. \A level \in {LOG_CRITICAL, LOG_ERROR} : Traced(logger_new_fp(arguments.loglevel), level)
    BY <2>1 DEF Traced, logger_new_fp, CLAMP, LOG_CRITICAL, LOG_ERROR, LOG_MARK
  <2> QED
    BY <2>2, <2>3 DEF RefusalIsTold
<1> QED
  BY <1>1, Invariance, PTL

-----------------------------------------------------------------------------
(* Startup implements ConfigSources.                                       *)

\* One option changes, seen from ConfigSources.
LEMMA ValuesChanged ==
    ASSUME Well(conf), NEW o \in DOMAIN conf.options, NEW x, Sound(x), conf' = Put(conf, o, x)
    PROVE  /\ DOMAIN Values = DOMAIN conf.options /\ DOMAIN Held = DOMAIN conf.options
           /\ DOMAIN Values' = DOMAIN Values /\ DOMAIN Held' = DOMAIN Held
           /\ Sources!Others(o)
           /\ Values[o] = conf.options[o].values /\ Held[o] = conf.options[o].no_override
           /\ Values'[o] = x.values /\ Held'[o] = x.no_override
<1>1. /\ DOMAIN conf'.options = DOMAIN conf.options
      /\ \A j \in DOMAIN conf.options : conf'.options[j] = IF j = o THEN x ELSE conf.options[j]
  BY OptionChanged
<1> QED
  BY <1>1 DEF Values, Held, Options, Opt, Sources!Others

LEMMA LineStep ==
    ASSUME IInv, ParseArgument, pc' # "exit"
    PROVE  Sources!Next \/ UNCHANGED <<Phase, Values, Held>>
<1>1. Well(conf) /\ pc = "args" /\ pc' = "args"
  BY DEF IInv, ConfInv, ParseArgument, Exit
<1>2. Phase = "line" /\ Phase' = "line"
  BY <1>1 DEF Phase
<1>3. CASE UNCHANGED conf
  BY <1>2, <1>3 DEF Values, Held, Options, Opt
<1>4. ASSUME NEW o \in DOMAIN conf.options, NEW x, LineChanges(x, conf.options[o]), conf' = Put(conf, o, x)
      PROVE  Sources!Next
  <2>1. /\ DOMAIN Values = DOMAIN conf.options /\ DOMAIN Held = DOMAIN conf.options
        /\ DOMAIN Values' = DOMAIN Values /\ DOMAIN Held' = DOMAIN Held
        /\ Sources!Others(o)
        /\ Values[o] = conf.options[o].values
        /\ Values'[o] = x.values /\ Held'[o] = x.no_override
    BY <1>1, <1>4, ValuesChanged DEF LineChanges
  <2>2. Sources!Line(o)
    BY <1>2, <1>4, <2>1 DEF Sources!Line, LineChanges, Extends
  <2> QED
    BY <2>1, <2>2 DEF Sources!Next
<1> QED
  BY <1>1, <1>3, <1>4, ArgumentChanges

LEMMA EnvStep ==
    ASSUME IInv, ReadEnv \/ EnvToken
    PROVE  Sources!Next \/ UNCHANGED <<Phase, Values, Held>>
<1>1. Well(conf) /\ ConfInv /\ pc \in {"env", "env_list"} /\ pc' \in {"env", "env_list"}
  BY DEF IInv, ConfInv, ReadEnv, EnvToken
<1>2. Phase = "env" /\ Phase' = "env"
  BY <1>1 DEF Phase
<1>3. CASE UNCHANGED conf
  BY <1>2, <1>3 DEF Values, Held, Options, Opt
<1>4. ASSUME i \in DOMAIN conf.options, NEW x, EnvChanges(x, conf.options[i]), conf' = Put(conf, i, x)
      PROVE  Sources!Next
  <2>1. /\ DOMAIN Values = DOMAIN conf.options /\ DOMAIN Held = DOMAIN conf.options
        /\ DOMAIN Values' = DOMAIN Values /\ DOMAIN Held' = DOMAIN Held
        /\ Sources!Others(i)
        /\ Values[i] = conf.options[i].values /\ Held[i] = conf.options[i].no_override
        /\ Values'[i] = x.values /\ Held'[i] = x.no_override
    BY <1>1, <1>4, ValuesChanged DEF EnvChanges
  <2>2. Sources!Env(i)
    BY <1>2, <1>4, <2>1 DEF Sources!Env, EnvChanges, Extends
  <2> QED
    BY <1>4, <2>1, <2>2 DEF Sources!Next
<1> QED
  BY <1>1, <1>3, <1>4, EnvironmentChanges

LEMMA FileStep ==
    ASSUME IInv, ParseStep
    PROVE  Sources!Next \/ UNCHANGED <<Phase, Values, Held>>
<1>1. Well(conf) /\ pc \in {"scan", "configs"} /\ pc' = pc
  BY DEF IInv, ConfInv, ParseStep
<1>2. Phase = "files" /\ Phase' = "files"
  BY <1>1 DEF Phase
<1>3. CASE UNCHANGED conf
  BY <1>2, <1>3 DEF Values, Held, Options, Opt
<1>4. ASSUME NEW o \in DOMAIN conf.options, NEW x, FileChanges(x, conf.options[o]), conf' = Put(conf, o, x)
      PROVE  Sources!Next \/ UNCHANGED <<Phase, Values, Held>>
  <2>1. /\ DOMAIN Values = DOMAIN conf.options /\ DOMAIN Held = DOMAIN conf.options
        /\ DOMAIN Values' = DOMAIN Values /\ DOMAIN Held' = DOMAIN Held
        /\ Sources!Others(o)
        /\ Values[o] = conf.options[o].values /\ Held[o] = conf.options[o].no_override
        /\ Values'[o] = x.values /\ Held'[o] = x.no_override
    BY <1>1, <1>4, ValuesChanged DEF FileChanges
  <2>2. UNCHANGED Held
    <3>1. \A p \in DOMAIN Held : Held'[p] = Held[p]
      BY <1>4, <2>1 DEF FileChanges, Sources!Others
    <3> QED
      BY <2>1, <3>1 DEF Held, Options
  <2>3. CASE ~Held[o]
    <3>1. Sources!File(o)
      BY <1>2, <2>1, <2>2, <2>3 DEF Sources!File
    <3> QED
      BY <2>1, <3>1 DEF Sources!Next
  <2>4. CASE Held[o]
    <3>1. \A p \in DOMAIN Values : Values'[p] = Values[p]
      BY <1>4, <2>1, <2>4 DEF FileChanges, Sources!Others
    <3>2. UNCHANGED Values
      BY <2>1, <3>1 DEF Values, Options
    <3> QED
      BY <1>2, <2>2, <3>2
  <2> QED
    BY <2>3, <2>4
<1> QED
  BY <1>1, <1>3, <1>4, ParserChanges DEF ParseStep

\* Declarations leave every option without a value and without a lock.
LEMMA DeclareStep ==
    ASSUME IInv, DOMAIN conf.options \subseteq DOMAIN conf'.options, Fresh(conf'),
           pc \in Declaring, pc' \in Declaring \cup {"args"}
    PROVE  Sources!Next
<1>1. Phase = "declare" /\ Phase' \in {"declare", "line"}
  BY DEF Phase, Declaring
<1>2. /\ DOMAIN Values = DOMAIN conf.options
      /\ DOMAIN Values' = DOMAIN conf'.options /\ DOMAIN Held' = DOMAIN conf'.options
      /\ \A o \in DOMAIN conf'.options : Values'[o] = <<>> /\ ~Held'[o]
  BY DEF Values, Held, Options, Opt, Fresh
<1>3. Sources!Declare
  BY <1>1, <1>2 DEF Sources!Declare
<1> QED
  BY <1>3 DEF Sources!Next

LEMMA InitRefines == Init => Sources!Init
<1> SUFFICES ASSUME Init PROVE Sources!Init
  OBVIOUS
<1>1. Phase = "declare"
  BY DEF Init, Phase
<1>2. conf.options = <<>>
  BY EmptyConfig DEF Init
<1>3. Values = <<>> /\ Held = <<>>
  BY <1>2 DEF Values, Held, Options
<1> QED
  BY <1>1, <1>3 DEF Sources!Init

LEMMA NextRefines == IInv /\ [Next]_vars => [Sources!Next]_<<Phase, Values, Held>>
<1> SUFFICES ASSUME IInv, [Next]_vars
             PROVE  Sources!Next \/ UNCHANGED <<Phase, Values, Held>>
  OBVIOUS
<1>1. ConfInv /\ Control
  BY DEF IInv
<1>2. ASSUME UNCHANGED conf PROVE UNCHANGED <<Values, Held>>
  BY <1>2 DEF Values, Held, Options, Opt
<1>3. ASSUME Phase' = "end" PROVE Sources!Next
  BY <1>3 DEF Sources!Next, Sources!End
<1>4. ASSUME pc' = "exit" PROVE Sources!Next
  <2>1. Phase' = "end"
    BY <1>4 DEF Phase
  <2> QED
    BY <1>3, <2>1
<1>5. CASE UNCHANGED vars
  <2>1. UNCHANGED <<pc, conf>>
    BY <1>5 DEF vars
  <2> QED
    BY <1>2, <2>1 DEF Phase
<1>6. CASE ParseEarlyArgument \/ EarlyArgumentsDone \/ LoggerNew
  <2>1. UNCHANGED conf /\ pc \in Declaring /\ pc' \in Declaring \cup {"exit"}
    BY <1>6 DEF ParseEarlyArgument, EarlyArgumentsDone, LoggerNew, Exit, Go, Declaring
  <2> QED
    BY <1>1, <1>4, <2>1, DeclareStep DEF ConfInv
<1>7. CASE ConfigNew
  <2>1. /\ pc = "config"
        /\ pc' = "exit" \/ (conf' = config_new /\ pc' \in {"load", "declare"})
    BY <1>7 DEF ConfigNew, Exit, Go
  <2>3. pc \in Declaring /\ conf.options = <<>>
    BY <1>1, <2>1, EmptyConfig DEF ConfInv, Declaring
  <2>2. CASE conf' = config_new /\ pc' \in {"load", "declare"}
    <3>1. Fresh(conf') /\ conf'.options = conf.options
      BY <2>3, <2>2, EmptyConfig
    <3>2. pc' \in Declaring
      BY <2>2 DEF Declaring
    <3> QED
      BY <2>3, <2>2, <3>1, <3>2, DeclareStep
  <2> QED
    BY <1>4, <2>1, <2>2
<1>8. CASE LoadContainer \/ ContainerMade
  <2>1. /\ pc \in {"load", "create"}
        /\ pc' = "exit" \/ (UNCHANGED conf /\ pc' \in {"create", "declare"})
    <3>1. CASE LoadContainer
      BY <3>1 DEF LoadContainer, Exit, Go
    <3>2. CASE ContainerMade
      BY <3>2 DEF ContainerMade, Exit, Go
    <3> QED
      BY <1>8, <3>1, <3>2
  <2>2. {"load", "create", "declare"} \subseteq Declaring
    BY DEF Declaring
  <2> QED
    BY <1>1, <1>4, <2>1, <2>2, DeclareStep DEF ConfInv
<1>9. CASE PluginDeclares
  <2>1. Grows(conf', conf) /\ pc = "create" /\ pc' = "create"
    BY <1>1, <1>9, PluginDeclared DEF PluginDeclares
  <2> QED
    BY <2>1, DeclareStep DEF Grows, Declaring
<1>10. CASE DeclareOptions
  <2>1. Well(conf) /\ Fresh(conf) /\ pc = "declare" /\ pc' = "args"
        /\ conf' = CoreSettings(WithCoreOptions(conf))
    BY <1>1, <1>10 DEF ConfInv, DeclareOptions, Go, Declaring
  <2>2. Grows(conf', conf)
    BY <2>1, CoreDeclared
  <2> QED
    BY <2>1, <2>2, DeclareStep DEF Grows, Declaring
<1>11. CASE ParseArgument
  BY <1>4, <1>11, LineStep
<1>12. CASE ReadEnv \/ EnvToken
  BY <1>12, EnvStep
<1>13. CASE ParseStep
  BY <1>13, FileStep
<1>14. CASE ArgumentsDone \/ EnvDone \/ FilesDone
  <2>1. /\ UNCHANGED conf
        /\ \/ pc = "args" /\ pc' = "env"
           \/ pc = "env" /\ pc' = "confd"
           \/ pc = "configs" /\ pc' \in {"init", "exit"}
    BY <1>14 DEF ArgumentsDone, EnvDone, FilesDone, Exit, Go
  <2>2. UNCHANGED <<Values, Held>>
    BY <1>2, <2>1
  <2>3. \/ pc' = "exit"
        \/ Phase = "line" /\ Phase' = "env"
        \/ Phase = "env" /\ Phase' = "files"
        \/ Phase = "files" /\ Phase' = "use"
    BY <2>1 DEF Phase
  <2>4. CASE pc' # "exit"
    <3> DEFINE order == <<"line", "env", "files", "use">>
    <3>1. /\ order[1] = "line" /\ order[2] = "env" /\ order[3] = "files" /\ order[4] = "use"
          /\ 1 + 1 = 2 /\ 2 + 1 = 3 /\ 3 + 1 = 4
      OBVIOUS
    <3>2. Sources!Order = order
      BY DEF Sources!Order
    <3> HIDE DEF order
    <3>3. \E k \in 1 .. 3 : Phase = order[k] /\ Phase' = order[k + 1]
      BY <2>3, <2>4, <3>1
    <3>4. Sources!NextPhase
      BY <2>2, <3>2, <3>3 DEF Sources!NextPhase
    <3> QED
      BY <3>4 DEF Sources!Next
  <2> QED
    BY <1>4, <2>4
<1>15. CASE NextDirectory \/ DirectoriesDone \/ ScanEntry \/ NextFile \/ FileParsed
  <2>1. /\ UNCHANGED conf /\ pc \in {"confd", "scan", "configs"}
        /\ pc' \in {"confd", "scan", "configs", "exit"}
    BY <1>15 DEF NextDirectory, DirectoriesDone, ScanEntry, NextFile, FileParsed, Exit, Go
  <2> QED
    BY <1>2, <1>4, <2>1 DEF Phase
<1>16. CASE ContainerInit \/ ContainerDestroy
  <2>1. UNCHANGED conf /\ pc \in {"init", "serving"} /\ pc' \in {"serving", "destroy_config"}
    BY <1>16 DEF ContainerInit, ContainerDestroy, Go
  <2> QED
    BY <1>2, <2>1 DEF Phase
<1>17. CASE ConfigDestroy \/ LoggerDestroy
  <2>1. pc' \in {"destroy_logger", "undefined", "ended"}
    BY <1>17 DEF ConfigDestroy, LoggerDestroy, Go
  <2> QED
    BY <1>3, <2>1 DEF Phase
<1> QED
  BY <1>5, <1>6, <1>7, <1>8, <1>9, <1>10, <1>11, <1>12, <1>13, <1>14, <1>15, <1>16, <1>17
     DEF Next, Main, Stopped

\* The order of the sources and their locks: what the command line or the
\* environment gave stays, whatever the files say, and nothing changes once
\* the options are in use.
THEOREM PrecedenceKept == Spec => KeepsPrecedence
<1>1. IInv /\ [Next]_vars => [Sources!Next]_<<Phase, Values, Held>>
  BY NextRefines
<1>2. IInv /\ [Next]_vars => [Sources!Next]_(Sources!vars)
  <2> SUFFICES ASSUME IInv, [Next]_vars
               PROVE  Sources!Next \/ UNCHANGED <<Phase, Values, Held>>
    BY DEF Sources!vars
  <2> QED
    BY <1>1
<1> QED
  BY <1>2, InitRefines, Invariance, PTL DEF Spec, KeepsPrecedence, Sources!Spec

-----------------------------------------------------------------------------
(* Values are never NULL.                                                  *)

\* What the parser takes for a value is one.
LEMMA ScalarAt ==
    ASSUME tokens \in Seq(RealTokens), NEW k \in Nat \ {0}, T(k) = "SCALAR"
    PROVE  tokens[k].scalar # NULL
<1>1. k <= Len(tokens) /\ tokens[k].type = "SCALAR"
  BY DEF T
<1>2. tokens[k] \in RealTokens
  BY <1>1, ElementOfSeq, LenProperties
<1>3. tokens[k].scalar \in Scalars
  BY <1>1, <1>2 DEF RealTokens
<1>4. NULL \notin Scalars
  BY StartupAssumption DEF Scalars
<1> QED
  BY <1>3, <1>4

Real(o) == o.type = "PARAM_STRING" => NULL \notin ToSet(o.values)
AllReal(c) == \A o \in DOMAIN c.options : Real(c.options[o])

LEMMA RealValue ==
    ASSUME NEW o, Sound(o), Real(o), NEW text, text # NULL
    PROVE  Real(config_add_value_from_string(o, text))
<1> DEFINE x == config_add_value_from_string(o, text)
<1>1. x.type = o.type /\ o.values \in Seq(ToSet(o.values))
  BY ValueFromString DEF SameButValues, Sound, Option
<1>2. CASE o.type # "PARAM_STRING"
  BY <1>1, <1>2 DEF Real
<1>3. CASE o.type = "PARAM_STRING"
  <2>1. x = o \/ x = WithValue(o, text)
    BY <1>3 DEF config_add_value_from_string, opt_add_value_string, WithValue, Valid
  <2>2. CASE x = WithValue(o, text)
    <3>1. x.values = Append(o.values, text)
      BY <2>2, ValueAppended DEF Sound
    <3>2. ToSet(x.values) = ToSet(o.values) \cup {text}
      BY <1>1, <3>1, AppendElement
    <3> QED
      BY <1>3, <3>2 DEF Real
  <2> QED
    BY <2>1, <2>2
<1> QED
  BY <1>2, <1>3

LEMMA RealLocked ==
    ASSUME NEW o, Sound(o), Real(o)
    PROVE  Real(Locked(o))
<1>1. Locked(o).values = o.values /\ Locked(o).type = o.type
  BY OptionLocked DEF SameButValues
<1> QED
  BY <1>1 DEF Real

LEMMA RealEmptied ==
    ASSUME NEW o, Sound(o), Real(o)
    PROVE  Sound(Emptied(o)) /\ Real(Emptied(o))
<1>1. CASE o.no_override
  BY <1>1 DEF Emptied
<1>2. CASE ~o.no_override
  <2>1. Emptied(o) = config_option_remove_all_values(o)
    BY <1>2 DEF Emptied
  <2>2. Sound(Emptied(o)) /\ Emptied(o).values = <<>>
    BY <2>1, ValuesRemoved
  <2> QED
    BY <2>2 DEF Real, ToSet
<1> QED
  BY <1>1, <1>2

LEMMA RealScalar ==
    ASSUME NEW o, Sound(o), Real(o), NEW text, text # NULL
    PROVE  Real(FromScalar(o, text))
BY RealValue DEF FromScalar

LEMMA PutReal ==
    ASSUME NEW c, Well(c), AllReal(c), NEW i1, NEW x, i1 \in DOMAIN c.options => Real(x)
    PROVE  AllReal(Put(c, i1, x))
BY PutIs DEF AllReal

\* A file only says what its scalars say.
LEMMA ParserReal ==
    ASSUME Well(conf), AllReal(conf), tokens \in Seq(RealTokens), config_parse_main
    PROVE  AllReal(conf') /\ tokens' \in Seq(RealTokens)
<1>1. \A o \in DOMAIN conf.options : Sound(conf.options[o]) /\ Real(conf.options[o])
  BY DEF Well, AllReal
<1>2. <<>> \in Seq(RealTokens)
  OBVIOUS
<1>3. tokens' = <<>> \/ UNCHANGED tokens \/ (\E n \in Nat : Scanned(n)) => tokens' \in Seq(RealTokens)
  BY <1>2, RestTyped
<1>4. CASE ParseInit \/ ParseSection \/ SkipSection
  <2>1. UNCHANGED conf /\ (tokens' = <<>> \/ Scanned(1) \/ Scanned(2) \/ Scanned(3) \/ Scanned(4))
    BY <1>4 DEF ParseInit, ParseSection, SkipSection, ParseFails
  <2> QED
    BY <1>3, <2>1
<1>5. CASE KeyValue
  <2> DEFINE sep == IF T(1) = "FLOW_ENTRY" THEN 1 ELSE 0
             opt == Find(conf, yaml.section, tokens[sep + 2].scalar)
             o == conf.options[opt]
             text == tokens[sep + 4].scalar
  <2>1. sep \in {0, 1}
    OBVIOUS
  <2>2. \/ UNCHANGED conf
        \/ T(sep + 4) = "SCALAR" /\ conf' = Put(conf, opt, FromScalar(Emptied(o), text))
        \/ conf' = Put(conf, opt, Emptied(o))
    BY <1>5 DEF KeyValue, Put
  <2>3. tokens' = <<>> \/ Scanned(1) \/ Scanned(sep + 4)
    BY <1>5 DEF KeyValue, ParseFails
  <2> HIDE DEF sep
  <2>4. T(sep + 4) = "SCALAR" => text # NULL
    BY <2>1, ScalarAt
  <2> HIDE DEF text, opt
  <2>5. opt \in DOMAIN conf.options =>
            Real(Emptied(o)) /\ (text # NULL => Real(FromScalar(Emptied(o), text)))
    BY <1>1, RealEmptied, RealScalar
  <2> HIDE DEF o
  <2>6. AllReal(conf')
    BY <2>2, <2>4, <2>5, PutReal
  <2> QED
    BY <1>3, <2>1, <2>3, <2>6
<1>6. CASE ListItem
  <2> DEFINE entry == IF T(1) \in {"BLOCK_ENTRY", "FLOW_ENTRY"} THEN 1 ELSE 0
             o == conf.options[yaml.opt]
             text == tokens[entry + 1].scalar
  <2>1. entry \in {0, 1}
    OBVIOUS
  <2>2. \/ UNCHANGED conf
        \/ T(entry + 1) = "SCALAR" /\ conf' = Put(conf, yaml.opt, FromScalar(o, text))
    BY <1>6 DEF ListItem, Put
  <2>3. tokens' = <<>> \/ Scanned(1) \/ Scanned(entry + 1)
    BY <1>6 DEF ListItem, ParseFails
  <2> HIDE DEF entry
  <2>4. T(entry + 1) = "SCALAR" => text # NULL
    BY <2>1, ScalarAt
  <2> HIDE DEF text
  <2>5. yaml.opt \in DOMAIN conf.options /\ text # NULL => Real(FromScalar(o, text))
    BY <1>1, RealScalar
  <2> HIDE DEF o
  <2>6. AllReal(conf')
    BY <2>2, <2>4, <2>5, PutReal
  <2> QED
    BY <1>3, <2>1, <2>3, <2>6
<1> QED
  BY <1>4, <1>5, <1>6 DEF config_parse_main

-----------------------------------------------------------------------------
(* What the sources say.                                                   *)

\* Every text the sources still have is one, and the list that is being read
\* is there.
Said ==
    /\ AllReal(conf) /\ environ \in Environments
    /\ files \in Seq(Documents \cup {NULL}) /\ tokens \in Seq(RealTokens)
    /\ pc = "env_list" => getenv(OuterName(conf.options[i])) # NULL

LEMMA FreshReal ==
    ASSUME NEW c, Fresh(c)
    PROVE  AllReal(c)
<1>1. ToSet(<<>>) = {}
  BY DEF ToSet
<1> QED
  BY <1>1 DEF Fresh, AllReal, Real

LEMMA InitSaid == Init => Said
<1> SUFFICES ASSUME Init PROVE Said
  OBVIOUS
<1>1. AllReal(conf)
  BY EmptyConfig, FreshReal DEF Init
<1>2. <<>> \in Seq(Documents \cup {NULL}) /\ <<>> \in Seq(RealTokens)
  BY EmptySeq
<1> QED
  BY <1>1, <1>2 DEF Init, Said

\* A variable that is set.
LEMMA Variable ==
    ASSUME environ \in Environments, NEW name, getenv(name) # NULL
    PROVE  /\ getenv(name).text \in STRING
           /\ getenv(name).tokens \in Seq(STRING)
<1>1. name \in DOMAIN environ /\ getenv(name) = environ[name]
  BY DEF getenv
<1>2. environ[name] \in [text : STRING, list : BOOLEAN, tokens : Seq(STRING)]
  BY <1>1, StartupAssumption
<1> QED
  BY <1>1, <1>2

\* One option changes, and stays the option it is.
LEMMA StaysOption ==
    ASSUME NEW c, Well(c), NEW k, NEW x, Sound(x), SameButValues(x, c.options[k])
    PROVE  OuterName(Put(c, k, x).options[k]) = OuterName(c.options[k])
<1>1. CASE k \in DOMAIN c.options
  <2>1. Put(c, k, x).options[k] = x
    BY <1>1, OptionChanged
  <2> QED
    BY <2>1 DEF OuterName, SameButValues
<1>2. CASE k \notin DOMAIN c.options
  BY <1>2, PutOutside
<1> QED
  BY <1>1, <1>2

LEMMA SaidByArgument ==
    ASSUME IInv, Said, ParseArgument
    PROVE  AllReal(conf')
<1> DEFINE o == ArgpOption(conf, argv[i].name)
           text == argv[i].text
           x == Locked(config_add_value_from_string(conf.options[o], text))
<1>1. UNCHANGED conf \/ conf' = Put(conf, o, x)
  BY DEF ParseArgument, parse_commandline_opt, Exit, Put
<1>2. text # NULL
  <2> DEFINE A == [kind : {"load", "log_output", "log_level", "config", "positional"},
                   name : Seq(STRING), text : STRING]
  <2>1. argv \in Seq(A) /\ i \in 1 .. Len(argv)
    BY StartupAssumption DEF IInv, Early, Control, ParseArgument
  <2>2. text \in STRING
    <3>1. argv[i] \in A
      BY <2>1, ElementOfSeq
    <3> QED
      BY <3>1
  <2> QED
    BY <2>2, RealTexts
<1>3. Well(conf) /\ AllReal(conf)
  BY DEF IInv, ConfInv, Said
<1> HIDE DEF o, text
<1>4. o \in DOMAIN conf.options => Real(x)
  <2> SUFFICES ASSUME o \in DOMAIN conf.options PROVE Real(x)
    OBVIOUS
  <2>1. Sound(conf.options[o]) /\ Real(conf.options[o])
    BY <1>3 DEF Well, AllReal
  <2> QED
    BY <1>2, <2>1, RealValue, RealLocked, ValueFromString
<1> HIDE DEF x
<1> QED
  BY <1>1, <1>3, <1>4, PutReal

LEMMA SaidByEnvironment ==
    ASSUME IInv, Said, ReadEnv \/ EnvToken
    PROVE  /\ AllReal(conf')
           /\ pc' = "env_list" => getenv(OuterName(conf.options[i]))' # NULL
<1> DEFINE o == conf.options[i]
           var == getenv(OuterName(o))
<1>1. /\ Well(conf) /\ AllReal(conf) /\ environ' = environ
      /\ i \in DOMAIN conf.options => Sound(o) /\ Real(o)
  BY DEF IInv, ConfInv, Said, Well, AllReal, ReadEnv, EnvToken, given
<1>2. CASE ReadEnv
  <2> DEFINE x == EnvText(o, var.text)
  <2>1. \/ UNCHANGED conf
        \/ conf' = Put(conf, i, x) /\ var # NULL /\ pc' = "env"
    BY <1>2 DEF ReadEnv, EnvSkips, Put
  <2>2. pc' = "env_list" => UNCHANGED <<conf, i>> /\ var # NULL
    BY <1>2 DEF ReadEnv, EnvSkips
  <2>3. pc' = "env_list" => getenv(OuterName(conf.options[i]))' # NULL
    BY <1>1, <2>2 DEF getenv
  <2>4. ASSUME var # NULL, i \in DOMAIN conf.options
        PROVE  Real(x)
    <3>1. var.text # NULL
      BY <2>4, Variable, RealTexts DEF Said
    <3> QED
      BY <1>1, <2>4, <3>1, RealValue, RealLocked, ValueFromString DEF EnvText
  <2> HIDE DEF x, var
  <2>5. AllReal(conf')
    BY <1>1, <2>1, <2>4, PutReal
  <2> QED
    BY <2>3, <2>5
<1>3. CASE EnvToken
  <2> DEFINE x == config_add_value_from_string(o, var.tokens[num])
  <2>1. pc = "env_list" /\ var # NULL
    BY <1>3 DEF EnvToken, Said
  <2>2. \/ num <= Len(var.tokens) /\ conf' = Put(conf, i, x) /\ i' = i
        \/ conf' = Put(conf, i, Locked(o)) /\ pc' = "env"
    BY <1>3 DEF EnvToken, Put
  <2>3. ASSUME i \in DOMAIN conf.options
        PROVE  Real(Locked(o))
    BY <1>1, <2>3, RealLocked
  <2>4. ASSUME i \in DOMAIN conf.options, num <= Len(var.tokens)
        PROVE  Real(x)
    <3>1. var.tokens \in Seq(STRING) /\ num \in Nat
      BY <2>1, Variable DEF Said, IInv, Control
    <3>2. num # 0
      BY <2>1 DEF IInv, Control
    <3>3. var.tokens[num] \in STRING
      BY <2>4, <3>1, <3>2, ElementOfSeq, LenProperties
    <3>4. var.tokens[num] # NULL
      BY <3>3, RealTexts
    <3> HIDE DEF var
    <3> QED
      BY <1>1, <2>4, <3>4, RealValue
  <2>5. i \in DOMAIN conf.options => Sound(x) /\ SameButValues(x, o)
    BY <1>1, ValueFromString
  <2> HIDE DEF x, var
  <2>6. AllReal(conf')
    BY <1>1, <2>2, <2>3, <2>4, PutReal
  <2>7. ASSUME pc' = "env_list"
        PROVE  getenv(OuterName(conf.options[i]))' # NULL
    <3>1. conf' = Put(conf, i, x) /\ i' = i
      BY <2>2, <2>7
    <3>2. OuterName(conf'.options[i]) = OuterName(o)
      <4>1. CASE i \in DOMAIN conf.options
        BY <1>1, <2>5, <3>1, <4>1, StaysOption
      <4>2. CASE i \notin DOMAIN conf.options
        BY <1>1, <3>1, <4>2, PutOutside
      <4> QED
        BY <4>1, <4>2
    <3>3. getenv(OuterName(conf.options[i]))' = getenv(OuterName(o))
      BY <1>1, <3>1, <3>2 DEF getenv
    <3> QED
      BY <2>1, <3>3 DEF var
  <2> QED
    BY <2>6, <2>7
<1> QED
  BY <1>2, <1>3

LEMMA SaidStep ==
    ASSUME IInv, Said, Main
    PROVE  Said'
<1> USE DEF Exit, Go, given, made, parserVars, loopVars, listening, history
<1>1. AllReal(conf) /\ environ \in Environments /\ ConfInv /\ Control
  BY DEF Said, IInv
<1>2. environ' = environ
  BY DEF Main, ParseEarlyArgument, EarlyArgumentsDone, LoggerNew, ConfigNew, LoadContainer, PluginDeclares,
         ContainerMade, DeclareOptions, ParseArgument, ArgumentsDone, ReadEnv, EnvToken, EnvDone,
         NextDirectory, DirectoriesDone, ScanEntry, NextFile, ParseStep, FileParsed, FilesDone,
         ContainerInit, ContainerDestroy, ConfigDestroy, LoggerDestroy
<1>3. ASSUME AllReal(conf'), UNCHANGED <<files, tokens>>, pc' # "env_list"
      PROVE  Said'
  BY <1>1, <1>2, <1>3 DEF Said
<1>4. AllReal(NoConfig) /\ AllReal(config_new)
  BY EmptyConfig, FreshReal
<1>5. CASE ParseEarlyArgument \/ EarlyArgumentsDone \/ LoggerNew \/ ConfigNew \/ LoadContainer \/ ContainerMade
  <2>1. /\ conf' \in {conf, NoConfig, config_new} /\ UNCHANGED <<files, tokens>>
        /\ pc' \in {"start", "exit", "logger", "config", "load", "create", "declare"}
    BY <1>5 DEF ParseEarlyArgument, EarlyArgumentsDone, LoggerNew, ConfigNew, LoadContainer, ContainerMade
  <2> QED
    BY <1>1, <1>3, <1>4, <2>1
<1>6. CASE PluginDeclares
  <2>1. Grows(conf', conf)
    BY <1>1, <1>6, PluginDeclared
  <2>2. UNCHANGED <<files, tokens>> /\ pc' = "create"
    BY <1>6 DEF PluginDeclares
  <2> QED
    BY <1>3, <2>1, <2>2, FreshReal DEF Grows
<1>7. CASE DeclareOptions
  <2>1. Well(conf) /\ Fresh(conf) /\ conf' = CoreSettings(WithCoreOptions(conf))
        /\ UNCHANGED <<files, tokens>> /\ pc' = "args"
    BY <1>1, <1>7 DEF ConfInv, DeclareOptions, Declaring
  <2>2. Grows(conf', conf)
    BY <2>1, CoreDeclared
  <2> QED
    BY <1>3, <2>1, <2>2, FreshReal DEF Grows
<1>8. CASE ParseArgument
  <2>1. UNCHANGED <<files, tokens>> /\ pc' # "env_list"
    BY <1>8 DEF ParseArgument
  <2> QED
    BY <1>3, <1>8, <2>1, SaidByArgument
<1>9. CASE ReadEnv \/ EnvToken
  <2>1. UNCHANGED <<files, tokens>>
    BY <1>9 DEF ReadEnv, EnvToken
  <2> QED
    BY <1>1, <1>2, <1>9, <2>1, SaidByEnvironment DEF Said
<1>10. CASE NextDirectory \/ ScanEntry \/ NextFile
  <2>1. UNCHANGED conf /\ pc' # "env_list"
    BY <1>10 DEF NextDirectory, ScanEntry, NextFile
  <2>2. files' \in Seq(Documents \cup {NULL})
    <3> DEFINE S == Documents \cup {NULL}
    <3>1. files \in Seq(S) /\ \A dir \in Directories : dir \in Seq(S)
      BY StartupAssumption DEF Said
    <3>2. \/ UNCHANGED files
          \/ files # <<>> /\ files' = Tail(files)
          \/ files' \in Directories
      BY <1>10 DEF NextDirectory, ScanEntry, NextFile
    <3> HIDE DEF S
    <3> QED
      BY <3>1, <3>2 DEF S
  <2>3. tokens' \in Seq(RealTokens)
    <3>1. UNCHANGED tokens \/ \E d \in Documents : tokens' = Tokens(d)
      <4>1. CASE NextDirectory
        BY <4>1 DEF NextDirectory
      <4>2. CASE ScanEntry
        <5>1. \/ UNCHANGED tokens
              \/ files # <<>> /\ Head(files) # NULL /\ tokens' = Tokens(Head(files))
          BY <4>2 DEF ScanEntry, config_parse
        <5>2. files # <<>> => Head(files) \in Documents \cup {NULL}
          <6> DEFINE S == Documents \cup {NULL}
          <6>1. files \in Seq(S)
            BY DEF Said
          <6> HIDE DEF S
          <6>2. files # <<>> => Head(files) \in S
            BY <6>1
          <6> QED
            BY <6>2 DEF S
        <5> QED
          BY <5>1, <5>2
      <4>3. CASE NextFile
        <5>1. UNCHANGED tokens \/ \E d \in Files : tokens' = Tokens(d)
          BY <4>3 DEF NextFile, config_parse
        <5> QED
          BY <5>1, StartupAssumption
      <4> QED
        BY <1>10, <4>1, <4>2, <4>3
    <3> QED
      BY <3>1, TokensTyped DEF Said
  <2> QED
    BY <1>1, <1>2, <2>1, <2>2, <2>3 DEF Said
<1>11. CASE ParseStep
  <2>1. UNCHANGED files /\ pc' # "env_list" /\ config_parse_main
    BY <1>11 DEF ParseStep
  <2>2. AllReal(conf') /\ tokens' \in Seq(RealTokens)
    BY <1>1, <2>1, ParserReal DEF ConfInv, Said
  <2> QED
    BY <1>1, <1>2, <2>1, <2>2 DEF Said
<1>12. CASE ArgumentsDone \/ EnvDone \/ DirectoriesDone \/ FileParsed \/ FilesDone \/ ContainerInit
            \/ ContainerDestroy \/ LoggerDestroy
  <2>1. UNCHANGED <<conf, files, tokens>> /\ pc' # "env_list"
    BY <1>12 DEF ArgumentsDone, EnvDone, DirectoriesDone, FileParsed, FilesDone, ContainerInit,
                 ContainerDestroy, LoggerDestroy
  <2> QED
    BY <1>1, <1>3, <2>1
<1>13. CASE ConfigDestroy
  <2>1. conf' = NoConfig /\ UNCHANGED <<files, tokens>> /\ pc' # "env_list"
    BY <1>13 DEF ConfigDestroy
  <2> QED
    BY <1>3, <1>4, <2>1
<1> QED
  BY <1>5, <1>6, <1>7, <1>8, <1>9, <1>10, <1>11, <1>12, <1>13 DEF Main

-----------------------------------------------------------------------------
(* The options of the core.                                                *)

CoreAt(c, name) == c.options[Find(c, Core, <<name>>)]

\* No option of the core was declared in front of main.
NoCore(c) == \A o \in DOMAIN c.options : c.options[o].section # Core

\* No default is a number.
TextDefaults(c) ==
    \A o \in DOMAIN c.options : c.options[o].default # NULL => c.options[o].default.is = "string"

\* The options main reads are as it declared them.
AsDeclared(c) ==
    /\ \A name \in CoreNamed : Has(c, Core, <<name>>)
    /\ CoreAt(c, "address").type = "PARAM_STRING"
    /\ CoreAt(c, "address").default = [is |-> "string", value |-> "127.0.0.1"]
    /\ CoreAt(c, "port").type = "PARAM_INT"
    /\ CoreAt(c, "port").value_min = 0 /\ CoreAt(c, "port").value_max = MaxPort
    /\ CoreAt(c, "port").default = [is |-> "int", value |-> 8080]
    /\ \A name \in {"config", "confd"} :
            CoreAt(c, name).type = "PARAM_STRING" /\ CoreAt(c, name).multivalued
    /\ DestroyIsSafe(c)

\* Sources give values, and change nothing of this.
LEMMA DeclaredKept ==
    ASSUME NEW c, Well(c), NEW d, Kept(d, c), AsDeclared(c)
    PROVE  AsDeclared(d)
<1>1. ASSUME NEW name \in CoreNamed
      PROVE  Has(d, Core, <<name>>) /\ SameButValues(CoreAt(d, name), CoreAt(c, name))
  <2> DEFINE k == Find(c, Core, <<name>>)
  <2>1. Has(c, Core, <<name>>)
    BY DEF AsDeclared
  <2>2. k \in DOMAIN c.options /\ c.options[k].section = Core /\ c.options[k].name = <<name>>
    BY <2>1, FindIs
  <2>3. Find(d, Core, <<name>>) = k
    BY FindKept
  <2> HIDE DEF k
  <2>4. SameButValues(d.options[k], c.options[k]) /\ k \in DOMAIN d.options
    BY <2>2 DEF Kept
  <2>5. Has(d, Core, <<name>>)
    BY <2>2, <2>4 DEF Has, SameButValues
  <2> QED
    BY <2>3, <2>4, <2>5 DEF CoreAt, k
<1>2. DestroyIsSafe(d)
  BY DEF AsDeclared, DestroyIsSafe, Kept, SameButValues
<1> QED
  BY <1>1, <1>2 DEF AsDeclared, CoreNamed, SameButValues

\* An option behind the others.
LEMMA AddedBehind ==
    ASSUME NEW c, Well(c), NEW section, NEW name, validate_name(section), validate_name(name),
           NEW type
    PROVE  LET new == rapp_config_opt_add(c, section, name, type)
               n   == Len(c.options)
           IN  /\ n \in Nat /\ DOMAIN c.options = 1 .. n
               /\ DOMAIN new.options = 1 .. n + 1 /\ Len(new.options) = n + 1
               /\ \A k \in 1 .. n : new.options[k] = c.options[k]
               /\ new.options[n + 1] = NewOption(section, name, type)
<1> DEFINE new == rapp_config_opt_add(c, section, name, type)
           o == NewOption(section, name, type)
<1>1. /\ c.options \in Seq(ToSet(c.options))
      /\ c = [live |-> c.live, options |-> c.options]
  BY DEF Well, Configuration
<1>2. new.options = Append(c.options, o)
  BY <1>1 DEF rapp_config_opt_add
<1> HIDE DEF o, new
<1>3. Len(c.options) \in Nat /\ DOMAIN c.options = 1 .. Len(c.options)
  BY <1>1
<1>4. new.options \in Seq(ToSet(new.options))
  BY <1>1, <1>2, AppendElement
<1>5. Len(new.options) = Len(c.options) + 1
  BY <1>1, <1>2, AppendElement
<1> QED
  BY <1>1, <1>2, <1>3, <1>4, <1>5, AppendElement DEF new, o

\* The four options of the core stand behind n others.
CoreBehind(c, n) ==
    /\ n \in Nat /\ DOMAIN c.options = 1 .. n + 4
    /\ \A k \in 1 .. n : c.options[k].section # Core
    /\ \A k \in n + 1 .. n + 4 : c.options[k].section = Core
    /\ c.options[n + 1].name = <<"address">> /\ c.options[n + 2].name = <<"port">>
    /\ c.options[n + 3].name = <<"config">> /\ c.options[n + 4].name = <<"confd">>

LEMMA FindBehind ==
    ASSUME NEW c, Well(c), NEW n, CoreBehind(c, n)
    PROVE  /\ Find(c, Core, <<"address">>) = n + 1 /\ Find(c, Core, <<"port">>) = n + 2
           /\ Find(c, Core, <<"config">>) = n + 3 /\ Find(c, Core, <<"confd">>) = n + 4
<1>1. /\ n \in Nat /\ DOMAIN c.options = 1 .. n + 4
      /\ \A j \in DOMAIN c.options :
            c.options[j].section = Core => j \in {n + 1, n + 2, n + 3, n + 4}
  BY DEF CoreBehind
<1>2. \A k \in {n + 1, n + 2, n + 3, n + 4} : k \in DOMAIN c.options /\ c.options[k].section = Core
  BY DEF CoreBehind
<1>3. /\ c.options[n + 1].name = <<"address">> /\ c.options[n + 2].name = <<"port">>
      /\ c.options[n + 3].name = <<"config">> /\ c.options[n + 4].name = <<"confd">>
  BY DEF CoreBehind
<1>4. /\ <<"address">> # <<"port">> /\ <<"address">> # <<"config">> /\ <<"address">> # <<"confd">>
      /\ <<"port">> # <<"config">> /\ <<"port">> # <<"confd">> /\ <<"config">> # <<"confd">>
  OBVIOUS
<1>5. ASSUME NEW name, NEW k \in {n + 1, n + 2, n + 3, n + 4}, c.options[k].name = name,
             \A j \in {n + 1, n + 2, n + 3, n + 4} : c.options[j].name = name => j = k
      PROVE  Find(c, Core, name) = k
  <2>1. \A j \in DOMAIN c.options : c.options[j].section = Core /\ c.options[j].name = name => j = k
    BY <1>1, <1>5
  <2> QED
    BY <1>2, <1>5, <2>1, FindOnly
<1> QED
  BY <1>3, <1>4, <1>5

\* One of them is replaced.
LEMMA PutBehind ==
    ASSUME NEW c, Well(c), NEW n, CoreBehind(c, n), NEW k \in n + 1 .. n + 4, NEW x,
           x.section = c.options[k].section, x.name = c.options[k].name
    PROVE  /\ CoreBehind(Put(c, k, x), n)
           /\ Put(c, k, x).options[k] = x
           /\ \A j \in 1 .. n + 4 : j # k => Put(c, k, x).options[j] = c.options[j]
<1> DEFINE d == Put(c, k, x)
<1>1. n \in Nat /\ DOMAIN c.options = 1 .. n + 4 /\ k \in DOMAIN c.options
  BY DEF CoreBehind
<1>2. DOMAIN d.options = 1 .. n + 4 /\ d.options[k] = x
      /\ \A j \in 1 .. n + 4 : j # k => d.options[j] = c.options[j]
  BY <1>1, PutIs
<1> HIDE DEF d
<1>3. \A j \in 1 .. n + 4 : d.options[j].section = c.options[j].section /\ d.options[j].name = c.options[j].name
  BY <1>2
<1>4. CoreBehind(d, n)
  <2>1. {n + 1, n + 2, n + 3, n + 4} \subseteq 1 .. n + 4
        /\ 1 .. n \subseteq 1 .. n + 4 /\ n + 1 .. n + 4 \subseteq 1 .. n + 4
    BY <1>1
  <2>2. \A j \in 1 .. n : d.options[j].section # Core
    BY <1>3, <2>1 DEF CoreBehind
  <2>3. \A j \in n + 1 .. n + 4 : d.options[j].section = Core
    BY <1>3, <2>1 DEF CoreBehind
  <2>4. /\ d.options[n + 1].name = <<"address">> /\ d.options[n + 2].name = <<"port">>
        /\ d.options[n + 3].name = <<"config">> /\ d.options[n + 4].name = <<"confd">>
    <3>1. n + 1 \in 1 .. n + 4 /\ n + 2 \in 1 .. n + 4 /\ n + 3 \in 1 .. n + 4 /\ n + 4 \in 1 .. n + 4
      BY <2>1
    <3> QED
      BY <1>3, <3>1 DEF CoreBehind
  <2> QED
    BY <1>1, <1>2, <2>2, <2>3, <2>4 DEF CoreBehind
<1> QED
  BY <1>2, <1>4 DEF d

LEMMA CoreAdded ==
    ASSUME NEW c, Well(c), Fresh(c), NoCore(c)
    PROVE  LET d == WithCoreOptions(c)
               n == Len(c.options)
           IN  /\ Well(d) /\ Fresh(d) /\ CoreBehind(d, n)
               /\ \A k \in 1 .. n : d.options[k] = c.options[k]
               /\ d.options[n + 1] = NewOption(Core, <<"address">>, "PARAM_STRING")
               /\ d.options[n + 2] = NewOption(Core, <<"port">>, "PARAM_INT")
               /\ d.options[n + 3] = NewOption(Core, <<"config">>, "PARAM_STRING")
               /\ d.options[n + 4] = NewOption(Core, <<"confd">>, "PARAM_STRING")
<1> DEFINE n == Len(c.options)
           c1 == rapp_config_opt_add(c, Core, <<"address">>, "PARAM_STRING")
           c2 == rapp_config_opt_add(c1, Core, <<"port">>, "PARAM_INT")
           c3 == rapp_config_opt_add(c2, Core, <<"config">>, "PARAM_STRING")
           c4 == rapp_config_opt_add(c3, Core, <<"confd">>, "PARAM_STRING")
           o1 == NewOption(Core, <<"address">>, "PARAM_STRING")
           o2 == NewOption(Core, <<"port">>, "PARAM_INT")
           o3 == NewOption(Core, <<"config">>, "PARAM_STRING")
           o4 == NewOption(Core, <<"confd">>, "PARAM_STRING")
<1>1. WithCoreOptions(c) = c4
  BY DEF WithCoreOptions
<1>2. {"PARAM_STRING", "PARAM_INT"} \subseteq ParamTypes
  BY DEF ParamTypes
<1>3. /\ o1.section = Core /\ o2.section = Core /\ o3.section = Core /\ o4.section = Core
      /\ o1.name = <<"address">> /\ o2.name = <<"port">> /\ o3.name = <<"config">> /\ o4.name = <<"confd">>
  BY DEF NewOption
<1>4. /\ Well(c1) /\ Fresh(c1) /\ n \in Nat /\ DOMAIN c.options = 1 .. n
      /\ DOMAIN c1.options = 1 .. n + 1 /\ Len(c1.options) = n + 1
      /\ \A k \in 1 .. n : c1.options[k] = c.options[k]
      /\ c1.options[n + 1] = o1
  BY <1>2, OptionAdded, CoreNames, AddedBehind DEF Grows
<1> HIDE DEF o1, o2, o3, o4, c1, n
<1>5. /\ Well(c2) /\ Fresh(c2)
      /\ DOMAIN c2.options = 1 .. n + 2 /\ Len(c2.options) = n + 2
      /\ \A k \in 1 .. n + 1 : c2.options[k] = c1.options[k]
      /\ c2.options[n + 2] = o2
  <2>1. Well(c2) /\ Fresh(c2)
    BY <1>2, <1>4, OptionAdded DEF Grows
  <2>2. /\ DOMAIN c2.options = 1 .. (n + 1) + 1 /\ Len(c2.options) = (n + 1) + 1
        /\ \A k \in 1 .. n + 1 : c2.options[k] = c1.options[k]
        /\ c2.options[(n + 1) + 1] = o2
    BY <1>4, CoreNames, AddedBehind DEF o2
  <2>3. (n + 1) + 1 = n + 2
    BY <1>4
  <2> QED
    BY <2>1, <2>2, <2>3
<1> HIDE DEF c2
<1>6. /\ Well(c3) /\ Fresh(c3)
      /\ DOMAIN c3.options = 1 .. n + 3 /\ Len(c3.options) = n + 3
      /\ \A k \in 1 .. n + 2 : c3.options[k] = c2.options[k]
      /\ c3.options[n + 3] = o3
  <2>1. Well(c3) /\ Fresh(c3)
    BY <1>2, <1>5, OptionAdded DEF Grows
  <2>2. /\ DOMAIN c3.options = 1 .. (n + 2) + 1 /\ Len(c3.options) = (n + 2) + 1
        /\ \A k \in 1 .. n + 2 : c3.options[k] = c2.options[k]
        /\ c3.options[(n + 2) + 1] = o3
    BY <1>5, CoreNames, AddedBehind DEF o3
  <2>3. (n + 2) + 1 = n + 3
    BY <1>4
  <2> QED
    BY <2>1, <2>2, <2>3
<1> HIDE DEF c3
<1>7. /\ Well(c4) /\ Fresh(c4)
      /\ DOMAIN c4.options = 1 .. n + 4
      /\ \A k \in 1 .. n + 3 : c4.options[k] = c3.options[k]
      /\ c4.options[n + 4] = o4
  <2>1. Well(c4) /\ Fresh(c4)
    BY <1>2, <1>6, OptionAdded DEF Grows
  <2>2. /\ DOMAIN c4.options = 1 .. (n + 3) + 1
        /\ \A k \in 1 .. n + 3 : c4.options[k] = c3.options[k]
        /\ c4.options[(n + 3) + 1] = o4
    BY <1>6, CoreNames, AddedBehind DEF o4
  <2>3. (n + 3) + 1 = n + 4
    BY <1>4
  <2> QED
    BY <2>1, <2>2, <2>3
<1> HIDE DEF c4
<1>8. /\ \A k \in 1 .. n : c4.options[k] = c.options[k]
      /\ c4.options[n + 1] = o1 /\ c4.options[n + 2] = o2 /\ c4.options[n + 3] = o3 /\ c4.options[n + 4] = o4
  <2>1. /\ n + 1 \in 1 .. n + 1 /\ n + 1 \in 1 .. n + 2 /\ n + 1 \in 1 .. n + 3
        /\ n + 2 \in 1 .. n + 2 /\ n + 2 \in 1 .. n + 3 /\ n + 3 \in 1 .. n + 3
    BY <1>4
  <2>2. c4.options[n + 3] = o3
    BY <1>6, <1>7, <2>1
  <2>3. c4.options[n + 2] = o2
    BY <1>5, <1>6, <1>7, <2>1
  <2>4. c4.options[n + 1] = o1
    BY <1>4, <1>5, <1>6, <1>7, <2>1
  <2>5. ASSUME NEW k \in 1 .. n
        PROVE  c4.options[k] = c.options[k]
    <3>1. k \in 1 .. n + 1 /\ k \in 1 .. n + 2 /\ k \in 1 .. n + 3
      BY <1>4
    <3> QED
      BY <1>4, <1>5, <1>6, <1>7, <3>1
  <2> QED
    BY <1>7, <2>2, <2>3, <2>4, <2>5
<1>9. CoreBehind(c4, n)
  <2>1. \A k \in 1 .. n : c4.options[k].section # Core
    BY <1>4, <1>8 DEF NoCore
  <2>2. \A k \in n + 1 .. n + 4 : c4.options[k].section = Core
    <3>1. \A k \in n + 1 .. n + 4 : k \in {n + 1, n + 2, n + 3, n + 4}
      BY <1>4
    <3> QED
      BY <1>3, <1>8, <3>1
  <2> QED
    BY <1>3, <1>4, <1>7, <1>8, <2>1, <2>2 DEF CoreBehind
<1>10. /\ Well(WithCoreOptions(c)) /\ Fresh(WithCoreOptions(c)) /\ CoreBehind(WithCoreOptions(c), n)
       /\ \A k \in 1 .. n : WithCoreOptions(c).options[k] = c.options[k]
       /\ WithCoreOptions(c).options[n + 1] = o1 /\ WithCoreOptions(c).options[n + 2] = o2
       /\ WithCoreOptions(c).options[n + 3] = o3 /\ WithCoreOptions(c).options[n + 4] = o4
  BY <1>1, <1>7, <1>8, <1>9
<1> QED
  BY <1>10 DEF n, o1, o2, o3, o4

LEMMA CoreSet ==
    ASSUME NEW c, Well(c), Fresh(c), NoCore(c), TextDefaults(c)
    PROVE  AsDeclared(CoreSettings(WithCoreOptions(c)))
<1> DEFINE n == Len(c.options)
           d4 == WithCoreOptions(c)
           d5 == rapp_config_opt_set_range_int(d4, Core, <<"port">>, 0, MaxPort)
           d6 == rapp_config_opt_set_default_string(d5, Core, <<"address">>, "127.0.0.1")
           d7 == rapp_config_opt_set_default_int(d6, Core, <<"port">>, 8080)
           d8 == rapp_config_opt_set_multivalued(d7, Core, <<"config">>, TRUE)
           d9 == rapp_config_opt_set_multivalued(d8, Core, <<"confd">>, TRUE)
           o1 == NewOption(Core, <<"address">>, "PARAM_STRING")
           o2 == NewOption(Core, <<"port">>, "PARAM_INT")
           o3 == NewOption(Core, <<"config">>, "PARAM_STRING")
           o4 == NewOption(Core, <<"confd">>, "PARAM_STRING")
           text == [is |-> "string", value |-> "127.0.0.1"]
           number == [is |-> "int", value |-> 8080]
           OfPorts(o) == [o EXCEPT !.value_min = 0, !.value_max = MaxPort, !.range_set = TRUE]
           o5 == OfPorts(o2)
           o6 == [o1 EXCEPT !.default = text]
           o7 == [o5 EXCEPT !.default = number]
           o8 == [o3 EXCEPT !.multivalued = TRUE]
           o9 == [o4 EXCEPT !.multivalued = TRUE]
<1>1. CoreSettings(d4) = d9
  BY DEF CoreSettings
<1>2. n \in Nat /\ DOMAIN c.options = 1 .. n
  BY DEF Well, Configuration
<1>3. /\ Well(d4) /\ Fresh(d4) /\ CoreBehind(d4, n)
      /\ \A k \in 1 .. n : d4.options[k] = c.options[k]
      /\ d4.options[n + 1] = o1 /\ d4.options[n + 2] = o2
      /\ d4.options[n + 3] = o3 /\ d4.options[n + 4] = o4
  BY CoreAdded
<1>4. /\ n + 1 # n + 2 /\ n + 1 # n + 3 /\ n + 1 # n + 4 /\ n + 2 # n + 3 /\ n + 2 # n + 4 /\ n + 3 # n + 4
      /\ {n + 1, n + 2, n + 3, n + 4} \subseteq n + 1 .. n + 4
      /\ {n + 1, n + 2, n + 3, n + 4} \subseteq 1 .. n + 4
      /\ 0 \notin {n + 1, n + 2, n + 3, n + 4}
  BY <1>2
<1>5. /\ o1.section = Core /\ o1.name = <<"address">> /\ o1.type = "PARAM_STRING"
      /\ o2.section = Core /\ o2.name = <<"port">> /\ o2.type = "PARAM_INT"
      /\ o3.section = Core /\ o3.name = <<"config">> /\ o3.type = "PARAM_STRING" /\ o3.default = NULL
      /\ o4.section = Core /\ o4.name = <<"confd">> /\ o4.type = "PARAM_STRING" /\ o4.default = NULL
  BY DEF NewOption
<1>6. /\ o5.section = Core /\ o5.name = <<"port">> /\ o5.type = "PARAM_INT"
      /\ o6.section = Core /\ o6.name = <<"address">> /\ o6.type = "PARAM_STRING" /\ o6.default = text
      /\ o7.section = Core /\ o7.name = <<"port">> /\ o7.type = "PARAM_INT"
      /\ o7.value_min = 0 /\ o7.value_max = MaxPort /\ o7.default = number
      /\ o8.section = Core /\ o8.name = <<"config">> /\ o8.type = "PARAM_STRING"
      /\ o8.multivalued = TRUE /\ o8.default = NULL
      /\ o9.section = Core /\ o9.name = <<"confd">> /\ o9.type = "PARAM_STRING"
      /\ o9.multivalued = TRUE /\ o9.default = NULL
  BY DEF NewOption
<1>7. d5 = Put(d4, n + 2, o5)
  <2> HIDE DEF n, d4, d5, d6, d7, d8, d9, o1, o2, o3, o4, o6, o7, o8, o9
  <2> DEFINE k == Find(d4, Core, <<"port">>)
  <2>1. k = n + 2
    BY <1>3, FindBehind
  <2>2. ~(k = 0 \/ d4.options[k].type # "PARAM_INT" \/ 0 >= MaxPort)
    BY <1>3, <1>4, <1>5, <2>1 DEF MaxPort
  <2>3. d5 = Put(d4, k, OfPorts(d4.options[k]))
    BY <2>2 DEF d5, rapp_config_opt_set_range_int, Put
  <2> HIDE DEF k, OfPorts
  <2> QED
    BY <1>3, <2>1, <2>3
<1> HIDE DEF n, d4, d5, d6, d7, d8, d9, o1, o2, o3, o4, o5, o6, o7, o8, o9
<1>8. Well(d5) /\ Fresh(d5)
  BY <1>3, RangeSet DEF Grows, d5, MaxPort
<1>9. Well(d6) /\ Fresh(d6)
  BY <1>8, DefaultSet DEF Grows, rapp_config_opt_set_default_string, d6
<1>10. Well(d7) /\ Fresh(d7)
  BY <1>9, DefaultSet DEF Grows, rapp_config_opt_set_default_int, d7
<1>11. Well(d8) /\ Fresh(d8)
  BY <1>10, MultivaluedSet DEF Grows, d8
<1>12. Well(d9) /\ Fresh(d9)
  BY <1>11, MultivaluedSet DEF Grows, d9
<1>13. /\ CoreBehind(d5, n) /\ d5.options[n + 2] = o5
       /\ \A j \in 1 .. n + 4 : j # n + 2 => d5.options[j] = d4.options[j]
  <2>1. n + 2 \in n + 1 .. n + 4 /\ o5.section = d4.options[n + 2].section /\ o5.name = d4.options[n + 2].name
    BY <1>3, <1>4, <1>5, <1>6
  <2> QED
    BY <1>3, <1>7, <2>1, PutBehind
<1>14. d6 = Put(d5, n + 1, o6)
  <2>1. Find(d5, Core, <<"address">>) = n + 1 /\ n + 1 # 0 /\ d5.options[n + 1] = o1
    BY <1>3, <1>4, <1>8, <1>13, FindBehind
  <2> QED
    BY <2>1 DEF d6, o6, rapp_config_opt_set_default_string, SetDefault, Put
<1>15. /\ CoreBehind(d6, n) /\ d6.options[n + 1] = o6
       /\ \A j \in 1 .. n + 4 : j # n + 1 => d6.options[j] = d5.options[j]
  <2>1. d5.options[n + 1] = o1
    BY <1>3, <1>4, <1>13
  <2>2. n + 1 \in n + 1 .. n + 4 /\ o6.section = o1.section /\ o6.name = o1.name
    BY <1>4, <1>5, <1>6
  <2> QED
    BY <1>8, <1>13, <1>14, <2>1, <2>2, PutBehind
<1>16. d7 = Put(d6, n + 2, o7)
  <2>1. Find(d6, Core, <<"port">>) = n + 2 /\ n + 2 # 0 /\ d6.options[n + 2] = o5
    BY <1>4, <1>9, <1>13, <1>15, FindBehind
  <2> QED
    BY <2>1 DEF d7, o7, rapp_config_opt_set_default_int, SetDefault, Put
<1>17. /\ CoreBehind(d7, n) /\ d7.options[n + 2] = o7
       /\ \A j \in 1 .. n + 4 : j # n + 2 => d7.options[j] = d6.options[j]
  <2>1. d6.options[n + 2] = o5
    BY <1>4, <1>13, <1>15
  <2>2. n + 2 \in n + 1 .. n + 4 /\ o7.section = o5.section /\ o7.name = o5.name
    BY <1>4, <1>6
  <2> QED
    BY <1>9, <1>15, <1>16, <2>1, <2>2, PutBehind
<1>18. d8 = Put(d7, n + 3, o8)
  <2>1. Find(d7, Core, <<"config">>) = n + 3 /\ n + 3 # 0 /\ d7.options[n + 3] = o3
    BY <1>3, <1>4, <1>10, <1>13, <1>15, <1>17, FindBehind
  <2> QED
    BY <2>1 DEF d8, o8, rapp_config_opt_set_multivalued, Put
<1>19. /\ CoreBehind(d8, n) /\ d8.options[n + 3] = o8
       /\ \A j \in 1 .. n + 4 : j # n + 3 => d8.options[j] = d7.options[j]
  <2>1. d7.options[n + 3] = o3
    BY <1>3, <1>4, <1>13, <1>15, <1>17
  <2>2. n + 3 \in n + 1 .. n + 4 /\ o8.section = o3.section /\ o8.name = o3.name
    BY <1>4, <1>5, <1>6
  <2> QED
    BY <1>10, <1>17, <1>18, <2>1, <2>2, PutBehind
<1>20. d9 = Put(d8, n + 4, o9)
  <2>1. Find(d8, Core, <<"confd">>) = n + 4 /\ n + 4 # 0 /\ d8.options[n + 4] = o4
    BY <1>3, <1>4, <1>11, <1>13, <1>15, <1>17, <1>19, FindBehind
  <2> QED
    BY <2>1 DEF d9, o9, rapp_config_opt_set_multivalued, Put
<1>21. /\ CoreBehind(d9, n) /\ d9.options[n + 4] = o9
       /\ \A j \in 1 .. n + 4 : j # n + 4 => d9.options[j] = d8.options[j]
  <2>1. d8.options[n + 4] = o4
    BY <1>3, <1>4, <1>13, <1>15, <1>17, <1>19
  <2> QED
    <3>1. n + 4 \in n + 1 .. n + 4 /\ o9.section = o4.section /\ o9.name = o4.name
      BY <1>4, <1>5, <1>6
    <3> QED
      BY <1>11, <1>19, <1>20, <2>1, <3>1, PutBehind
<1>22. /\ d9.options[n + 1] = o6 /\ d9.options[n + 2] = o7 /\ d9.options[n + 3] = o8 /\ d9.options[n + 4] = o9
  BY <1>4, <1>15, <1>17, <1>19, <1>21
<1>23. \A k \in 1 .. n : d9.options[k] = c.options[k]
  <2> SUFFICES ASSUME NEW k \in 1 .. n PROVE d9.options[k] = c.options[k]
    OBVIOUS
  <2>1. k \in 1 .. n + 4 /\ k \notin {n + 1, n + 2, n + 3, n + 4}
    BY <1>2
  <2> QED
    BY <1>3, <1>13, <1>15, <1>17, <1>19, <1>21, <2>1
<1>24. /\ CoreAt(d9, "address") = o6 /\ CoreAt(d9, "port") = o7
       /\ CoreAt(d9, "config") = o8 /\ CoreAt(d9, "confd") = o9
  BY <1>12, <1>21, <1>22, FindBehind DEF CoreAt
<1>25. \A name \in CoreNamed : Has(d9, Core, <<name>>)
  <2>1. \A name \in CoreNamed : Find(d9, Core, <<name>>) # 0
    BY <1>4, <1>12, <1>21, FindBehind DEF CoreNamed
  <2> QED
    BY <1>12, <2>1, FindIs
<1>26. DestroyIsSafe(d9)
  <2> SUFFICES ASSUME NEW k \in DOMAIN d9.options, d9.options[k].type = "PARAM_STRING",
                      d9.options[k].default # NULL
               PROVE  d9.options[k].default.is = "string"
    BY DEF DestroyIsSafe
  <2>1. k \in 1 .. n + 4
    BY <1>21 DEF CoreBehind
  <2>2. k \in 1 .. n \/ k \in {n + 1, n + 2, n + 3, n + 4}
    BY <1>2, <2>1
  <2>3. CASE k \in 1 .. n
    BY <1>2, <1>23, <2>3 DEF TextDefaults
  <2>4. CASE k \in {n + 1, n + 2, n + 3, n + 4}
    BY <1>6, <1>22, <2>4
  <2> QED
    BY <2>2, <2>3, <2>4
<1>27. AsDeclared(d9)
  BY <1>6, <1>24, <1>25, <1>26 DEF AsDeclared
<1> QED
  BY <1>1, <1>27 DEF d4


\* What is declared, and when.
Used == Reading \cup {"init", "serving", "destroy_config"}
TextInv == pc \in Declaring => TextDefaults(conf)
LoadInv == pc = "load" => NoCore(conf)
CreateInv == pc = "create" => NoCore(conf) \/ \E d \in ToSet(plugin.declares) : d.section = Core
DeclareInv == pc = "declare" => NoCore(conf) \/ Redeclares
DeclaredInv == pc \in Used => AsDeclared(conf) \/ Redeclares
CoreInv == TextInv /\ LoadInv /\ CreateInv /\ DeclareInv /\ DeclaredInv /\ Listens

LEMMA NothingDeclared ==
    ASSUME NEW c, c.options = <<>>
    PROVE  TextDefaults(c) /\ NoCore(c)
BY DEF TextDefaults, NoCore

LEMMA InitCoreInv == Init => CoreInv
<1> SUFFICES ASSUME Init PROVE CoreInv
  OBVIOUS
<1>1. TextDefaults(conf) /\ NoCore(conf)
  BY EmptyConfig, NothingDeclared DEF Init
<1> QED
  BY <1>1 DEF Init, CoreInv, TextInv, LoadInv, CreateInv, DeclareInv, DeclaredInv, Used, Reading, Listens

\* What rapp_create declares has no number for a default.
LEMMA PluginText ==
    ASSUME IInv, CoreInv, PluginDeclares
    PROVE  /\ TextDefaults(conf')
           /\ NoCore(conf') \/ \E d \in ToSet(plugin.declares) : d.section = Core
<1> DEFINE d     == plugin.declares[i]
           added == rapp_config_opt_add(conf, d.section, d.name, d.type)
           text  == [is |-> "string", value |-> d.default]
           x     == NewOption(d.section, d.name, d.type)
<1>1. Well(conf) /\ pc = "create" /\ TextDefaults(conf)
  BY DEF IInv, ConfInv, CoreInv, TextInv, PluginDeclares, Declaring
<1>2. d \in ToSet(plugin.declares) /\ d.type \in ParamTypes
  <2>1. i \in 1 .. Len(plugin.declares) /\ plugin \in Plugins
    BY <1>1, StartupAssumption DEF IInv, Control, PluginDeclares
  <2>2. plugin.declares[i] \in ToSet(plugin.declares)
    BY <2>1, StartupAssumption DEF ToSet
  <2> QED
    BY <2>1, <2>2, StartupAssumption
<1>3. conf' = added \/ conf' = SetDefault(added, d.section, d.name, text)
  BY DEF PluginDeclares, rapp_config_opt_set_default_string
<1>4. x.default = NULL /\ x.section = d.section
  BY DEF NewOption
<1>5. Well(added)
  BY <1>1, <1>2, OptionAdded DEF IInv, ConfInv, Declaring, Grows
<1> HIDE DEF d, added, text
<1>6. \A k \in DOMAIN added.options :
        \/ added.options[k] = x
        \/ k \in DOMAIN conf.options /\ added.options[k] = conf.options[k]
  <2>1. CASE ~(validate_name(d.section) /\ validate_name(d.name))
    BY <2>1 DEF added, rapp_config_opt_add
  <2>2. CASE validate_name(d.section) /\ validate_name(d.name)
    <3> DEFINE n == Len(conf.options)
    <3>1. /\ n \in Nat /\ DOMAIN conf.options = 1 .. n
          /\ DOMAIN added.options = 1 .. n + 1
          /\ \A k \in 1 .. n : added.options[k] = conf.options[k]
          /\ added.options[n + 1] = x
      BY <1>1, <2>2, AddedBehind DEF added
    <3> HIDE DEF n, x
    <3>2. ASSUME NEW k \in DOMAIN added.options
          PROVE  \/ added.options[k] = x
                 \/ k \in DOMAIN conf.options /\ added.options[k] = conf.options[k]
      <4>1. k \in 1 .. n \/ k = n + 1
        BY <3>1
      <4> QED
        BY <3>1, <4>1
    <3> QED
      BY <3>2
  <2> QED
    BY <2>1, <2>2
<1> HIDE DEF x
<1>7. TextDefaults(added) /\ (NoCore(added) \/ ~NoCore(conf) \/ d.section = Core)
  BY <1>1, <1>4, <1>6 DEF TextDefaults, NoCore
<1>8. ASSUME conf' = SetDefault(added, d.section, d.name, text)
      PROVE  TextDefaults(conf') /\ (NoCore(added) => NoCore(conf'))
  <2> DEFINE k == Find(added, d.section, d.name)
             y == [added.options[k] EXCEPT !.default = text]
  <2>1. k = 0 => conf' = added
    BY <1>8 DEF SetDefault
  <2>2. k # 0 => conf' = Put(added, k, y)
    BY <1>8 DEF SetDefault, Put
  <2>3. k # 0 => k \in DOMAIN added.options
    BY <1>5, FindIs
  <2> HIDE DEF k
  <2>4. text.is = "string"
    BY DEF text
  <2>5. k # 0 => y.default = text /\ y.section = added.options[k].section
    <3>1. k # 0 => Option(added.options[k])
      BY <1>5, <2>3 DEF Well, Sound
    <3> QED
      BY <3>1 DEF Option
  <2> HIDE DEF y
  <2>6. k # 0 => /\ DOMAIN conf'.options = DOMAIN added.options
                 /\ \A j \in DOMAIN added.options :
                        conf'.options[j] = IF j = k THEN y ELSE added.options[j]
    BY <1>5, <2>2, PutIs
  <2> QED
    BY <1>7, <2>1, <2>3, <2>4, <2>5, <2>6 DEF TextDefaults, NoCore
<1>9. TextDefaults(conf') /\ (NoCore(conf') \/ ~NoCore(conf) \/ d.section = Core)
  BY <1>3, <1>7, <1>8
<1>10. ~NoCore(conf) => \E e \in ToSet(plugin.declares) : e.section = Core
  BY <1>1 DEF CoreInv, CreateInv
<1> QED
  BY <1>2, <1>9, <1>10

\* What main listens to.
LEMMA ListensTo ==
    ASSUME IInv, Said, AsDeclared(conf)
    PROVE  /\ rapp_config_get_nth(conf, Core, <<"address">>, {"PARAM_STRING"}, 0) # NULL
           /\ rapp_config_get_nth(conf, Core, <<"port">>, {"PARAM_INT", "PARAM_BOOL"}, 0) \in 0 .. MaxPort
<1> DEFINE a == Find(conf, Core, <<"address">>)
           p == Find(conf, Core, <<"port">>)
           oa == conf.options[a]
           op == conf.options[p]
           text == [is |-> "string", value |-> "127.0.0.1"]
           number == [is |-> "int", value |-> 8080]
<1>1. Well(conf) /\ AllReal(conf)
  BY DEF IInv, ConfInv, Said
<1>2. a # 0 /\ a \in DOMAIN conf.options /\ p # 0 /\ p \in DOMAIN conf.options
  BY <1>1, FindIs DEF AsDeclared, CoreNamed
<1>3. /\ oa.type = "PARAM_STRING" /\ oa.default = text
      /\ op.type = "PARAM_INT" /\ op.value_min = 0 /\ op.value_max = MaxPort /\ op.default = number
  BY DEF AsDeclared, CoreAt
<1>4. /\ text # NULL /\ text.value = "127.0.0.1" /\ "127.0.0.1" # NULL
      /\ number # NULL /\ number.value = 8080
  BY StartupAssumption
<1> DEFINE va == rapp_config_get_nth(conf, Core, <<"address">>, {"PARAM_STRING"}, 0)
           vp == rapp_config_get_nth(conf, Core, <<"port">>, {"PARAM_INT", "PARAM_BOOL"}, 0)
           First(o, v) == IF o.values = <<>> /\ o.default # NULL THEN v = o.default.value
                          ELSE IF 0 >= Len(o.values) THEN v = NULL ELSE v = o.values[0 + 1]
<1>5. First(oa, va) /\ First(op, vp)
  BY <1>2, <1>3 DEF rapp_config_get_nth
<1>6. /\ oa.values \in Seq(ToSet(oa.values)) /\ NULL \notin ToSet(oa.values)
      /\ op.values \in Seq(ToSet(op.values)) /\ ToSet(op.values) \subseteq 0 .. MaxPort
  <2>1. Sound(oa) /\ Real(oa) /\ Sound(op)
    BY <1>1, <1>2 DEF Well, AllReal
  <2> HIDE DEF oa, op
  <2>2. ToSet(op.values) \subseteq op.value_min .. op.value_max
    BY <1>3, <2>1 DEF Sound, ValuesFit
  <2> QED
    BY <1>3, <2>1, <2>2 DEF Sound, Option, Real
<1> HIDE DEF va, vp, oa, op, text, number
<1>7. ASSUME NEW o, NEW v, First(o, v), o.values \in Seq(ToSet(o.values)), o.default # NULL
      PROVE  v = o.default.value \/ v \in ToSet(o.values)
  <2>1. CASE o.values = <<>>
    BY <1>7, <2>1
  <2>2. CASE o.values # <<>>
    <3>1. Len(o.values) \in Nat /\ Len(o.values) # 0
      BY <1>7, <2>2, EmptySeq, LenProperties
    <3>2. v = o.values[1] /\ 1 \in 1 .. Len(o.values)
      BY <1>7, <2>2, <3>1
    <3> QED
      BY <1>7, <3>2, ElementOfSeq
  <2> QED
    BY <2>1, <2>2
<1> HIDE DEF First
<1>8. va # NULL
  <2>1. va = oa.default.value \/ va \in ToSet(oa.values)
    BY <1>3, <1>4, <1>5, <1>6, <1>7
  <2> QED
    BY <1>3, <1>4, <1>6, <2>1
<1>9. vp \in 0 .. MaxPort
  <2>1. vp = op.default.value \/ vp \in ToSet(op.values)
    BY <1>3, <1>4, <1>5, <1>6, <1>7
  <2>2. op.default.value \in 0 .. MaxPort
    BY <1>3, <1>4 DEF MaxPort
  <2>3. ToSet(op.values) \subseteq 0 .. MaxPort
    BY <1>6
  <2> QED
    BY <2>1, <2>2, <2>3
<1> QED
  BY <1>8, <1>9 DEF va, vp

\* While the options are declared.
LEMMA CoreDeclaring ==
    ASSUME pc' \in Declaring, TextDefaults(conf'),
           pc' = "load" => NoCore(conf'),
           pc' = "create" => NoCore(conf') \/ \E d \in ToSet(plugin'.declares) : d.section = Core,
           pc' = "declare" => NoCore(conf') \/ Redeclares'
    PROVE  CoreInv'
<1>1. pc' \notin Used /\ pc' # "serving" /\ pc' # "undefined"
  BY DEF Declaring, Reading, Used
<1>2. TextInv' /\ LoadInv'
  BY DEF TextInv, LoadInv
<1>3. CreateInv' /\ DeclareInv'
  BY DEF CreateInv, DeclareInv
<1>4. DeclaredInv' /\ Listens'
  BY <1>1 DEF DeclaredInv, Listens
<1> QED
  BY <1>2, <1>3, <1>4 DEF CoreInv

\* Behind the declarations.
LEMMA CoreUsed ==
    ASSUME pc' \in Reading \cup {"init", "destroy_config"}, Redeclares' \/ AsDeclared(conf')
    PROVE  CoreInv'
<1>1. pc' \notin Declaring /\ pc' \notin {"load", "create", "declare", "serving", "undefined"}
  BY DEF Declaring, Reading
<1>2. TextInv' /\ LoadInv'
  BY <1>1 DEF TextInv, LoadInv
<1>3. CreateInv' /\ DeclareInv'
  BY <1>1 DEF CreateInv, DeclareInv
<1>4. DeclaredInv' /\ Listens'
  BY <1>1 DEF DeclaredInv, Listens
<1> QED
  BY <1>2, <1>3, <1>4 DEF CoreInv

LEMMA CoreEnds ==
    ASSUME pc' \in {"exit", "destroy_logger", "ended"}
    PROVE  CoreInv'
<1>1. /\ pc' \notin Declaring /\ pc' \notin {"load", "create", "declare", "serving", "undefined"}
      /\ pc' \notin Used
  BY DEF Declaring, Reading, Used
<1>2. TextInv' /\ LoadInv'
  BY <1>1 DEF TextInv, LoadInv
<1>3. CreateInv' /\ DeclareInv'
  BY <1>1 DEF CreateInv, DeclareInv
<1>4. DeclaredInv' /\ Listens'
  BY <1>1 DEF DeclaredInv, Listens
<1> QED
  BY <1>2, <1>3, <1>4 DEF CoreInv

LEMMA CoreStep ==
    ASSUME IInv, Said, CoreInv, Main
    PROVE  CoreInv'
<1> USE DEF Exit, Go, given, made, parserVars, loopVars, listening, history
<1>1. ConfInv /\ Control /\ Life
  BY DEF IInv
<1>2. TextDefaults(NoConfig) /\ NoCore(NoConfig) /\ TextDefaults(config_new) /\ NoCore(config_new)
  BY EmptyConfig, NothingDeclared
<1>0. pc' = "exit" => CoreInv'
  BY CoreEnds
<1>3. CASE ParseEarlyArgument \/ EarlyArgumentsDone \/ LoggerNew
  <2>1. UNCHANGED conf /\ pc \in Declaring /\ pc' \in {"start", "logger", "config", "exit"}
    BY <1>3 DEF ParseEarlyArgument, EarlyArgumentsDone, LoggerNew, Declaring
  <2>2. TextDefaults(conf')
    BY <2>1 DEF CoreInv, TextInv
  <2>3. pc' # "exit" => pc' \in Declaring /\ pc' \notin {"load", "create", "declare"}
    BY <2>1 DEF Declaring
  <2> QED
    BY <1>0, <2>2, <2>3, CoreDeclaring
<1>4. CASE ConfigNew
  <2>1. /\ pc' \in {"load", "declare", "exit"}
        /\ pc' # "exit" => conf' = config_new
    BY <1>4 DEF ConfigNew
  <2>2. pc' # "exit" => pc' \in Declaring /\ pc' # "create"
    BY <2>1 DEF Declaring
  <2> QED
    BY <1>0, <1>2, <2>1, <2>2, CoreDeclaring
<1>5. CASE LoadContainer
  <2>1. /\ pc = "load" /\ pc' \in {"create", "exit"}
        /\ pc' # "exit" => UNCHANGED conf
    BY <1>5 DEF LoadContainer
  <2>2. TextDefaults(conf) /\ NoCore(conf)
    BY <2>1 DEF CoreInv, TextInv, LoadInv, Declaring
  <2>3. pc' # "exit" => pc' \in Declaring /\ pc' \notin {"load", "declare"}
    BY <2>1 DEF Declaring
  <2> QED
    BY <1>0, <2>1, <2>2, <2>3, CoreDeclaring
<1>6. CASE PluginDeclares
  <2>1. pc' = "create" /\ UNCHANGED plugin
    BY <1>6 DEF PluginDeclares
  <2>2. pc' \in Declaring /\ pc' \notin {"load", "declare"}
    BY <2>1 DEF Declaring
  <2>3. TextDefaults(conf') /\ (NoCore(conf') \/ \E d \in ToSet(plugin'.declares) : d.section = Core)
    BY <1>6, <2>1, PluginText
  <2> QED
    BY <2>2, <2>3, CoreDeclaring
<1>7. CASE ContainerMade
  <2>1. /\ pc = "create" /\ pc' \in {"declare", "exit"}
        /\ pc' # "exit" => UNCHANGED <<conf, plugin>> /\ container' = "made"
    BY <1>7 DEF ContainerMade
  <2>2. TextDefaults(conf) /\ (NoCore(conf) \/ \E d \in ToSet(plugin.declares) : d.section = Core)
    BY <2>1 DEF CoreInv, TextInv, CreateInv, Declaring
  <2>3. pc' # "exit" => NoCore(conf') \/ Redeclares'
    BY <2>1, <2>2 DEF Redeclares
  <2>4. pc' # "exit" => pc' \in Declaring /\ pc' \notin {"load", "create"} /\ TextDefaults(conf')
    BY <2>1, <2>2 DEF Declaring
  <2> QED
    BY <1>0, <2>3, <2>4, CoreDeclaring
<1>8. CASE DeclareOptions
  <2>1. /\ pc = "declare" /\ pc' = "args" /\ UNCHANGED <<container, plugin>>
        /\ conf' = CoreSettings(WithCoreOptions(conf))
    BY <1>8 DEF DeclareOptions
  <2>2. Well(conf) /\ Fresh(conf) /\ TextDefaults(conf) /\ (NoCore(conf) \/ Redeclares)
    BY <1>1, <2>1 DEF CoreInv, TextInv, DeclareInv, ConfInv, Declaring
  <2>3. Redeclares' <=> Redeclares
    BY <2>1 DEF Redeclares
  <2>4. pc' \in Reading
    BY <2>1 DEF Reading
  <2> QED
    BY <2>1, <2>2, <2>3, <2>4, CoreSet, CoreUsed
<1>9. CASE ParseArgument \/ ReadEnv \/ EnvToken \/ ParseStep
  <2>1. Kept(conf', conf)
    BY <1>1, <1>9, SourceStep
  <2>2. pc \in Reading /\ pc' \in Reading \cup {"exit"} /\ UNCHANGED <<container, plugin>>
    <3>1. CASE ParseArgument
      BY <3>1 DEF ParseArgument, Reading
    <3>2. CASE ReadEnv
      BY <3>2 DEF ReadEnv, Reading
    <3>3. CASE EnvToken
      BY <3>3 DEF EnvToken, Reading
    <3>4. CASE ParseStep
      BY <3>4 DEF ParseStep, Reading
    <3> QED
      BY <1>9, <3>1, <3>2, <3>3, <3>4
  <2>3. Redeclares \/ AsDeclared(conf)
    BY <2>2 DEF CoreInv, DeclaredInv, Used
  <2>4. Redeclares' <=> Redeclares
    BY <2>2 DEF Redeclares
  <2>5. AsDeclared(conf) => AsDeclared(conf')
    BY <1>1, <2>1, DeclaredKept DEF ConfInv
  <2> QED
    BY <1>0, <2>2, <2>3, <2>4, <2>5, CoreUsed
<1>10. CASE ArgumentsDone \/ EnvDone \/ NextDirectory \/ DirectoriesDone \/ ScanEntry \/ NextFile
            \/ FileParsed \/ FilesDone
  <2>1. UNCHANGED <<conf, container, plugin>> /\ pc \in Reading /\ pc' \in Reading \cup {"exit", "init"}
    BY <1>10 DEF ArgumentsDone, EnvDone, NextDirectory, DirectoriesDone, ScanEntry, NextFile,
                 FileParsed, FilesDone, Reading
  <2>2. Redeclares \/ AsDeclared(conf)
    BY <2>1 DEF CoreInv, DeclaredInv, Used
  <2>3. Redeclares' <=> Redeclares
    BY <2>1 DEF Redeclares
  <2> QED
    BY <1>0, <2>1, <2>2, <2>3, CoreUsed
<1>11. CASE ContainerInit
  <2>1. /\ pc = "init" /\ pc' = "serving" /\ UNCHANGED <<conf, container, plugin>>
        /\ address' = rapp_config_get_nth(conf, Core, <<"address">>, {"PARAM_STRING"}, 0)
        /\ port' = rapp_config_get_nth(conf, Core, <<"port">>, {"PARAM_INT", "PARAM_BOOL"}, 0)
    BY <1>11 DEF ContainerInit
  <2>2. Redeclares \/ AsDeclared(conf)
    BY <2>1 DEF CoreInv, DeclaredInv, Used
  <2>3. Redeclares' <=> Redeclares
    BY <2>1 DEF Redeclares
  <2>4. AsDeclared(conf) => address' # NULL /\ port' \in 0 .. MaxPort
    BY <2>1, ListensTo
  <2>5. pc' \notin Declaring /\ pc' \notin {"load", "create", "declare", "undefined"}
    BY <2>1 DEF Declaring
  <2>6. TextInv' /\ LoadInv'
    BY <2>5 DEF TextInv, LoadInv
  <2>7. CreateInv' /\ DeclareInv'
    BY <2>5 DEF CreateInv, DeclareInv
  <2>8. DeclaredInv'
    BY <2>1, <2>2, <2>3 DEF DeclaredInv
  <2>9. Listens'
    BY <2>2, <2>3, <2>4, <2>5 DEF Listens
  <2> QED
    BY <2>6, <2>7, <2>8, <2>9 DEF CoreInv
<1>12. CASE ContainerDestroy
  <2>1. /\ pc = "serving" /\ pc' = "destroy_config" /\ UNCHANGED <<conf, plugin>>
        /\ container = "made" /\ container' # "none"
    BY <1>1, <1>12 DEF ContainerDestroy, Life
  <2>2. Redeclares \/ AsDeclared(conf)
    BY <2>1 DEF CoreInv, DeclaredInv, Used
  <2>3. Redeclares' <=> Redeclares
    BY <2>1 DEF Redeclares
  <2> QED
    BY <2>1, <2>2, <2>3, CoreUsed
<1>13. CASE ConfigDestroy
  <2>1. /\ pc = "destroy_config" /\ UNCHANGED <<container, plugin>>
        /\ pc' \in {"destroy_logger", "undefined"}
        /\ pc' = "undefined" => ~DestroyIsSafe(conf)
    BY <1>13 DEF ConfigDestroy
  <2>2. Redeclares \/ DestroyIsSafe(conf)
    BY <2>1 DEF CoreInv, DeclaredInv, Used, AsDeclared
  <2>3. Redeclares' <=> Redeclares
    BY <2>1 DEF Redeclares
  <2>4. CASE pc' = "undefined"
    <3>1. /\ pc' \notin Declaring /\ pc' \notin {"load", "create", "declare", "serving"}
          /\ pc' \notin Used
      BY <2>4 DEF Declaring, Reading, Used
    <3>2. TextInv' /\ LoadInv'
      BY <3>1 DEF TextInv, LoadInv
    <3>3. CreateInv' /\ DeclareInv'
      BY <3>1 DEF CreateInv, DeclareInv
    <3>4. DeclaredInv' /\ Listens'
      BY <2>1, <2>2, <2>3, <2>4, <3>1 DEF DeclaredInv, Listens
    <3> QED
      BY <3>2, <3>3, <3>4 DEF CoreInv
  <2> QED
    BY <2>1, <2>4, CoreEnds
<1>14. CASE LoggerDestroy
  <2>1. pc' = "ended"
    BY <1>14 DEF LoggerDestroy
  <2> QED
    BY <2>1, CoreEnds
<1> QED
  BY <1>3, <1>4, <1>5, <1>6, <1>7, <1>8, <1>9, <1>10, <1>11, <1>12, <1>13, <1>14 DEF Main

-----------------------------------------------------------------------------
(* The counts main reads once.                                             *)

Unread == Declaring \cup {"args", "env", "env_list"}

\* Every path of the option was opened, or the first i of the num it has,
\* as long as no file can change it.
Complete(name) == CoreAt(conf, name).no_override => opened[name] = CoreAt(conf, name).values
Counted(name) ==
    /\ i <= num
    /\ CoreAt(conf, name).no_override =>
            /\ num = Len(CoreAt(conf, name).values)
            /\ opened[name] = SubSeq(CoreAt(conf, name).values, 1, i)

OpenedInv ==
    /\ opened = [confd |-> opened.confd, config |-> opened.config]
    /\ pc \in Unread => opened.confd = <<>>
    /\ pc \in Unread \cup {"confd", "scan"} => opened.config = <<>>

\* Until the files are read, what has a value is locked, but for the option
\* whose list is being read.
LockedInv ==
    pc \in {"args", "env", "env_list"} =>
        \A o \in DOMAIN conf.options :
            conf.options[o].values = <<>> \/ conf.options[o].no_override \/ (pc = "env_list" /\ o = i)

DirsInv == pc \in {"confd", "scan"} => Counted("confd") /\ (CoreAt(conf, "confd").no_override \/ num = 0)
FilesInv == pc = "configs" => Complete("confd") /\ Counted("config")
DoneInv == pc \in {"init", "serving"} => Complete("confd") /\ Complete("config")
StaleInv == reason = "stale_count" => Redeclares \/ ~CoreAt(conf, "config").no_override

Counts == OpenedInv /\ LockedInv /\ DirsInv /\ FilesInv /\ DoneInv /\ StaleInv

LEMMA InitCounts == Init => Counts
<1> SUFFICES ASSUME Init PROVE Counts
  OBVIOUS
<1>1. pc = "start" /\ reason = "none" /\ opened = [confd |-> <<>>, config |-> <<>>]
  BY DEF Init
<1>2. OpenedInv
  BY <1>1 DEF OpenedInv
<1>3. LockedInv /\ DirsInv /\ FilesInv /\ DoneInv /\ StaleInv
  BY <1>1 DEF LockedInv, DirsInv, FilesInv, DoneInv, StaleInv
<1> QED
  BY <1>2, <1>3 DEF Counts

\* One path more.
LEMMA OneMore ==
    ASSUME NEW S, NEW s \in Seq(S), NEW k \in Nat, k < Len(s)
    PROVE  Append(SubSeq(s, 1, k), s[k + 1]) = SubSeq(s, 1, k + 1)
<1>1. s[k + 1] \in S
  BY ElementOfSeq
<1>2. /\ SubSeq(s, 1, k) \in Seq(S) /\ Len(SubSeq(s, 1, k)) = k
      /\ \A j \in 1 .. k : SubSeq(s, 1, k)[j] = s[j]
  BY SubSeqProperties
<1>3. /\ SubSeq(s, 1, k + 1) \in Seq(S) /\ Len(SubSeq(s, 1, k + 1)) = k + 1
      /\ \A j \in 1 .. k + 1 : SubSeq(s, 1, k + 1)[j] = s[j]
  BY SubSeqProperties
<1>4. /\ Append(SubSeq(s, 1, k), s[k + 1]) \in Seq(S)
      /\ Len(Append(SubSeq(s, 1, k), s[k + 1])) = k + 1
      /\ \A j \in 1 .. k + 1 : Append(SubSeq(s, 1, k), s[k + 1])[j] = s[j]
  BY <1>1, <1>2, AppendProperties
<1> QED
  BY <1>3, <1>4, SeqEqual

\* An option of the core that main has asked for.
LEMMA AskedFor ==
    ASSUME Well(conf), NEW name, Has(conf, Core, <<name>>)
    PROVE  LET k == Find(conf, Core, <<name>>)
               o == CoreAt(conf, name)
           IN  /\ k # 0 /\ k \in DOMAIN conf.options /\ o = conf.options[k]
               /\ Sound(o) /\ o.values \in Seq(ToSet(o.values)) /\ Len(o.values) \in Nat
               /\ rapp_config_get_num_values(conf, Core, <<name>>) = Len(o.values)
<1>1. /\ Find(conf, Core, <<name>>) # 0 /\ Find(conf, Core, <<name>>) \in DOMAIN conf.options
      /\ CoreAt(conf, name) = conf.options[Find(conf, Core, <<name>>)]
  BY FindIs DEF CoreAt
<1>2. Sound(CoreAt(conf, name))
  BY <1>1 DEF Well
<1>3. CoreAt(conf, name).values \in Seq(ToSet(CoreAt(conf, name).values))
  BY <1>2 DEF Sound, Option
<1>4. rapp_config_get_num_values(conf, Core, <<name>>) = Len(CoreAt(conf, name).values)
  BY DEF rapp_config_get_num_values, CoreAt
<1> QED
  BY <1>1, <1>2, <1>3, <1>4, LenProperties

LEMMA PathIs ==
    ASSUME Well(conf), NEW name, Has(conf, Core, <<name>>), i \in Nat,
           i < Len(CoreAt(conf, name).values)
    PROVE  /\ Path(<<name>>) # NULL => Path(<<name>>) = CoreAt(conf, name).values[i + 1]
           /\ CoreAt(conf, name).type = "PARAM_STRING" /\ CoreAt(conf, name).multivalued =>
                    Path(<<name>>) = CoreAt(conf, name).values[i + 1]
<1> DEFINE k == Find(conf, Core, <<name>>)
           o == CoreAt(conf, name)
           path == rapp_config_get_nth(conf, Core, <<name>>, {"PARAM_STRING"}, i)
<1>1. /\ k # 0 /\ o = conf.options[k] /\ o.values \in Seq(ToSet(o.values)) /\ Len(o.values) \in Nat
  BY AskedFor
<1>2. path = IF k = 0 \/ o.type \notin {"PARAM_STRING"} \/ (~o.multivalued /\ i # 0) THEN NULL
             ELSE IF o.values = <<>> /\ o.default # NULL
             THEN IF i = 0 THEN o.default.value ELSE NULL
             ELSE IF i >= Len(o.values) THEN NULL ELSE o.values[i + 1]
  BY <1>1 DEF rapp_config_get_nth
<1>3. path = Path(<<name>>)
  BY DEF Path
<1> HIDE DEF path, o, k
<1>4. o.values # <<>>
  BY <1>1, EmptySeq DEF o
<1>5. i < Len(o.values)
  BY DEF o
<1>6. path = IF o.type # "PARAM_STRING" \/ (~o.multivalued /\ i # 0) THEN NULL ELSE o.values[i + 1]
  BY <1>1, <1>2, <1>4, <1>5
<1> QED
  BY <1>3, <1>6 DEF o

\* Where the paths are as main declared them, none is missing.
LEMMA NoPathMissing ==
    ASSUME Well(conf), AllReal(conf), AsDeclared(conf), NEW name \in {"confd", "config"}, i \in Nat,
           i < Len(CoreAt(conf, name).values)
    PROVE  Path(<<name>>) # NULL
<1> DEFINE o == CoreAt(conf, name)
<1>1. Has(conf, Core, <<name>>) /\ o.type = "PARAM_STRING" /\ o.multivalued
  BY DEF AsDeclared, CoreNamed
<1>2. /\ o.values \in Seq(ToSet(o.values)) /\ Len(o.values) \in Nat /\ Real(o)
  BY <1>1, AskedFor DEF AllReal
<1>3. Path(<<name>>) = o.values[i + 1]
  BY <1>1, PathIs
<1> HIDE DEF o
<1>4. o.values[i + 1] \in ToSet(o.values)
  <2>1. i < Len(o.values)
    BY DEF o
  <2> QED
    BY <1>2, <2>1, ElementOfSeq
<1> QED
  BY <1>1, <1>2, <1>3, <1>4 DEF Real

\* A path more of an option that is locked.
LEMMA OpensNext ==
    ASSUME Well(conf), NEW name, Has(conf, Core, <<name>>), i \in Nat, num \in Nat, i < num, Counted(name),
           Path(<<name>>) # NULL, CoreAt(conf, name).no_override
    PROVE  /\ num = Len(CoreAt(conf, name).values)
           /\ Append(opened[name], Path(<<name>>)) = SubSeq(CoreAt(conf, name).values, 1, i + 1)
<1> DEFINE o == CoreAt(conf, name)
<1>1. o.values \in Seq(ToSet(o.values)) /\ Len(o.values) \in Nat
  BY AskedFor
<1>2. num = Len(o.values) /\ opened[name] = SubSeq(o.values, 1, i)
  BY DEF Counted
<1>3. Path(<<name>>) = o.values[i + 1]
  BY <1>2, PathIs
<1> HIDE DEF o
<1>4. Append(SubSeq(o.values, 1, i), o.values[i + 1]) = SubSeq(o.values, 1, i + 1)
  BY <1>1, <1>2, OneMore
<1> QED
  BY <1>2, <1>3, <1>4 DEF o

\* All of them.
LEMMA OpensAll ==
    ASSUME Well(conf), NEW name, Has(conf, Core, <<name>>), i \in Nat, num \in Nat, i >= num, Counted(name)
    PROVE  Complete(name)
<1> DEFINE o == CoreAt(conf, name)
<1>1. o.values \in Seq(ToSet(o.values)) /\ Len(o.values) \in Nat
  BY AskedFor
<1>2. i = num /\ (o.no_override => num = Len(o.values) /\ opened[name] = SubSeq(o.values, 1, i))
  BY DEF Counted
<1> HIDE DEF o
<1>3. SubSeq(o.values, 1, Len(o.values)) = o.values
  BY <1>1, SubSeqFull
<1>4. o.no_override => opened[name] = o.values
  BY <1>2, <1>3
<1> QED
  BY <1>4 DEF Complete, o

\* Before any.
LEMMA OpensNone ==
    ASSUME Well(conf), NEW name, Has(conf, Core, <<name>>), opened[name] = <<>>
    PROVE  /\ 0 <= rapp_config_get_num_values(conf, Core, <<name>>)
           /\ rapp_config_get_num_values(conf, Core, <<name>>) = Len(CoreAt(conf, name).values)
           /\ opened[name] = SubSeq(CoreAt(conf, name).values, 1, 0)
<1> DEFINE o == CoreAt(conf, name)
<1>1. /\ o.values \in Seq(ToSet(o.values)) /\ Len(o.values) \in Nat
      /\ rapp_config_get_num_values(conf, Core, <<name>>) = Len(o.values)
  BY AskedFor
<1> HIDE DEF o
<1>2. SubSeq(o.values, 1, 0) = <<>>
  BY <1>1, SubSeqEmpty
<1> QED
  BY <1>1, <1>2 DEF o

\* No file changes an option that is locked, or its lock.
LEMMA LockedStays ==
    ASSUME ConfInv, ParseStep, NEW name, Has(conf, Core, <<name>>)
    PROVE  /\ CoreAt(conf', name).no_override = CoreAt(conf, name).no_override
           /\ CoreAt(conf, name).no_override => CoreAt(conf', name) = CoreAt(conf, name)
<1> DEFINE k == Find(conf, Core, <<name>>)
<1>1. Well(conf) /\ Kept(conf', conf)
  BY SourceStep DEF ConfInv
<1>2. k \in DOMAIN conf.options /\ CoreAt(conf, name) = conf.options[k]
  BY <1>1, FindIs DEF CoreAt
<1>3. CoreAt(conf', name) = conf'.options[k]
  BY <1>1, FindKept DEF CoreAt
<1> HIDE DEF k
<1>4. CASE UNCHANGED conf
  BY <1>2, <1>3, <1>4
<1>5. ASSUME NEW o \in DOMAIN conf.options, NEW x, FileChanges(x, conf.options[o]), conf' = Put(conf, o, x)
      PROVE  /\ conf'.options[k].no_override = conf.options[k].no_override
             /\ conf.options[k].no_override => conf'.options[k] = conf.options[k]
  <2>1. conf'.options[k] = IF k = o THEN x ELSE conf.options[k]
    BY <1>1, <1>2, <1>5, OptionChanged DEF FileChanges
  <2> QED
    BY <1>5, <2>1 DEF FileChanges
<1> QED
  BY <1>1, <1>2, <1>3, <1>4, <1>5, ParserChanges DEF ParseStep

\* What the command line and the environment give a value they lock, but for
\* a list, which is locked at its end.
LEMMA LockedByArgument ==
    ASSUME IInv, LockedInv, ParseArgument
    PROVE  LockedInv'
<1>1. Well(conf) /\ pc = "args" /\ pc' \in {"args", "exit"}
  BY DEF IInv, ConfInv, ParseArgument, Exit
<1>2. \A o \in DOMAIN conf.options : conf.options[o].values = <<>> \/ conf.options[o].no_override
  BY <1>1 DEF LockedInv
<1>3. CASE UNCHANGED conf
  BY <1>1, <1>2, <1>3 DEF LockedInv
<1>4. ASSUME NEW o \in DOMAIN conf.options, NEW x, LineChanges(x, conf.options[o]), conf' = Put(conf, o, x)
      PROVE  LockedInv'
  <2>1. /\ DOMAIN conf'.options = DOMAIN conf.options
        /\ \A j \in DOMAIN conf.options : conf'.options[j] = IF j = o THEN x ELSE conf.options[j]
    BY <1>1, <1>4, OptionChanged DEF LineChanges
  <2>2. x.no_override
    BY <1>4 DEF LineChanges
  <2> QED
    BY <1>1, <1>2, <2>1, <2>2 DEF LockedInv
<1> QED
  BY <1>1, <1>3, <1>4, ArgumentChanges

LEMMA LockedByEnvironment ==
    ASSUME IInv, LockedInv, ReadEnv \/ EnvToken
    PROVE  LockedInv'
<1>1. Well(conf) /\ i \in Nat
  BY DEF IInv, ConfInv, Control
<1>2. ASSUME NEW x, conf' = Put(conf, i, x), i \in DOMAIN conf.options => Sound(x)
      PROVE  /\ DOMAIN conf'.options = DOMAIN conf.options
             /\ \A j \in DOMAIN conf.options : conf'.options[j] = IF j = i THEN x ELSE conf.options[j]
  BY <1>1, <1>2, OptionChanged
<1>3. CASE ReadEnv
  <2> DEFINE o == conf.options[i]
             var == getenv(OuterName(o))
  <2>1. pc = "env" /\ pc' \in {"env", "env_list"} /\ (pc' = "env_list" => UNCHANGED <<conf, i>>)
    BY <1>3 DEF ReadEnv
  <2>2. \A j \in DOMAIN conf.options : conf.options[j].values = <<>> \/ conf.options[j].no_override
    BY <2>1 DEF LockedInv
  <2>3. CASE UNCHANGED conf
    BY <2>1, <2>2, <2>3 DEF LockedInv
  <2>4. CASE ~UNCHANGED conf
    <3>1. conf' = Put(conf, i, EnvText(o, var.text)) /\ ~o.no_override
      BY <1>3, <2>4 DEF ReadEnv, Put, EnvSkips
    <3> DEFINE x == EnvText(o, var.text)
    <3>2. i \in DOMAIN conf.options
      BY <1>1, <2>4, <3>1, PutOutside
    <3>3. Sound(o)
      BY <1>1, <3>2 DEF Well
    <3>4. Sound(x)
      BY <3>1, <3>3, TextOption DEF EnvChanges
    <3>5. x.values = <<>> \/ x.no_override
      <4>1. CASE Valid(o, var.text)
        <5>1. x = Locked(config_add_value_from_string(o, var.text))
          BY <4>1 DEF EnvText
        <5>2. Sound(config_add_value_from_string(o, var.text))
          BY <3>3, ValueFromString
        <5> QED
          BY <5>1, <5>2, OptionLocked
      <4>2. CASE ~Valid(o, var.text)
        BY <2>2, <3>2, <4>2 DEF EnvText
      <4> QED
        BY <4>1, <4>2
    <3> HIDE DEF x
    <3>6. /\ DOMAIN conf'.options = DOMAIN conf.options
          /\ \A j \in DOMAIN conf.options : conf'.options[j] = IF j = i THEN x ELSE conf.options[j]
      BY <1>2, <3>1, <3>4 DEF x
    <3> QED
      BY <2>1, <2>2, <3>5, <3>6 DEF LockedInv
  <2> QED
    BY <2>3, <2>4
<1>4. CASE EnvToken
  <2> DEFINE o == conf.options[i]
             toks == getenv(OuterName(o)).tokens
             y == config_add_value_from_string(o, toks[num])
  <2>1. /\ pc = "env_list"
        /\ \/ conf' = Put(conf, i, y) /\ i' = i /\ pc' = "env_list"
           \/ conf' = Put(conf, i, Locked(o)) /\ pc' = "env"
    BY <1>4 DEF EnvToken, Put
  <2>2. \A j \in DOMAIN conf.options :
            conf.options[j].values = <<>> \/ conf.options[j].no_override \/ j = i
    BY <2>1 DEF LockedInv
  <2>3. i \in DOMAIN conf.options => Sound(o)
    BY <1>1 DEF Well
  <2>4. i \in DOMAIN conf.options => Sound(y) /\ Sound(Locked(o)) /\ Locked(o).no_override
    BY <2>3, ValueFromString, OptionLocked
  <2> HIDE DEF y
  <2>5. CASE conf' = Put(conf, i, y) /\ i' = i /\ pc' = "env_list"
    <3>1. /\ DOMAIN conf'.options = DOMAIN conf.options
          /\ \A j \in DOMAIN conf.options : conf'.options[j] = IF j = i THEN y ELSE conf.options[j]
      BY <1>2, <2>4, <2>5
    <3> QED
      BY <2>2, <2>5, <3>1 DEF LockedInv
  <2>6. CASE conf' = Put(conf, i, Locked(o)) /\ pc' = "env"
    <3> DEFINE x == Locked(o)
    <3> HIDE DEF x
    <3>1. /\ DOMAIN conf'.options = DOMAIN conf.options
          /\ \A j \in DOMAIN conf.options : conf'.options[j] = IF j = i THEN x ELSE conf.options[j]
      BY <1>2, <2>4, <2>6 DEF x
    <3>2. i \in DOMAIN conf.options => x.no_override
      BY <2>4 DEF x
    <3> QED
      BY <2>2, <2>6, <3>1, <3>2 DEF LockedInv
  <2> QED
    BY <2>1, <2>5, <2>6
<1> QED
  BY <1>3, <1>4

\* The first directory, and the first file.
LEMMA CountsBegin ==
    ASSUME IInv, Counts, EnvDone \/ DirectoriesDone
    PROVE  DirsInv' /\ FilesInv'
<1>1. Well(conf) /\ i \in Nat /\ num \in Nat
  BY DEF IInv, ConfInv, Control
<1>2. Has(conf, Core, <<"confd">>) /\ Has(conf, Core, <<"config">>)
  BY DEF IInv, ConfInv, EnvDone, DirectoriesDone, Reading
<1>3. UNCHANGED <<conf, opened>> /\ i' = 0
  BY DEF EnvDone, DirectoriesDone, history
<1>4. \A name : CoreAt(conf', name) = CoreAt(conf, name)
  BY <1>3
<1>5. CASE EnvDone
  <2>1. pc = "env" /\ pc' = "confd" /\ num' = rapp_config_get_num_values(conf, Core, <<"confd">>)
    BY <1>5 DEF EnvDone, Go
  <2>2. opened.confd = <<>>
    BY <2>1 DEF Counts, OpenedInv, Unread
  <2>3. /\ 0 <= num' /\ num' = Len(CoreAt(conf, "confd").values)
        /\ opened.confd = SubSeq(CoreAt(conf, "confd").values, 1, 0)
    BY <1>1, <1>2, <2>1, <2>2, OpensNone
  <2>4. Counted("confd")'
    BY <1>3, <1>4, <2>3 DEF Counted
  <2>5. CoreAt(conf, "confd").no_override \/ num' = 0
    <3>1. CoreAt(conf, "confd") = conf.options[Find(conf, Core, <<"confd">>)]
          /\ Find(conf, Core, <<"confd">>) \in DOMAIN conf.options
      BY <1>1, <1>2, AskedFor
    <3>2. CoreAt(conf, "confd").values = <<>> \/ CoreAt(conf, "confd").no_override
      BY <2>1, <3>1 DEF Counts, LockedInv
    <3>3. Len(<<>>) = 0
      OBVIOUS
    <3> QED
      BY <2>3, <3>2, <3>3
  <2> QED
    BY <1>4, <2>1, <2>4, <2>5 DEF DirsInv, FilesInv
<1>6. CASE DirectoriesDone
  <2>1. /\ pc = "confd" /\ pc' = "configs" /\ i >= num
        /\ num' = rapp_config_get_num_values(conf, Core, <<"config">>)
    BY <1>6 DEF DirectoriesDone, Go
  <2>2. opened.config = <<>> /\ Counted("confd")
    BY <2>1 DEF Counts, OpenedInv, DirsInv
  <2>3. Complete("confd")
    BY <1>1, <1>2, <2>1, <2>2, OpensAll
  <2>4. /\ 0 <= num' /\ num' = Len(CoreAt(conf, "config").values)
        /\ opened.config = SubSeq(CoreAt(conf, "config").values, 1, 0)
    BY <1>1, <1>2, <2>1, <2>2, OpensNone
  <2>5. Counted("config")'
    BY <1>3, <1>4, <2>4 DEF Counted
  <2>6. Complete("confd")'
    BY <1>3, <1>4, <2>3 DEF Complete
  <2> QED
    BY <2>1, <2>5, <2>6 DEF DirsInv, FilesInv
<1> QED
  BY <1>5, <1>6

\* The next one.
LEMMA CountsNext ==
    ASSUME IInv, Said, CoreInv, Counts, NextDirectory \/ NextFile
    PROVE  OpenedInv' /\ DirsInv' /\ FilesInv' /\ StaleInv'
<1>2. Well(conf) /\ AllReal(conf) /\ i \in Nat /\ num \in Nat
  BY DEF IInv, ConfInv, Control, Said
<1>3. Has(conf, Core, <<"confd">>) /\ Has(conf, Core, <<"config">>)
  BY DEF IInv, ConfInv, NextDirectory, NextFile, Reading
<1>4. UNCHANGED <<conf, num, container, plugin>> /\ i < num /\ i' = i + 1
  BY DEF NextDirectory, NextFile, made
<1>5. \A name : CoreAt(conf', name) = CoreAt(conf, name)
  BY <1>4
<1>6. Redeclares' <=> Redeclares
  BY <1>4 DEF Redeclares
<1>7. opened = [confd |-> opened.confd, config |-> opened.config]
  BY DEF Counts, OpenedInv
<1>8. AsDeclared(conf) \/ Redeclares
  BY DEF CoreInv, DeclaredInv, Used, Reading, NextDirectory, NextFile
<1>9. CASE NextDirectory
  <2> DEFINE path == Path(<<"confd">>)
  <2>1. /\ pc = "confd" /\ pc' \in {"exit", "scan"}
        /\ \/ path = NULL /\ UNCHANGED opened /\ pc' = "exit" /\ reason' = "stale_count"
           \/ /\ path # NULL /\ opened' = [opened EXCEPT !.confd = Append(@, path)]
              /\ reason' \in {reason, "unreadable"}
    BY <1>9 DEF NextDirectory, Go, Exit, history
  <2>2. Counted("confd") /\ CoreAt(conf, "confd").no_override /\ opened.config = <<>> /\ reason = "none"
    BY <1>2, <1>4, <2>1 DEF Counts, DirsInv, OpenedInv, IInv, Control
  <2> HIDE DEF path
  <2>3. OpenedInv'
    <3>1. opened' = [confd |-> opened'.confd, config |-> opened'.config] /\ opened'.config = opened.config
      BY <1>7, <2>1
    <3>2. pc' \notin Unread
      BY <2>1 DEF Unread, Declaring
    <3> QED
      BY <2>2, <3>1, <3>2 DEF OpenedInv
  <2>4. CASE pc' = "scan"
    <3>1. path # NULL /\ opened'.confd = Append(opened.confd, path) /\ reason' # "stale_count"
      BY <1>7, <2>1, <2>2, <2>4
    <3>2. /\ num = Len(CoreAt(conf, "confd").values)
          /\ Append(opened.confd, path) = SubSeq(CoreAt(conf, "confd").values, 1, i + 1)
      BY <1>2, <1>3, <1>4, <2>2, <3>1, OpensNext DEF path
    <3>3. Counted("confd")'
      <4>1. i' <= num'
        BY <1>2, <1>4
      <4> QED
        BY <1>4, <1>5, <3>1, <3>2, <4>1 DEF Counted
    <3> QED
      BY <1>5, <2>2, <2>3, <2>4, <3>1, <3>3 DEF DirsInv, FilesInv, StaleInv
  <2>5. CASE pc' = "exit"
    <3>1. reason' = "stale_count" => Redeclares
      <4>1. ASSUME reason' = "stale_count", AsDeclared(conf)
            PROVE  FALSE
        <5>1. path = NULL
          BY <2>1, <2>2, <4>1
        <5>2. num = Len(CoreAt(conf, "confd").values)
          BY <2>2 DEF Counted
        <5> QED
          BY <1>2, <1>4, <4>1, <5>1, <5>2, NoPathMissing DEF path
      <4> QED
        BY <1>8, <4>1
    <3> QED
      BY <1>6, <2>3, <2>5, <3>1 DEF DirsInv, FilesInv, StaleInv
  <2> QED
    BY <2>1, <2>4, <2>5
<1>10. CASE NextFile
  <2> DEFINE path == Path(<<"config">>)
  <2>1. /\ pc = "configs" /\ pc' \in {"exit", "configs"}
        /\ \/ path = NULL /\ UNCHANGED opened /\ pc' = "exit" /\ reason' = "stale_count"
           \/ /\ path # NULL /\ opened' = [opened EXCEPT !.config = Append(@, path)]
              /\ reason' \in {reason, "unreadable"}
    BY <1>10 DEF NextFile, Exit, history
  <2>2. Complete("confd") /\ Counted("config") /\ reason = "none"
    BY <2>1 DEF Counts, FilesInv, IInv, Control
  <2> HIDE DEF path
  <2>3. OpenedInv' /\ opened'.confd = opened.confd
    <3>1. opened' = [confd |-> opened'.confd, config |-> opened'.config] /\ opened'.confd = opened.confd
      BY <1>7, <2>1
    <3>2. pc' \notin Unread \cup {"confd", "scan"}
      BY <2>1 DEF Unread, Declaring
    <3> QED
      BY <3>1, <3>2 DEF OpenedInv
  <2>4. CASE pc' = "configs"
    <3>1. path # NULL /\ opened'.config = Append(opened.config, path) /\ reason' # "stale_count"
      BY <1>7, <2>1, <2>2, <2>4
    <3>2. Counted("config")'
      <4>1. i' <= num'
        BY <1>2, <1>4
      <4>2. CoreAt(conf, "config").no_override =>
                /\ num = Len(CoreAt(conf, "config").values)
                /\ Append(opened.config, path) = SubSeq(CoreAt(conf, "config").values, 1, i + 1)
        BY <1>2, <1>3, <1>4, <2>2, <3>1, OpensNext DEF path
      <4> QED
        BY <1>4, <1>5, <3>1, <4>1, <4>2 DEF Counted
    <3>3. Complete("confd")'
      BY <1>5, <2>2, <2>3 DEF Complete
    <3> QED
      BY <2>3, <2>4, <3>1, <3>2, <3>3 DEF DirsInv, FilesInv, StaleInv
  <2>5. CASE pc' = "exit"
    <3>1. reason' = "stale_count" => Redeclares \/ ~CoreAt(conf, "config").no_override
      <4>1. ASSUME reason' = "stale_count", AsDeclared(conf), CoreAt(conf, "config").no_override
            PROVE  FALSE
        <5>1. path = NULL
          BY <2>1, <2>2, <4>1
        <5>2. num = Len(CoreAt(conf, "config").values)
          BY <2>2, <4>1 DEF Counted
        <5> QED
          BY <1>2, <1>4, <4>1, <5>1, <5>2, NoPathMissing DEF path
      <4> QED
        BY <1>8, <4>1
    <3> QED
      BY <1>5, <1>6, <2>3, <2>5, <3>1 DEF DirsInv, FilesInv, StaleInv
  <2> QED
    BY <2>1, <2>4, <2>5
<1> QED
  BY <1>9, <1>10

\* What a file does, which is nothing to what is locked.
LEMMA CountsParse ==
    ASSUME IInv, Counts, ParseStep
    PROVE  DirsInv' /\ FilesInv'
<1>1. ConfInv /\ pc \in {"scan", "configs"} /\ UNCHANGED <<pc, i, num, opened>>
  BY DEF IInv, ParseStep, loopVars, history
<1>2. Has(conf, Core, <<"confd">>) /\ Has(conf, Core, <<"config">>)
  BY <1>1 DEF ConfInv, Reading
<1>3. ASSUME NEW name \in {"confd", "config"}
      PROVE  /\ CoreAt(conf', name).no_override = CoreAt(conf, name).no_override
             /\ CoreAt(conf, name).no_override => CoreAt(conf', name) = CoreAt(conf, name)
  BY <1>1, <1>2, LockedStays
<1>4. ASSUME NEW name \in {"confd", "config"}
      PROVE  (Complete(name) => Complete(name)') /\ (Counted(name) => Counted(name)')
  BY <1>1, <1>3 DEF Complete, Counted
<1>5. DirsInv'
  BY <1>1, <1>3, <1>4 DEF Counts, DirsInv
<1>6. FilesInv'
  BY <1>1, <1>4 DEF Counts, FilesInv
<1> QED
  BY <1>5, <1>6

LEMMA CountsStep ==
    ASSUME IInv, Said, CoreInv, Counts, Main
    PROVE  Counts'
<1> USE DEF Exit, Go, given, made, parserVars, loopVars, listening, history
<1>1. OpenedInv /\ LockedInv /\ DirsInv /\ FilesInv /\ DoneInv /\ StaleInv
  BY DEF Counts
<1>2. ConfInv /\ Control
  BY DEF IInv
<1>3. ASSUME UNCHANGED opened, pc' \in Unread => pc \in Unread,
             pc' \in Unread \cup {"confd", "scan"} => pc \in Unread \cup {"confd", "scan"}
      PROVE  OpenedInv'
  BY <1>1, <1>3 DEF OpenedInv
<1>4. ASSUME pc' \notin {"args", "env", "env_list"} PROVE LockedInv'
  BY <1>4 DEF LockedInv
<1>5. ASSUME pc' \notin {"confd", "scan", "configs", "init", "serving"} PROVE DirsInv' /\ FilesInv' /\ DoneInv'
  BY <1>5 DEF DirsInv, FilesInv, DoneInv
<1>6. ASSUME reason' # "stale_count" PROVE StaleInv'
  BY <1>6 DEF StaleInv
<1>7. CASE \/ ParseEarlyArgument \/ EarlyArgumentsDone \/ LoggerNew \/ ConfigNew \/ LoadContainer
           \/ PluginDeclares \/ ContainerMade
  <2>1. /\ UNCHANGED opened /\ pc \in Declaring /\ pc' \in Declaring \cup {"exit"}
        /\ reason' \in {reason, "log_output", "no_logger", "no_config", "container"}
    BY <1>7 DEF ParseEarlyArgument, EarlyArgumentsDone, LoggerNew, ConfigNew, LoadContainer, PluginDeclares,
                ContainerMade, Declaring
  <2>2. reason = "none"
    BY <1>2, <2>1 DEF Control, Declaring
  <2>3. pc' \notin {"args", "env", "env_list", "confd", "scan", "configs", "init", "serving"}
        /\ pc \in Unread
    BY <2>1 DEF Declaring, Unread
  <2> QED
    BY <1>3, <1>4, <1>5, <1>6, <2>1, <2>2, <2>3 DEF Counts
<1>8. CASE DeclareOptions
  <2>1. /\ UNCHANGED <<opened, reason>> /\ pc = "declare" /\ pc' = "args"
        /\ conf' = CoreSettings(WithCoreOptions(conf))
    BY <1>8 DEF DeclareOptions
  <2>2. reason = "none" /\ Well(conf) /\ Fresh(conf) /\ pc \in Unread
    BY <1>2, <2>1 DEF Control, ConfInv, Declaring, Unread
  <2>3. Fresh(conf')
    BY <2>1, <2>2, CoreDeclared DEF Grows
  <2>4. LockedInv'
    BY <2>3 DEF LockedInv, Fresh
  <2> QED
    BY <1>3, <1>5, <1>6, <2>1, <2>2, <2>4 DEF Counts
<1>9. CASE ParseArgument \/ ReadEnv \/ EnvToken
  <2>1. /\ UNCHANGED opened /\ pc \in {"args", "env", "env_list"}
        /\ pc' \in {"args", "env", "env_list", "exit"}
        /\ reason' \in {reason, "argument", "no_argument"}
    BY <1>9 DEF ParseArgument, ReadEnv, EnvToken
  <2>2. reason = "none" /\ pc \in Unread
    BY <1>2, <2>1 DEF Control, Unread
  <2>3. LockedInv'
    BY <1>1, <1>9, LockedByArgument, LockedByEnvironment
  <2> QED
    BY <1>3, <1>5, <1>6, <2>1, <2>2, <2>3 DEF Counts
<1>10. CASE ArgumentsDone
  <2>1. /\ UNCHANGED <<opened, reason, conf>> /\ pc = "args" /\ pc' = "env"
    BY <1>10 DEF ArgumentsDone
  <2>2. reason = "none" /\ pc \in Unread
    BY <1>2, <2>1 DEF Control, Unread
  <2>3. LockedInv'
    BY <1>1, <2>1 DEF LockedInv
  <2> QED
    BY <1>3, <1>5, <1>6, <2>1, <2>2, <2>3 DEF Counts
<1>11. CASE EnvDone \/ DirectoriesDone
  <2>1. /\ UNCHANGED <<opened, reason>>
        /\ (pc = "env" /\ pc' = "confd") \/ (pc = "confd" /\ pc' = "configs")
    BY <1>11 DEF EnvDone, DirectoriesDone
  <2>2. reason = "none"
    BY <1>2, <2>1 DEF Control
  <2>3. pc' \notin Unread /\ (pc = "env" => pc \in Unread) /\ pc' # "scan"
    BY <2>1 DEF Unread, Declaring
  <2>4. OpenedInv'
    BY <1>3, <2>1, <2>3
  <2>5. DirsInv' /\ FilesInv'
    BY <1>11, CountsBegin
  <2>6. DoneInv'
    BY <2>1 DEF DoneInv
  <2> QED
    BY <1>4, <1>6, <2>1, <2>2, <2>4, <2>5, <2>6 DEF Counts
<1>12. CASE NextDirectory \/ NextFile
  <2>1. pc' \in {"exit", "scan", "configs"}
    BY <1>12 DEF NextDirectory, NextFile
  <2>2. DoneInv'
    BY <2>1 DEF DoneInv
  <2> QED
    BY <1>4, <1>12, <2>1, <2>2, CountsNext DEF Counts
<1>13. CASE ParseStep
  <2>1. UNCHANGED <<pc, opened, reason>> /\ pc \in {"scan", "configs"}
    BY <1>13 DEF ParseStep
  <2>2. reason = "none"
    BY <1>2, <2>1 DEF Control
  <2>3. DirsInv' /\ FilesInv'
    BY <1>13, CountsParse
  <2>4. DoneInv'
    BY <2>1 DEF DoneInv
  <2> QED
    BY <1>3, <1>4, <1>6, <2>1, <2>2, <2>3, <2>4 DEF Counts
<1>14. ASSUME UNCHANGED <<conf, i, num, opened>>
       PROVE  \A name : (Complete(name)' <=> Complete(name)) /\ (Counted(name)' <=> Counted(name))
  BY <1>14 DEF Complete, Counted
<1>15. CASE ScanEntry \/ FileParsed
  <2>1. /\ UNCHANGED <<conf, i, num, opened>>
        /\ \/ pc \in {"confd", "scan"} /\ pc' \in {"confd", "scan", "exit"}
           \/ pc = "configs" /\ pc' \in {"configs", "exit"}
        /\ reason' \in {reason, "unreadable", "file", "option"}
    BY <1>15 DEF ScanEntry, FileParsed
  <2>2. reason = "none" /\ pc' \notin Unread
    BY <1>2, <2>1 DEF Control, Unread, Declaring
  <2>3. OpenedInv'
    BY <1>3, <2>1, <2>2
  <2>4. \A name : CoreAt(conf', name) = CoreAt(conf, name)
    BY <2>1
  <2>5. DirsInv'
    BY <1>1, <1>14, <2>1, <2>4 DEF DirsInv
  <2>6. FilesInv'
    BY <1>1, <1>14, <2>1 DEF FilesInv
  <2>7. DoneInv'
    BY <2>1 DEF DoneInv
  <2> QED
    BY <1>4, <1>6, <2>1, <2>2, <2>3, <2>5, <2>6, <2>7 DEF Counts
<1>16. CASE FilesDone
  <2>1. /\ UNCHANGED <<conf, i, num, opened>> /\ pc = "configs" /\ i >= num
        /\ pc' \in {"init", "exit"} /\ reason' \in {reason, "no_container"}
    BY <1>16 DEF FilesDone
  <2>2. reason = "none" /\ pc' \notin Unread
    BY <1>2, <2>1 DEF Control, Unread, Declaring
  <2>3. Complete("confd") /\ Counted("config")
    BY <1>1, <2>1 DEF FilesInv
  <2>4. Complete("config")
    BY <1>2, <2>1, <2>3, OpensAll DEF ConfInv, Control, Reading
  <2>5. DoneInv'
    BY <1>14, <2>1, <2>3, <2>4 DEF DoneInv
  <2>6. DirsInv' /\ FilesInv'
    BY <2>1 DEF DirsInv, FilesInv
  <2>7. OpenedInv'
    BY <1>3, <2>1, <2>2
  <2> QED
    BY <1>4, <1>6, <2>1, <2>2, <2>5, <2>6, <2>7 DEF Counts
<1>17. CASE ContainerInit
  <2>1. UNCHANGED <<conf, i, num, opened, reason>> /\ pc = "init" /\ pc' = "serving"
    BY <1>17 DEF ContainerInit
  <2>2. reason = "none" /\ pc' \notin Unread
    BY <1>2, <2>1 DEF Control, Unread, Declaring
  <2>3. DoneInv'
    BY <1>1, <1>14, <2>1 DEF DoneInv
  <2>4. DirsInv' /\ FilesInv'
    BY <2>1 DEF DirsInv, FilesInv
  <2>5. OpenedInv'
    BY <1>3, <2>1, <2>2
  <2> QED
    BY <1>4, <1>6, <2>1, <2>2, <2>3, <2>4, <2>5 DEF Counts
<1>18. CASE ContainerDestroy \/ ConfigDestroy \/ LoggerDestroy
  <2>1. /\ UNCHANGED <<opened, reason>> /\ pc \in {"serving", "destroy_config", "destroy_logger"}
        /\ pc' \in {"destroy_config", "destroy_logger", "undefined", "ended"}
    BY <1>18 DEF ContainerDestroy, ConfigDestroy, LoggerDestroy
  <2>2. /\ reason = "none" /\ pc' \notin Unread
        /\ pc' \notin {"args", "env", "env_list", "confd", "scan", "configs", "init", "serving"}
    BY <1>2, <2>1 DEF Control, Unread, Declaring
  <2> QED
    BY <1>3, <1>4, <1>5, <1>6, <2>1, <2>2 DEF Counts
<1> QED
  BY <1>7, <1>8, <1>9, <1>10, <1>11, <1>12, <1>13, <1>15, <1>16, <1>17, <1>18 DEF Main

-----------------------------------------------------------------------------

\* What main reads and asks for, along every step.
Started == IInv /\ Said /\ CoreInv /\ Counts

LEMMA NextStarted == Started /\ [Next]_vars => Started'
<1> SUFFICES ASSUME Started, [Next]_vars PROVE Started'
  OBVIOUS
<1>1. IInv /\ Said /\ CoreInv /\ Counts
  BY DEF Started
<1>2. IInv'
  BY <1>1, NextIInv
<1>3. CASE Main
  BY <1>1, <1>2, <1>3, SaidStep, CoreStep, CountsStep DEF Started
<1>4. CASE UNCHANGED vars
  <2>1. UNCHANGED <<pc, environ, plugin, container, conf, files, tokens, i, num, reason, opened, address, port>>
    BY <1>4 DEF vars, given, made, parserVars, loopVars, listening, history
  <2>2. Said'
    BY <1>1, <2>1 DEF Said, getenv
  <2>3. Redeclares' <=> Redeclares
    BY <2>1 DEF Redeclares
  <2>4. TextInv' /\ LoadInv'
    BY <1>1, <2>1 DEF CoreInv, TextInv, LoadInv
  <2>5. CreateInv' /\ DeclareInv'
    BY <1>1, <2>1, <2>3 DEF CoreInv, CreateInv, DeclareInv
  <2>6. DeclaredInv' /\ Listens'
    BY <1>1, <2>1, <2>3 DEF CoreInv, DeclaredInv, Listens
  <2>7. \A name : (Complete(name)' <=> Complete(name)) /\ (Counted(name)' <=> Counted(name))
    BY <2>1 DEF Complete, Counted
  <2>8. OpenedInv' /\ LockedInv'
    BY <1>1, <2>1 DEF Counts, OpenedInv, LockedInv
  <2>9. DirsInv' /\ FilesInv' /\ DoneInv'
    BY <1>1, <2>1, <2>7 DEF Counts, DirsInv, FilesInv, DoneInv
  <2>10. StaleInv'
    BY <1>1, <2>1, <2>3 DEF Counts, StaleInv
  <2> QED
    BY <1>2, <2>2, <2>4, <2>5, <2>6, <2>8, <2>9, <2>10 DEF Started, CoreInv, Counts
<1> QED
  BY <1>3, <1>4 DEF Next, Stopped

\* What main opens are the paths it was given (PathsOpened): the numbers of
\* directories and of files, which it reads once, are right as long as no file
\* can change the option, and no path is missing then.
THEOREM PathsAreOpened == Spec => []PathsOpened
<1>1. Init => Started
  BY InitIInv, InitSaid, InitCoreInv, InitCounts DEF Started
<1>2. Started => PathsOpened
  <2> SUFFICES ASSUME Started PROVE PathsOpened
    OBVIOUS
  <2>1. DoneInv /\ StaleInv
    BY DEF Started, Counts
  <2>2. \A name : CoreAt(conf, name) = Opt(Find(conf, Core, <<name>>))
    BY DEF CoreAt, Opt
  <2>3. ASSUME pc \in {"init", "serving"}, NEW name \in {"confd", "config"}
        PROVE  Opt(Find(conf, Core, <<name>>)).no_override =>
                    opened[name] = Opt(Find(conf, Core, <<name>>)).values
    BY <2>1, <2>2, <2>3 DEF DoneInv, Complete
  <2>4. reason = "stale_count" /\ ~Redeclares => ~Opt(Find(conf, Core, <<"config">>)).no_override
    BY <2>1, <2>2 DEF StaleInv
  <2> QED
    BY <2>3, <2>4 DEF PathsOpened
<1> QED
  BY <1>1, <1>2, NextStarted, PTL DEF Spec

\* The server gets an address and a port, and the configuration can be
\* destroyed (Listens), unless a plugin declared an option of the core.
THEOREM ServerListens == Spec => []Listens
<1>1. Init => Started
  BY InitIInv, InitSaid, InitCoreInv, InitCounts DEF Started
<1>2. Started => Listens
  BY DEF Started, CoreInv
<1> QED
  BY <1>1, <1>2, NextStarted, PTL DEF Spec

-----------------------------------------------------------------------------
(* What a file is found to be.                                             *)

\* The file that is being parsed is one, and the parser is right about it so
\* far, unless it skips what it cannot skip.
ParserInv == yaml.mode # "idle" => doc \in Documents /\ (Plain(doc) => Reader)

\* The document that is opened next.
LEMMA Opens ==
    ASSUME Said, ScanEntry \/ NextFile
    PROVE  UNCHANGED parserVars \/ \E d \in Documents : config_parse(d)
<1>1. CASE ScanEntry
  <2>1. \/ UNCHANGED parserVars
        \/ files # <<>> /\ Head(files) # NULL /\ config_parse(Head(files))
    BY <1>1 DEF ScanEntry
  <2>2. files # <<>> => Head(files) \in Documents \cup {NULL}
    <3> DEFINE S == Documents \cup {NULL}
    <3>1. files \in Seq(S)
      BY DEF Said
    <3> HIDE DEF S
    <3>2. files # <<>> => Head(files) \in S
      BY <3>1
    <3> QED
      BY <3>2 DEF S
  <2> QED
    BY <2>1, <2>2
<1>2. CASE NextFile
  <2>1. UNCHANGED parserVars \/ \E d \in Files : config_parse(d)
    BY <1>2 DEF NextFile
  <2> QED
    BY <2>1, StartupAssumption
<1> QED
  BY <1>1, <1>2

\* A step that does not parse leaves the parser where it is, puts it in front
\* of a document, or away.
LEMMA ParserRests ==
    ASSUME IInv, Said, Main, ~ParseStep
    PROVE  \/ yaml.mode = "idle" /\ yaml'.mode = "idle"
           \/ yaml.mode = "idle" /\ (ScanEntry \/ NextFile)
           \/ FileParsed /\ yaml'.mode = "idle"
<1> USE DEF Exit, Go, given, made, parserVars, loopVars, listening, history
<1>1. yaml.mode # "idle" => pc \in {"scan", "configs"}
  BY DEF IInv, Control
<1>2. CASE ScanEntry \/ NextFile
  BY <1>2 DEF ScanEntry, NextFile
<1>3. CASE FileParsed
  BY <1>3 DEF FileParsed, IdleYaml
<1>4. CASE FilesDone
  BY <1>4 DEF FilesDone
<1>5. CASE ParseEarlyArgument \/ EarlyArgumentsDone \/ LoggerNew \/ ConfigNew \/ LoadContainer
           \/ PluginDeclares \/ ContainerMade \/ DeclareOptions
  <2>1. pc \notin {"scan", "configs"} /\ yaml' = yaml
    BY <1>5 DEF ParseEarlyArgument, EarlyArgumentsDone, LoggerNew, ConfigNew, LoadContainer, PluginDeclares,
                ContainerMade, DeclareOptions
  <2> QED
    BY <1>1, <2>1
<1>6. CASE ParseArgument \/ ArgumentsDone \/ ReadEnv \/ EnvToken \/ EnvDone \/ NextDirectory
           \/ DirectoriesDone \/ ContainerInit \/ ContainerDestroy \/ ConfigDestroy \/ LoggerDestroy
  <2>1. pc \notin {"scan", "configs"} /\ yaml' = yaml
    BY <1>6 DEF ParseArgument, ArgumentsDone, ReadEnv, EnvToken, EnvDone, NextDirectory, DirectoriesDone,
                ContainerInit, ContainerDestroy, ConfigDestroy, LoggerDestroy
  <2> QED
    BY <1>1, <2>1
<1> QED
  BY <1>2, <1>3, <1>4, <1>5, <1>6 DEF Main

\* A document that has just been opened.
LEMMA ReaderOpens ==
    ASSUME NEW d \in Documents, config_parse(d)
    PROVE  ParserInv'
<1>1. doc' = d /\ tokens' = Tokens(d) /\ yaml'.mode = "init"
  BY DEF config_parse, IdleYaml
<1>2. At(0)'
  BY <1>1, AtStart DEF At
<1>3. Reader'
  BY <1>1, <1>2 DEF Reader, Rejected
<1> QED
  BY <1>1, <1>3 DEF ParserInv

LEMMA ParserInvStep ==
    ASSUME IInv, Said, ParserInv, Main
    PROVE  ParserInv'
<1>1. CASE ParseStep
  <2>1. config_parse_main /\ doc' = doc
    BY <1>1 DEF ParseStep, config_parse_main
  <2>2. yaml.mode # "idle"
    BY <2>1 DEF config_parse_main, ParseInit, ParseSection, SkipSection, KeyValue, ListItem
  <2>3. doc \in Documents /\ (Plain(doc) => Reader)
    BY <2>2 DEF ParserInv
  <2>4. Well(conf) /\ YamlTyped
    BY DEF IInv, ConfInv, Control, YamlTyped
  <2>5. Well(conf') /\ Stays(conf', conf)
    BY <2>1, <2>4, ParserKeeps
  <2>6. Plain(doc)' => Plain(doc)
    <3>1. Plain(doc)' <=> PlainIn(conf', doc')
      BY DEF Plain, PlainIn, Known, KnownIn
    <3>2. PlainIn(conf', doc) <=> PlainIn(conf, doc)
      BY <2>4, <2>5, GoodSame
    <3> QED
      BY <2>1, <3>1, <3>2, SaysTheSame
  <2>7. Plain(doc) => Reader'
    <3>1. Plain(doc) => Parses
      BY <2>1, <2>3, <2>4, <2>5 DEF Parses
    <3> QED
      BY <2>1, <2>3, <3>1, ReaderStep
  <2> QED
    BY <2>1, <2>3, <2>6, <2>7 DEF ParserInv
<1>2. CASE ~ParseStep
  <2>1. CASE yaml'.mode = "idle"
    BY <2>1 DEF ParserInv
  <2>2. CASE yaml.mode = "idle" /\ (ScanEntry \/ NextFile)
    <3>1. UNCHANGED parserVars \/ \E d \in Documents : config_parse(d)
      BY <2>2, Opens
    <3>2. CASE UNCHANGED parserVars
      BY <2>2, <3>2 DEF parserVars, ParserInv
    <3> QED
      BY <3>1, <3>2, ReaderOpens
  <2> QED
    BY <1>2, <2>1, <2>2, ParserRests
<1> QED
  BY <1>1, <1>2

Judging == Started /\ ParserInv

LEMMA NextJudging == Judging /\ [Next]_vars => Judging'
<1> SUFFICES ASSUME Judging, [Next]_vars PROVE Judging'
  OBVIOUS
<1>1. Started /\ ParserInv /\ IInv /\ Said
  BY DEF Judging, Started
<1>2. Started'
  BY <1>1, NextStarted
<1>3. CASE Main
  BY <1>1, <1>2, <1>3, ParserInvStep DEF Judging
<1>4. CASE UNCHANGED vars
  <2>1. UNCHANGED <<conf, doc, tokens, yaml>>
    BY <1>4 DEF vars, parserVars
  <2>2. ParserInv'
    <3>1. CASE yaml.mode = "idle"
      BY <2>1, <3>1 DEF ParserInv
    <3>2. CASE yaml.mode # "idle"
      <4>1. doc \in Documents /\ (Plain(doc) => Reader)
        BY <1>1, <3>2 DEF ParserInv
      <4>2. Plain(doc)' <=> Plain(doc)
        BY <2>1 DEF Plain, Known
      <4>3. Reader' <=> Reader
        BY <2>1 DEF Reader, Rejected, At, AtSection, InUnknown, InKnown, AtPair, AtText
      <4> QED
        BY <2>1, <4>1, <4>2, <4>3 DEF ParserInv
    <3> QED
      BY <3>1, <3>2
  <2> QED
    BY <1>2, <2>2 DEF Judging
<1> QED
  BY <1>3, <1>4 DEF Next, Stopped

\* A file is accepted exactly if all it says of known sections is right
\* (FileVerdict): of every document whose unknown sections are plain blocks,
\* wherever it is cut.
THEOREM VerdictIsRight == Spec => []FileVerdict
<1>1. Init => Judging
  <2>1. Init => ParserInv
    BY DEF Init, IdleYaml, ParserInv
  <2> QED
    BY <2>1, InitIInv, InitSaid, InitCoreInv, InitCounts DEF Started, Judging
<1>2. Judging => FileVerdict
  <2> SUFFICES ASSUME Judging, yaml.mode = "done" \/ Rejected, Plain(doc)
               PROVE  yaml.mode = "done" <=> Faultless(doc)
    BY DEF FileVerdict
  <2>1. doc \in Documents /\ Reader
    BY DEF Judging, ParserInv, Rejected
  <2>2. Faultless(doc) <=> AllGood(conf, doc)
    BY <2>1, FaultlessIs, SaysTheSame
  <2> QED
    BY <2>1, <2>2 DEF Reader, Rejected
<1> QED
  BY <1>1, <1>2, NextJudging, PTL DEF Spec

-----------------------------------------------------------------------------
(* What the sources gave.                                                  *)

\* What OnCommandLine and InEnvironment put together, of any option.
LineTexts(c, o) ==
    [k \in DOMAIN argv |->
        IF argv[k].kind = "config" /\ ArgpOption(c, argv[k].name) = o THEN <<argv[k].text>> ELSE <<>>]
VarTexts(x, var) == IF IsEnvList(x, var) THEN var.tokens ELSE <<var.text>>
EnvTexts(x, texts) == [k \in DOMAIN texts |-> IF Valid(x, texts[k]) THEN <<texts[k]>> ELSE <<>>]
VarOf(x) == getenv(OuterName(x))

\* The options whose values AsGiven is about.
NoBoolean(o) == o \in DOMAIN conf.options /\ conf.options[o].type # "PARAM_BOOL"

\* An option and what the command line said of it.
LineGave(x, line) == x.values = Taken(x, line) /\ (x.no_override <=> line # <<>>)

\* An option and what the command line and the environment said of it.
Above(line, env) == IF line # <<>> THEN line ELSE env
SettledBy(x, line, env, colons) ==
    IF x.no_override THEN colons \/ (Above(line, env) # <<>> /\ x.values = Taken(x, Above(line, env)))
    ELSE Above(line, env) = <<>>

Settled(o) == SettledBy(conf.options[o], OnCommandLine(o), InEnvironment(o), EmptyList(o))

\* What the documents said that were read.
ReadTexts(c, docs, o) == [k \in DOMAIN docs |-> FlattenSeq(DocumentTold(c, docs[k], o))]
SoFar(c, o) == FlattenSeq(ReadTexts(c, read, o))

\* One sequence, and one element.
LEMMA FlattenOne ==
    ASSUME NEW S, NEW s \in Seq(S)
    PROVE  FlattenSeq(<<s>>) = s
<1>1. <<>> \in Seq(Seq(S)) /\ Append(<<>>, s) = <<s>> /\ <<>> \o s = s
  OBVIOUS
<1>2. FlattenSeq(<<>>) = <<>>
  BY FlattenEmpty
<1>3. FlattenSeq(Append(<<>>, s)) = FlattenSeq(<<>>) \o s
  BY <1>1, FlattenAppend
<1> QED
  BY <1>1, <1>2, <1>3

LEMMA OneElement ==
    ASSUME NEW S, NEW x \in S
    PROVE  <<x>> \in Seq(S)
OBVIOUS

LEMMA OneText == \A text \in STRING : <<text>> \in Seq(STRING) /\ <<>> \in Seq(STRING)
BY OneElement, EmptySeq

\* The command line, argument by argument.
LEMMA LineIs ==
    ASSUME argv \in CommandLines
    PROVE  /\ Len(argv) \in Nat /\ DOMAIN argv = 1 .. Len(argv)
           /\ \A k \in 1 .. Len(argv) :
                /\ argv[k].text \in STRING
                /\ argv[k].kind \in {"load", "log_output", "log_level", "config", "positional"}
           /\ \A c, o : /\ OnCommandLine(o) = FlattenSeq(LineTexts(conf, o))
                        /\ LineTexts(c, o) \in Seq(Seq(STRING)) /\ Len(LineTexts(c, o)) = Len(argv)
<1> DEFINE A == [kind : {"load", "log_output", "log_level", "config", "positional"},
                 name : Seq(STRING), text : STRING]
           n == Len(argv)
<1>1. argv \in Seq(A)
  BY StartupAssumption
<1>2. n \in Nat /\ DOMAIN argv = 1 .. n /\ \A k \in 1 .. n : argv[k] \in A
  <2> HIDE DEF A
  <2> QED
    BY <1>1, ElementOfSeq, LenProperties
<1>3. \A k \in 1 .. n : /\ argv[k].text \in STRING
                        /\ argv[k].kind \in {"load", "log_output", "log_level", "config", "positional"}
  BY <1>2
<1>4. \A o : OnCommandLine(o) = FlattenSeq(LineTexts(conf, o))
  BY DEF OnCommandLine, LineTexts
<1>5. ASSUME NEW c, NEW o
      PROVE  LineTexts(c, o) \in Seq(Seq(STRING)) /\ Len(LineTexts(c, o)) = n
  <2> HIDE DEF n, A
  <2> DEFINE s == LineTexts(c, o)
  <2>1. s = [k \in 1 .. n |-> s[k]]
    BY <1>2 DEF LineTexts
  <2>2. \A k \in 1 .. n : s[k] \in Seq(STRING)
    <3>1. ASSUME NEW k \in 1 .. n
          PROVE  s[k] \in Seq(STRING)
      <4>1. s[k] = <<argv[k].text>> \/ s[k] = <<>>
        BY <1>2 DEF LineTexts
      <4>2. argv[k].text \in STRING
        BY <1>3
      <4>3. \A text \in STRING : <<text>> \in Seq(STRING) /\ <<>> \in Seq(STRING)
        BY OneText
      <4> QED
        BY <4>1, <4>2, <4>3
    <3> QED
      BY <3>1
  <2> HIDE DEF s
  <2>3. s \in Seq(Seq(STRING)) /\ Len(s) = n
    BY <1>2, <2>1, <2>2
  <2> QED
    BY <2>3 DEF s
<1> QED
  BY <1>2, <1>3, <1>4, <1>5

\* The texts of a variable that the option accepts.
LEMMA EnvTextsTyped ==
    ASSUME NEW x, NEW texts \in Seq(STRING)
    PROVE  /\ EnvTexts(x, texts) \in Seq(Seq(STRING)) /\ Len(EnvTexts(x, texts)) = Len(texts)
           /\ \A k \in 1 .. Len(texts) :
                EnvTexts(x, texts)[k] = IF Valid(x, texts[k]) THEN <<texts[k]>> ELSE <<>>
<1> DEFINE s == EnvTexts(x, texts)
           n == Len(texts)
<1>1. n \in Nat /\ DOMAIN texts = 1 .. n /\ \A k \in 1 .. n : texts[k] \in STRING
  OBVIOUS
<1>2. s = [k \in 1 .. n |-> IF Valid(x, texts[k]) THEN <<texts[k]>> ELSE <<>>]
  BY <1>1 DEF EnvTexts
<1> HIDE DEF s, n
<1>3. ASSUME NEW k \in 1 .. n
      PROVE  s[k] \in Seq(STRING)
  <2>1. s[k] = <<texts[k]>> \/ s[k] = <<>>
    BY <1>2
  <2>2. texts[k] \in STRING
    BY <1>1
  <2> QED
    BY <2>1, <2>2, OneText
<1>4. s = [k \in 1 .. n |-> s[k]]
  BY <1>2
<1>5. s \in Seq(Seq(STRING)) /\ Len(s) = n
  BY <1>1, <1>3, <1>4
<1> QED
  BY <1>2, <1>5 DEF s, n

\* The environment of an option.
LEMMA EnvironmentIs ==
    ASSUME environ \in Environments, NEW o, NEW x, x = conf.options[o], NEW var, var = VarOf(x)
    PROVE  /\ var = NULL => InEnvironment(o) = <<>> /\ ~EmptyList(o)
           /\ var # NULL =>
                /\ VarTexts(x, var) \in Seq(STRING)
                /\ InEnvironment(o) = FlattenSeq(EnvTexts(x, VarTexts(x, var)))
                /\ InEnvironment(o) \in Seq(STRING)
                /\ ~IsEnvList(x, var) =>
                    InEnvironment(o) = IF Valid(x, var.text) THEN <<var.text>> ELSE <<>>
           /\ EmptyList(o) <=> var # NULL /\ IsEnvList(x, var) /\ InEnvironment(o) = <<>>
<1>1. /\ var = NULL => InEnvironment(o) = <<>>
      /\ var # NULL => InEnvironment(o) = FlattenSeq(EnvTexts(x, VarTexts(x, var)))
  BY DEF InEnvironment, Opt, VarTexts, EnvTexts, VarOf
<1>2. EmptyList(o) <=> var # NULL /\ IsEnvList(x, var) /\ InEnvironment(o) = <<>>
  BY DEF EmptyList, Opt, VarOf
<1>3. ASSUME var # NULL
      PROVE  /\ VarTexts(x, var) \in Seq(STRING)
             /\ FlattenSeq(EnvTexts(x, VarTexts(x, var))) \in Seq(STRING)
             /\ ~IsEnvList(x, var) => FlattenSeq(EnvTexts(x, VarTexts(x, var))) =
                                        IF Valid(x, var.text) THEN <<var.text>> ELSE <<>>
  <2>1. var.text \in STRING /\ var.tokens \in Seq(STRING)
    BY <1>3, Variable DEF VarOf
  <2>2. VarTexts(x, var) \in Seq(STRING)
    <3>1. VarTexts(x, var) = var.tokens \/ VarTexts(x, var) = <<var.text>>
      BY DEF VarTexts
    <3> QED
      BY <2>1, <3>1, OneText
  <2>3. FlattenSeq(EnvTexts(x, VarTexts(x, var))) \in Seq(STRING)
    BY <2>2, EnvTextsTyped, FlattenTyped
  <2>4. ASSUME ~IsEnvList(x, var)
        PROVE  FlattenSeq(EnvTexts(x, VarTexts(x, var))) = IF Valid(x, var.text) THEN <<var.text>> ELSE <<>>
    <3> DEFINE s == IF Valid(x, var.text) THEN <<var.text>> ELSE <<>>
    <3>1. VarTexts(x, var) = <<var.text>>
      BY <2>4 DEF VarTexts
    <3>2. EnvTexts(x, <<var.text>>) = <<s>>
      BY DEF EnvTexts
    <3>3. s \in Seq(STRING)
      <4>1. s = <<var.text>> \/ s = <<>>
        OBVIOUS
      <4> HIDE DEF s
      <4> QED
        BY <2>1, <4>1, OneText
    <3> HIDE DEF s
    <3>4. FlattenSeq(<<s>>) = s
      BY <3>3, FlattenOne
    <3> QED
      BY <3>1, <3>2, <3>4 DEF s
  <2> QED
    BY <2>2, <2>3, <2>4
<1> QED
  BY <1>1, <1>2, <1>3

\* What the sources say does not change while only values do.
LEMMA ArgpSame ==
    ASSUME NEW new, NEW c, Kept(new, c)
    PROVE  \A name : ArgpOption(new, name) = ArgpOption(c, name)
<1>1. /\ DOMAIN new.options = DOMAIN c.options
      /\ \A k \in DOMAIN c.options : SameButValues(new.options[k], c.options[k])
  BY DEF Kept
<1>2. \A k \in DOMAIN c.options : /\ OuterName(new.options[k]) = OuterName(c.options[k])
                                  /\ new.options[k].section = c.options[k].section
  BY <1>1 DEF OuterName, SameButValues
<1>3. \A section : Section(new, section) = Section(c, section)
  BY <1>1, <1>2 DEF Section
<1>4. ASSUME NEW k \in DOMAIN c.options, NEW j \in DOMAIN c.options
      PROVE  Before(new, k, j) <=> Before(c, k, j)
  <2>1. /\ Section(new, new.options[k].section) = Section(c, c.options[k].section)
        /\ Section(new, new.options[j].section) = Section(c, c.options[j].section)
    BY <1>2, <1>3
  <2> QED
    BY <2>1 DEF Before
<1>5. ASSUME NEW name
      PROVE  ArgpOption(new, name) = ArgpOption(c, name)
  <2> DEFINE F == {k \in DOMAIN new.options : OuterName(new.options[k]) = name}
             G == {k \in DOMAIN c.options : OuterName(c.options[k]) = name}
             A == CHOOSE k \in F : \A j \in F : Before(new, k, j)
             B == CHOOSE k \in G : \A j \in G : Before(c, k, j)
  <2>1. F = G
    BY <1>1, <1>2
  <2>2. \A k, j \in G : Before(new, k, j) <=> Before(c, k, j)
    BY <1>4
  <2>3. ArgpOption(new, name) = IF F = {} THEN 0 ELSE A
    BY DEF ArgpOption
  <2>4. ArgpOption(c, name) = IF G = {} THEN 0 ELSE B
    BY DEF ArgpOption
  <2>5. A = B
    <3> HIDE DEF F, G
    <3>1. \A k : (k \in F /\ \A j \in F : Before(new, k, j)) <=> (k \in G /\ \A j \in G : Before(c, k, j))
      BY <2>1, <2>2
    <3> QED
      BY <3>1
  <2> HIDE DEF F, G, A, B
  <2> QED
    BY <2>1, <2>3, <2>4, <2>5
<1> QED
  BY <1>5

LEMMA SourcesSame ==
    ASSUME Kept(conf', conf), argv' = argv, environ' = environ, NEW o, o \in DOMAIN conf.options
    PROVE  /\ OnCommandLine(o)' = OnCommandLine(o)
           /\ InEnvironment(o)' = InEnvironment(o)
           /\ EmptyList(o)' <=> EmptyList(o)
           /\ LineTexts(conf, o)' = LineTexts(conf, o)
<1>1. \A name : ArgpOption(conf', name) = ArgpOption(conf, name)
  BY ArgpSame
<1>2. /\ SameButValues(conf'.options[o], conf.options[o])
      /\ OuterName(conf'.options[o]) = OuterName(conf.options[o])
  BY DEF Kept, SameButValues, OuterName
<1>3. \A text : Valid(conf'.options[o], text) <=> Valid(conf.options[o], text)
  BY <1>2 DEF SameButValues, Valid
<1>4. /\ \A var : IsEnvList(conf'.options[o], var) <=> IsEnvList(conf.options[o], var)
      /\ \A name : getenv(name)' = getenv(name)
  BY <1>2 DEF SameButValues, IsEnvList, getenv
<1>5. OnCommandLine(o)' = OnCommandLine(o) /\ LineTexts(conf, o)' = LineTexts(conf, o)
  BY <1>1 DEF OnCommandLine, LineTexts
<1>6. InEnvironment(o)' = InEnvironment(o)
  <2> DEFINE Of(x, var) == FlattenSeq(EnvTexts(x, VarTexts(x, var)))
  <2>1. PICK var : var = getenv(OuterName(conf.options[o]))
    OBVIOUS
  <2>2. getenv(OuterName(conf.options[o]))' = var
    BY <1>2, <1>4, <2>1
  <2>3. VarTexts(conf'.options[o], var) = VarTexts(conf.options[o], var)
    BY <1>4 DEF VarTexts
  <2>4. \A texts : EnvTexts(conf'.options[o], texts) = EnvTexts(conf.options[o], texts)
    BY <1>3 DEF EnvTexts
  <2>5. InEnvironment(o) = IF var = NULL THEN <<>> ELSE Of(conf.options[o], var)
    BY <2>1 DEF InEnvironment, Opt, VarTexts, EnvTexts
  <2>6. InEnvironment(o)' = IF var = NULL THEN <<>> ELSE Of(conf'.options[o], var)
    BY <2>2 DEF InEnvironment, Opt, VarTexts, EnvTexts
  <2> QED
    BY <2>3, <2>4, <2>5, <2>6
<1>7. EmptyList(o)' <=> EmptyList(o)
  <2>1. getenv(OuterName(conf.options[o]))' = getenv(OuterName(conf.options[o]))
    BY <1>2, <1>4
  <2>2. EmptyList(o)' <=> /\ getenv(OuterName(conf.options[o])) # NULL
                          /\ IsEnvList(conf'.options[o], getenv(OuterName(conf.options[o])))
                          /\ InEnvironment(o)' = <<>>
    BY <2>1 DEF EmptyList, Opt
  <2>3. EmptyList(o) <=> /\ getenv(OuterName(conf.options[o])) # NULL
                         /\ IsEnvList(conf.options[o], getenv(OuterName(conf.options[o])))
                         /\ InEnvironment(o) = <<>>
    BY DEF EmptyList, Opt
  <2> QED
    BY <1>4, <1>6, <2>2, <2>3
<1> QED
  BY <1>5, <1>6, <1>7

\* An option that stays as it is, and one whose values only may change while
\* it is not locked.
LEMMA SettledStill ==
    ASSUME Kept(conf', conf), argv' = argv, environ' = environ, NEW o, o \in DOMAIN conf.options,
           conf'.options[o].no_override = conf.options[o].no_override,
           conf.options[o].no_override => conf'.options[o] = conf.options[o]
    PROVE  Settled(o) => Settled(o)'
<1>1. PICK line, env, colons, x, y :
        /\ line = OnCommandLine(o) /\ env = InEnvironment(o) /\ colons = EmptyList(o)
        /\ x = conf.options[o] /\ y = conf'.options[o]
  OBVIOUS
<1>2. line = OnCommandLine(o)' /\ env = InEnvironment(o)' /\ (colons <=> EmptyList(o)')
  BY <1>1, SourcesSame
<1>3. SettledBy(x, line, env, colons) => SettledBy(y, line, env, colons)
  BY <1>1 DEF SettledBy
<1>4. Settled(o) => SettledBy(x, line, env, colons)
  BY <1>1 DEF Settled, SettledBy
<1>5. SettledBy(y, line, env, colons) => Settled(o)'
  BY <1>1, <1>2 DEF Settled, SettledBy
<1> QED
  BY <1>3, <1>4, <1>5

-----------------------------------------------------------------------------
(* The command line.                                                       *)

LineInv ==
    pc = "args" =>
        /\ i \in 1 .. Len(argv) + 1
        /\ \A o : NoBoolean(o) => LineGave(conf.options[o], Initial(LineTexts(conf, o), i - 1))

\* One element more.
LEMMA JoinOne ==
    ASSUME NEW S, NEW s \in Seq(S), NEW x \in S
    PROVE  s \o <<x>> = Append(s, x) /\ s \o <<x>> # <<>> /\ s \o <<>> = s
OBVIOUS

\* A text the command line gives an option locks it.
LEMMA LineOption ==
    ASSUME NEW o, Sound(o), o.type # "PARAM_BOOL", NEW all \in Seq(STRING), LineGave(o, all),
           NEW text \in STRING, ArgumentAccepted(o, text),
           NEW x, x = Locked(config_add_value_from_string(o, text))
    PROVE  LineGave(x, all \o <<text>>)
<1>1. PICK y : y = config_add_value_from_string(o, text)
  OBVIOUS
<1>2. Valid(o, text) /\ o.values = Taken(o, all)
  BY DEF ArgumentAccepted, LineGave
<1>3. y.values = Taken(y, Append(all, text))
  BY <1>1, <1>2, TakenMore
<1>4. Sound(y)
  BY <1>1, ValueFromString
<1>5. x.values = y.values /\ SameButValues(x, y) /\ x.no_override = TRUE
  BY <1>1, <1>4, OptionLocked
<1>6. x.values = Taken(x, Append(all, text))
  BY <1>3, <1>5, TakenSame
<1> QED
  BY <1>5, <1>6, JoinOne DEF LineGave

\* An argument gives the option it names its text, and no other anything.
LEMMA ArgumentGives ==
    ASSUME IInv, LineInv, ParseArgument, pc' = "args", NEW o, NoBoolean(o)
    PROVE  LineGave(conf'.options[o], Initial(LineTexts(conf, o)', i' - 1))
<1>1. /\ argv \in CommandLines /\ Well(conf) /\ Kept(conf', conf)
      /\ argv' = argv /\ environ' = environ /\ i' = i + 1 /\ i \in Nat /\ pc = "args"
      /\ o \in DOMAIN conf.options /\ conf.options[o].type # "PARAM_BOOL" /\ i <= Len(argv)
  BY SourceStep DEF IInv, ConfInv, Early, Control, ParseArgument, given, NoBoolean
<1>2. PICK n, k, s, old, text, opt :
        /\ n = Len(argv) /\ k = i /\ s = LineTexts(conf, o) /\ old = conf.options[o] /\ text = argv[i].text
        /\ opt = ArgpOption(conf, argv[i].name)
  OBVIOUS
<1>3. LineTexts(conf, o)' = s /\ s \in Seq(Seq(STRING)) /\ Len(s) = n /\ n \in Nat
  BY <1>1, <1>2, LineIs, SourcesSame
<1>4. k \in 1 .. n /\ i' - 1 = k /\ DOMAIN argv = 1 .. n
  <2>1. i \in 1 .. Len(argv) + 1 /\ Len(argv) \in Nat /\ DOMAIN argv = 1 .. Len(argv)
    BY <1>1, LineIs DEF LineInv
  <2> QED
    BY <1>1, <1>2, <2>1
<1>5. /\ Initial(s, k - 1) \in Seq(STRING)
      /\ Initial(s, k) = Initial(s, k - 1) \o s[k]
  BY <1>3, <1>4, FrontNext
<1>6. LineGave(old, Initial(s, k - 1)) /\ Sound(old) /\ text \in STRING
  <2>1. LineGave(old, Initial(s, k - 1))
    BY <1>1, <1>2 DEF LineInv
  <2>2. Sound(old)
    BY <1>1, <1>2 DEF Well
  <2>3. text \in STRING
    BY <1>1, <1>2, <1>4, LineIs
  <2> QED
    BY <2>1, <2>2, <2>3
<1>7. s[k] = IF argv[i].kind = "config" /\ opt = o THEN <<text>> ELSE <<>>
  BY <1>2, <1>4 DEF LineTexts
<1>8. PICK all : all = Initial(s, k - 1)
  OBVIOUS
<1>9. all \o <<>> = all
  BY <1>5, <1>8
<1>10. CASE UNCHANGED conf /\ argv[i].kind \in {"load", "log_output", "log_level"}
  <2>1. Initial(s, k) = all
    BY <1>5, <1>7, <1>8, <1>9, <1>10
  <2> QED
    BY <1>2, <1>3, <1>4, <1>6, <1>8, <1>10, <2>1
<1>11. CASE /\ argv[i].kind = "config" /\ ArgumentAccepted(conf.options[opt], text)
            /\ conf' = Put(conf, opt, Locked(config_add_value_from_string(conf.options[opt], text)))
  <2>1. PICK x : x = Locked(config_add_value_from_string(conf.options[opt], text))
    OBVIOUS
  <2>2. opt \in DOMAIN conf.options => Sound(x)
    <3>1. opt \in DOMAIN conf.options => Sound(conf.options[opt])
      BY <1>1 DEF Well
    <3> QED
      BY <1>11, <2>1, <3>1, ArgumentOption DEF LineChanges
  <2>3. \A j \in DOMAIN conf.options : conf'.options[j] = IF j = opt THEN x ELSE conf.options[j]
    BY <1>1, <1>11, <2>1, <2>2, OptionChanged
  <2>4. CASE opt # o
    <3>1. Initial(s, k) = all /\ conf'.options[o] = old
      BY <1>1, <1>2, <1>5, <1>7, <1>8, <1>9, <2>3, <2>4
    <3> QED
      BY <1>3, <1>4, <1>6, <1>8, <3>1
  <2>5. CASE opt = o
    <3>1. Initial(s, k) = all \o <<text>> /\ conf'.options[o] = x
      BY <1>1, <1>5, <1>7, <1>8, <1>11, <2>3, <2>5
    <3>2. x = Locked(config_add_value_from_string(old, text)) /\ ArgumentAccepted(old, text)
          /\ old.type # "PARAM_BOOL" /\ all \in Seq(STRING) /\ LineGave(old, all)
      BY <1>1, <1>2, <1>5, <1>6, <1>8, <1>11, <2>1, <2>5
    <3>3. LineGave(x, all \o <<text>>)
      BY <1>6, <3>2, LineOption
    <3> QED
      BY <1>3, <1>4, <3>1, <3>3
  <2> QED
    BY <2>4, <2>5
<1> QED
  <2>1. argv[i].kind \in {"load", "log_output", "log_level", "config", "positional"}
    BY <1>1, <1>2, <1>4, LineIs
  <2>2. pc' # "exit"
    OBVIOUS
  <2>3. /\ argv[i].kind # "positional"
        /\ \/ argv[i].kind \in {"load", "log_output", "log_level"} /\ UNCHANGED conf
           \/ /\ ArgumentAccepted(conf.options[opt], text)
              /\ conf' = parse_commandline_opt(conf, opt, text)
    BY <1>2, <2>2 DEF ParseArgument, Exit
  <2>4. conf' = parse_commandline_opt(conf, opt, text) =>
            conf' = Put(conf, opt, Locked(config_add_value_from_string(conf.options[opt], text)))
    BY DEF parse_commandline_opt, Put
  <2>5. CASE argv[i].kind \in {"load", "log_output", "log_level"}
    <3>1. UNCHANGED conf
      BY <2>5 DEF ParseArgument
    <3> QED
      BY <1>10, <2>5, <3>1
  <2> QED
    BY <1>11, <2>1, <2>3, <2>4, <2>5

-----------------------------------------------------------------------------
(* The environment.                                                        *)

\* An option whose list is being read.
Listed(o) ==
    LET x   == conf.options[o]
        var == VarOf(x)
    IN  /\ OnCommandLine(o) = <<>> /\ ~x.no_override /\ var # NULL /\ IsEnvList(x, var)
        /\ num \in 1 .. Len(var.tokens) + 1
        /\ x.values = Taken(x, Initial(EnvTexts(x, var.tokens), num - 1))

\* An option the loop of config_read_env is behind, at, or in front of.
EnvGave(o) ==
    /\ o < i => Settled(o)
    /\ o > i \/ (o = i /\ pc = "env") => LineGave(conf.options[o], OnCommandLine(o))
    /\ o = i /\ pc = "env_list" => Listed(o)

EnvInv == pc \in {"env", "env_list"} => \A o : NoBoolean(o) => EnvGave(o)

\* An option config_read_env passes over, one that gets a text, ...
LEMMA SettledByLine ==
    ASSUME NEW x, NEW line, LineGave(x, line), NEW env, NEW colons,
           x.no_override \/ env = <<>>
    PROVE  SettledBy(x, line, env, colons)
BY DEF LineGave, SettledBy, Above

LEMMA SettledByText ==
    ASSUME NEW x, Sound(x), x.type # "PARAM_BOOL", LineGave(x, <<>>), NEW text \in STRING,
           NEW y, y = EnvText(x, text), NEW colons
    PROVE  SettledBy(y, <<>>, IF Valid(x, text) THEN <<text>> ELSE <<>>, colons)
<1>1. ~x.no_override /\ x.values = Taken(x, <<>>)
  BY DEF LineGave
<1>2. CASE Valid(x, text)
  <2>1. PICK z : z = config_add_value_from_string(x, text)
    OBVIOUS
  <2>2. <<>> \in Seq(STRING) /\ Append(<<>>, text) = <<text>>
    OBVIOUS
  <2>3. PICK all : all = <<>>
    OBVIOUS
  <2>4. z.values = Taken(z, Append(all, text))
    BY <1>1, <1>2, <2>1, <2>2, <2>3, TakenMore
  <2>5. Sound(z)
    BY <2>1, ValueFromString
  <2>6. y = Locked(z)
    BY <1>2, <2>1 DEF EnvText
  <2>7. y.values = z.values /\ SameButValues(y, z) /\ y.no_override = TRUE
    BY <2>5, <2>6, OptionLocked
  <2>8. y.values = Taken(y, <<text>>)
    BY <2>2, <2>3, <2>4, <2>7, TakenSame
  <2>9. <<text>> # <<>>
    OBVIOUS
  <2> QED
    BY <1>2, <2>7, <2>8, <2>9 DEF SettledBy, Above
<1>3. CASE ~Valid(x, text)
  BY <1>1, <1>3 DEF EnvText, SettledBy, Above
<1> QED
  BY <1>2, <1>3

\* A token more, and the lock at the end of the list.
LEMMA TokenTaken ==
    ASSUME NEW x, Sound(x), x.type # "PARAM_BOOL", NEW all \in Seq(STRING), x.values = Taken(x, all),
           NEW text \in STRING, NEW y, y = config_add_value_from_string(x, text)
    PROVE  y.values = Taken(y, all \o IF Valid(x, text) THEN <<text>> ELSE <<>>)
<1>1. CASE Valid(x, text)
  <2>1. y.values = Taken(y, Append(all, text))
    BY <1>1, TakenMore
  <2> QED
    BY <1>1, <2>1, JoinOne
<1>2. CASE ~Valid(x, text)
  <2>1. y = x
    BY <1>2 DEF config_add_value_from_string
  <2>2. all \o <<>> = all
    OBVIOUS
  <2> QED
    BY <1>2, <2>1, <2>2
<1> QED
  BY <1>1, <1>2

LEMMA SettledByList ==
    ASSUME NEW x, Sound(x), NEW env, x.values = Taken(x, env), NEW y, y = Locked(x), NEW colons,
           env = <<>> => colons
    PROVE  SettledBy(y, <<>>, env, colons)
<1>1. y.values = x.values /\ SameButValues(y, x) /\ y.no_override = TRUE
  BY OptionLocked
<1>2. y.values = Taken(y, env)
  BY <1>1, TakenSame
<1> QED
  BY <1>1, <1>2 DEF SettledBy, Above

\* What these steps change is the option at i.
LEMMA EnvOthers ==
    ASSUME IInv, ReadEnv \/ EnvToken
    PROVE  /\ Well(conf) /\ Kept(conf', conf) /\ i \in Nat
           /\ argv' = argv /\ environ' = environ
           /\ \A o \in DOMAIN conf.options : o \in Nat /\ Sound(conf.options[o])
           /\ \A o \in DOMAIN conf.options : o # i => conf'.options[o] = conf.options[o]
<1>1. /\ ConfInv /\ Well(conf) /\ i \in Nat /\ argv' = argv /\ environ' = environ
      /\ \A o \in DOMAIN conf.options : Sound(conf.options[o])
  BY DEF IInv, ConfInv, Control, ReadEnv, EnvToken, given, Well
<1>2. Kept(conf', conf)
  BY <1>1, SourceStep
<1>3. \A o \in DOMAIN conf.options : o \in Nat
  <2>1. conf.options \in Seq(ToSet(conf.options))
    BY <1>1 DEF Well, Configuration
  <2> QED
    BY <2>1
<1>4. \A o \in DOMAIN conf.options : o # i => conf'.options[o] = conf.options[o]
  <2>1. CASE UNCHANGED conf
    BY <2>1
  <2>2. ASSUME NEW x, i \in DOMAIN conf.options, EnvChanges(x, conf.options[i]), conf' = Put(conf, i, x)
        PROVE  \A o \in DOMAIN conf.options : o # i => conf'.options[o] = conf.options[o]
    BY <1>1, <2>2, OptionChanged DEF EnvChanges
  <2> QED
    BY <1>1, <2>1, <2>2, EnvironmentChanges
<1> QED
  BY <1>1, <1>2, <1>3, <1>4

\* An option that did not change is as settled as it was, or still waits.
LEMMA EnvStill ==
    ASSUME IInv, ReadEnv \/ EnvToken, NEW o, o \in DOMAIN conf.options, conf'.options[o] = conf.options[o]
    PROVE  /\ Settled(o) => Settled(o)'
           /\ LineGave(conf.options[o], OnCommandLine(o)) =>
                LineGave(conf.options[o], OnCommandLine(o))'
<1>1. Kept(conf', conf) /\ argv' = argv /\ environ' = environ
  BY EnvOthers
<1>2. Settled(o) => Settled(o)'
  BY <1>1, SettledStill
<1>3. OnCommandLine(o)' = OnCommandLine(o)
  BY <1>1, SourcesSame
<1> QED
  BY <1>2, <1>3 DEF LineGave

\* The next option, and the next token.
LEMMA ReadEnvGives ==
    ASSUME IInv, Said, ReadEnv, NEW o, NoBoolean(o), EnvGave(o)
    PROVE  EnvGave(o)'
<1>1. /\ Well(conf) /\ Kept(conf', conf) /\ i \in Nat /\ argv' = argv /\ environ' = environ
      /\ o \in DOMAIN conf.options /\ o \in Nat /\ Sound(conf.options[o])
      /\ conf.options[o].type # "PARAM_BOOL" /\ environ \in Environments /\ pc = "env"
      /\ o # i => conf'.options[o] = conf.options[o]
  BY EnvOthers DEF NoBoolean, Said, ReadEnv
<1>2. PICK x, var, line, env :
        x = conf.options[o] /\ var = VarOf(x) /\ line = OnCommandLine(o) /\ env = InEnvironment(o)
  OBVIOUS
<1>3. /\ var = NULL => env = <<>>
      /\ var # NULL => /\ ~IsEnvList(x, var) => env = IF Valid(x, var.text) THEN <<var.text>> ELSE <<>>
                       /\ var.text \in STRING /\ var.tokens \in Seq(STRING)
  BY <1>1, <1>2, EnvironmentIs, Variable DEF VarOf
<1>4. /\ OnCommandLine(o)' = line /\ InEnvironment(o)' = env /\ (EmptyList(o)' <=> EmptyList(o))
  BY <1>1, <1>2, SourcesSame
<1>5. CASE o # i
  <2>1. \/ i' = i + 1 /\ pc' = "env"
        \/ i' = i /\ pc' = "env_list"
    BY DEF ReadEnv
  <2>2. conf'.options[o] = conf.options[o]
    BY <1>1, <1>5
  <2>3. o < i => Settled(o)'
    BY <1>1, <2>2, EnvStill DEF EnvGave
  <2>4. o > i => LineGave(conf.options[o], OnCommandLine(o))'
    BY <1>1, <2>2, EnvStill DEF EnvGave
  <2>5. /\ o < i' => o < i
        /\ o > i' \/ (o = i' /\ pc' = "env") => o > i
        /\ ~(o = i' /\ pc' = "env_list")
    BY <1>1, <1>5, <2>1
  <2> QED
    BY <2>3, <2>4, <2>5 DEF EnvGave
<1>6. CASE o = i
  <2>1. LineGave(x, line)
    BY <1>1, <1>2, <1>6 DEF EnvGave
  <2>2. ASSUME i' = i + 1, pc' = "env", Settled(o)'
        PROVE  EnvGave(o)'
    <3>1. ~(o > i') /\ o # i'
      BY <1>1, <1>6, <2>2
    <3> QED
      BY <2>2, <3>1 DEF EnvGave
  <2>3. CASE EnvSkips(x, var) /\ i' = i + 1 /\ UNCHANGED <<conf, num, pc>>
    <3>1. SettledBy(x, line, env, EmptyList(o))
      BY <1>3, <2>1, <2>3, SettledByLine DEF EnvSkips
    <3>2. Settled(o)
      BY <1>2, <3>1 DEF Settled
    <3>3. Settled(o)'
      BY <1>1, <2>3, <3>2, EnvStill
    <3> QED
      BY <1>1, <2>2, <2>3, <3>3
  <2>4. CASE /\ ~EnvSkips(x, var) /\ ~IsEnvList(x, var)
             /\ conf' = Put(conf, i, EnvText(x, var.text)) /\ i' = i + 1 /\ pc' = "env"
    <3>1. PICK y : y = EnvText(x, var.text)
      OBVIOUS
    <3>2. ~x.no_override /\ var # NULL
      BY <2>4 DEF EnvSkips
    <3>3. line = <<>> /\ LineGave(x, <<>>)
      BY <2>1, <3>2 DEF LineGave
    <3>4. PICK colons : colons = EmptyList(o)
      OBVIOUS
    <3>5. SettledBy(y, <<>>, env, colons)
      <4>1. Sound(x) /\ x.type # "PARAM_BOOL" /\ var.text \in STRING
        BY <1>1, <1>2, <1>3, <3>2
      <4>2. SettledBy(y, <<>>, IF Valid(x, var.text) THEN <<var.text>> ELSE <<>>, colons)
        BY <3>1, <3>3, <4>1, SettledByText
      <4> QED
        BY <1>3, <2>4, <3>2, <4>2
    <3>6. conf'.options[o] = y
      <4>1. Sound(y)
        BY <1>1, <1>2, <3>1, <3>2, TextOption DEF EnvChanges
      <4>2. conf' = Put(conf, i, y) /\ i \in DOMAIN conf.options
        BY <1>1, <1>6, <2>4, <3>1
      <4> QED
        BY <1>1, <1>6, <4>1, <4>2, OptionChanged
    <3>7. Settled(o)'
      BY <1>4, <3>3, <3>4, <3>5, <3>6 DEF Settled, SettledBy
    <3> QED
      BY <2>2, <2>4, <3>7
  <2>5. CASE /\ ~EnvSkips(x, var) /\ IsEnvList(x, var) /\ num' = 1 /\ pc' = "env_list"
             /\ UNCHANGED <<conf, i>>
    <3>1. ~x.no_override /\ var # NULL
      BY <2>5 DEF EnvSkips
    <3>2. line = <<>> /\ x.values = Taken(x, <<>>)
      BY <2>1, <3>1 DEF LineGave
    <3>3. num' \in 1 .. Len(var.tokens) + 1 /\ num' - 1 = 0
      <4>1. var.tokens \in Seq(STRING)
        BY <1>3, <3>1
      <4>2. Len(var.tokens) \in Nat
        BY <4>1, LenProperties
      <4> QED
        BY <2>5, <4>2
    <3>4. Initial(EnvTexts(x, var.tokens), num' - 1) = <<>>
      BY <1>3, <3>1, <3>3, EnvTextsTyped, FrontEnds
    <3>5. conf'.options[o] = x /\ VarOf(conf.options[o])' = var
      BY <1>1, <1>2, <2>5 DEF VarOf, getenv
    <3>6. Listed(o)'
      BY <1>4, <2>5, <3>1, <3>2, <3>3, <3>4, <3>5 DEF Listed
    <3>7. ~(o < i') /\ ~(o > i')
      BY <1>1, <1>6, <2>5
    <3> QED
      BY <2>5, <3>6, <3>7 DEF EnvGave
  <2> QED
    <3>1. conf.options[i] = x /\ getenv(OuterName(conf.options[i])) = var
      BY <1>2, <1>6 DEF VarOf
    <3> QED
      BY <1>1, <2>3, <2>4, <2>5, <3>1 DEF ReadEnv, Put
<1> QED
  BY <1>5, <1>6

\* What the variables give an option does not change with its values.
LEMMA EnvTextsSame ==
    ASSUME NEW new, NEW o, SameButValues(new, o)
    PROVE  /\ \A texts : EnvTexts(new, texts) = EnvTexts(o, texts)
           /\ \A var : IsEnvList(new, var) <=> IsEnvList(o, var)
           /\ OuterName(new) = OuterName(o) /\ VarOf(new) = VarOf(o)
<1>1. \A text : Valid(new, text) <=> Valid(o, text)
  BY DEF SameButValues, Valid
<1>2. OuterName(new) = OuterName(o)
  BY DEF SameButValues, OuterName
<1>3. \A var : IsEnvList(new, var) <=> IsEnvList(o, var)
  BY DEF SameButValues, IsEnvList
<1> QED
  BY <1>1, <1>2, <1>3 DEF EnvTexts, VarOf

LEMMA EnvTokenGives ==
    ASSUME IInv, Said, EnvToken, NEW o, NoBoolean(o), EnvGave(o)
    PROVE  EnvGave(o)'
<1>1. /\ Well(conf) /\ Kept(conf', conf) /\ i \in Nat /\ argv' = argv /\ environ' = environ
      /\ o \in DOMAIN conf.options /\ o \in Nat /\ Sound(conf.options[o])
      /\ conf.options[o].type # "PARAM_BOOL" /\ environ \in Environments /\ pc = "env_list"
      /\ o # i => conf'.options[o] = conf.options[o]
  BY EnvOthers DEF NoBoolean, Said, EnvToken
<1>2. PICK x, var, toks, env :
        x = conf.options[o] /\ var = VarOf(x) /\ toks = var.tokens /\ env = InEnvironment(o)
  OBVIOUS
<1>3. /\ OnCommandLine(o)' = OnCommandLine(o) /\ InEnvironment(o)' = env
      /\ (EmptyList(o)' <=> EmptyList(o))
  BY <1>1, <1>2, SourcesSame
<1>4. CASE o # i
  <2>1. \/ i' = i + 1 /\ pc' = "env"
        \/ i' = i /\ pc' = "env_list"
    BY <1>1 DEF EnvToken
  <2>2. conf'.options[o] = conf.options[o]
    BY <1>1, <1>4
  <2>3. o < i => Settled(o)'
    BY <1>1, <2>2, EnvStill DEF EnvGave
  <2>4. o > i => LineGave(conf.options[o], OnCommandLine(o))'
    BY <1>1, <2>2, EnvStill DEF EnvGave
  <2>5. /\ o < i' => o < i
        /\ o > i' \/ (o = i' /\ pc' = "env") => o > i
        /\ ~(o = i' /\ pc' = "env_list")
    BY <1>1, <1>4, <2>1
  <2> QED
    BY <2>3, <2>4, <2>5 DEF EnvGave
<1>5. CASE o = i
  <2>1. /\ OnCommandLine(o) = <<>> /\ ~x.no_override /\ var # NULL /\ IsEnvList(x, var)
        /\ num \in 1 .. Len(toks) + 1
        /\ x.values = Taken(x, Initial(EnvTexts(x, toks), num - 1))
    BY <1>1, <1>2, <1>5 DEF EnvGave, Listed
  <2>2. /\ toks \in Seq(STRING) /\ Len(toks) \in Nat
        /\ EnvTexts(x, toks) \in Seq(Seq(STRING)) /\ Len(EnvTexts(x, toks)) = Len(toks)
        /\ \A k \in 1 .. Len(toks) :
              EnvTexts(x, toks)[k] = IF Valid(x, toks[k]) THEN <<toks[k]>> ELSE <<>>
    <3>1. toks \in Seq(STRING)
      BY <1>1, <1>2, <2>1, Variable DEF VarOf
    <3> QED
      BY <3>1, EnvTextsTyped, LenProperties
  <2>3. conf.options[i] = x /\ getenv(OuterName(conf.options[i])).tokens = toks
    BY <1>2, <1>5 DEF VarOf
  <2>4. CASE /\ num <= Len(toks)
             /\ conf' = Put(conf, i, config_add_value_from_string(x, toks[num]))
             /\ num' = num + 1 /\ UNCHANGED <<pc, i>>
    <3>1. PICK y, k, text : y = config_add_value_from_string(x, toks[num]) /\ k = num /\ text = toks[num]
      OBVIOUS
    <3>2. k \in 1 .. Len(toks) /\ text \in STRING /\ num' \in 1 .. Len(toks) + 1 /\ num' - 1 = k
      BY <2>1, <2>2, <2>4, <3>1
    <3>3. PICK all : all = Initial(EnvTexts(x, toks), k - 1)
      OBVIOUS
    <3>4. /\ all \in Seq(STRING)
          /\ Initial(EnvTexts(x, toks), k) = all \o IF Valid(x, text) THEN <<text>> ELSE <<>>
      BY <2>2, <3>1, <3>2, <3>3, FrontNext
    <3>5. Sound(y) /\ SameButValues(y, x) /\ y.no_override = x.no_override
      BY <1>1, <1>2, <3>1, ValueFromString
    <3>6. y.values = Taken(y, Initial(EnvTexts(x, toks), k))
      <4>1. Sound(x) /\ x.type # "PARAM_BOOL" /\ x.values = Taken(x, all)
            /\ y = config_add_value_from_string(x, text)
        BY <1>1, <1>2, <2>1, <3>1, <3>3
      <4>2. y.values = Taken(y, all \o IF Valid(x, text) THEN <<text>> ELSE <<>>)
        BY <3>2, <3>4, <4>1, TokenTaken
      <4> QED
        BY <3>4, <4>2
    <3>7. conf'.options[o] = y
      BY <1>1, <1>5, <2>4, <3>1, <3>5, OptionChanged
    <3>8. EnvTexts(y, toks) = EnvTexts(x, toks) /\ VarOf(y) = var /\ IsEnvList(y, var)
      BY <1>2, <2>1, <3>5, EnvTextsSame
    <3>9. VarOf(conf.options[o])' = var
      <4>1. VarOf(conf.options[o])' = VarOf(y)
        BY <1>1, <3>7 DEF VarOf, getenv
      <4> QED
        BY <3>8, <4>1
    <3>10. /\ OnCommandLine(o)' = <<>> /\ ~y.no_override /\ num' \in 1 .. Len(toks) + 1
           /\ y.values = Taken(y, Initial(EnvTexts(y, toks), num' - 1))
      BY <1>3, <2>1, <3>2, <3>5, <3>6, <3>8
    <3>11. Listed(o)'
      BY <1>2, <2>1, <3>7, <3>8, <3>9, <3>10 DEF Listed
    <3>12. i' = i /\ pc' = "env_list"
      BY <1>1, <2>4
    <3> QED
      BY <1>1, <1>5, <3>11, <3>12 DEF EnvGave
  <2>5. CASE /\ num > Len(toks) /\ conf' = Put(conf, i, Locked(x)) /\ i' = i + 1 /\ pc' = "env"
    <3>1. PICK y : y = Locked(x)
      OBVIOUS
    <3>2. PICK colons : colons = EmptyList(o)
      OBVIOUS
    <3>3. num - 1 = Len(toks)
      BY <2>1, <2>2, <2>5
    <3>4. Initial(EnvTexts(x, toks), num - 1) = FlattenSeq(EnvTexts(x, toks))
      BY <2>2, <3>3, FrontEnds
    <3>5. env = FlattenSeq(EnvTexts(x, toks)) /\ (env = <<>> => colons)
      <4>1. VarTexts(x, var) = toks
        BY <1>2, <2>1 DEF VarTexts
      <4> QED
        BY <1>1, <1>2, <2>1, <3>2, <4>1, EnvironmentIs
    <3>6. SettledBy(y, <<>>, env, colons)
      <4>1. Sound(x) /\ x.values = Taken(x, env)
        BY <1>1, <1>2, <2>1, <3>4, <3>5
      <4> QED
        BY <3>1, <3>5, <4>1, SettledByList
    <3>7. conf'.options[o] = y
      <4>1. Sound(y)
        BY <1>1, <1>2, <3>1, OptionLocked
      <4> QED
        BY <1>1, <1>5, <2>5, <3>1, <4>1, OptionChanged
    <3>8. Settled(o)'
      BY <1>3, <2>1, <3>2, <3>6, <3>7 DEF Settled, SettledBy
    <3>9. ~(o > i') /\ o # i'
      BY <1>1, <1>5, <2>5
    <3> QED
      BY <3>8, <3>9 DEF EnvGave
  <2> QED
    BY <2>3, <2>4, <2>5 DEF EnvToken, Put
<1> QED
  BY <1>4, <1>5

-----------------------------------------------------------------------------
(* What the options have when the files are read, and after it.            *)

Filled == {"confd", "scan", "configs", "init", "serving"}
Over == {"exit", "destroy_config", "destroy_logger", "ended", "undefined"}

SettledInv == pc \in Filled => \A o : NoBoolean(o) => Settled(o)

\* An option takes what each document says of it.
FromFiles(o) ==
    /\ yaml.mode = "idle" => Gave(conf, o, SoFar(conf, o))
    /\ yaml.mode # "idle" /\ Plain(doc) => Taking(o, SoFar(conf, o))

AllPlain == \A d \in ToSet(read) : Plain(d)

ReadInv ==
    /\ read \in Seq(Documents)
    /\ pc \notin Filled \cup Over => read = <<>>
    /\ pc \in Filled /\ AllPlain => \A o : NoBoolean(o) => FromFiles(o)

Giving == LineInv /\ EnvInv /\ SettledInv /\ ReadInv

\* What leads to the command line, to the environment and to the files.
LEMMA ComesFrom ==
    ASSUME Main
    PROVE  /\ pc' = "args" => DeclareOptions \/ ParseArgument
           /\ pc' \in {"env", "env_list"} => ArgumentsDone \/ ReadEnv \/ EnvToken
           /\ pc' \in Filled =>
                \/ EnvDone
                \/ /\ pc \in Filled /\ argv' = argv /\ environ' = environ
                   /\ ParseStep \/ UNCHANGED conf
<1> USE DEF Exit, Go, Filled
<1>1. CASE ParseEarlyArgument \/ EarlyArgumentsDone \/ LoggerNew \/ ConfigNew \/ LoadContainer
           \/ PluginDeclares \/ ContainerMade \/ DeclareOptions
  BY <1>1 DEF ParseEarlyArgument, EarlyArgumentsDone, LoggerNew, ConfigNew, LoadContainer, PluginDeclares,
              ContainerMade, DeclareOptions
<1>2. CASE ParseArgument \/ ArgumentsDone \/ ReadEnv \/ EnvToken \/ EnvDone
  BY <1>2 DEF ParseArgument, ArgumentsDone, ReadEnv, EnvToken, EnvDone
<1>3. CASE NextDirectory \/ DirectoriesDone \/ ScanEntry \/ NextFile
  BY <1>3 DEF NextDirectory, DirectoriesDone, ScanEntry, NextFile, given
<1>4. CASE ParseStep \/ FileParsed \/ FilesDone \/ ContainerInit
  BY <1>4 DEF ParseStep, FileParsed, FilesDone, ContainerInit, given
<1>5. CASE ContainerDestroy \/ ConfigDestroy \/ LoggerDestroy
  BY <1>5 DEF ContainerDestroy, ConfigDestroy, LoggerDestroy
<1> QED
  BY <1>1, <1>2, <1>3, <1>4, <1>5 DEF Main

\* An option that is no boolean was none before.
LEMMA NoBooleanStill ==
    ASSUME Kept(conf', conf), NEW o, NoBoolean(o)'
    PROVE  NoBoolean(o) /\ o \in DOMAIN conf.options
BY DEF NoBoolean, Kept, SameButValues

LEMMA KeptItself == \A c : Kept(c, c)
BY DEF Kept, SameButValues

\* The command line is begun and read on.
LEMMA LineInvStep ==
    ASSUME IInv, LineInv, Main
    PROVE  LineInv'
<1> SUFFICES ASSUME pc' = "args"
             PROVE  LineInv'
  BY DEF LineInv
<1>1. CASE DeclareOptions
  <2>1. Fresh(conf') /\ argv' = argv /\ argv \in CommandLines /\ i' = 1
    <3>1. ConfInv /\ Early /\ pc = "declare" /\ conf' = CoreSettings(WithCoreOptions(conf))
      BY <1>1 DEF IInv, DeclareOptions
    <3>2. Well(conf) /\ Fresh(conf)
      BY <3>1 DEF ConfInv, Declaring
    <3>3. Grows(conf', conf)
      BY <3>1, <3>2, CoreDeclared
    <3> QED
      BY <1>1, <3>1, <3>3 DEF Grows, Early, DeclareOptions, given
  <2>2. Len(argv) \in Nat
    BY <2>1, LineIs
  <2>3. ASSUME NEW o, NoBoolean(o)'
        PROVE  LineGave(conf'.options[o], Initial(LineTexts(conf, o)', i' - 1))
    <3>1. conf'.options[o].values = <<>> /\ conf'.options[o].no_override = FALSE
      BY <2>1, <2>3 DEF NoBoolean, Fresh
    <3>2. LineTexts(conf', o) \in Seq(Seq(STRING)) /\ LineTexts(conf, o)' = LineTexts(conf', o)
      BY <2>1, LineIs DEF LineTexts
    <3>3. Initial(LineTexts(conf', o), 0) = <<>>
      BY <3>2, FrontEnds
    <3>4. Initial(LineTexts(conf, o)', i' - 1) = <<>>
      <4>1. i' - 1 = 0
        BY <2>1
      <4> QED
        BY <3>2, <3>3, <4>1
    <3> QED
      BY <3>1, <3>4, TakenNothing DEF LineGave
  <2>4. i' \in 1 .. Len(argv') + 1
    BY <2>1, <2>2
  <2> QED
    BY <2>3, <2>4 DEF LineInv
<1>2. CASE ParseArgument
  <2>1. Kept(conf', conf)
    BY <1>2, SourceStep DEF IInv
  <2>2. i' \in 1 .. Len(argv') + 1
    <3>1. i' = i + 1 /\ argv' = argv /\ i <= Len(argv) /\ pc = "args" /\ argv \in CommandLines
      BY <1>2 DEF ParseArgument, given, IInv, Early
    <3>2. i \in 1 .. Len(argv) + 1 /\ Len(argv) \in Nat
      BY <3>1, LineIs DEF LineInv
    <3> QED
      BY <3>1, <3>2
  <2>3. ASSUME NEW o, NoBoolean(o)'
        PROVE  LineGave(conf'.options[o], Initial(LineTexts(conf, o)', i' - 1))
    BY <1>2, <2>1, <2>3, NoBooleanStill, ArgumentGives
  <2> QED
    BY <2>2, <2>3 DEF LineInv
<1> QED
  BY <1>1, <1>2, ComesFrom

\* It ends, and the environment is read.
LEMMA EnvInvStep ==
    ASSUME IInv, Said, LineInv, EnvInv, Main
    PROVE  EnvInv'
<1> SUFFICES ASSUME pc' \in {"env", "env_list"}, NEW o, NoBoolean(o)'
             PROVE  EnvGave(o)'
  BY DEF EnvInv
<1>1. CASE ArgumentsDone
  <2>1. /\ conf' = conf /\ argv' = argv /\ environ' = environ /\ pc = "args" /\ pc' = "env" /\ i' = 1
        /\ i > Len(argv) /\ argv \in CommandLines /\ Well(conf)
    BY <1>1 DEF ArgumentsDone, Go, given, IInv, Early, ConfInv
  <2>2. Kept(conf', conf)
    BY <2>1, KeptItself
  <2>3. NoBoolean(o) /\ o \in DOMAIN conf.options
    BY <2>2, NoBooleanStill
  <2>4. PICK s, n : s = LineTexts(conf, o) /\ n = Len(argv)
    OBVIOUS
  <2>5. n \in Nat /\ s \in Seq(Seq(STRING)) /\ Len(s) = n /\ OnCommandLine(o) = FlattenSeq(s)
    BY <2>1, <2>4, LineIs
  <2>6. LineGave(conf.options[o], Initial(s, i - 1)) /\ i - 1 = n
    <3>1. i \in 1 .. n + 1 /\ i > n
      BY <2>1, <2>4 DEF LineInv
    <3>2. LineGave(conf.options[o], Initial(s, i - 1))
      BY <2>1, <2>3, <2>4 DEF LineInv
    <3> QED
      BY <2>5, <3>1, <3>2
  <2>7. LineGave(conf.options[o], OnCommandLine(o))
    BY <2>5, <2>6, FrontEnds
  <2>8. OnCommandLine(o)' = OnCommandLine(o)
    BY <2>1, <2>2, <2>3, SourcesSame
  <2>9. o \in Nat /\ o # 0
    <3>1. conf.options \in Seq(ToSet(conf.options))
      BY <2>1 DEF Well, Configuration
    <3> QED
      BY <2>3, <3>1
  <2>10. ~(o < i') /\ pc' # "env_list"
    BY <2>1, <2>9
  <2>11. LineGave(conf'.options[o], OnCommandLine(o)')
    BY <2>1, <2>7, <2>8
  <2> QED
    BY <2>10, <2>11 DEF EnvGave
<1>2. CASE ReadEnv \/ EnvToken
  <2>1. Kept(conf', conf) /\ pc \in {"env", "env_list"}
    BY <1>2, EnvOthers DEF ReadEnv, EnvToken
  <2>2. NoBoolean(o)
    BY <2>1, NoBooleanStill
  <2>3. EnvGave(o)
    BY <2>1, <2>2 DEF EnvInv
  <2> QED
    BY <1>2, <2>2, <2>3, ReadEnvGives, EnvTokenGives
<1> QED
  BY <1>1, <1>2, ComesFrom

\* All options are settled when the files begin, and stay so.
LEMMA SettledInvStep ==
    ASSUME IInv, EnvInv, SettledInv, Main
    PROVE  SettledInv'
<1> SUFFICES ASSUME pc' \in Filled, NEW o, NoBoolean(o)'
             PROVE  Settled(o)'
  BY DEF SettledInv
<1>1. CASE EnvDone
  <2>1. /\ conf' = conf /\ argv' = argv /\ environ' = environ /\ pc = "env" /\ i > Len(conf.options)
        /\ Well(conf)
    BY <1>1 DEF EnvDone, given, IInv, ConfInv
  <2>2. Kept(conf', conf)
    BY <2>1, KeptItself
  <2>3. NoBoolean(o) /\ o \in DOMAIN conf.options
    BY <2>2, NoBooleanStill
  <2>4. o < i
    <3>1. conf.options \in Seq(ToSet(conf.options)) /\ i \in Nat
      BY <2>1 DEF Well, Configuration, IInv, Control
    <3> QED
      BY <2>1, <2>3, <3>1
  <2>5. Settled(o)
    BY <2>1, <2>3, <2>4 DEF EnvInv, EnvGave
  <2> QED
    BY <2>1, <2>2, <2>3, <2>5, SettledStill
<1>2. CASE /\ pc \in Filled /\ argv' = argv /\ environ' = environ
           /\ ParseStep \/ UNCHANGED conf
  <2>1. /\ Kept(conf', conf)
        /\ \A k \in DOMAIN conf.options :
              /\ conf'.options[k].no_override = conf.options[k].no_override
              /\ conf.options[k].no_override => conf'.options[k] = conf.options[k]
    <3>1. CASE UNCHANGED conf
      BY <3>1, KeptItself
    <3>2. CASE ParseStep
      <4>1. Well(conf) /\ config_parse_main
        BY <3>2 DEF ParseStep, IInv, ConfInv
      <4> QED
        BY <4>1, ParserKeeps DEF Stays
    <3> QED
      BY <1>2, <3>1, <3>2
  <2>2. NoBoolean(o) /\ o \in DOMAIN conf.options
    BY <2>1, NoBooleanStill
  <2>3. Settled(o)
    BY <1>2, <2>2 DEF SettledInv
  <2> QED
    BY <1>2, <2>1, <2>2, <2>3, SettledStill
<1> QED
  BY <1>1, <1>2, ComesFrom

\* What was said in all of them.
LEMMA ReadTextsTyped ==
    ASSUME NEW c, NEW docs \in Seq(Documents), NEW o
    PROVE  /\ ReadTexts(c, docs, o) \in Seq(Seq(Texts)) /\ FlattenSeq(ReadTexts(c, docs, o)) \in Seq(Texts)
           /\ Len(ReadTexts(c, docs, o)) = Len(docs)
           /\ \A k \in 1 .. Len(docs) : ReadTexts(c, docs, o)[k] = FlattenSeq(DocumentTold(c, docs[k], o))
<1> DEFINE s == ReadTexts(c, docs, o)
           n == Len(docs)
<1>1. n \in Nat /\ DOMAIN docs = 1 .. n /\ \A k \in 1 .. n : docs[k] \in Documents
  BY LenProperties, ElementOfSeq
<1>2. s = [k \in 1 .. n |-> FlattenSeq(DocumentTold(c, docs[k], o))]
  BY <1>1 DEF ReadTexts
<1>3. \A k \in 1 .. n : FlattenSeq(DocumentTold(c, docs[k], o)) \in Seq(Texts)
  BY <1>1, DocumentToldTyped, FlattenTyped
<1> HIDE DEF s, n
<1>4. s \in Seq(Seq(Texts)) /\ Len(s) = n /\ \A k \in 1 .. n : s[k] = FlattenSeq(DocumentTold(c, docs[k], o))
  BY <1>1, <1>2, <1>3
<1>5. FlattenSeq(s) \in Seq(Texts)
  BY <1>4, FlattenTyped
<1> QED
  BY <1>4, <1>5 DEF s, n

\* A document more.
LEMMA ReadMore ==
    ASSUME NEW c, NEW docs \in Seq(Documents), NEW d \in Documents, NEW o,
           NEW more, more = Append(docs, d)
    PROVE  /\ FlattenSeq(ReadTexts(c, more, o)) =
                FlattenSeq(ReadTexts(c, docs, o)) \o FlattenSeq(DocumentTold(c, d, o))
           /\ ToSet(docs) \subseteq ToSet(more) /\ d \in ToSet(more)
<1> DEFINE s == ReadTexts(c, docs, o)
           t == ReadTexts(c, more, o)
           u == FlattenSeq(DocumentTold(c, d, o))
           n == Len(docs)
<1>1. /\ n \in Nat /\ more \in Seq(Documents) /\ Len(more) = n + 1 /\ more[n + 1] = d
      /\ \A k \in 1 .. n : more[k] = docs[k]
      /\ DOMAIN docs = 1 .. n /\ DOMAIN more = 1 .. n + 1
  <2> HIDE DEF n
  <2>1. /\ Len(docs) \in Nat /\ more \in Seq(Documents) /\ Len(more) = Len(docs) + 1
        /\ more[Len(docs) + 1] = d /\ \A k \in 1 .. Len(docs) : more[k] = docs[k]
    BY AppendProperties, LenProperties
  <2>2. DOMAIN docs = 1 .. Len(docs) /\ DOMAIN more = 1 .. Len(more)
    BY <2>1, LenProperties
  <2> QED
    BY <2>1, <2>2 DEF n
<1>2. /\ s \in Seq(Seq(Texts)) /\ Len(s) = n
      /\ \A k \in 1 .. n : s[k] = FlattenSeq(DocumentTold(c, docs[k], o))
  BY ReadTextsTyped
<1>3. /\ t \in Seq(Seq(Texts)) /\ Len(t) = n + 1
      /\ \A k \in 1 .. n + 1 : t[k] = FlattenSeq(DocumentTold(c, more[k], o))
  <2> HIDE DEF n, t
  <2>0. more \in Seq(Documents)
    BY <1>1
  <2>1. /\ ReadTexts(c, more, o) \in Seq(Seq(Texts)) /\ Len(ReadTexts(c, more, o)) = Len(more)
        /\ \A k \in 1 .. Len(more) : ReadTexts(c, more, o)[k] = FlattenSeq(DocumentTold(c, more[k], o))
    <3>1. \A e \in Seq(Documents) :
            /\ ReadTexts(c, e, o) \in Seq(Seq(Texts)) /\ Len(ReadTexts(c, e, o)) = Len(e)
            /\ \A k \in 1 .. Len(e) : ReadTexts(c, e, o)[k] = FlattenSeq(DocumentTold(c, e[k], o))
      BY ReadTextsTyped
    <3>2. PICK e : e = more
      OBVIOUS
    <3>3. e \in Seq(Documents)
      BY <2>0, <3>2
    <3> QED
      BY <3>1, <3>2, <3>3
  <2> QED
    BY <1>1, <2>1 DEF t
<1>4. u \in Seq(Texts)
  BY DocumentToldTyped, FlattenTyped
<1>5. t[n + 1] = u /\ \A k \in 1 .. n : t[k] = s[k]
  <2>1. n + 1 \in 1 .. n + 1 /\ \A k \in 1 .. n : k \in 1 .. n + 1
    BY <1>1
  <2> HIDE DEF s, t, n
  <2> QED
    BY <1>1, <1>2, <1>3, <2>1
<1>6. t = Append(s, u)
  <2> HIDE DEF s, t, u, n
  <2>1. t = [k \in 1 .. n + 1 |-> t[k]]
    BY <1>1, <1>3
  <2>2. /\ Append(s, u) = [k \in 1 .. n + 1 |-> Append(s, u)[k]]
        /\ Append(s, u)[n + 1] = u /\ \A k \in 1 .. n : Append(s, u)[k] = s[k]
    <3> DEFINE S == Seq(Texts)
               v == Append(s, u)
    <3> HIDE DEF S
    <3>1. s \in Seq(S) /\ u \in S
      BY <1>2, <1>4 DEF S
    <3>2. /\ v \in Seq(S) /\ Len(v) = Len(s) + 1
          /\ \A k \in 1 .. Len(s) : v[k] = s[k]
          /\ v[Len(s) + 1] = u
      BY <3>1, AppendProperties
    <3> HIDE DEF v
    <3>3. v = [k \in 1 .. Len(v) |-> v[k]]
      BY <3>2
    <3>4. v = [k \in 1 .. n + 1 |-> v[k]] /\ v[n + 1] = u /\ \A k \in 1 .. n : v[k] = s[k]
      BY <1>2, <3>2, <3>3
    <3> QED
      BY <3>4 DEF v
  <2>3. \A k \in 1 .. n + 1 : k \in 1 .. n \/ k = n + 1
    BY <1>1
  <2> QED
    BY <1>5, <2>1, <2>2, <2>3
<1>7. FlattenSeq(t) = FlattenSeq(s) \o u
  <2> HIDE DEF s, t, u
  <2> QED
    BY <1>2, <1>4, <1>6, FlattenAppend
<1>8. ToSet(docs) \subseteq ToSet(more) /\ d \in ToSet(more)
  <2>1. n + 1 \in 1 .. n + 1 /\ \A k \in 1 .. n : k \in 1 .. n + 1
    BY <1>1
  <2> HIDE DEF n
  <2> QED
    BY <1>1, <2>1 DEF ToSet
<1> QED
  BY <1>7, <1>8

\* A document that is opened, while nothing else is.
LEMMA FromFilesOpens ==
    ASSUME NEW o, FromFiles(o), yaml.mode = "idle", conf' = conf, read' = read,
           UNCHANGED parserVars \/ \E d \in Documents : config_parse(d)
    PROVE  FromFiles(o)'
<1>1. Gave(conf, o, SoFar(conf, o)) /\ SoFar(conf, o)' = SoFar(conf, o)
  BY DEF FromFiles, SoFar
<1>2. Gave(conf, o, SoFar(conf, o))'
  BY <1>1 DEF Gave
<1>3. yaml'.mode \in {"idle", "init"}
  BY DEF parserVars, config_parse, IdleYaml
<1> QED
  BY <1>2, <1>3 DEF FromFiles, Taking

\* A document stays as plain as it was.
LEMMA PlainStill ==
    ASSUME Well(conf), Stays(conf', conf)
    PROVE  \A d : Plain(d)' <=> Plain(d)
<1>1. \A d : Plain(d)' <=> PlainIn(conf', d)
  BY DEF Plain, PlainIn, Known, KnownIn
<1>2. \A d : PlainIn(conf', d) <=> PlainIn(conf, d)
  BY GoodSame
<1> QED
  BY <1>1, <1>2, SaysTheSame

\* A document that is parsed stays open.
LEMMA ParserGoesOn ==
    ASSUME YamlTyped, config_parse_main
    PROVE  yaml.mode # "idle" /\ yaml'.mode # "idle"
<1>1. /\ \A mode : Goto(mode) => yaml'.mode = mode
      /\ ParseFails => yaml'.mode = "failed"
  BY GoneTo
<1>2. yaml = [mode |-> yaml.mode, section |-> yaml.section, opt |-> yaml.opt]
  BY DEF YamlTyped
<1>3. CASE ParseInit
  BY <1>1, <1>3 DEF ParseInit
<1>4. CASE ParseSection
  <2>1. \/ \E mode \in {"done", "failed", "skip"} : Goto(mode)
        \/ \E section : yaml' = [yaml EXCEPT !.mode = "pairs", !.section = section]
    BY <1>4 DEF ParseSection, ParseFails
  <2> QED
    BY <1>1, <1>2, <1>4, <2>1 DEF ParseSection
<1>5. CASE SkipSection
  BY <1>1, <1>5 DEF SkipSection
<1>6. CASE KeyValue
  <2>1. \/ \E mode \in {"main", "failed", "unknown"} : Goto(mode)
        \/ UNCHANGED yaml
        \/ \E o : yaml' = [yaml EXCEPT !.mode = "list", !.opt = o]
    BY <1>6 DEF KeyValue, ParseFails
  <2> QED
    BY <1>1, <1>2, <1>6, <2>1 DEF KeyValue
<1>7. CASE ListItem
  <2>1. (\E mode \in {"pairs", "failed"} : Goto(mode)) \/ UNCHANGED yaml
    BY <1>7 DEF ListItem, ParseFails
  <2> QED
    BY <1>1, <1>7, <2>1 DEF ListItem
<1> QED
  BY <1>3, <1>4, <1>5, <1>6, <1>7 DEF config_parse_main

\* A step of the parser.
LEMMA FromFilesParses ==
    ASSUME IInv, ParserInv, ReadInv, ParseStep, NEW o, NoBoolean(o), FromFiles(o)
    PROVE  FromFiles(o)'
<1>1. /\ Well(conf) /\ YamlTyped /\ config_parse_main /\ doc' = doc /\ read' = read
      /\ o \in DOMAIN conf.options /\ conf.options[o].type # "PARAM_BOOL" /\ read \in Seq(Documents)
  BY DEF IInv, ConfInv, Control, YamlTyped, ParseStep, config_parse_main, NoBoolean, ReadInv, history
<1>2. yaml.mode # "idle"
  BY <1>1 DEF config_parse_main, ParseInit, ParseSection, SkipSection, KeyValue, ListItem
<1>3. yaml'.mode # "idle"
  BY <1>1, ParserGoesOn
<1>4. Well(conf') /\ Stays(conf', conf)
  BY <1>1, ParserKeeps
<1>5. PICK before : before = SoFar(conf, o)
  OBVIOUS
<1>6. SoFar(conf, o)' = before
  BY <1>1, <1>4, <1>5, ToldSame DEF SoFar, ReadTexts, Stays
<1>7. before \in Seq(Texts)
  BY <1>1, <1>5, ReadTextsTyped DEF SoFar
<1>8. o # 0
  <2>1. conf.options \in Seq(ToSet(conf.options))
    BY <1>1 DEF Well, Configuration
  <2> QED
    BY <1>1, <2>1
<1>9. ASSUME Plain(doc)'
      PROVE  Taking(o, before)'
  <2>1. Plain(doc)
    <3>1. \A d : Plain(d)' <=> Plain(d)
      BY <1>1, <1>4, PlainStill
    <3>2. PICK d : d = doc
      OBVIOUS
    <3>3. Plain(d)'
      BY <1>1, <1>9, <3>2 DEF Plain
    <3> QED
      BY <3>1, <3>2, <3>3
  <2>2. doc \in Documents /\ Reader /\ Taking(o, before)
    BY <1>2, <1>5, <2>1 DEF ParserInv, FromFiles
  <2>3. Parses
    BY <1>1, <1>4, <2>1, <2>2 DEF Parses
  <2> QED
    BY <1>1, <1>7, <1>8, <2>2, <2>3, TakingStep
<1> QED
  BY <1>3, <1>6, <1>9 DEF FromFiles

\* No document has been read when the files begin, and what an option has
\* that is not locked is nothing.
LEMMA FromFilesBegins ==
    ASSUME IInv, Counts, ReadInv, EnvDone, NEW o, o \in DOMAIN conf.options
    PROVE  FromFiles(o)'
<1>1. /\ pc = "env" /\ conf' = conf /\ read' = read /\ yaml' = yaml /\ read = <<>> /\ yaml.mode = "idle"
  BY DEF EnvDone, IInv, Control, ReadInv, Filled, Over, parserVars, history
<1>2. SoFar(conf, o) = <<>>
  <2>1. ReadTexts(conf, <<>>, o) = <<>>
    BY DEF ReadTexts
  <2> QED
    BY <1>1, <2>1, FlattenEmpty DEF SoFar
<1>3. conf.options[o].values = <<>> \/ conf.options[o].no_override
  BY <1>1 DEF Counts, LockedInv
<1>4. Gave(conf, o, <<>>)
  BY <1>3, TakenNothing DEF Gave, Latest
<1>5. SoFar(conf, o)' = <<>> /\ Gave(conf, o, <<>>)'
  BY <1>1, <1>2, <1>4 DEF SoFar, Gave
<1> QED
  BY <1>1, <1>5 DEF FromFiles

\* A document that was read to its end.
LEMMA FromFilesEnds ==
    ASSUME ReadInv, ParserInv, FileParsed, yaml.mode = "done", NEW o, FromFiles(o)
    PROVE  /\ read' \in Seq(Documents)
           /\ ToSet(read) \subseteq ToSet(read') /\ doc \in ToSet(read')
           /\ Plain(doc) => FromFiles(o)'
<1>1. /\ doc \in Documents /\ read \in Seq(Documents) /\ read' = Append(read, doc) /\ conf' = conf
      /\ yaml'.mode = "idle"
  BY DEF ParserInv, ReadInv, FileParsed, Rejected, IdleYaml
<1>2. PICK more : more = read'
  OBVIOUS
<1>3. /\ FlattenSeq(ReadTexts(conf, more, o)) =
            FlattenSeq(ReadTexts(conf, read, o)) \o FlattenSeq(DocumentTold(conf, doc, o))
      /\ ToSet(read) \subseteq ToSet(more) /\ doc \in ToSet(more)
  BY <1>1, <1>2, ReadMore
<1>4. more \in Seq(Documents)
  BY <1>1, <1>2, AppendProperties
<1>5. ASSUME Plain(doc)
      PROVE  FromFiles(o)'
  <2>1. Gave(conf, o, SoFar(conf, o) \o FlattenSeq(DocumentTold(conf, doc, o)))
    BY <1>5 DEF FromFiles, Taking
  <2>2. SoFar(conf, o)' = SoFar(conf, o) \o FlattenSeq(DocumentTold(conf, doc, o))
    BY <1>1, <1>2, <1>3 DEF SoFar
  <2>3. Gave(conf, o, SoFar(conf, o))'
    BY <1>1, <2>1, <2>2 DEF Gave
  <2> QED
    BY <1>1, <2>3 DEF FromFiles
<1> QED
  BY <1>2, <1>3, <1>4, <1>5

\* What is read, and when.
LEMMA ReadMoves ==
    ASSUME Main
    PROVE  \/ read' = read
           \/ FileParsed /\ yaml.mode = "done" /\ read' = Append(read, doc)
<1> USE DEF history
<1>1. CASE ParseEarlyArgument \/ EarlyArgumentsDone \/ LoggerNew \/ ConfigNew \/ LoadContainer
           \/ PluginDeclares \/ ContainerMade \/ DeclareOptions
  BY <1>1 DEF ParseEarlyArgument, EarlyArgumentsDone, LoggerNew, ConfigNew, LoadContainer, PluginDeclares,
              ContainerMade, DeclareOptions
<1>2. CASE ParseArgument \/ ArgumentsDone \/ ReadEnv \/ EnvToken \/ EnvDone
  BY <1>2 DEF ParseArgument, ArgumentsDone, ReadEnv, EnvToken, EnvDone
<1>3. CASE NextDirectory \/ DirectoriesDone \/ ScanEntry \/ NextFile
  BY <1>3 DEF NextDirectory, DirectoriesDone, ScanEntry, NextFile
<1>4. CASE ParseStep \/ FileParsed \/ FilesDone \/ ContainerInit
  BY <1>4 DEF ParseStep, FileParsed, FilesDone, ContainerInit
<1>5. CASE ContainerDestroy \/ ConfigDestroy \/ LoggerDestroy
  BY <1>5 DEF ContainerDestroy, ConfigDestroy, LoggerDestroy
<1> QED
  BY <1>1, <1>2, <1>3, <1>4, <1>5 DEF Main

\* Once the files begin, the steps do not lead back.
LEMMA NoWayBack ==
    ASSUME Main
    PROVE  pc \in Filled \cup Over => pc' \in Filled \cup Over
<1> USE DEF Exit, Go, Filled, Over
<1>1. CASE ParseEarlyArgument \/ EarlyArgumentsDone \/ LoggerNew \/ ConfigNew \/ LoadContainer
           \/ PluginDeclares \/ ContainerMade \/ DeclareOptions
  BY <1>1 DEF ParseEarlyArgument, EarlyArgumentsDone, LoggerNew, ConfigNew, LoadContainer, PluginDeclares,
              ContainerMade, DeclareOptions
<1>2. CASE ParseArgument \/ ArgumentsDone \/ ReadEnv \/ EnvToken \/ EnvDone
  BY <1>2 DEF ParseArgument, ArgumentsDone, ReadEnv, EnvToken, EnvDone
<1>3. CASE NextDirectory \/ DirectoriesDone \/ ScanEntry \/ NextFile
  BY <1>3 DEF NextDirectory, DirectoriesDone, ScanEntry, NextFile
<1>4. CASE ParseStep \/ FileParsed \/ FilesDone \/ ContainerInit
  BY <1>4 DEF ParseStep, FileParsed, FilesDone, ContainerInit
<1>5. CASE ContainerDestroy \/ ConfigDestroy \/ LoggerDestroy
  BY <1>5 DEF ContainerDestroy, ConfigDestroy, LoggerDestroy
<1> QED
  BY <1>1, <1>2, <1>3, <1>4, <1>5 DEF Main

\* The files, step by step.
LEMMA ReadInvStep ==
    ASSUME IInv, Said, Counts, ParserInv, ReadInv, Main
    PROVE  ReadInv'
<1>1. read \in Seq(Documents)
  BY DEF ReadInv
<1>2. CASE FileParsed /\ yaml.mode = "done"
  <2>1. pc \in {"scan", "configs"} /\ pc' = pc /\ conf' = conf
    BY <1>2 DEF FileParsed, Rejected
  <2>2. /\ read' \in Seq(Documents) /\ ToSet(read) \subseteq ToSet(read') /\ doc \in ToSet(read')
    <3>1. doc \in Documents /\ read' = Append(read, doc)
      BY <1>2 DEF ParserInv, FileParsed, Rejected
    <3>2. PICK more : more = read'
      OBVIOUS
    <3>3. more \in Seq(Documents) /\ ToSet(read) \subseteq ToSet(more) /\ doc \in ToSet(more)
      BY <1>1, <3>1, <3>2, ReadMore, AppendProperties
    <3> QED
      BY <3>2, <3>3
  <2>3. ASSUME AllPlain', NEW o, NoBoolean(o)'
        PROVE  FromFiles(o)'
    <3>1. \A d : Plain(d)' <=> Plain(d)
      BY <2>1 DEF Plain, Known
    <3>2. \A d \in ToSet(read') : Plain(d)
      BY <2>3, <3>1 DEF AllPlain
    <3>3. AllPlain /\ Plain(doc)
      BY <2>2, <3>2 DEF AllPlain
    <3>4. NoBoolean(o) /\ pc \in Filled
      BY <2>1, <2>3 DEF NoBoolean, Filled
    <3>5. FromFiles(o)
      BY <3>3, <3>4 DEF ReadInv
    <3> QED
      BY <1>2, <3>3, <3>5, FromFilesEnds
  <2>4. pc' \in Filled
    BY <2>1 DEF Filled
  <2> QED
    BY <2>2, <2>3, <2>4 DEF ReadInv
<1>3. CASE read' = read /\ ~(FileParsed /\ yaml.mode = "done")
  <2>1. pc' \notin Filled \cup Over => read' = <<>>
    BY <1>3, NoWayBack DEF ReadInv, Over
  <2>2. ASSUME pc' \in Filled, AllPlain', NEW o, NoBoolean(o)'
        PROVE  FromFiles(o)'
    <3>1. CASE EnvDone
      <4>1. o \in DOMAIN conf.options
        BY <2>2, <3>1 DEF EnvDone, NoBoolean
      <4> QED
        BY <3>1, <4>1, FromFilesBegins
    <3>2. CASE pc \in Filled /\ ParseStep
      <4>1. Well(conf) /\ Stays(conf', conf)
        BY <3>2, ParserKeeps DEF IInv, ConfInv, ParseStep
      <4>2. NoBoolean(o)
        BY <2>2, <4>1, NoBooleanStill DEF Stays
      <4>3. AllPlain
        BY <1>3, <2>2, <4>1, PlainStill DEF AllPlain
      <4>4. FromFiles(o)
        BY <3>2, <4>2, <4>3 DEF ReadInv
      <4> QED
        BY <3>2, <4>2, <4>4, FromFilesParses
    <3>3. CASE pc \in Filled /\ ~ParseStep /\ conf' = conf
      <4>1. NoBoolean(o)
        BY <2>2, <3>3 DEF NoBoolean
      <4>2. AllPlain
        BY <1>3, <2>2, <3>3 DEF AllPlain, Plain, Known
      <4>3. FromFiles(o)
        BY <3>3, <4>1, <4>2 DEF ReadInv
      <4>4. CASE yaml.mode = "idle" /\ yaml'.mode = "idle"
        <5>1. Gave(conf, o, SoFar(conf, o))'
          BY <1>3, <3>3, <4>3, <4>4 DEF FromFiles, Gave, SoFar
        <5> QED
          BY <4>4, <5>1 DEF FromFiles
      <4>5. CASE yaml.mode = "idle" /\ (ScanEntry \/ NextFile)
        <5>1. UNCHANGED parserVars \/ \E d \in Documents : config_parse(d)
          BY <4>5, Opens
        <5> QED
          BY <1>3, <3>3, <4>3, <4>5, <5>1, FromFilesOpens
      <4>6. CASE FileParsed /\ yaml'.mode = "idle"
        <5>1. pc' = "exit" \/ yaml.mode = "done"
          BY <4>6 DEF FileParsed, Exit
        <5>2. ~(FileParsed /\ yaml.mode = "done")
          BY <1>3
        <5> QED
          BY <2>2, <4>6, <5>1, <5>2 DEF Filled
      <4> QED
        BY <3>3, <4>4, <4>5, <4>6, ParserRests
    <3> QED
      BY <2>2, <3>1, <3>2, <3>3, ComesFrom
  <2>3. pc' \in Filled /\ AllPlain' => \A o : NoBoolean(o)' => FromFiles(o)'
    BY <2>2
  <2> QED
    BY <1>1, <1>3, <2>1, <2>3 DEF ReadInv
<1> QED
  BY <1>2, <1>3, ReadMoves

LEMMA InitGiving == Init => Giving
<1> SUFFICES ASSUME Init PROVE Giving
  OBVIOUS
<1>1. pc = "start" /\ read = <<>>
  BY DEF Init
<1>2. read \in Seq(Documents)
  BY <1>1, EmptySeq
<1> QED
  BY <1>1, <1>2 DEF Giving, LineInv, EnvInv, SettledInv, ReadInv, Filled

\* A stutter.
LEMMA GivingRests ==
    ASSUME Giving, UNCHANGED vars
    PROVE  Giving'
<1>1. UNCHANGED <<pc, argv, environ, conf, doc, tokens, yaml, i, num, read>>
  BY DEF vars, given, parserVars, loopVars, history
<1>2. LineInv /\ EnvInv /\ SettledInv /\ ReadInv
  BY DEF Giving
<1>3. LineInv'
  BY <1>1, <1>2 DEF LineInv, NoBoolean, LineTexts
<1>4. \A o : /\ OnCommandLine(o)' = OnCommandLine(o) /\ InEnvironment(o)' = InEnvironment(o)
             /\ EmptyList(o)' <=> EmptyList(o)
             /\ \A x : VarOf(x)' = VarOf(x)
             /\ NoBoolean(o)' <=> NoBoolean(o)
  BY <1>1 DEF OnCommandLine, InEnvironment, EmptyList, Opt, VarOf, getenv, NoBoolean
<1>5. \A o : (Settled(o)' <=> Settled(o)) /\ (Listed(o)' <=> Listed(o))
  <2>1. \A o : Settled(o)' <=> Settled(o)
    BY <1>1, <1>4 DEF Settled, SettledBy
  <2>2. \A o : Listed(o)' <=> Listed(o)
    BY <1>1, <1>4 DEF Listed
  <2> QED
    BY <2>1, <2>2
<1>6. EnvInv' /\ SettledInv'
  BY <1>1, <1>2, <1>4, <1>5 DEF EnvInv, SettledInv, EnvGave
<1>7. ASSUME NEW o, FromFiles(o)
      PROVE  FromFiles(o)'
  <2>1. PICK before : before = SoFar(conf, o)
    OBVIOUS
  <2>2. SoFar(conf, o)' = before
    BY <1>1, <2>1 DEF SoFar
  <2>3. Plain(doc)' <=> Plain(doc)
    BY <1>1 DEF Plain, Known
  <2>4. Taking(o, before)' <=> Taking(o, before)
    BY <1>1 DEF Taking, AtSection, InUnknown, InKnown, AtPair, AtText, At
  <2> QED
    BY <1>1, <1>7, <2>1, <2>2, <2>3, <2>4 DEF FromFiles
<1>8. AllPlain' <=> AllPlain
  BY <1>1 DEF AllPlain, Plain, Known
<1>9. ReadInv'
  BY <1>1, <1>2, <1>4, <1>7, <1>8 DEF ReadInv
<1> QED
  BY <1>3, <1>6, <1>9 DEF Giving

\* The files' last word.
LEMMA InFilesIs ==
    ASSUME read \in Seq(Documents), NEW o
    PROVE  InFiles(o) = Latest(SoFar(conf, o))
<1> DEFINE all == SoFar(conf, o)
<1>1. \A d : DocumentTexts(d, o) = FlattenSeq(DocumentTold(conf, d, o))
  BY SaysTexts
<1>2. LastTexts(read, o) = IF all = <<>> THEN NULL ELSE Last(all)
  BY <1>1 DEF LastTexts, SoFar, ReadTexts
<1>3. all \in Seq(Texts)
  BY ReadTextsTyped DEF SoFar
<1> HIDE DEF all
<1>4. all # <<>> => Last(all) \in Texts
  BY <1>3 DEF Last
<1>5. all # <<>> => Last(all) # NULL
  BY <1>4, StartupAssumption DEF Texts
<1> QED
  BY <1>2, <1>5 DEF InFiles, Latest, all

\* The strongest source is the one that locked the option, or the files.
LEMMA AsGivenHolds ==
    ASSUME Judging, Giving
    PROVE  AsGiven
<1> SUFFICES ASSUME pc = "serving", \A d \in ToSet(read) : Plain(d), NEW o \in Options,
                    Opt(o).type # "PARAM_BOOL", ~EmptyList(o)
             PROVE  Opt(o).values = Strongest(o)
  BY DEF AsGiven
<1>1. yaml.mode = "idle"
  BY DEF Judging, Started, IInv, Control
<1>2. NoBoolean(o) /\ pc \in Filled /\ AllPlain
  BY DEF NoBoolean, Options, Opt, Filled, AllPlain
<1>3. Settled(o) /\ Gave(conf, o, SoFar(conf, o)) /\ read \in Seq(Documents)
  BY <1>1, <1>2 DEF Giving, SettledInv, ReadInv, FromFiles
<1>4. PICK x, line, env, last :
        x = conf.options[o] /\ line = OnCommandLine(o) /\ env = InEnvironment(o) /\ last = InFiles(o)
  OBVIOUS
<1>5. PICK all : all = IF line # <<>> THEN line ELSE IF env # <<>> THEN env ELSE last
  OBVIOUS
<1>6. Strongest(o) = Taken(x, all)
  BY <1>4, <1>5 DEF Strongest, Taken, Number, ValueOf, Opt
<1>7. SettledBy(x, line, env, FALSE)
  BY <1>3, <1>4 DEF Settled, SettledBy
<1>8. CASE x.no_override
  BY <1>4, <1>5, <1>6, <1>7, <1>8 DEF SettledBy, Above, Opt
<1>9. CASE ~x.no_override
  <2>1. line = <<>> /\ env = <<>>
    BY <1>7, <1>9 DEF SettledBy, Above
  <2>2. x.values = Taken(x, last)
    BY <1>3, <1>4, <1>9, InFilesIs DEF Gave
  <2> QED
    BY <1>4, <1>5, <1>6, <2>1, <2>2 DEF Opt
<1> QED
  BY <1>8, <1>9

LEMMA NextGiving == Judging /\ Giving /\ [Next]_vars => Judging' /\ Giving'
<1> SUFFICES ASSUME Judging, Giving, [Next]_vars PROVE Judging' /\ Giving'
  OBVIOUS
<1>1. Judging'
  BY NextJudging
<1>2. CASE Main
  <2>1. /\ IInv /\ Said /\ Counts /\ ParserInv /\ LineInv /\ EnvInv /\ SettledInv /\ ReadInv
    BY DEF Judging, Started, Giving
  <2>2. LineInv' /\ EnvInv' /\ SettledInv' /\ ReadInv'
    BY <1>2, <2>1, LineInvStep, EnvInvStep, SettledInvStep, ReadInvStep
  <2> QED
    BY <1>1, <2>2 DEF Giving
<1>3. CASE UNCHANGED vars
  BY <1>1, <1>3, GivingRests
<1> QED
  BY <1>2, <1>3 DEF Next, Stopped

\* When the server starts, every option that is not a boolean has exactly the
\* values its strongest source gave it (AsGiven), for every command line and
\* environment, and for files in whatever number, order and content whose
\* unknown sections are plain blocks.
THEOREM OptionsAreAsGiven == Spec => []AsGiven
<1>1. Init => Judging /\ Giving
  <2>1. Init => ParserInv
    BY DEF Init, IdleYaml, ParserInv
  <2> QED
    BY <2>1, InitIInv, InitSaid, InitCoreInv, InitCounts, InitGiving DEF Started, Judging
<1>2. Judging /\ Giving => AsGiven
  BY AsGivenHolds
<1> QED
  BY <1>1, <1>2, NextGiving, PTL DEF Spec
=============================================================================
