-------------------------------- MODULE Config --------------------------------
(***************************************************************************)
(* The configuration object (src/src/config), as operators on one record:  *)
(* options with their type, range, default, values and lock, and what the  *)
(* public API, the environment and the command line do to them.            *)
(*                                                                         *)
(* A name is the sequence of its words, which the source separates by an   *)
(* underscore.  A text is a string some source gives as a value; what the  *)
(* C library makes of it are the constants AsLong and BoolTexts.  A        *)
(* section exists when it has an option.                                   *)
(***************************************************************************)
EXTENDS Integers, Sequences, SequencesExt

CONSTANTS
    LONG_MIN, LONG_MAX,
    AsLong,         \* the number a text is, or NOT_LONG
    BoolTexts,      \* the texts in which regex_bool_str finds a match
    NOT_LONG, NULL

ASSUME ConfigAssumption ==
    /\ LONG_MIN \in Int /\ LONG_MAX \in Int /\ LONG_MIN < 0 /\ LONG_MAX > 1
    /\ \A t \in DOMAIN AsLong : AsLong[t] \in Int \cup {NOT_LONG}
    /\ NOT_LONG \notin Int

RAPP_CONFIG_SECTION == <<"core">>

ParamTypes == {"PARAM_BOOL", "PARAM_INT", "PARAM_STRING"}

\* Before config_new and after config_destroy.
NoConfig == [live |-> FALSE, options |-> <<>>]

config_new == [live |-> TRUE, options |-> <<>>]

-----------------------------------------------------------------------------
(* Declaring options.                                                      *)

\* Underscores may stand between words only.
validate_name(name) == name # <<>> /\ Head(name) # "" /\ Last(name) # ""

\* opt_setup_values.
MinOf(type) == IF type = "PARAM_INT" THEN LONG_MIN ELSE 0
MaxOf(type) == IF type = "PARAM_INT" THEN LONG_MAX ELSE IF type = "PARAM_BOOL" THEN 1 ELSE 0

NewOption(section, name, type) ==
    [section |-> section, name |-> name, type |-> type, multivalued |-> FALSE,
     value_min |-> MinOf(type), value_max |-> MaxOf(type), range_set |-> type = "PARAM_BOOL",
     default |-> NULL, values |-> <<>>, no_override |-> FALSE]

\* The same name may be added again: nothing looks for it.
rapp_config_opt_add(conf, section, name, type) ==
    IF validate_name(name) /\ validate_name(section)
    THEN [conf EXCEPT !.options = Append(@, NewOption(section, name, type))]
    ELSE conf

Section(conf, section) == {i \in DOMAIN conf.options : conf.options[i].section = section}

\* GET_OPTION: the first option of that name, or 0.
Find(conf, section, name) ==
    LET found == {i \in Section(conf, section) : conf.options[i].name = name}
    IN  IF found = {} THEN 0 ELSE CHOOSE i \in found : \A j \in found : i <= j

rapp_config_opt_set_range_int(conf, section, name, min, max) ==
    LET i == Find(conf, section, name)
    IN  IF i = 0 \/ conf.options[i].type # "PARAM_INT" \/ min >= max THEN conf
        ELSE [conf EXCEPT !.options[i] =
                 [@ EXCEPT !.value_min = min, !.value_max = max, !.range_set = TRUE]]

rapp_config_opt_set_multivalued(conf, section, name, flag) ==
    LET i == Find(conf, section, name)
    IN  IF i = 0 THEN conf ELSE [conf EXCEPT !.options[i] = [@ EXCEPT !.multivalued = flag]]

\* What both of these do: neither checks the type of the option.
SetDefault(conf, section, name, default) ==
    LET i == Find(conf, section, name)
    IN  IF i = 0 THEN conf ELSE [conf EXCEPT !.options[i] = [@ EXCEPT !.default = default]]

rapp_config_opt_set_default_int(conf, section, name, value) ==
    SetDefault(conf, section, name, [is |-> "int", value |-> value])
rapp_config_opt_set_default_string(conf, section, name, value) ==
    SetDefault(conf, section, name, [is |-> "string", value |-> value])

-----------------------------------------------------------------------------
(* Values.                                                                 *)

\* Mutant: an option that takes one value takes more.
HasRoom_always(o) == TRUE
HasRoom(o) == o.multivalued \/ o.values = <<>>

opt_add_value_int(o, value) ==
    IF HasRoom(o) /\ (o.range_set => value \in o.value_min .. o.value_max)
    THEN [o EXCEPT !.values = Append(@, value)]
    ELSE o

opt_add_value_string(o, value) ==
    IF HasRoom(o) THEN [o EXCEPT !.values = Append(@, value)] ELSE o

\* Whether config_add_value_from_string returns 0.
Valid(o, text) ==
    CASE o.type = "PARAM_STRING" -> TRUE
      [] o.type = "PARAM_BOOL" -> text \in BoolTexts
      [] OTHER -> /\ AsLong[text] # NOT_LONG
                  /\ AsLong[text] \in LONG_MIN .. LONG_MAX
                  /\ AsLong[text] \in o.value_min .. o.value_max

\* The option after config_add_value_from_string.  What opt_add_value_int and
\* opt_add_value_string return is ignored.  For a boolean the expression for
\* the true texts is compiled and not executed: the value is 1.
config_add_value_from_string(o, text) ==
    IF ~Valid(o, text) THEN o
    ELSE CASE o.type = "PARAM_STRING" -> opt_add_value_string(o, text)
           [] o.type = "PARAM_BOOL" -> opt_add_value_int(o, 1)
           [] OTHER -> opt_add_value_int(o, AsLong[text])

config_option_remove_all_values(o) == [o EXCEPT !.values = <<>>]

\* rapp_config_get_nth_int and rapp_config_get_nth_string of an option of one
\* of these types: the value, or NULL on an error.
rapp_config_get_nth(conf, section, name, types, position) ==
    LET i == Find(conf, section, name)
        o == conf.options[i]
    IN  IF i = 0 \/ o.type \notin types \/ (~o.multivalued /\ position # 0) THEN NULL
        ELSE IF o.values = <<>> /\ o.default # NULL
             THEN IF position = 0 THEN o.default.value ELSE NULL
             ELSE IF position >= Len(o.values) THEN NULL ELSE o.values[position + 1]

rapp_config_get_num_values(conf, section, name) ==
    Len(conf.options[Find(conf, section, name)].values)

\* config_option_destroy frees the default of a string option, which must be
\* one that memory_strdup made.
DestroyIsSafe(conf) ==
    \A i \in DOMAIN conf.options :
        LET o == conf.options[i]
        IN  o.type = "PARAM_STRING" /\ o.default # NULL => o.default.is = "string"

-----------------------------------------------------------------------------
(* What an option is, for the invariants.                                  *)

Option(o) ==
    o \in [section : {o.section}, name : {o.name}, type : ParamTypes, multivalued : BOOLEAN,
           value_min : Int, value_max : Int, range_set : BOOLEAN, default : {o.default},
           values : Seq(ToSet(o.values)), no_override : BOOLEAN]

Configuration(conf) ==
    /\ conf \in [live : BOOLEAN, options : Seq(ToSet(conf.options))]
    /\ \A i \in DOMAIN conf.options : Option(conf.options[i])

\* Its values are as many as it takes, and within its range.
ValuesFit(o) ==
    /\ ~o.multivalued => Len(o.values) <= 1
    /\ o.type # "PARAM_STRING" => ToSet(o.values) \subseteq o.value_min .. o.value_max

-----------------------------------------------------------------------------
(* The command line and the environment.                                   *)

\* The words of an option's name on the command line, where they are joined
\* by "-", and in the environment, where they are upper case behind RAPP_.
OuterName(o) == IF o.section = RAPP_CONFIG_SECTION THEN o.name ELSE o.section \o o.name

\* Sections stand in the order in which they got their first option.
Before(conf, i, j) ==
    LET Start(k) == CHOOSE s \in Section(conf, conf.options[k].section) :
                        \A t \in Section(conf, conf.options[k].section) : s <= t
    IN  Start(i) < Start(j) \/ (Start(i) = Start(j) /\ i <= j)

\* config_generate_commandline: argp takes the first option with the name.
ArgpOption(conf, name) ==
    LET found == {i \in DOMAIN conf.options : OuterName(conf.options[i]) = name}
    IN  IF found = {} THEN 0 ELSE CHOOSE i \in found : \A j \in found : Before(conf, i, j)

Locked(o) == [o EXCEPT !.no_override = TRUE]

\* parse_commandline_opt accepts the text for this option; a boolean option
\* is declared without an argument and gets none.
ArgumentAccepted(o, text) == o.type # "PARAM_BOOL" /\ Valid(o, text)

parse_commandline_opt(conf, i, text) ==
    [conf EXCEPT !.options[i] = Locked(config_add_value_from_string(@, text))]

\* A variable of the environment is its text and, when that has a colon in it,
\* the texts between its colons.
IsEnvList(o, var) == var.list /\ o.multivalued

\* Mutant: the lock of the command line is not looked at.
EnvSkips_no_lock(o, var) == var = NULL

\* get_env_for_opt returns 0 before it adds anything.
EnvSkips(o, var) == o.no_override \/ var = NULL

\* get_env_for_opt of a text that is not a list: no lock unless it is valid.
EnvText(o, text) == IF Valid(o, text) THEN Locked(config_add_value_from_string(o, text)) ELSE o

=============================================================================
