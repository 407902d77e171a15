------------------------------ MODULE ConfigYaml ------------------------------
(***************************************************************************)
(* The parser of configuration files (src/src/config/yaml.c): a loop over  *)
(* the tokens libyaml scans, which puts values into the options as it goes.*)
(*                                                                         *)
(* libyaml is external.  A document is described by its sections and their *)
(* pairs, and Tokens is what the library's scanner makes of it.  It may be *)
(* cut by a syntax error; from there on, as after the end of the stream,   *)
(* yaml_parser_scan leaves NO_TOKEN behind, time after time.               *)
(***************************************************************************)
EXTENDS Config

VARIABLES
    conf,       \* the configuration
    doc,        \* the file that is being parsed, or was last
    tokens,     \* what is left of it
    yaml        \* where its parser is

-----------------------------------------------------------------------------
(* Documents and their tokens.                                             *)

\* What a document may be.  A scalar, and the map that is tried in its place,
\* has one text.
Pairs == [key : Seq(STRING), style : {"scalar", "none", "block", "flow", "map"}, texts : Seq(STRING)]
Sections == [name : Seq(STRING), style : {"block", "flow", "scalar"},
             pairs : Seq({p \in Pairs : p.style \in {"scalar", "map"} => Len(p.texts) = 1})]
Documents == [explicit : BOOLEAN, cut : Nat, sections : Seq(Sections)]

Token(type) == [type |-> type, scalar |-> NULL]
Scalar(s) == [type |-> "SCALAR", scalar |-> s]

\* The elements of a list behind their entry tokens, or with one in between.
Entries(entry, list) == FlattenSeq([k \in DOMAIN list |-> <<Token(entry)>> \o list[k]])
Separated(entry, list) == IF list = <<>> THEN <<>> ELSE Tail(Entries(entry, list))

ValueTokens(style, texts) ==
    LET scalars == [k \in DOMAIN texts |-> <<Scalar(texts[k])>>]
    IN  CASE style = "scalar" -> scalars[1]
          [] style = "none"   -> <<>>
          [] style = "block"  -> <<Token("BLOCK_SEQUENCE_START")>> \o Entries("BLOCK_ENTRY", scalars)
                                    \o <<Token("BLOCK_END")>>
          [] style = "flow"   -> <<Token("FLOW_SEQUENCE_START")>> \o Separated("FLOW_ENTRY", scalars)
                                    \o <<Token("FLOW_SEQUENCE_END")>>
          [] style = "map"    -> <<Token("BLOCK_MAPPING_START"), Token("KEY")>> \o scalars[1]
                                    \o <<Token("VALUE")>> \o scalars[1] \o <<Token("BLOCK_END")>>

PairTokens(pair) ==
    <<Token("KEY"), Scalar(pair.key), Token("VALUE")>> \o ValueTokens(pair.style, pair.texts)

SectionTokens(section) ==
    LET pairs == [k \in DOMAIN section.pairs |-> PairTokens(section.pairs[k])]
    IN  <<Token("KEY"), Scalar(section.name), Token("VALUE")>> \o
        CASE section.style = "block"  -> <<Token("BLOCK_MAPPING_START")>> \o FlattenSeq(pairs)
                                            \o <<Token("BLOCK_END")>>
          [] section.style = "flow"   -> <<Token("FLOW_MAPPING_START")>> \o Separated("FLOW_ENTRY", pairs)
                                            \o <<Token("FLOW_MAPPING_END")>>
          [] section.style = "scalar" -> <<Scalar("text")>>

\* What the scanner makes of a document, and of one that is cut.
Stream(d) ==
    LET head == IF d.explicit THEN <<Token("DOCUMENT_START")>> ELSE <<>>
        body == IF d.sections = <<>> THEN <<>>
                ELSE <<Token("BLOCK_MAPPING_START")>>
                     \o FlattenSeq([k \in DOMAIN d.sections |-> SectionTokens(d.sections[k])])
                     \o <<Token("BLOCK_END")>>
    IN  <<Token("STREAM_START")>> \o head \o body \o <<Token("STREAM_END")>>

Tokens(d) == SubSeq(Stream(d), 1, Len(Stream(d)) - d.cut)

\* The type of the k-th token to come.
T(k) == IF k <= Len(tokens) THEN tokens[k].type ELSE "NO_TOKEN"

Scanned(n) == tokens' = SubSeq(tokens, n + 1, Len(tokens))

-----------------------------------------------------------------------------
(* The parser.                                                             *)

IdleYaml == [mode |-> "idle", section |-> NULL, opt |-> 0]

\* config_parse has opened a file with this document.
config_parse(d) ==
    /\ doc' = d
    /\ tokens' = Tokens(d)
    /\ yaml' = [IdleYaml EXCEPT !.mode = "init"]

Goto(mode) == yaml' = [yaml EXCEPT !.mode = mode]

\* config_parse_main returns -1; "unknown" when GET_OPTION_FROM_SECT returned
\* before yaml_parse_key_value could complain.
ParseFails == Goto("failed") /\ tokens' = <<>>
Rejected == yaml.mode \in {"failed", "unknown"}

\* yaml_parse_init.
ParseInit ==
    /\ yaml.mode = "init"
    /\ IF <<T(1), T(2), T(3)>> = <<"STREAM_START", "DOCUMENT_START", "BLOCK_MAPPING_START">>
       THEN Goto("main") /\ Scanned(3)
       ELSE ParseFails
    /\ UNCHANGED conf

\* Mutant: a section must be a block.
MappingStarts_block == {"BLOCK_MAPPING_START"}
MappingStarts == {"BLOCK_MAPPING_START", "FLOW_MAPPING_START"}

\* The loop of config_parse_main, and yaml_parse_section up to its own loop.
ParseSection ==
    /\ yaml.mode = "main"
    /\ LET section == tokens[2].scalar
       IN  IF T(1) = "BLOCK_END" THEN Goto("done") /\ tokens' = <<>>
           ELSE IF T(1) # "KEY" \/ T(2) # "SCALAR" THEN ParseFails
           ELSE IF Section(conf, section) = {} THEN Goto("skip") /\ Scanned(2)
           ELSE IF T(3) = "VALUE" /\ T(4) \in MappingStarts
                THEN yaml' = [yaml EXCEPT !.mode = "pairs", !.section = section] /\ Scanned(4)
                ELSE ParseFails
    /\ UNCHANGED conf

\* yaml_skip_section, token by token: it waits for the end of a block, which
\* it takes for the end of the section, and never gives up.
SkipSection ==
    /\ yaml.mode = "skip"
    /\ Goto(IF T(1) = "BLOCK_END" THEN "main" ELSE "skip")
    /\ Scanned(1)
    /\ UNCHANGED conf

\* Mutant: a lock does not save the values the option has.
Emptied_always(o) == config_option_remove_all_values(o)

\* yaml_parse_key_value removes the values before it looks at the new ones.
Emptied(o) == IF o.no_override THEN o ELSE config_option_remove_all_values(o)

\* Mutant: the lock is not looked at.
FromScalar_unlocked(o, text) == config_add_value_from_string(o, text)

\* config_set_value_from_yaml_scalar, and whether it returns 0.
FromScalar(o, text) == IF o.no_override THEN o ELSE config_add_value_from_string(o, text)
ScalarAccepted(o, text) == o.no_override \/ Valid(o, text)

\* yaml_parse_key_value, up to the elements of a list.
KeyValue ==
    /\ yaml.mode = "pairs"
    /\ LET sep  == IF T(1) = "FLOW_ENTRY" THEN 1 ELSE 0
           key  == tokens[sep + 2].scalar
           opt  == Find(conf, yaml.section, key)
           o    == conf.options[opt]
           text == tokens[sep + 4].scalar
       IN  IF T(1) \in {"BLOCK_END", "FLOW_MAPPING_END"}
           THEN Goto("main") /\ Scanned(1) /\ UNCHANGED conf
           ELSE IF \/ T(sep + 1) # "KEY" \/ T(sep + 2) # "SCALAR"
           THEN ParseFails /\ UNCHANGED conf
           ELSE IF opt = 0
           THEN Goto("unknown") /\ tokens' = <<>> /\ UNCHANGED conf
           ELSE IF \/ T(sep + 3) # "VALUE"
                   \/ T(sep + 4) \notin {"SCALAR", "BLOCK_SEQUENCE_START", "FLOW_SEQUENCE_START"}
           THEN ParseFails /\ UNCHANGED conf
           ELSE IF T(sep + 4) = "SCALAR"
           THEN /\ conf' = [conf EXCEPT !.options[opt] = FromScalar(Emptied(o), text)]
                /\ IF ScalarAccepted(o, text) THEN UNCHANGED yaml /\ Scanned(sep + 4) ELSE ParseFails
           ELSE /\ conf' = [conf EXCEPT !.options[opt] = Emptied(o)]
                /\ IF o.multivalued
                   THEN yaml' = [yaml EXCEPT !.mode = "list", !.opt = opt] /\ Scanned(sep + 4)
                   ELSE ParseFails

\* Mutant: anything is skipped until the list ends.
ListItem_skips ==
    /\ yaml.mode = "list"
    /\ IF T(1) \in {"BLOCK_END", "FLOW_SEQUENCE_END"} THEN Goto("pairs") ELSE UNCHANGED yaml
    /\ Scanned(1)
    /\ UNCHANGED conf

\* An element, or the end, of config_set_value_from_yaml_list.
ListItem ==
    /\ yaml.mode = "list"
    /\ LET entry == IF T(1) \in {"BLOCK_ENTRY", "FLOW_ENTRY"} THEN 1 ELSE 0
           o     == conf.options[yaml.opt]
           text  == tokens[entry + 1].scalar
       IN  IF T(1) \in {"BLOCK_END", "FLOW_SEQUENCE_END"}
           THEN Goto("pairs") /\ Scanned(1) /\ UNCHANGED conf
           ELSE IF T(entry + 1) # "SCALAR"
           THEN ParseFails /\ UNCHANGED conf
           ELSE /\ conf' = [conf EXCEPT !.options[yaml.opt] = FromScalar(o, text)]
                /\ IF ScalarAccepted(o, text) THEN UNCHANGED yaml /\ Scanned(entry + 1) ELSE ParseFails

config_parse_main ==
    /\ ParseInit \/ ParseSection \/ SkipSection \/ KeyValue \/ ListItem
    /\ UNCHANGED doc

-----------------------------------------------------------------------------
(* What a document says, for the properties.                               *)

Known(section) == Section(conf, section.name) # {}

\* Every known section is a mapping of options to values they accept.
Faultless(d) ==
    /\ d.explicit /\ d.sections # <<>> /\ d.cut <= 1
    /\ \A section \in ToSet(d.sections) :
        Known(section) =>
            /\ section.style \in {"block", "flow"}
            /\ \A pair \in ToSet(section.pairs) :
                LET opt == Find(conf, section.name, pair.key)
                    o   == conf.options[opt]
                IN  /\ opt # 0
                    /\ \/ pair.style = "scalar"
                       \/ pair.style \in {"block", "flow"} /\ o.multivalued
                    /\ \A text \in ToSet(pair.texts) : ScalarAccepted(o, text)

\* Its unknown sections are the kind yaml_skip_section is made for.
Plain(d) ==
    \A section \in ToSet(d.sections) :
        Known(section) \/ /\ section.style = "block"
                          /\ \A pair \in ToSet(section.pairs) : pair.style \notin {"block", "map"}

\* The texts it gives an option, pair by pair, and those an option got last
\* from several documents, or NULL.
SectionTexts(section, opt) ==
    FlattenSeq([k \in DOMAIN section.pairs |->
        IF Find(conf, section.name, section.pairs[k].key) = opt THEN <<section.pairs[k].texts>> ELSE <<>>])

DocumentTexts(d, opt) == FlattenSeq([k \in DOMAIN d.sections |-> SectionTexts(d.sections[k], opt)])

LastTexts(docs, opt) ==
    LET all == FlattenSeq([k \in DOMAIN docs |-> DocumentTexts(docs[k], opt)])
    IN  IF all = <<>> THEN NULL ELSE Last(all)

=============================================================================
