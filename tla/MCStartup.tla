------------------------------ MODULE MCStartup ------------------------------
(* Instances of Startup.                                                    *)
EXTENDS Startup

Texts == "8081" :> 8081 @@ "70000" :> 70000 @@ "0" :> 0 @@ "yes" :> NOT_LONG @@ "a" :> NOT_LONG
         @@ "b" :> NOT_LONG @@ "a:b" :> NOT_LONG @@ ":" :> NOT_LONG
Lowest == -1000000
Truths == {"yes", "0"}
LevelNames == "CRITICAL" :> LOG_CRITICAL @@ "DEBUG" :> LOG_DEBUG

-----------------------------------------------------------------------------
(* Command lines and environments.                                         *)

Item(kind, text) == [kind |-> kind, name |-> <<>>, text |-> text]
Arg(name, text) == [kind |-> "config", name |-> name, text |-> text]
Load == Item("load", "hello.so")

Lines ==
    { <<Load>>,
      <<Item("log_level", "CRITICAL"), Load, Arg(<<"config">>, "a"), Arg(<<"config">>, "b")>>,
      <<Load, Arg(<<"port">>, "8081"), Arg(<<"port">>, "70000")>>,
      <<Load, Arg(<<"port">>, "8081"), Arg(<<"port">>, "0"), Arg(<<"confd">>, "a")>>,
      <<Load, Arg(<<"x", "y", "z">>, "yes")>>,
      <<Load, Arg(<<"hello", "message">>, "a"), Arg(<<"address">>, "a")>>,
      <<Arg(<<"address">>, "a"), Load>>,
      <<Item("log_output", "-"), Item("positional", "a")>>,
      <<Item("log_level", "CRITICAL"), Item("log_output", "log"), Arg(<<"config">>, "a")>>,
      <<Load, Item("log_output", "nowhere")>> }

Var(text) == [text |-> text, list |-> FALSE, tokens |-> <<>>]
List(text, toks) == [text |-> text, list |-> TRUE, tokens |-> toks]

Environs ==
    { <<>>,
      (<<"config">> :> List("a:b", <<"a", "b">>) @@ <<"port">> :> Var("70000")),
      (<<"config">> :> List(":", <<>>) @@ <<"confd">> :> Var("a") @@ <<"x", "y", "z">> :> Var("yes")),
      (<<"port">> :> Var("0") @@ <<"address">> :> List("a:b", <<"a", "b">>) @@ <<"confd">> :> List("a:b", <<"a", "b">>)),
      (<<"hello", "message">> :> Var("b") @@ <<"x", "y", "z">> :> Var("a")) }

-----------------------------------------------------------------------------
(* Plugins.                                                                *)

Declares(section, name, type, default) ==
    [section |-> section, name |-> name, type |-> type, default |-> default]

Message == Declares(<<"hello">>, <<"message">>, "PARAM_STRING", "Hello world!")

Hello == [opens |-> TRUE, abi |-> "same", symbols |-> Symbols, creates |-> TRUE,
          declares |-> <<Message>>, destroys |-> TRUE]

SomePlugins ==
    { Hello,
      [Hello EXCEPT !.declares = <<Declares(<<"x", "y">>, <<"z">>, "PARAM_BOOL", NULL),
                                   Declares(<<"x">>, <<"y", "z">>, "PARAM_STRING", NULL)>>],
      [Hello EXCEPT !.declares = <<Declares(Core, <<"port">>, "PARAM_STRING", NULL)>>,
                    !.destroys = FALSE],
      [Hello EXCEPT !.opens = FALSE],
      [Hello EXCEPT !.abi = "other"],
      [Hello EXCEPT !.symbols = Symbols \ {"rapp_destroy"}],
      [Hello EXCEPT !.symbols = {"rapp_create", "rapp_serve", "rapp_destroy"}],
      [Hello EXCEPT !.creates = FALSE] }

-----------------------------------------------------------------------------
(* Documents.                                                              *)

Pair(key, style, texts) == [key |-> key, style |-> style, texts |-> texts]
Sect(name, style, pairs) == [name |-> name, style |-> style, pairs |-> pairs]
Doc(sections) == [explicit |-> TRUE, sections |-> sections, cut |-> 0]

Port(style, texts) == Pair(<<"port">>, style, texts)
Config1(style, texts) == Pair(<<"config">>, style, texts)
Other == <<"other">>

Replaces == Doc(<<Sect(Core, "block", <<Port("scalar", <<"8081">>), Config1("block", <<"b">>)>>)>>)
Skips == Doc(<<Sect(Other, "block", <<Pair(<<"v">>, "scalar", <<"a">>)>>),
               Sect(Core, "block", <<Pair(<<"address">>, "scalar", <<"b">>), Pair(<<"confd">>, "flow", <<>>)>>)>>)
Lists == Doc(<<Sect(Core, "flow", <<Config1("flow", <<"a", "b">>), Port("scalar", <<"0">>)>>)>>)
Good == {Replaces, Skips, Lists}

Bad ==
    { Doc(<<Sect(Core, "block", <<Port("scalar", <<"70000">>)>>)>>),
      Doc(<<Sect(Core, "block", <<Port("flow", <<"0">>)>>)>>),
      Doc(<<Sect(Core, "flow", <<Pair(<<"v">>, "scalar", <<"a">>)>>)>>),
      Doc(<<Sect(Core, "block", <<Config1("map", <<"a">>)>>)>>),
      Doc(<<Sect(Core, "block", <<Config1("none", <<>>)>>)>>),
      Doc(<<Sect(Core, "scalar", <<>>)>>),
      Doc(<<>>),
      [explicit |-> FALSE, sections |-> <<Sect(Core, "flow", <<Port("scalar", <<"0">>)>>)>>, cut |-> 0],
      [Doc(<<Sect(Core, "block", <<Config1("block", <<"a", "b">>)>>)>>) EXCEPT !.cut = 4],
      [Doc(<<Sect(Core, "block", <<Config1("flow", <<"a">>)>>)>>) EXCEPT !.cut = 4] }

\* Unknown sections that are no plain blocks, or do not end.
Unknown ==
    { Doc(<<Sect(Other, "flow", <<Pair(<<"v">>, "scalar", <<"a">>)>>),
            Sect(Core, "block", <<Port("scalar", <<"8081">>)>>)>>),
      Doc(<<Sect(Other, "scalar", <<>>)>>),
      Doc(<<Sect(Other, "block", <<Pair(<<"v">>, "block", <<"a">>), Pair(<<"w">>, "scalar", <<"b">>)>>)>>),
      [Doc(<<Sect(Other, "block", <<Pair(<<"v">>, "scalar", <<"a">>)>>)>>) EXCEPT !.cut = 3] }

SomeFiles == Good \cup Bad \cup Unknown

SomeDirectories == {<<>>, <<NULL, Replaces>>, <<Lists, NULL, Skips>>}

-----------------------------------------------------------------------------
\* One file with an unknown section.
OneFile == {<<Load, Arg(<<"config">>, "a")>>}
Nothing == {<<>>}
JustHello == {Hello}
=============================================================================
