----------------------------- MODULE ConfigProofs -----------------------------
(***************************************************************************)
(* What the operations of Config do to an option that is well typed and    *)
(* whose values fit, for every type, range and text; and what the parser   *)
(* of ConfigYaml does with every document: where it is in the tokens after *)
(* each step, and what it has found of the document by then.               *)
(***************************************************************************)
EXTENDS ConfigYaml, SequenceLemmas

\* A sequence of its own elements stays one when an element is added.
LEMMA AppendElement ==
    ASSUME NEW s, s \in Seq(ToSet(s)), NEW e
    PROVE  /\ Append(s, e) \in Seq(ToSet(Append(s, e)))
           /\ Len(Append(s, e)) = Len(s) + 1
           /\ ToSet(Append(s, e)) = ToSet(s) \cup {e}
           /\ \A k \in DOMAIN s : Append(s, e)[k] = s[k]
           /\ Append(s, e) # <<>>
           /\ Append(s, e)[Len(s) + 1] = e
           /\ DOMAIN Append(s, e) = 1 .. Len(s) + 1
<1> DEFINE S == ToSet(s) \cup {e}
           a == Append(s, e)
<1>1. s \in Seq(S)
  BY DEF ToSet
<1>2. /\ a \in Seq(S)
      /\ Len(a) = Len(s) + 1
      /\ \A k \in 1 .. Len(s) : a[k] = s[k]
      /\ a[Len(s) + 1] = e
  BY <1>1
<1>3. DOMAIN s = 1 .. Len(s) /\ DOMAIN a = 1 .. Len(s) + 1 /\ Len(s) \in Nat
  BY <1>1, <1>2
<1>4. ToSet(a) = S
  BY <1>2, <1>3 DEF ToSet
<1> QED
  BY <1>2, <1>3, <1>4

WithValue(o, v) == [o EXCEPT !.values = Append(@, v)]

SameButValues(new, o) ==
    /\ new.section = o.section /\ new.name = o.name
    /\ new.type = o.type /\ new.multivalued = o.multivalued
    /\ new.value_min = o.value_min /\ new.value_max = o.value_max
    /\ new.range_set = o.range_set /\ new.default = o.default

\* One value more, and nothing else.
LEMMA ValueAppended ==
    ASSUME NEW o, Option(o), NEW v, NEW new, new = WithValue(o, v)
    PROVE  /\ Option(new)
           /\ new.values = Append(o.values, v)
           /\ SameButValues(new, o) /\ new.no_override = o.no_override
<1>1. Append(o.values, v) \in Seq(ToSet(Append(o.values, v)))
  BY AppendElement DEF Option
<1>2. /\ new.values = Append(o.values, v)
      /\ new.section = o.section /\ new.name = o.name
      /\ new.type = o.type /\ new.multivalued = o.multivalued
      /\ new.value_min = o.value_min /\ new.value_max = o.value_max
      /\ new.range_set = o.range_set /\ new.default = o.default /\ new.no_override = o.no_override
  BY DEF WithValue, Option
<1>3. Option(new)
  BY <1>1, <1>2 DEF WithValue, Option
<1> QED
  BY <1>2, <1>3 DEF SameButValues

\* The range of a boolean is the one opt_setup_values gave it.
Ranged(o) == o.type = "PARAM_BOOL" => o.range_set /\ o.value_min = 0 /\ o.value_max = 1

Sound(o) == Option(o) /\ ValuesFit(o) /\ Ranged(o)

\* The values of new are those of o, and perhaps one more.
Extends(new, o) ==
    /\ Len(new.values) \in Len(o.values) .. Len(o.values) + 1
    /\ \A k \in DOMAIN o.values : new.values[k] = o.values[k]

\* A value of the range, where there is room for it.
LEMMA FittingValue ==
    ASSUME NEW o, Sound(o), HasRoom(o), NEW v,
           o.type # "PARAM_STRING" => v \in o.value_min .. o.value_max,
           NEW new, new = WithValue(o, v)
    PROVE  /\ Sound(new) /\ Extends(new, o)
           /\ SameButValues(new, o) /\ new.no_override = o.no_override
           /\ new.values # <<>>
<1>1. /\ Option(new) /\ new.values = Append(o.values, v)
      /\ SameButValues(new, o) /\ new.no_override = o.no_override
  <2>1. Option(o)
    BY DEF Sound
  <2> QED
    BY <2>1, ValueAppended
<1>2. o.values \in Seq(ToSet(o.values))
  BY DEF Sound, Option
<1>3. /\ Len(new.values) = Len(o.values) + 1
      /\ ToSet(new.values) = ToSet(o.values) \cup {v}
      /\ \A k \in DOMAIN o.values : new.values[k] = o.values[k]
      /\ new.values # <<>>
  BY <1>1, <1>2, AppendElement
<1>4. Len(o.values) \in Nat /\ (o.values = <<>> => Len(o.values) = 0)
  BY <1>2
<1>5. Extends(new, o)
  BY <1>3, <1>4 DEF Extends
<1>6. ValuesFit(new)
  <2>1. ~new.multivalued => Len(new.values) <= 1
    BY <1>1, <1>3, <1>4 DEF HasRoom, SameButValues
  <2>2. new.type # "PARAM_STRING" => ToSet(new.values) \subseteq new.value_min .. new.value_max
    BY <1>1, <1>3 DEF Sound, ValuesFit, SameButValues
  <2> QED
    BY <2>1, <2>2 DEF ValuesFit
<1>7. Ranged(new)
  BY <1>1 DEF Sound, Ranged, SameButValues
<1> QED
  BY <1>1, <1>3, <1>5, <1>6, <1>7 DEF Sound

\* config_add_value_from_string, whatever the text: the option stays sound,
\* and has a value when the call said that it succeeded.
LEMMA ValueFromString ==
    ASSUME NEW o, Sound(o), NEW text,
           NEW new, new = config_add_value_from_string(o, text)
    PROVE  /\ Sound(new) /\ Extends(new, o)
           /\ SameButValues(new, o) /\ new.no_override = o.no_override
           /\ Valid(o, text) => new.values # <<>>
<1>1. o.values \in Seq(ToSet(o.values)) /\ o.type \in ParamTypes
  BY DEF Sound, Option
<1>2. ASSUME new = o, Valid(o, text) => ~HasRoom(o)
      PROVE  /\ Sound(new) /\ Extends(new, o)
             /\ SameButValues(new, o) /\ new.no_override = o.no_override
             /\ Valid(o, text) => new.values # <<>>
  <2>1. Len(o.values) \in Nat
    BY <1>1
  <2> QED
    BY <1>2, <2>1 DEF Extends, SameButValues, HasRoom
<1>3. CASE ~Valid(o, text)
  BY <1>2, <1>3 DEF config_add_value_from_string
<1>4. CASE Valid(o, text) /\ ~HasRoom(o)
  BY <1>2, <1>4 DEF config_add_value_from_string, opt_add_value_int, opt_add_value_string
<1>5. CASE Valid(o, text) /\ HasRoom(o)
  <2>1. CASE o.type = "PARAM_STRING"
    <3>1. new = WithValue(o, text)
      BY <1>5, <2>1 DEF WithValue, config_add_value_from_string, opt_add_value_string
    <3> QED
      BY <1>5, <2>1, <3>1, FittingValue
  <2>2. CASE o.type = "PARAM_BOOL"
    <3>1. o.value_min = 0 /\ o.value_max = 1
      BY <2>2 DEF Sound, Ranged
    <3>2. new = WithValue(o, 1)
      BY <1>5, <2>2, <3>1 DEF WithValue, config_add_value_from_string, opt_add_value_int
    <3>3. 1 \in o.value_min .. o.value_max
      BY <3>1
    <3> QED
      BY <1>5, <3>2, <3>3, FittingValue, Zenon
  <2>3. CASE o.type = "PARAM_INT"
    <3>1. AsLong[text] \in o.value_min .. o.value_max
      BY <1>5, <2>3 DEF Valid
    <3>2. new = WithValue(o, AsLong[text])
      BY <1>5, <2>3, <3>1 DEF WithValue, config_add_value_from_string, opt_add_value_int
    <3> QED
      BY <1>5, <3>1, <3>2, FittingValue
  <2> QED
    BY <1>1, <2>1, <2>2, <2>3 DEF ParamTypes
<1> QED
  BY <1>3, <1>4, <1>5

\* config_option_remove_all_values.
LEMMA ValuesRemoved ==
    ASSUME NEW o, Sound(o), NEW new, new = config_option_remove_all_values(o)
    PROVE  /\ Sound(new) /\ new.values = <<>>
           /\ SameButValues(new, o) /\ new.no_override = o.no_override
<1>1. /\ new.values = <<>>
      /\ SameButValues(new, o) /\ new.no_override = o.no_override
  BY DEF Sound, Option, config_option_remove_all_values, SameButValues
<1>2. <<>> \in Seq(ToSet(<<>>)) /\ ToSet(<<>>) = {} /\ Len(<<>>) = 0
  BY DEF ToSet
<1>3. Option(new)
  BY <1>1, <1>2 DEF Sound, Option, config_option_remove_all_values
<1>4. ValuesFit(new) /\ Ranged(new)
  BY <1>1, <1>2 DEF Sound, ValuesFit, Ranged, SameButValues
<1> QED
  BY <1>1, <1>3, <1>4 DEF Sound

\* A lock, whoever sets it.
LEMMA OptionLocked ==
    ASSUME NEW o, Sound(o), NEW new, new = Locked(o)
    PROVE  /\ Sound(new) /\ new.values = o.values
           /\ SameButValues(new, o) /\ new.no_override = TRUE
<1>1. /\ new.values = o.values
      /\ SameButValues(new, o) /\ new.no_override = TRUE
  BY DEF Sound, Option, Locked, SameButValues
<1>2. Option(new)
  BY <1>1 DEF Sound, Option, Locked
<1>3. ValuesFit(new) /\ Ranged(new)
  BY <1>1 DEF Sound, ValuesFit, Ranged, SameButValues
<1> QED
  BY <1>1, <1>2, <1>3 DEF Sound

-----------------------------------------------------------------------------
(* The configuration.                                                      *)

\* Every option is sound.
Well(c) == Configuration(c) /\ \A i \in DOMAIN c.options : Sound(c.options[i])

\* No source has been read.
Fresh(c) ==
    \A i \in DOMAIN c.options : c.options[i].values = <<>> /\ c.options[i].no_override = FALSE

Has(c, section, name) ==
    \E i \in DOMAIN c.options : c.options[i].section = section /\ c.options[i].name = name

Put(c, i, o) == [c EXCEPT !.options[i] = o]

\* What GET_OPTION finds, and when.
LEMMA FindIs ==
    ASSUME NEW c, Well(c), NEW section, NEW name
    PROVE  LET i == Find(c, section, name)
           IN  /\ Has(c, section, name) <=> i # 0
               /\ i # 0 => /\ i \in DOMAIN c.options
                           /\ c.options[i].section = section /\ c.options[i].name = name
<1> DEFINE found == {i \in Section(c, section) : c.options[i].name = name}
<1>1. /\ DOMAIN c.options \subseteq Nat \ {0}
      /\ found \subseteq DOMAIN c.options
      /\ \A i \in found : c.options[i].section = section /\ c.options[i].name = name
  BY DEF Well, Configuration, Section
<1>2. Has(c, section, name) <=> found # {}
  BY DEF Has, Section
<1>3. CASE found = {}
  BY <1>2, <1>3 DEF Find
<1>4. CASE found # {}
  <2>1. Find(c, section, name) = CHOOSE i \in found : \A j \in found : i <= j
    BY <1>4 DEF Find
  <2>2. \E i \in found : \A j \in found : i <= j
    BY <1>1, <1>4, LeastNumber
  <2>3. Find(c, section, name) \in found
    BY <2>1, <2>2
  <2> QED
    BY <1>1, <1>2, <1>4, <2>3
<1> QED
  BY <1>3, <1>4

\* A sequence is one of its own elements.
LEMMA OwnElements ==
    ASSUME NEW S, NEW s \in Seq(S)
    PROVE  s \in Seq(ToSet(s))
BY DEF ToSet

Replaced(s, i, x) == [s EXCEPT ![i] = x]

\* A sequence of its own elements stays one when an element is replaced.
LEMMA ReplaceElement ==
    ASSUME NEW s, s \in Seq(ToSet(s)), NEW i, NEW x
    PROVE  /\ Replaced(s, i, x) \in Seq(ToSet(Replaced(s, i, x)))
           /\ DOMAIN Replaced(s, i, x) = DOMAIN s
           /\ \A j \in DOMAIN s : Replaced(s, i, x)[j] = IF j = i THEN x ELSE s[j]
<1> DEFINE S == ToSet(s) \cup {x}
<1>1. /\ DOMAIN Replaced(s, i, x) = DOMAIN s
      /\ \A j \in DOMAIN s : Replaced(s, i, x)[j] = IF j = i THEN x ELSE s[j]
  BY DEF Replaced
<1>2. s \in Seq(S) /\ DOMAIN s = 1 .. Len(s)
  BY DEF ToSet
<1>3. Replaced(s, i, x) \in Seq(S)
  <2>1. CASE i \in 1 .. Len(s)
    BY <1>2, <2>1, ExceptSeq DEF Replaced
  <2>2. CASE i \notin 1 .. Len(s)
    <3>1. s = [j \in 1 .. Len(s) |-> s[j]]
      BY <1>2
    <3>2. Replaced(s, i, x) = [j \in 1 .. Len(s) |-> s[j]]
      BY <1>2, <2>2 DEF Replaced
    <3> QED
      BY <1>2, <3>1, <3>2
  <2> QED
    BY <2>1, <2>2
<1> QED
  BY <1>1, <1>3, OwnElements

\* What is where after one option was replaced.
LEMMA PutIs ==
    ASSUME NEW c, Well(c), NEW i, NEW x
    PROVE  LET new == Put(c, i, x)
           IN  /\ new = [live |-> c.live, options |-> new.options]
               /\ new.options = Replaced(c.options, i, x)
               /\ DOMAIN new.options = DOMAIN c.options
               /\ \A j \in DOMAIN c.options :
                    new.options[j] = IF j = i THEN x ELSE c.options[j]
<1>1. /\ c.options \in Seq(ToSet(c.options))
      /\ c = [live |-> c.live, options |-> c.options]
  BY DEF Well, Configuration
<1>2. /\ Put(c, i, x).options = Replaced(c.options, i, x)
      /\ Put(c, i, x) = [live |-> c.live, options |-> Put(c, i, x).options]
  BY <1>1 DEF Put, Replaced
<1> QED
  BY <1>1, <1>2, ReplaceElement

\* One option changes.
LEMMA OptionChanged ==
    ASSUME NEW c, Well(c), NEW i, NEW x, i \in DOMAIN c.options => Sound(x)
    PROVE  LET new == Put(c, i, x)
           IN  /\ Well(new)
               /\ new.live = c.live
               /\ DOMAIN new.options = DOMAIN c.options
               /\ \A j \in DOMAIN c.options :
                    new.options[j] = IF j = i THEN x ELSE c.options[j]
<1> DEFINE new == Put(c, i, x)
<1>1. /\ c.options \in Seq(ToSet(c.options)) /\ c.live \in BOOLEAN
      /\ \A j \in DOMAIN c.options : Sound(c.options[j])
  BY DEF Well, Configuration
<1>2. /\ new.options = Replaced(c.options, i, x)
      /\ new.live = c.live
      /\ new = [live |-> new.live, options |-> new.options]
  BY DEF Well, Configuration, Put, Replaced
<1> HIDE DEF new
<1>3. /\ new.options \in Seq(ToSet(new.options))
      /\ DOMAIN new.options = DOMAIN c.options
      /\ \A j \in DOMAIN c.options : new.options[j] = IF j = i THEN x ELSE c.options[j]
  BY <1>1, <1>2, ReplaceElement
<1>4. \A j \in DOMAIN new.options : Sound(new.options[j])
  BY <1>1, <1>3
<1>5. Configuration(new)
  BY <1>1, <1>2, <1>3, <1>4 DEF Configuration, Sound
<1> QED
  BY <1>2, <1>3, <1>4, <1>5 DEF Well, new

\* new has the options of c, with other values.
Kept(new, c) ==
    /\ DOMAIN new.options = DOMAIN c.options
    /\ \A i \in DOMAIN c.options : SameButValues(new.options[i], c.options[i])

\* It has options of the same names in the same places.
SameNames(new, c) ==
    /\ DOMAIN new.options = DOMAIN c.options
    /\ \A i \in DOMAIN c.options :
            /\ new.options[i].section = c.options[i].section
            /\ new.options[i].name = c.options[i].name

\* GET_OPTION looks at sections and names only.
LEMMA FindSame ==
    ASSUME NEW new, NEW c, SameNames(new, c), NEW section, NEW name
    PROVE  Find(new, section, name) = Find(c, section, name)
<1> DEFINE foundNew == {i \in Section(new, section) : new.options[i].name = name}
           foundOld == {i \in Section(c, section) : c.options[i].name = name}
<1>1. foundNew = foundOld
  BY DEF Section, SameNames
<1>2. /\ Find(new, section, name) =
            IF foundNew = {} THEN 0 ELSE CHOOSE i \in foundNew : \A j \in foundNew : i <= j
      /\ Find(c, section, name) =
            IF foundOld = {} THEN 0 ELSE CHOOSE i \in foundOld : \A j \in foundOld : i <= j
  BY DEF Find
<1> HIDE DEF foundNew, foundOld
<1> QED
  BY <1>1, <1>2

LEMMA FindKept ==
    ASSUME NEW new, NEW c, Kept(new, c), NEW section, NEW name
    PROVE  Find(new, section, name) = Find(c, section, name)
<1>1. SameNames(new, c)
  BY DEF Kept, SameButValues, SameNames
<1> QED
  BY <1>1, FindSame

\* An option that is the only one of its name.
LEMMA FindOnly ==
    ASSUME NEW c, Well(c), NEW section, NEW name, NEW i \in DOMAIN c.options,
           c.options[i].section = section, c.options[i].name = name,
           \A j \in DOMAIN c.options :
                c.options[j].section = section /\ c.options[j].name = name => j = i
    PROVE  Find(c, section, name) = i
<1>1. Has(c, section, name)
  BY DEF Has
<1> QED
  BY <1>1, FindIs

-----------------------------------------------------------------------------
(* Declarations.                                                           *)

\* new declares what c does and perhaps more, all of it sound and fresh.
Grows(new, c) ==
    /\ Well(new) /\ Fresh(new)
    /\ new.live = c.live
    /\ DOMAIN c.options \subseteq DOMAIN new.options
    /\ \A section, name : Has(c, section, name) => Has(new, section, name)

LEMMA GrowsIsTransitive ==
    ASSUME NEW a, NEW b, NEW c, Grows(b, a), Grows(c, b)
    PROVE  Grows(c, a)
BY DEF Grows

\* An option that has just been declared.
LEMMA NewOptionSound ==
    ASSUME NEW section, NEW name, NEW type \in ParamTypes,
           NEW o, o = NewOption(section, name, type)
    PROVE  Sound(o)
<1>1. /\ o.values = <<>> /\ o.no_override = FALSE
      /\ o.section = section /\ o.name = name /\ o.type = type
      /\ o.multivalued = FALSE /\ o.range_set = (type = "PARAM_BOOL")
      /\ o.value_min = MinOf(type) /\ o.value_max = MaxOf(type)
  BY DEF NewOption
<1>2. MinOf(type) \in Int /\ MaxOf(type) \in Int
  BY ConfigAssumption DEF MinOf, MaxOf
<1>3. <<>> \in Seq(ToSet(<<>>)) /\ ToSet(<<>>) = {} /\ Len(<<>>) = 0
  BY DEF ToSet
<1>4. Option(o)
  BY <1>1, <1>2, <1>3 DEF Option, NewOption
<1>5. ValuesFit(o)
  BY <1>1, <1>3 DEF ValuesFit
<1>6. Ranged(o)
  BY <1>1 DEF Ranged, MinOf, MaxOf
<1> QED
  BY <1>1, <1>4, <1>5, <1>6 DEF Sound

\* rapp_config_opt_add.
LEMMA OptionAdded ==
    ASSUME NEW c, Well(c), Fresh(c), NEW section, NEW name, NEW type \in ParamTypes
    PROVE  LET new == rapp_config_opt_add(c, section, name, type)
           IN  /\ Grows(new, c)
               /\ validate_name(name) /\ validate_name(section) => Has(new, section, name)
<1> DEFINE new == rapp_config_opt_add(c, section, name, type)
           o == NewOption(section, name, type)
<1>1. CASE ~(validate_name(name) /\ validate_name(section))
  BY <1>1 DEF rapp_config_opt_add, Grows
<1>2. CASE validate_name(name) /\ validate_name(section)
  <2>1. /\ c.options \in Seq(ToSet(c.options)) /\ c.live \in BOOLEAN
        /\ DOMAIN c.options = 1 .. Len(c.options) /\ Len(c.options) \in Nat
        /\ \A j \in DOMAIN c.options : Sound(c.options[j])
    BY DEF Well, Configuration
  <2>2. /\ new.options = Append(c.options, o)
        /\ new.live = c.live
        /\ new = [live |-> new.live, options |-> new.options]
    BY <1>2 DEF rapp_config_opt_add, Well, Configuration
  <2>3. /\ Sound(o) /\ o.values = <<>> /\ o.no_override = FALSE
        /\ o.section = section /\ o.name = name
    <3>1. Sound(o)
      BY NewOptionSound
    <3> QED
      BY <3>1 DEF NewOption
  <2> HIDE DEF new, o
  <2>4. /\ new.options \in Seq(ToSet(new.options))
        /\ DOMAIN new.options = 1 .. Len(c.options) + 1
        /\ \A j \in DOMAIN c.options : new.options[j] = c.options[j]
        /\ new.options[Len(c.options) + 1] = o
    BY <2>1, <2>2, AppendElement
  <2>5. \A j \in DOMAIN new.options : j \in DOMAIN c.options \/ new.options[j] = o
    BY <2>1, <2>4
  <2>6. Well(new)
    <3>1. \A j \in DOMAIN new.options : Sound(new.options[j])
      BY <2>1, <2>3, <2>4, <2>5
    <3> QED
      BY <2>1, <2>2, <2>4, <3>1 DEF Well, Configuration, Sound
  <2>7. Fresh(new)
    BY <2>3, <2>4, <2>5 DEF Fresh
  <2>8. DOMAIN c.options \subseteq DOMAIN new.options
    BY <2>1, <2>4
  <2>9. \A s, n : Has(c, s, n) => Has(new, s, n)
    BY <2>4, <2>8 DEF Has
  <2>10. Has(new, section, name)
    <3>1. Len(c.options) + 1 \in DOMAIN new.options
      BY <2>1, <2>4
    <3> QED
      BY <2>3, <2>4, <3>1 DEF Has
  <2> QED
    BY <2>2, <2>6, <2>7, <2>8, <2>9, <2>10 DEF Grows, new
<1> QED
  BY <1>1, <1>2

\* Any of the settings of an option: the option found is replaced by another
\* that is sound and fresh.
LEMMA SettingChanged ==
    ASSUME NEW c, Well(c), Fresh(c), NEW i, NEW x,
           i \in DOMAIN c.options =>
               /\ Sound(x) /\ x.values = <<>> /\ x.no_override = FALSE
               /\ x.section = c.options[i].section /\ x.name = c.options[i].name
    PROVE  Grows(Put(c, i, x), c)
<1> DEFINE new == Put(c, i, x)
<1>1. /\ Well(new)
      /\ new.live = c.live
      /\ DOMAIN new.options = DOMAIN c.options
      /\ \A j \in DOMAIN c.options : new.options[j] = IF j = i THEN x ELSE c.options[j]
  BY OptionChanged
<1> HIDE DEF new
<1>2. Fresh(new)
  BY <1>1 DEF Fresh
<1>3. \A s, n : Has(c, s, n) => Has(new, s, n)
  BY <1>1 DEF Has
<1> QED
  BY <1>1, <1>2, <1>3 DEF Grows, new

LEMMA GrowsReflexive ==
    ASSUME NEW c, Well(c), Fresh(c)
    PROVE  Grows(c, c)
BY DEF Grows

\* rapp_config_opt_set_range_int.
LEMMA RangeSet ==
    ASSUME NEW c, Well(c), Fresh(c), NEW section, NEW name, NEW min \in Int, NEW max \in Int
    PROVE  Grows(rapp_config_opt_set_range_int(c, section, name, min, max), c)
<1> DEFINE i == Find(c, section, name)
           o == c.options[i]
           x == [o EXCEPT !.value_min = min, !.value_max = max, !.range_set = TRUE]
<1>1. CASE i = 0 \/ o.type # "PARAM_INT" \/ min >= max
  BY <1>1, GrowsReflexive DEF rapp_config_opt_set_range_int
<1>2. CASE ~(i = 0 \/ o.type # "PARAM_INT" \/ min >= max)
  <2>1. rapp_config_opt_set_range_int(c, section, name, min, max) = Put(c, i, x)
    BY <1>2 DEF rapp_config_opt_set_range_int, Put
  <2>2. ASSUME i \in DOMAIN c.options
        PROVE  /\ Sound(x) /\ x.values = <<>> /\ x.no_override = FALSE
               /\ x.section = o.section /\ x.name = o.name
    <3> HIDE DEF i
    <3>1. Option(o) /\ o.values = <<>> /\ o.no_override = FALSE
      BY <2>2 DEF Well, Sound, Fresh
    <3> HIDE DEF o
    <3>2. /\ Option(x) /\ x.values = <<>> /\ x.no_override = FALSE
          /\ x.section = o.section /\ x.name = o.name /\ x.type = o.type
      BY <3>1 DEF Option
    <3> HIDE DEF x
    <3>3. ValuesFit(x)
      BY <3>2 DEF ValuesFit, ToSet
    <3>4. Ranged(x)
      BY <1>2, <3>2 DEF Ranged, o
    <3> QED
      BY <3>2, <3>3, <3>4 DEF Sound
  <2> HIDE DEF i, x
  <2>3. Grows(Put(c, i, x), c)
    BY <2>2, SettingChanged
  <2> QED
    BY <2>1, <2>3
<1> QED
  BY <1>1, <1>2

\* rapp_config_opt_set_multivalued.
LEMMA MultivaluedSet ==
    ASSUME NEW c, Well(c), Fresh(c), NEW section, NEW name, NEW flag \in BOOLEAN
    PROVE  Grows(rapp_config_opt_set_multivalued(c, section, name, flag), c)
<1> DEFINE i == Find(c, section, name)
           o == c.options[i]
           x == [o EXCEPT !.multivalued = flag]
<1>1. CASE i = 0
  BY <1>1, GrowsReflexive DEF rapp_config_opt_set_multivalued
<1>2. CASE i # 0
  <2>1. rapp_config_opt_set_multivalued(c, section, name, flag) = Put(c, i, x)
    BY <1>2 DEF rapp_config_opt_set_multivalued, Put
  <2>2. ASSUME i \in DOMAIN c.options
        PROVE  /\ Sound(x) /\ x.values = <<>> /\ x.no_override = FALSE
               /\ x.section = o.section /\ x.name = o.name
    <3> HIDE DEF i
    <3>1. Sound(o) /\ o.values = <<>> /\ o.no_override = FALSE
      BY <2>2 DEF Well, Fresh
    <3> HIDE DEF o
    <3>2. /\ Option(x) /\ x.values = <<>> /\ x.no_override = FALSE
          /\ x.section = o.section /\ x.name = o.name /\ x.type = o.type
          /\ x.range_set = o.range_set /\ x.value_min = o.value_min /\ x.value_max = o.value_max
      BY <3>1 DEF Option, Sound
    <3> HIDE DEF x
    <3>3. ValuesFit(x) /\ Ranged(x)
      BY <3>1, <3>2 DEF ValuesFit, ToSet, Ranged, Sound
    <3> QED
      BY <3>2, <3>3 DEF Sound
  <2> HIDE DEF i, x
  <2>3. Grows(Put(c, i, x), c)
    BY <2>2, SettingChanged
  <2> QED
    BY <2>1, <2>3
<1> QED
  BY <1>1, <1>2

\* rapp_config_opt_set_default_string and rapp_config_opt_set_default_int.
LEMMA DefaultSet ==
    ASSUME NEW c, Well(c), Fresh(c), NEW section, NEW name, NEW default
    PROVE  Grows(SetDefault(c, section, name, default), c)
<1> DEFINE i == Find(c, section, name)
           o == c.options[i]
           x == [o EXCEPT !.default = default]
<1>1. CASE i = 0
  BY <1>1, GrowsReflexive DEF SetDefault
<1>2. CASE i # 0
  <2>1. SetDefault(c, section, name, default) = Put(c, i, x)
    BY <1>2 DEF SetDefault, Put
  <2>2. ASSUME i \in DOMAIN c.options
        PROVE  /\ Sound(x) /\ x.values = <<>> /\ x.no_override = FALSE
               /\ x.section = o.section /\ x.name = o.name
    <3> HIDE DEF i
    <3>1. Sound(o) /\ o.values = <<>> /\ o.no_override = FALSE
      BY <2>2 DEF Well, Fresh
    <3> HIDE DEF o
    <3>2. /\ Option(x) /\ x.values = <<>> /\ x.no_override = FALSE
          /\ x.section = o.section /\ x.name = o.name /\ x.type = o.type
          /\ x.range_set = o.range_set /\ x.value_min = o.value_min /\ x.value_max = o.value_max
      BY <3>1 DEF Option, Sound
    <3> HIDE DEF x
    <3>3. ValuesFit(x) /\ Ranged(x)
      BY <3>1, <3>2 DEF ValuesFit, ToSet, Ranged, Sound
    <3> QED
      BY <3>2, <3>3 DEF Sound
  <2> HIDE DEF i, x
  <2>3. Grows(Put(c, i, x), c)
    BY <2>2, SettingChanged
  <2> QED
    BY <2>1, <2>3
<1> QED
  BY <1>1, <1>2

-----------------------------------------------------------------------------
(* What a file does to an option.                                          *)

\* Its values may change unless it is locked, and nothing else.
FileChanges(x, o) ==
    /\ Sound(x) /\ SameButValues(x, o) /\ x.no_override = o.no_override
    /\ o.no_override => x = o

LEMMA EmptiedOption ==
    ASSUME NEW o, Sound(o)
    PROVE  FileChanges(Emptied(o), o)
<1>1. CASE o.no_override
  BY <1>1 DEF Emptied, FileChanges, SameButValues
<1>2. CASE ~o.no_override
  <2>1. Emptied(o) = config_option_remove_all_values(o)
    BY <1>2 DEF Emptied
  <2> QED
    BY <1>2, <2>1, ValuesRemoved DEF FileChanges
<1> QED
  BY <1>1, <1>2

LEMMA ScalarOption ==
    ASSUME NEW o, Sound(o), NEW text
    PROVE  FileChanges(FromScalar(o, text), o)
<1>1. CASE o.no_override
  BY <1>1 DEF FromScalar, FileChanges, SameButValues
<1>2. CASE ~o.no_override
  <2>1. FromScalar(o, text) = config_add_value_from_string(o, text)
    BY <1>2 DEF FromScalar
  <2> QED
    BY <1>2, <2>1, ValueFromString DEF FileChanges
<1> QED
  BY <1>1, <1>2

LEMMA ReplacedOption ==
    ASSUME NEW o, Sound(o), NEW text
    PROVE  FileChanges(FromScalar(Emptied(o), text), o)
<1>1. FileChanges(Emptied(o), o)
  BY EmptiedOption
<1>2. FileChanges(FromScalar(Emptied(o), text), Emptied(o))
  BY <1>1, ScalarOption DEF FileChanges
<1> QED
  BY <1>1, <1>2 DEF FileChanges, SameButValues

\* Where there is no such option nothing happens.
LEMMA PutOutside ==
    ASSUME NEW c, Well(c), NEW o, o \notin DOMAIN c.options, NEW x
    PROVE  Put(c, o, x) = c
<1>1. c \in [live : BOOLEAN, options : Seq(ToSet(c.options))]
  BY DEF Well, Configuration
<1>2. [c.options EXCEPT ![o] = x] = c.options
  <2>1. c.options = [k \in DOMAIN c.options |-> c.options[k]]
    BY <1>1
  <2> QED
    BY <2>1
<1> QED
  BY <1>1, <1>2 DEF Put

\* A step of the parser leaves the configuration alone or changes one option.
LEMMA ParserChanges ==
    ASSUME Well(conf), config_parse_main
    PROVE  \/ UNCHANGED conf
           \/ \E o \in DOMAIN conf.options : \E x :
                FileChanges(x, conf.options[o]) /\ conf' = Put(conf, o, x)
<1> DEFINE Changed == \E o \in DOMAIN conf.options : \E x :
                        FileChanges(x, conf.options[o]) /\ conf' = Put(conf, o, x)
<1>1. ASSUME NEW o, NEW x, conf' = Put(conf, o, x),
             o \in DOMAIN conf.options => FileChanges(x, conf.options[o])
      PROVE  UNCHANGED conf \/ Changed
  BY <1>1, PutOutside
<1>2. \A o \in DOMAIN conf.options : Sound(conf.options[o])
  BY DEF Well
<1>3. CASE ParseInit \/ ParseSection \/ SkipSection
  BY <1>3 DEF ParseInit, ParseSection, SkipSection
<1>4. CASE KeyValue
  <2>1. \/ UNCHANGED conf
        \/ \E o, text : conf' = Put(conf, o, FromScalar(Emptied(conf.options[o]), text))
        \/ \E o : conf' = Put(conf, o, Emptied(conf.options[o]))
    BY <1>4 DEF KeyValue, Put
  <2>2. ASSUME NEW o, NEW text, conf' = Put(conf, o, FromScalar(Emptied(conf.options[o]), text))
        PROVE  UNCHANGED conf \/ Changed
    <3>1. o \in DOMAIN conf.options =>
            FileChanges(FromScalar(Emptied(conf.options[o]), text), conf.options[o])
      BY <1>2, ReplacedOption
    <3> QED
      BY <1>1, <2>2, <3>1
  <2>3. ASSUME NEW o, conf' = Put(conf, o, Emptied(conf.options[o]))
        PROVE  UNCHANGED conf \/ Changed
    <3>1. o \in DOMAIN conf.options => FileChanges(Emptied(conf.options[o]), conf.options[o])
      BY <1>2, EmptiedOption
    <3> QED
      BY <1>1, <2>3, <3>1
  <2> QED
    BY <2>1, <2>2, <2>3
<1>5. CASE ListItem
  <2>1. \/ UNCHANGED conf
        \/ \E text : conf' = Put(conf, yaml.opt, FromScalar(conf.options[yaml.opt], text))
    BY <1>5 DEF ListItem, Put
  <2>2. ASSUME NEW text, conf' = Put(conf, yaml.opt, FromScalar(conf.options[yaml.opt], text))
        PROVE  UNCHANGED conf \/ Changed
    <3>1. yaml.opt \in DOMAIN conf.options =>
            FileChanges(FromScalar(conf.options[yaml.opt], text), conf.options[yaml.opt])
      BY <1>2, ScalarOption
    <3> QED
      BY <1>1, <2>2, <3>1
  <2> QED
    BY <2>1, <2>2
<1> QED
  BY <1>3, <1>4, <1>5 DEF config_parse_main

-----------------------------------------------------------------------------
(* Tokens.                                                                 *)

TokenTypes == {"STREAM_START", "STREAM_END", "DOCUMENT_START", "KEY", "VALUE", "SCALAR",
               "BLOCK_MAPPING_START", "BLOCK_SEQUENCE_START", "BLOCK_ENTRY", "BLOCK_END",
               "FLOW_MAPPING_START", "FLOW_MAPPING_END", "FLOW_SEQUENCE_START", "FLOW_SEQUENCE_END",
               "FLOW_ENTRY"}
Scalars == STRING \cup Seq(STRING) \cup {"text"}

\* A scalar has a text or a name.
RealTokens == [type : TokenTypes \ {"SCALAR"}, scalar : {NULL}] \cup [type : {"SCALAR"}, scalar : Scalars]

LEMMA TokenTyped ==
    /\ \A type \in TokenTypes \ {"SCALAR"} : Token(type) \in RealTokens
    /\ \A s \in Scalars : Scalar(s) \in RealTokens
BY DEF Token, Scalar, RealTokens, TokenTypes

\* Elements behind a token each, or with one in between, are of their type and follow each other.
LEMMA EntriesChain ==
    ASSUME NEW S, NEW list \in Seq(Seq(S)), NEW entry, Token(entry) \in S
    PROVE  /\ Entries(entry, list) \in Seq(S)
           /\ Chained(list, Entries(entry, list), Token(entry), 0, Len(Entries(entry, list)))
           /\ Separated(entry, list) \in Seq(S)
           /\ Chained(list, Separated(entry, list), Token(entry), 0, Len(Separated(entry, list)))
<1> DEFINE e == Token(entry)
           n == Len(list)
           seqs == [k \in DOMAIN list |-> <<e>> \o list[k]]
           all == FlattenSeq(seqs)
           at == [k \in 0 .. n |-> Len(Initial(seqs, k))]
<1>1. e \in S
  OBVIOUS
<1> HIDE DEF e
<1>2. DOMAIN list = 1 .. n /\ n \in Nat /\ \A k \in 1 .. n : list[k] \in Seq(S) /\ Len(list[k]) \in Nat
  BY ElementOfSeq, LenProperties
<1> HIDE DEF n
<1>3. ASSUME NEW k \in 1 .. n
      PROVE  /\ <<e>> \o list[k] \in Seq(S) /\ Len(<<e>> \o list[k]) = Len(list[k]) + 1
             /\ (<<e>> \o list[k])[1] = e
             /\ \A i \in 1 .. Len(list[k]) : (<<e>> \o list[k])[1 + i] = list[k][i]
  BY <1>1, <1>2
<1>4. seqs \in Seq(Seq(S)) /\ Len(seqs) = n /\ \A k \in 1 .. n : seqs[k] = <<e>> \o list[k]
  BY <1>2, <1>3
<1>5. Entries(entry, list) = all
  BY DEF Entries, e
<1> HIDE DEF seqs
<1>6. all \in Seq(S) /\ Len(all) \in Nat
  BY <1>4, FlattenTyped, LenProperties
<1>7. /\ at \in [0 .. n -> Nat]
      /\ at[0] = 0 /\ at[n] = Len(all)
      /\ \A k \in 1 .. n : Lies(seqs[k], all, at[k - 1]) /\ at[k] = at[k - 1] + Len(seqs[k])
  BY <1>4, FlattenChain
<1> HIDE DEF at, all
<1>8. ASSUME NEW k \in 1 .. n
      PROVE  /\ k - 1 \in 0 .. n /\ at[k - 1] \in Nat /\ at[k] \in Nat
             /\ at[k] = at[k - 1] + 1 + Len(list[k]) /\ at[k] <= Len(all)
             /\ all[at[k - 1] + 1] = e
             /\ \A i \in 1 .. Len(list[k]) : all[at[k - 1] + 1 + i] = list[k][i]
  <2> DEFINE a == at[k - 1]
             m == Len(list[k])
             u == seqs[k]
  <2>1. k - 1 \in 0 .. n /\ k \in 0 .. n
    BY <1>2
  <2>2. a \in Nat /\ at[k] \in Nat /\ m \in Nat
    BY <1>2, <1>7, <2>1
  <2>3. Len(u) = m + 1 /\ u[1] = e /\ \A i \in 1 .. m : u[1 + i] = list[k][i]
    BY <1>3, <1>4
  <2>4. Lies(u, all, a) /\ at[k] = a + Len(u)
    BY <1>7
  <2> HIDE DEF a, m, u
  <2>5. a + Len(u) <= Len(all) /\ \A i \in 1 .. m + 1 : all[a + i] = u[i]
    BY <2>3, <2>4 DEF Lies
  <2>6. all[a + 1] = e
    BY <2>2, <2>3, <2>5
  <2>7. ASSUME NEW i \in 1 .. m
        PROVE  all[a + 1 + i] = list[k][i]
    <3>1. 1 + i \in 1 .. m + 1 /\ a + (1 + i) = a + 1 + i
      BY <2>2
    <3>2. all[a + (1 + i)] = u[1 + i]
      BY <2>5, <3>1
    <3> QED
      BY <2>3, <3>1, <3>2
  <2>8. at[k] = a + 1 + m /\ at[k] <= Len(all)
    BY <2>2, <2>3, <2>4, <2>5
  <2> QED
    BY <2>1, <2>2, <2>6, <2>7, <2>8 DEF a, m
<1>9. Chain(list, all, e, at)
  <2>1. ASSUME NEW k \in 1 .. n
        PROVE  Spaced(list[k], all, e, at[k - 1], at[k])
    <3> DEFINE a == at[k - 1]
               m == Len(list[k])
    <3>1. /\ a \in Nat /\ m \in Nat /\ at[k] = a + 1 + m /\ at[k] <= Len(all) /\ all[a + 1] = e
          /\ \A i \in 1 .. m : all[a + 1 + i] = list[k][i]
      BY <1>2, <1>8
    <3> HIDE DEF a, m
    <3>2. a + 1 <= Len(all) /\ a + 1 + m <= Len(all)
      BY <1>6, <3>1
    <3> QED
      BY <3>1, <3>2 DEF Spaced, Lies, a, m
  <2> QED
    BY <1>7, <2>1 DEF Chain, n
<1>10. CASE list = <<>>
  <2>1. n = 0 /\ Separated(entry, list) = <<>> /\ Len(<<>>) = 0 /\ <<>> \in Seq(S)
    BY <1>10, EmptySeq DEF Separated, n
  <2>2. at[0] = 0 /\ at \in [0 .. n -> Nat]
    BY <1>7
  <2>3. Chain(list, <<>>, e, at)
    BY <2>1, <2>2 DEF Chain, n
  <2>4. at[Len(list)] = Len(<<>>)
    BY <2>1, <2>2 DEF n
  <2> QED
    BY <1>5, <1>6, <1>7, <1>9, <2>1, <2>2, <2>3, <2>4 DEF e, n, Chained
<1>11. CASE list # <<>>
  <2> DEFINE sep == Tail(all)
             to == [k \in 0 .. n |-> IF k = 0 THEN 0 ELSE at[k] - 1]
  <2>1. n > 0 /\ 1 \in 1 .. n /\ n \in 1 .. n
    BY <1>2, <1>11, EmptySeq DEF n
  <2>2. Len(all) > 0 /\ all # <<>>
    <3>1. at[1] = at[1 - 1] + 1 + Len(list[1]) /\ at[1] <= Len(all) /\ at[1 - 1] \in Nat /\ Len(list[1]) \in Nat
      BY <1>2, <1>8, <2>1
    <3>2. Len(all) > 0
      BY <1>6, <3>1
    <3> QED
      BY <3>2, EmptySeq
  <2>3. Separated(entry, list) = sep
    BY <1>5, <1>11 DEF Separated
  <2>4. sep \in Seq(S) /\ Len(sep) = Len(all) - 1 /\ \A i \in 1 .. Len(all) - 1 : sep[i] = all[i + 1]
    BY <1>6, <2>2, HeadTailProperties
  <2> HIDE DEF sep
  <2>5. ASSUME NEW k \in 0 .. n
        PROVE  to[k] \in Nat /\ (k # 0 => to[k] = at[k] - 1)
    <3>1. k # 0 => k \in 1 .. n
      BY <1>2
    <3>2. k # 0 => at[k] = at[k - 1] + 1 + Len(list[k]) /\ at[k - 1] \in Nat /\ Len(list[k]) \in Nat
      BY <1>2, <1>8, <3>1
    <3> QED
      BY <3>1, <3>2
  <2>6. to \in [0 .. n -> Nat]
    BY <2>5
  <2>7. ASSUME NEW k \in 1 .. n
        PROVE  Spaced(list[k], sep, e, to[k - 1], to[k])
    <3> DEFINE a == at[k - 1]
               m == Len(list[k])
    <3>1. /\ a \in Nat /\ m \in Nat /\ at[k] = a + 1 + m /\ at[k] <= Len(all) /\ all[a + 1] = e
          /\ \A i \in 1 .. m : all[a + 1 + i] = list[k][i]
      BY <1>2, <1>8
    <3>2. k - 1 \in 0 .. n /\ k \in 0 .. n /\ k # 0 /\ (k - 1 = 0 <=> k = 1)
      BY <1>2
    <3>3. to[k] = a + m
      <4>1. to[k] = at[k] - 1
        BY <2>5, <3>2
      <4> HIDE DEF to, a, m
      <4> QED
        BY <3>1, <4>1
    <3>4. \A i \in 1 .. m : sep[a + i] = list[k][i]
      <4> SUFFICES ASSUME NEW i \in 1 .. m
                   PROVE  sep[a + i] = list[k][i]
        OBVIOUS
      <4>1. a + i \in 1 .. Len(all) - 1 /\ a + i + 1 = a + 1 + i
        <5> HIDE DEF a, m
        <5> QED
          BY <1>6, <3>1
      <4> QED
        BY <2>4, <3>1, <4>1
    <3>5. a + m <= Len(sep)
      <4> HIDE DEF a, m
      <4> QED
        BY <1>6, <2>4, <3>1
    <3>6. CASE k = 1
      <4>1. a = 0 /\ to[k - 1] = 0
        BY <1>7, <3>2, <3>6
      <4> QED
        BY <3>3, <3>4, <3>5, <4>1 DEF Spaced, Lies
    <3>7. CASE k # 1
      <4>1. k - 1 \in 1 .. n
        BY <1>2, <3>7
      <4>2. a > 0
        <5> DEFINE b == at[k - 1 - 1]
                   l == Len(list[k - 1])
        <5>1. b \in Nat /\ l \in Nat /\ a = b + 1 + l
          BY <1>2, <1>8, <4>1
        <5> HIDE DEF a, b, l
        <5> QED
          BY <5>1
      <4>3. to[k - 1] = a - 1
        BY <2>5, <3>2, <3>7
      <4> DEFINE b == a - 1
      <4>4. b + 1 = a /\ a \in 1 .. Len(all) - 1 /\ a + 1 = a + 1
        <5> HIDE DEF a, m
        <5> QED
          BY <1>6, <2>4, <3>1, <3>5, <4>2
      <4>5. sep[a] = e /\ a <= Len(sep)
        <5> HIDE DEF a, m
        <5> QED
          BY <1>6, <2>4, <3>1, <4>4
      <4>6. Lies(list[k], sep, a)
        BY <3>4, <3>5 DEF Lies
      <4> HIDE DEF a, b, to
      <4>7. b + 1 <= Len(sep) /\ sep[b + 1] = e /\ Lies(list[k], sep, b + 1) /\ to[k] = b + 1 + Len(list[k])
        BY <3>3, <4>4, <4>5, <4>6
      <4> QED
        BY <4>3, <4>7 DEF Spaced, b
    <3> QED
      BY <3>6, <3>7
  <2>8. to[0] = 0 /\ to[n] = Len(sep)
    <3>1. to[0] = 0 /\ n \in 0 .. n /\ n # 0
      BY <1>2, <2>1
    <3>2. to[n] = at[n] - 1
      BY <2>5, <3>1
    <3> QED
      BY <1>7, <2>4, <3>1, <3>2
  <2> HIDE DEF to
  <2>9. Chain(list, sep, e, to)
    BY <2>6, <2>7 DEF Chain, n
  <2> QED
    BY <1>5, <1>6, <1>7, <1>9, <2>3, <2>4, <2>8, <2>9 DEF e, n, Chained
<1> QED
  BY <1>10, <1>11

LEMMA RestTyped ==
    ASSUME tokens \in Seq(RealTokens), NEW n \in Nat, Scanned(n)
    PROVE  tokens' \in Seq(RealTokens)
<1>1. Len(tokens) \in Nat /\ \A k \in 1 .. Len(tokens) : tokens[k] \in RealTokens
  BY LenProperties, ElementOfSeq
<1>2. n + 1 \in Int /\ Len(tokens) \in Int /\ \A k \in n + 1 .. Len(tokens) : tokens[k] \in RealTokens
  BY <1>1
<1> QED
  BY <1>2, SubSeqProperties DEF Scanned

-----------------------------------------------------------------------------
(* What a section has, and the tokens of a pair.                           *)

\* The tokens of the texts, pairs and sections.
TextSeqs(pair) == [k \in DOMAIN pair.texts |-> <<Scalar(pair.texts[k])>>]
PairSeqs(section) == [k \in DOMAIN section.pairs |-> PairTokens(section.pairs[k])]
SectionSeqs(d) == [k \in DOMAIN d.sections |-> SectionTokens(d.sections[k])]

\* What a section has as a pair.
SectionPairs == {p \in Pairs : p.style \in {"scalar", "map"} => Len(p.texts) = 1}

LEMMA PairIs ==
    ASSUME NEW pair \in SectionPairs
    PROVE  /\ pair.key \in Seq(STRING) /\ pair.style \in {"scalar", "none", "block", "flow", "map"}
           /\ DOMAIN pair.texts = 1 .. Len(pair.texts) /\ Len(pair.texts) \in Nat
           /\ \A k \in 1 .. Len(pair.texts) : pair.texts[k] \in STRING
           /\ pair.style \in {"scalar", "map"} => Len(pair.texts) = 1 /\ 1 \in DOMAIN pair.texts
<1>1. /\ pair.key \in Seq(STRING) /\ pair.style \in {"scalar", "none", "block", "flow", "map"}
      /\ pair.texts \in Seq(STRING)
  BY DEF SectionPairs, Pairs
<1>2. pair.style \in {"scalar", "map"} => Len(pair.texts) = 1
  BY DEF SectionPairs
<1> DEFINE texts == pair.texts
<1> HIDE DEF texts
<1>3. DOMAIN texts = 1 .. Len(texts) /\ Len(texts) \in Nat /\ \A k \in 1 .. Len(texts) : texts[k] \in STRING
  BY <1>1 DEF texts
<1>4. Len(texts) = 1 => 1 \in 1 .. Len(texts)
  OBVIOUS
<1> QED
  BY <1>1, <1>2, <1>3, <1>4 DEF texts

LEMMA SectionIs ==
    ASSUME NEW section \in Sections
    PROVE  /\ section.name \in Seq(STRING) /\ section.style \in {"block", "flow", "scalar"}
           /\ section.pairs \in Seq(SectionPairs)
           /\ DOMAIN section.pairs = 1 .. Len(section.pairs) /\ Len(section.pairs) \in Nat
           /\ \A k \in 1 .. Len(section.pairs) : section.pairs[k] \in SectionPairs
<1> DEFINE pairs == section.pairs
<1>1. /\ section.name \in Seq(STRING) /\ section.style \in {"block", "flow", "scalar"}
      /\ pairs \in Seq(SectionPairs)
  BY DEF Sections, SectionPairs
<1> HIDE DEF pairs
<1>2. /\ DOMAIN pairs = 1 .. Len(pairs) /\ Len(pairs) \in Nat
      /\ \A k \in 1 .. Len(pairs) : pairs[k] \in SectionPairs
  BY <1>1, ElementOfSeq, LenProperties
<1> QED
  BY <1>1, <1>2 DEF pairs

LEMMA DocumentIs ==
    ASSUME NEW d \in Documents
    PROVE  /\ d.explicit \in BOOLEAN /\ d.cut \in Nat /\ d.sections \in Seq(Sections)
           /\ DOMAIN d.sections = 1 .. Len(d.sections) /\ Len(d.sections) \in Nat
           /\ \A k \in 1 .. Len(d.sections) : d.sections[k] \in Sections
<1> DEFINE sections == d.sections
<1>1. d.explicit \in BOOLEAN /\ d.cut \in Nat /\ sections \in Seq(Sections)
  BY DEF Documents
<1> HIDE DEF sections
<1>2. /\ DOMAIN sections = 1 .. Len(sections) /\ Len(sections) \in Nat
      /\ \A k \in 1 .. Len(sections) : sections[k] \in Sections
  BY <1>1, ElementOfSeq, LenProperties
<1> QED
  BY <1>1, <1>2 DEF sections

\* The tokens that do not end a block.
OpenTokens == {t \in RealTokens : t.type # "BLOCK_END"}

LEMMA OpenTyped ==
    /\ \A type \in TokenTypes \ {"SCALAR", "BLOCK_END"} : Token(type) \in OpenTokens
    /\ \A s \in Scalars : Scalar(s) \in OpenTokens
<1>1. \A type \in TokenTypes \ {"SCALAR", "BLOCK_END"} : Token(type).type = type
  BY DEF Token
<1>2. \A s : Scalar(s).type = "SCALAR"
  BY DEF Scalar
<1> QED
  BY <1>1, <1>2, TokenTyped DEF OpenTokens

\* S has the tokens of a pair of this style.
Covers(S, style) ==
    /\ \A type \in TokenTypes \ {"SCALAR", "BLOCK_END"} : Token(type) \in S
    /\ \A s \in Scalars : Scalar(s) \in S
    /\ style \in {"block", "map"} => Token("BLOCK_END") \in S

LEMMA Covered ==
    /\ \A style : Covers(RealTokens, style)
    /\ \A style : style \notin {"block", "map"} => Covers(OpenTokens, style)
<1>1. "BLOCK_END" \in TokenTypes \ {"SCALAR"}
  BY DEF TokenTypes
<1> QED
  BY <1>1, TokenTyped, OpenTyped DEF Covers

LEMMA TextsTyped ==
    ASSUME NEW pair \in SectionPairs, NEW S, Covers(S, pair.style)
    PROVE  /\ TextSeqs(pair) \in Seq(Seq(S)) /\ Len(TextSeqs(pair)) = Len(pair.texts)
           /\ \A k \in 1 .. Len(pair.texts) : TextSeqs(pair)[k] = <<Scalar(pair.texts[k])>>
           /\ pair.style \in {"scalar", "map"} => Scalar(pair.texts[1]) \in S
<1> DEFINE texts == pair.texts
           n == Len(texts)
<1>1. DOMAIN texts = 1 .. n /\ n \in Nat /\ \A k \in 1 .. n : texts[k] \in STRING
  BY PairIs
<1>2. pair.style \in {"scalar", "map"} => 1 \in 1 .. n
  BY PairIs
<1>3. \A k \in 1 .. n : Scalar(texts[k]) \in S
  BY <1>1 DEF Covers, Scalars
<1> HIDE DEF n
<1>4. TextSeqs(pair) = [k \in 1 .. n |-> <<Scalar(texts[k])>>]
  BY <1>1 DEF TextSeqs
<1> HIDE DEF texts
<1>5. \A k \in 1 .. n : <<Scalar(texts[k])>> \in Seq(S)
  BY <1>3
<1>6. TextSeqs(pair) \in Seq(Seq(S)) /\ Len(TextSeqs(pair)) = n
  BY <1>1, <1>4, <1>5
<1> QED
  BY <1>2, <1>3, <1>4, <1>6 DEF texts, n

\* Where the texts of a list are in what the scanner makes of it.
ListEntry(pair) == Token(IF pair.style = "block" THEN "BLOCK_ENTRY" ELSE "FLOW_ENTRY")

LEMMA ValueIs ==
    ASSUME NEW pair \in SectionPairs, NEW S, Covers(S, pair.style),
           NEW v, v = ValueTokens(pair.style, pair.texts)
    PROVE  /\ v \in Seq(S)
           /\ pair.style = "scalar" => v = <<Scalar(pair.texts[1])>>
           /\ pair.style = "none" => v = <<>>
           /\ pair.style = "map" => Len(v) > 0 /\ v[1] = Token("BLOCK_MAPPING_START")
           /\ pair.style \in {"block", "flow"} =>
                /\ Len(v) > 1
                /\ v[1] \in {Token("BLOCK_SEQUENCE_START"), Token("FLOW_SEQUENCE_START")}
                /\ v[Len(v)] \in {Token("BLOCK_END"), Token("FLOW_SEQUENCE_END")}
                /\ \A upto \in Int : upto = Len(v) - 1 => Chained(TextSeqs(pair), v, ListEntry(pair), 1, upto)
<1> DEFINE list == TextSeqs(pair)
           texts == pair.texts
<1>1. /\ list \in Seq(Seq(S)) /\ Len(list) = Len(texts)
      /\ pair.style \in {"scalar", "map"} => Scalar(texts[1]) \in S /\ list[1] = <<Scalar(texts[1])>>
  BY TextsTyped, PairIs
<1>2. pair.style \in {"scalar", "none", "block", "flow", "map"}
  BY PairIs
<1>3. /\ Token("BLOCK_SEQUENCE_START") \in S /\ Token("FLOW_SEQUENCE_START") \in S
      /\ Token("FLOW_SEQUENCE_END") \in S /\ Token("BLOCK_ENTRY") \in S /\ Token("FLOW_ENTRY") \in S
      /\ Token("BLOCK_MAPPING_START") \in S /\ Token("KEY") \in S /\ Token("VALUE") \in S
      /\ pair.style \in {"block", "map"} => Token("BLOCK_END") \in S
  BY DEF Covers, TokenTypes
<1>4. list = [k \in DOMAIN texts |-> <<Scalar(texts[k])>>]
  BY DEF TextSeqs
<1>5. /\ pair.style = "scalar" => v = list[1]
      /\ pair.style = "none" => v = <<>>
      /\ pair.style = "block" => v = <<Token("BLOCK_SEQUENCE_START")>> \o Entries("BLOCK_ENTRY", list)
                                       \o <<Token("BLOCK_END")>>
      /\ pair.style = "flow" => v = <<Token("FLOW_SEQUENCE_START")>> \o Separated("FLOW_ENTRY", list)
                                       \o <<Token("FLOW_SEQUENCE_END")>>
      /\ pair.style = "map" => v = <<Token("BLOCK_MAPPING_START"), Token("KEY")>> \o list[1]
                                       \o <<Token("VALUE")>> \o list[1] \o <<Token("BLOCK_END")>>
  BY <1>2, <1>4 DEF ValueTokens
<1> HIDE DEF list
<1>6. CASE pair.style = "scalar"
  <2>1. v = <<Scalar(texts[1])>> /\ Scalar(texts[1]) \in S
    BY <1>1, <1>5, <1>6
  <2>2. v \in Seq(S)
    BY <2>1
  <2> QED
    BY <1>6, <2>1, <2>2
<1>7. CASE pair.style = "none"
  <2>1. v = <<>>
    BY <1>5, <1>7
  <2>2. v \in Seq(S)
    BY <2>1
  <2> QED
    BY <1>7, <2>1, <2>2
<1>8. CASE pair.style = "map"
  <2> DEFINE a == Token("BLOCK_MAPPING_START")
             b == Token("KEY")
             c == Token("VALUE")
             e == Token("BLOCK_END")
             x == Scalar(texts[1])
             w == <<a, b>> \o <<x>> \o <<c>> \o <<x>> \o <<e>>
  <2>1. v = w /\ a \in S /\ b \in S /\ c \in S /\ e \in S /\ x \in S
    BY <1>1, <1>3, <1>5, <1>8
  <2> HIDE DEF a, b, c, e, x
  <2>2. w \in Seq(S) /\ Len(w) > 0 /\ w[1] = a
    BY <2>1
  <2> HIDE DEF w
  <2> QED
    BY <1>8, <2>1, <2>2 DEF a
<1>9. CASE pair.style = "block"
  <2> DEFINE u == Entries("BLOCK_ENTRY", list)
             a == Token("BLOCK_SEQUENCE_START")
             b == Token("BLOCK_END")
             e == Token("BLOCK_ENTRY")
  <2>1. Frames(v, a, u, b) /\ a \in S /\ b \in S /\ e = ListEntry(pair)
    BY <1>3, <1>5, <1>9 DEF ListEntry, Frames
  <2>2. u \in Seq(S) /\ Chained(list, u, e, 0, Len(u))
    BY <1>1, <1>3, EntriesChain
  <2> HIDE DEF u, a, b, e
  <2>3. /\ v \in Seq(S) /\ Len(v) > 1 /\ v[1] = a /\ v[Len(v)] = b
        /\ \A upto \in Int : upto = Len(v) - 1 => Chained(list, v, e, 1, upto)
    <3>1. list \in Seq(Seq(S)) /\ u \in Seq(S) /\ a \in S /\ b \in S
      BY <1>1, <2>1, <2>2
    <3> QED
      BY <2>1, <2>2, <3>1, FramedList
  <2> QED
    BY <1>9, <2>1, <2>3 DEF a, b, list
<1>10. CASE pair.style = "flow"
  <2> DEFINE u == Separated("FLOW_ENTRY", list)
             a == Token("FLOW_SEQUENCE_START")
             b == Token("FLOW_SEQUENCE_END")
             e == Token("FLOW_ENTRY")
  <2>1. Frames(v, a, u, b) /\ a \in S /\ b \in S /\ e = ListEntry(pair)
    BY <1>3, <1>5, <1>10 DEF ListEntry, Frames
  <2>2. u \in Seq(S) /\ Chained(list, u, e, 0, Len(u))
    BY <1>1, <1>3, EntriesChain
  <2> HIDE DEF u, a, b, e
  <2>3. /\ v \in Seq(S) /\ Len(v) > 1 /\ v[1] = a /\ v[Len(v)] = b
        /\ \A upto \in Int : upto = Len(v) - 1 => Chained(list, v, e, 1, upto)
    <3>1. list \in Seq(Seq(S)) /\ u \in Seq(S) /\ a \in S /\ b \in S
      BY <1>1, <2>1, <2>2
    <3> QED
      BY <2>1, <2>2, <3>1, FramedList
  <2> QED
    BY <1>10, <2>1, <2>3 DEF a, b, list
<1> QED
  BY <1>2, <1>6, <1>7, <1>8, <1>9, <1>10

\* What stands where in the tokens of a pair.
PairShape(pair, t) ==
    /\ t \in Seq(RealTokens)
    /\ pair.style \notin {"block", "map"} => t \in Seq(OpenTokens)
    /\ Len(t) \in Nat /\ Len(t) >= 3
    /\ t[1] = Token("KEY") /\ t[2] = Scalar(pair.key) /\ t[3] = Token("VALUE")
    /\ pair.style = "scalar" => Len(t) = 4 /\ t[4] = Scalar(pair.texts[1])
    /\ pair.style = "none" => Len(t) = 3
    /\ pair.style = "map" => Len(t) >= 4 /\ t[4] = Token("BLOCK_MAPPING_START")
    /\ pair.style \in {"block", "flow"} =>
        /\ Len(t) >= 5
        /\ t[4] \in {Token("BLOCK_SEQUENCE_START"), Token("FLOW_SEQUENCE_START")}
        /\ t[Len(t)] \in {Token("BLOCK_END"), Token("FLOW_SEQUENCE_END")}
        /\ \A upto \in Int : upto = Len(t) - 1 => Chained(TextSeqs(pair), t, ListEntry(pair), 4, upto)

LEMMA PairShaped ==
    ASSUME NEW pair \in SectionPairs
    PROVE  PairShape(pair, PairTokens(pair))
<1> DEFINE t == PairTokens(pair)
           v == ValueTokens(pair.style, pair.texts)
           a == Token("KEY")
           b == Scalar(pair.key)
           c == Token("VALUE")
           list == TextSeqs(pair)
           e == ListEntry(pair)
<1>1. Heads(t, a, b, c, v)
  BY DEF PairTokens, Heads
<1>2. \A S : Covers(S, pair.style) => a \in S /\ b \in S /\ c \in S
  <2>1. pair.key \in Scalars
    BY PairIs DEF Scalars
  <2> QED
    BY <2>1 DEF Covers, TokenTypes
<1>3. Covers(RealTokens, pair.style) /\ (pair.style \notin {"block", "map"} => Covers(OpenTokens, pair.style))
  BY Covered
<1>4. /\ v \in Seq(RealTokens)
      /\ pair.style = "scalar" => v = <<Scalar(pair.texts[1])>>
      /\ pair.style = "none" => v = <<>>
      /\ pair.style = "map" => Len(v) > 0 /\ v[1] = Token("BLOCK_MAPPING_START")
      /\ pair.style \in {"block", "flow"} =>
            /\ Len(v) > 1
            /\ v[1] \in {Token("BLOCK_SEQUENCE_START"), Token("FLOW_SEQUENCE_START")}
            /\ v[Len(v)] \in {Token("BLOCK_END"), Token("FLOW_SEQUENCE_END")}
            /\ \A upto \in Int : upto = Len(v) - 1 => Chained(list, v, e, 1, upto)
  BY <1>3, ValueIs
<1>5. pair.style \notin {"block", "map"} => v \in Seq(OpenTokens)
  BY <1>3, ValueIs
<1>6. list \in Seq(Seq(RealTokens))
  BY <1>3, TextsTyped
<1> HIDE DEF t, v, a, b, c, list, e
<1>7. a \in RealTokens /\ b \in RealTokens /\ c \in RealTokens
  BY <1>2, <1>3
<1>8. /\ t \in Seq(RealTokens) /\ Len(t) = 3 + Len(v) /\ Len(v) \in Nat
      /\ t[1] = a /\ t[2] = b /\ t[3] = c
      /\ Len(v) > 0 => t[4] = v[1] /\ t[Len(t)] = v[Len(v)]
  BY <1>1, <1>4, <1>7, Headed3
<1>9. pair.style \notin {"block", "map"} => t \in Seq(OpenTokens)
  <2> SUFFICES ASSUME pair.style \notin {"block", "map"} PROVE t \in Seq(OpenTokens)
    OBVIOUS
  <2>1. a \in OpenTokens /\ b \in OpenTokens /\ c \in OpenTokens /\ v \in Seq(OpenTokens)
    BY <1>2, <1>3, <1>5
  <2> QED
    BY <1>1, <2>1, Headed3
<1>10. pair.style = "scalar" => Len(t) = 4 /\ t[4] = Scalar(pair.texts[1])
  <2>1. pair.style = "scalar" => Len(v) = 1 /\ v[1] = Scalar(pair.texts[1])
    BY <1>4
  <2>2. Len(v) = 1 => Len(t) = 4 /\ t[4] = v[1]
    BY <1>8
  <2> QED
    BY <2>1, <2>2
<1>11. /\ pair.style = "none" => Len(t) = 3
       /\ pair.style = "map" => Len(t) >= 4 /\ t[4] = Token("BLOCK_MAPPING_START")
  BY <1>4, <1>8
<1>12. ASSUME pair.style \in {"block", "flow"}
       PROVE  /\ Len(t) >= 5
              /\ t[4] \in {Token("BLOCK_SEQUENCE_START"), Token("FLOW_SEQUENCE_START")}
              /\ t[Len(t)] \in {Token("BLOCK_END"), Token("FLOW_SEQUENCE_END")}
              /\ \A upto \in Int : upto = Len(t) - 1 => Chained(list, t, e, 4, upto)
  <2>1. \A upto \in Int : upto = Len(t) - 1 => Chained(list, t, e, 4, upto)
    BY <1>1, <1>4, <1>6, <1>7, <1>12, Headed3Chain
  <2> QED
    BY <1>4, <1>8, <1>12, <2>1
<1> QED
  BY <1>8, <1>9, <1>10, <1>11, <1>12 DEF PairShape, t, a, b, c, list, e

\* What stands where in the tokens of a section.
SectionShape(section, t) ==
    /\ t \in Seq(RealTokens)
    /\ Len(t) \in Nat /\ Len(t) >= 4
    /\ t[1] = Token("KEY") /\ t[2] = Scalar(section.name) /\ t[3] = Token("VALUE")
    /\ section.style = "scalar" => Len(t) = 4 /\ t[4] = Scalar("text")
    /\ section.style \in {"block", "flow"} =>
        /\ Len(t) >= 5
        /\ t[4] \in {Token("BLOCK_MAPPING_START"), Token("FLOW_MAPPING_START")}
        /\ t[Len(t)] \in {Token("BLOCK_END"), Token("FLOW_MAPPING_END")}
        /\ \A upto \in Int : upto = Len(t) - 1 => Chained(PairSeqs(section), t, Token("FLOW_ENTRY"), 4, upto)
    /\ section.style = "block" =>
        /\ t[Len(t)] = Token("BLOCK_END")
        /\ (\A k \in 1 .. Len(section.pairs) : section.pairs[k].style \notin {"block", "map"}) =>
                \A i \in 1 .. Len(t) - 1 : t[i] \in OpenTokens

\* The tokens of the pairs.
LEMMA PairsTyped ==
    ASSUME NEW section \in Sections
    PROVE  /\ PairSeqs(section) \in Seq(Seq(RealTokens))
           /\ Len(PairSeqs(section)) = Len(section.pairs)
           /\ \A k \in 1 .. Len(section.pairs) : PairSeqs(section)[k] = PairTokens(section.pairs[k])
           /\ (\A k \in 1 .. Len(section.pairs) : section.pairs[k].style \notin {"block", "map"}) =>
                PairSeqs(section) \in Seq(Seq(OpenTokens))
<1> DEFINE pairs == section.pairs
           n == Len(pairs)
<1>1. DOMAIN pairs = 1 .. n /\ n \in Nat /\ \A k \in 1 .. n : pairs[k] \in SectionPairs
  BY SectionIs
<1>2. PairSeqs(section) = [k \in DOMAIN pairs |-> PairTokens(pairs[k])]
  BY DEF PairSeqs
<1> HIDE DEF n, pairs
<1>3. /\ \A k \in 1 .. n : PairTokens(pairs[k]) \in Seq(RealTokens)
      /\ \A k \in 1 .. n : pairs[k].style \notin {"block", "map"} => PairTokens(pairs[k]) \in Seq(OpenTokens)
  BY <1>1, PairShaped DEF PairShape
<1>4. PairSeqs(section) = [k \in 1 .. n |-> PairTokens(pairs[k])]
  BY <1>1, <1>2
<1>5. PairSeqs(section) \in Seq(Seq(RealTokens)) /\ Len(PairSeqs(section)) = n
  BY <1>1, <1>3, <1>4
<1>6. (\A k \in 1 .. n : pairs[k].style \notin {"block", "map"}) => PairSeqs(section) \in Seq(Seq(OpenTokens))
  BY <1>1, <1>3, <1>4
<1> QED
  BY <1>4, <1>5, <1>6 DEF pairs, n

LEMMA SectionShaped ==
    ASSUME NEW section \in Sections
    PROVE  SectionShape(section, SectionTokens(section))
<1> DEFINE t == SectionTokens(section)
           a == Token("KEY")
           b == Scalar(section.name)
           c == Token("VALUE")
           list == PairSeqs(section)
           e == Token("FLOW_ENTRY")
           Plainly == \A k \in 1 .. Len(section.pairs) : section.pairs[k].style \notin {"block", "map"}
<1>1. section.style \in {"block", "flow", "scalar"} /\ section.name \in Scalars
  BY SectionIs DEF Scalars
<1>2. list \in Seq(Seq(RealTokens)) /\ (Plainly => list \in Seq(Seq(OpenTokens)))
  BY PairsTyped
<1>3. /\ a \in OpenTokens /\ b \in OpenTokens /\ c \in OpenTokens /\ e \in OpenTokens
      /\ Token("BLOCK_MAPPING_START") \in OpenTokens /\ Token("FLOW_MAPPING_START") \in OpenTokens
      /\ Token("FLOW_MAPPING_END") \in OpenTokens /\ Scalar("text") \in OpenTokens
  BY <1>1, OpenTyped DEF TokenTypes, Scalars
<1>4. OpenTokens \subseteq RealTokens /\ Token("BLOCK_END") \in RealTokens
  BY TokenTyped DEF TokenTypes, OpenTokens
<1>5. PairSeqs(section) = [k \in DOMAIN section.pairs |-> PairTokens(section.pairs[k])]
  BY DEF PairSeqs
<1>6. /\ section.style = "block" => t = <<a, b, c>> \o (<<Token("BLOCK_MAPPING_START")>> \o FlattenSeq(list)
                                                         \o <<Token("BLOCK_END")>>)
      /\ section.style = "flow" => t = <<a, b, c>> \o (<<Token("FLOW_MAPPING_START")>>
                                            \o Separated("FLOW_ENTRY", list) \o <<Token("FLOW_MAPPING_END")>>)
      /\ section.style = "scalar" => t = <<a, b, c>> \o <<Scalar("text")>>
  BY <1>1, <1>5 DEF SectionTokens
<1> HIDE DEF t, a, b, c, list, e
<1>7. a \in RealTokens /\ b \in RealTokens /\ c \in RealTokens
  BY <1>3, <1>4
<1>8. CASE section.style = "scalar"
  <2> DEFINE v == <<Scalar("text")>>
  <2>1. v \in Seq(RealTokens) /\ Len(v) = 1 /\ v[1] = Scalar("text")
    BY <1>3, <1>4
  <2>2. Heads(t, a, b, c, v)
    BY <1>6, <1>8 DEF Heads
  <2> HIDE DEF v
  <2>3. /\ t \in Seq(RealTokens) /\ Len(t) = 3 + Len(v) /\ Len(v) \in Nat
        /\ t[1] = a /\ t[2] = b /\ t[3] = c
        /\ Len(v) > 0 => t[4] = v[1]
    <3>1. v \in Seq(RealTokens)
      BY <2>1
    <3> QED
      BY <1>7, <2>2, <3>1, Headed3
  <2>4. Len(t) = 4 /\ t[4] = Scalar("text")
    BY <2>1, <2>3
  <2>5. Len(t) \in Nat /\ Len(t) >= 4 /\ section.style \notin {"block", "flow"}
    BY <1>8, <2>4
  <2> QED
    BY <2>3, <2>4, <2>5 DEF SectionShape, t, a, b, c
<1>9. ASSUME NEW u \in Seq(RealTokens), NEW x \in RealTokens, NEW y \in RealTokens,
             Chained(list, u, e, 0, Len(u)), NEW v, Frames(v, x, u, y), Heads(t, a, b, c, v)
      PROVE  /\ t \in Seq(RealTokens) /\ Len(t) \in Nat /\ Len(t) >= 5
             /\ t[1] = a /\ t[2] = b /\ t[3] = c /\ t[4] = x /\ t[Len(t)] = y
             /\ \A upto \in Int : upto = Len(t) - 1 => Chained(list, t, e, 4, upto)
  <2>1. /\ v \in Seq(RealTokens) /\ Len(v) > 1 /\ v[1] = x /\ v[Len(v)] = y
        /\ \A upto \in Int : upto = Len(v) - 1 => Chained(list, v, e, 1, upto)
    BY <1>2, <1>9, FramedList
  <2>2. /\ t \in Seq(RealTokens) /\ Len(t) = 3 + Len(v) /\ Len(v) \in Nat
        /\ t[1] = a /\ t[2] = b /\ t[3] = c
        /\ Len(v) > 0 => t[4] = v[1] /\ t[Len(t)] = v[Len(v)]
    <3>1. /\ a \in RealTokens /\ b \in RealTokens /\ c \in RealTokens /\ v \in Seq(RealTokens)
          /\ Heads(t, a, b, c, v)
      BY <1>7, <1>9, <2>1
    <3> HIDE DEF t, a, b, c
    <3> QED
      BY <3>1, Headed3
  <2>3. \A upto \in Int : upto = Len(t) - 1 => Chained(list, t, e, 4, upto)
    BY <1>2, <1>7, <1>9, <2>1, Headed3Chain
  <2> QED
    BY <2>1, <2>2, <2>3
<1>10. CASE section.style = "block"
  <2> DEFINE u == FlattenSeq(list)
             x == Token("BLOCK_MAPPING_START")
             y == Token("BLOCK_END")
             v == <<x>> \o u \o <<y>>
  <2>1. /\ u \in Seq(RealTokens) /\ (Plainly => u \in Seq(OpenTokens))
        /\ Chained(list, u, e, 0, Len(u))
    BY <1>2, FlattenTyped, FlattenChained
  <2>2. Heads(t, a, b, c, v) /\ Frames(v, x, u, y)
    BY <1>6, <1>10 DEF Heads, Frames
  <2> HIDE DEF u, v
  <2>3. /\ t \in Seq(RealTokens) /\ Len(t) \in Nat /\ Len(t) >= 5
        /\ t[1] = a /\ t[2] = b /\ t[3] = c /\ t[4] = x /\ t[Len(t)] = y
        /\ \A upto \in Int : upto = Len(t) - 1 => Chained(list, t, e, 4, upto)
    <3>1. x \in RealTokens /\ y \in RealTokens
      BY <1>3, <1>4
    <3> HIDE DEF x, y
    <3> QED
      BY <1>9, <2>1, <2>2, <3>1
  <2>4. ASSUME Plainly, NEW i \in 1 .. Len(t) - 1
        PROVE  t[i] \in OpenTokens
    <3>1. x \in OpenTokens /\ x \in RealTokens /\ y \in RealTokens
      BY <1>3, <1>4
    <3> HIDE DEF x, y
    <3>2. v \in Seq(RealTokens) /\ Len(v) = Len(u) + 2 /\ v[1] = x /\ Lies(u, v, 1)
      BY <2>1, <2>2, <3>1, Framed
    <3>3. /\ Len(v) \in Nat /\ Len(t) = 3 + Len(v) /\ t[1] = a /\ t[2] = b /\ t[3] = c
          /\ \A k \in 1 .. Len(v) : t[3 + k] = v[k]
      BY <1>7, <2>2, <3>2, Headed3
    <3>4. Len(u) \in Nat /\ \A k \in 1 .. Len(u) : u[k] \in OpenTokens
      BY <2>1, <2>4, LenProperties, ElementOfSeq
    <3>5. \/ i = 1 \/ i = 2 \/ i = 3 \/ i = 4
          \/ \E k \in 1 .. Len(u) : i = 3 + (1 + k) /\ 1 + k \in 1 .. Len(v)
      <4>1. i > 4 => /\ i - 4 \in 1 .. Len(u) /\ i = 3 + (1 + (i - 4)) /\ 1 + (i - 4) \in 1 .. Len(v)
        BY <3>2, <3>3, <3>4
      <4>2. i \in 1 .. 4 \/ i > 4
        BY <3>3
      <4> QED
        BY <4>1, <4>2
    <3>6. 1 \in 1 .. Len(v) /\ 3 + 1 = 4
      BY <3>2, <3>3, <3>4
    <3>7. t[4] = x
      BY <3>2, <3>3, <3>6
    <3>8. ASSUME NEW k \in 1 .. Len(u), i = 3 + (1 + k), 1 + k \in 1 .. Len(v)
          PROVE  t[i] \in OpenTokens
      <4>1. t[i] = v[1 + k]
        BY <3>3, <3>8
      <4>2. v[1 + k] = u[k]
        BY <3>2 DEF Lies
      <4> QED
        BY <3>4, <4>1, <4>2
    <3> QED
      BY <1>3, <3>1, <3>3, <3>5, <3>7, <3>8
  <2> QED
    BY <1>10, <2>3, <2>4 DEF SectionShape, t, a, b, c, list, e
<1>11. CASE section.style = "flow"
  <2> DEFINE u == Separated("FLOW_ENTRY", list)
             x == Token("FLOW_MAPPING_START")
             y == Token("FLOW_MAPPING_END")
             v == <<x>> \o u \o <<y>>
  <2>1. u \in Seq(RealTokens) /\ Chained(list, u, e, 0, Len(u))
    BY <1>2, <1>3, <1>4, EntriesChain DEF e
  <2>2. Heads(t, a, b, c, v) /\ Frames(v, x, u, y)
    BY <1>6, <1>11 DEF Heads, Frames
  <2> HIDE DEF u, v
  <2>3. /\ t \in Seq(RealTokens) /\ Len(t) \in Nat /\ Len(t) >= 5
        /\ t[1] = a /\ t[2] = b /\ t[3] = c /\ t[4] = x /\ t[Len(t)] = y
        /\ \A upto \in Int : upto = Len(t) - 1 => Chained(list, t, e, 4, upto)
    <3>1. x \in RealTokens /\ y \in RealTokens
      BY <1>3, <1>4
    <3> HIDE DEF x, y
    <3> QED
      BY <1>9, <2>1, <2>2, <3>1
  <2> QED
    BY <1>11, <2>3 DEF SectionShape, t, a, b, c, list, e
<1> QED
  BY <1>1, <1>8, <1>10, <1>11

\* The separator of sections, which is none.
Nothing == Token("NO_TOKEN")

\* What stands where in a document.
StreamShape(d, s) ==
    /\ s \in Seq(RealTokens) /\ Len(s) \in Nat
    /\ d.explicit /\ d.sections # <<>> =>
        /\ Len(s) >= 5
        /\ s[1] = Token("STREAM_START") /\ s[2] = Token("DOCUMENT_START") /\ s[3] = Token("BLOCK_MAPPING_START")
        /\ s[Len(s) - 1] = Token("BLOCK_END")
        /\ \A upto \in Int : upto = Len(s) - 2 => Chained(SectionSeqs(d), s, Nothing, 3, upto)
    /\ ~d.explicit => Len(s) >= 2 /\ s[2] # Token("DOCUMENT_START")
    /\ d.explicit /\ d.sections = <<>> => Len(s) >= 3 /\ s[3] # Token("BLOCK_MAPPING_START")

\* The tokens of the sections.
LEMMA SectionsTyped ==
    ASSUME NEW d \in Documents
    PROVE  /\ SectionSeqs(d) \in Seq(Seq(RealTokens))
           /\ Len(SectionSeqs(d)) = Len(d.sections)
           /\ \A k \in 1 .. Len(d.sections) : SectionSeqs(d)[k] = SectionTokens(d.sections[k])
<1> DEFINE sections == d.sections
           n == Len(sections)
<1>1. DOMAIN sections = 1 .. n /\ n \in Nat /\ \A k \in 1 .. n : sections[k] \in Sections
  BY DocumentIs
<1>2. SectionSeqs(d) = [k \in DOMAIN sections |-> SectionTokens(sections[k])]
  BY DEF SectionSeqs
<1> HIDE DEF n, sections
<1>3. \A k \in 1 .. n : SectionTokens(sections[k]) \in Seq(RealTokens)
  BY <1>1, SectionShaped DEF SectionShape
<1>4. SectionSeqs(d) = [k \in 1 .. n |-> SectionTokens(sections[k])]
  BY <1>1, <1>2
<1>5. SectionSeqs(d) \in Seq(Seq(RealTokens)) /\ Len(SectionSeqs(d)) = n
  BY <1>1, <1>3, <1>4
<1> QED
  BY <1>4, <1>5 DEF sections, n

LEMMA StreamShaped ==
    ASSUME NEW d \in Documents
    PROVE  StreamShape(d, Stream(d))
<1> DEFINE S == RealTokens
           list == SectionSeqs(d)
           a == Token("STREAM_START")
           b == Token("DOCUMENT_START")
           x == Token("BLOCK_MAPPING_START")
           y == Token("BLOCK_END")
           z == Token("STREAM_END")
           u == FlattenSeq(list)
           v == <<x>> \o u \o <<y>>
           head == IF d.explicit THEN <<b>> ELSE <<>>
           body == IF d.sections = <<>> THEN <<>> ELSE v
           s == Stream(d)
<1>1. a \in S /\ b \in S /\ x \in S /\ y \in S /\ z \in S
  BY TokenTyped DEF TokenTypes
<1>2. b # x /\ b # z /\ x # z
  BY DEF Token
<1>3. list \in Seq(Seq(S)) /\ d.explicit \in BOOLEAN
  BY SectionsTyped, DocumentIs
<1>4. s = <<a>> \o head \o body \o <<z>>
  BY DEF Stream, SectionSeqs
<1>5. /\ d.explicit /\ d.sections # <<>> => s = <<a>> \o <<b>> \o v \o <<z>>
      /\ d.explicit /\ d.sections = <<>> => s = <<a>> \o <<b>> \o <<>> \o <<z>>
      /\ ~d.explicit /\ d.sections # <<>> => s = <<a>> \o <<>> \o v \o <<z>>
      /\ ~d.explicit /\ d.sections = <<>> => s = <<a>> \o <<>> \o <<>> \o <<z>>
  BY <1>3, <1>4
<1>6. u \in Seq(S) /\ \A sep : Chained(list, u, sep, 0, Len(u))
  BY <1>3, FlattenTyped, FlattenChained
<1>7. Frames(v, x, u, y)
  BY DEF Frames
<1> HIDE DEF S, a, b, x, y, z, u, v, s, list
<1>8. /\ v \in Seq(S) /\ Len(v) \in Nat /\ Len(v) > 1 /\ v[1] = x /\ v[Len(v)] = y
      /\ \A upto \in Int : upto = Len(v) - 1 => Chained(list, v, Nothing, 1, upto)
  <2>1. Chained(list, u, Nothing, 0, Len(u))
    BY <1>6
  <2>2. /\ v \in Seq(S) /\ Len(v) > 1 /\ v[1] = x /\ v[Len(v)] = y
        /\ \A upto \in Int : upto = Len(v) - 1 => Chained(list, v, Nothing, 1, upto)
    BY <1>1, <1>3, <1>6, <1>7, <2>1, FramedList
  <2> QED
    BY <2>2, LenProperties
<1>9. CASE d.explicit /\ d.sections # <<>>
  <2> DEFINE h == <<a, b>>
             w == h \o v
             l == <<z>>
  <2>1. h \in Seq(S) /\ Len(h) = 2 /\ h[1] = a /\ h[2] = b /\ l \in Seq(S) /\ Len(l) = 1
    BY <1>1
  <2>2. Joins(w, h, v) /\ Joins(s, w, l)
    <3>1. <<a>> \o <<b>> = h
      <4> DEFINE g == <<a>> \o <<b>>
      <4>1. g \in Seq(S) /\ Len(g) = 2 /\ g[1] = a /\ g[2] = b
        BY <1>1
      <4> HIDE DEF g, h
      <4>2. \A i \in 1 .. Len(g) : g[i] = h[i]
        BY <2>1, <4>1
      <4>3. g = h
        BY <2>1, <4>1, <4>2, SeqEqual
      <4> QED
        BY <4>3 DEF g
    <3> HIDE DEF h
    <3> QED
      BY <1>5, <1>9, <3>1 DEF Joins
  <2> HIDE DEF h, l
  <2>3. \A m \in Int : m = Len(v) - 1 => \A upto \in Int : upto = 2 + m => Chained(list, w, Nothing, 3, upto)
    <3>1. 3 \in Int /\ 3 = 2 + 1
      OBVIOUS
    <3> QED
      BY <1>3, <1>8, <2>1, <3>1, Headed
  <2> HIDE DEF w
  <2>4. /\ w \in Seq(S) /\ Len(w) = 2 + Len(v)
        /\ \A i \in 1 .. 2 : w[i] = h[i]
        /\ \A i \in 1 .. Len(v) : w[2 + i] = v[i]
    <3>1. /\ w \in Seq(S) /\ Len(w) = Len(h) + Len(v)
          /\ \A i \in 1 .. Len(h) : w[i] = h[i]
          /\ \A i \in 1 .. Len(v) : w[Len(h) + i] = v[i]
      <4>1. h \in Seq(S) /\ v \in Seq(S) /\ Joins(w, h, v)
        BY <1>8, <2>1, <2>2
      <4> QED
        BY <4>1, JoinedIs
    <3> QED
      BY <2>1, <3>1
  <2>5. /\ s \in Seq(S) /\ Len(s) = Len(w) + 1
        /\ \A i \in 1 .. Len(w) : s[i] = w[i]
    <3>1. /\ s \in Seq(S) /\ Len(s) = Len(w) + Len(l)
          /\ \A i \in 1 .. Len(w) : s[i] = w[i]
      <4>1. w \in Seq(S) /\ l \in Seq(S) /\ Joins(s, w, l)
        BY <2>1, <2>2, <2>4
      <4> QED
        BY <4>1, JoinedIs
    <3> QED
      BY <2>1, <3>1
  <2>6. Len(w) \in Nat /\ Len(w) >= 4 /\ Len(s) = Len(w) + 1
    BY <1>8, <2>4, <2>5
  <2>7. Lies(w, s, 0)
    BY <2>5, <2>6 DEF Lies
  <2>8. ASSUME NEW upto \in Int, upto = Len(s) - 2
        PROVE  Chained(list, s, Nothing, 3, upto)
    <3> DEFINE m == Len(v) - 1
    <3>1. m \in Int /\ upto = 2 + m
      BY <1>8, <2>4, <2>6, <2>8
    <3>2. Chained(list, w, Nothing, 3, upto)
      BY <2>3, <3>1
    <3>3. PICK n \in Nat : n = 0
      OBVIOUS
    <3>4. 3 \in Int /\ 3 = n + 3 /\ upto = n + upto /\ Lies(w, s, n)
      BY <2>7, <3>3
    <3> HIDE DEF m
    <3>5. list \in Seq(Seq(S)) /\ w \in Seq(S) /\ s \in Seq(S)
      BY <1>3, <2>4, <2>5
    <3>6. upto \in Int
      BY <2>8
    <3> HIDE DEF S, list
    <3> QED
      BY <3>2, <3>4, <3>5, <3>6, ChainedIn
  <2>9. s[1] = a /\ s[2] = b /\ s[3] = x /\ s[Len(s) - 1] = y
    <3>1. /\ 1 \in 1 .. 2 /\ 2 \in 1 .. 2 /\ 1 \in 1 .. Len(v) /\ Len(v) \in 1 .. Len(v)
          /\ 1 \in 1 .. Len(w) /\ 2 \in 1 .. Len(w) /\ 3 \in 1 .. Len(w) /\ Len(w) \in 1 .. Len(w)
          /\ 2 + 1 = 3 /\ 2 + Len(v) = Len(w) /\ Len(s) - 1 = Len(w)
      BY <1>8, <2>4, <2>6
    <3>2. w[1] = a /\ w[2] = b
      BY <2>1, <2>4, <3>1
    <3>3. w[2 + 1] = v[1] /\ w[2 + Len(v)] = v[Len(v)]
      BY <2>4, <3>1
    <3> QED
      BY <1>8, <2>5, <3>1, <3>2, <3>3
  <2>10. Len(s) \in Nat /\ Len(s) >= 5 /\ s \in Seq(S)
    BY <2>5, <2>6
  <2> QED
    BY <1>9, <2>8, <2>9, <2>10 DEF StreamShape, S, a, b, x, y, s, list
<1>10. CASE d.explicit /\ d.sections = <<>>
  <2>1. s = <<a, b, z>>
    BY <1>5, <1>10
  <2>2. s \in Seq(S) /\ Len(s) = 3 /\ s[3] = z
    BY <1>1, <2>1
  <2> QED
    BY <1>2, <1>10, <2>2 DEF StreamShape, S, x, z, s
<1>11. CASE ~d.explicit /\ d.sections = <<>>
  <2>1. s = <<a, z>>
    BY <1>5, <1>11
  <2>2. s \in Seq(S) /\ Len(s) = 2 /\ s[2] = z
    BY <1>1, <2>1
  <2> QED
    BY <1>2, <1>11, <2>2 DEF StreamShape, S, b, z, s
<1>12. CASE ~d.explicit /\ d.sections # <<>>
  <2> DEFINE h == <<a>>
             w == h \o v
             l == <<z>>
  <2>1. h \in Seq(S) /\ Len(h) = 1 /\ l \in Seq(S) /\ Len(l) = 1
    BY <1>1
  <2>2. Joins(w, h, v) /\ Joins(s, w, l)
    <3>1. <<a>> \o <<>> = h
      OBVIOUS
    <3> HIDE DEF h
    <3> QED
      BY <1>5, <1>12, <3>1 DEF Joins
  <2> HIDE DEF h, l, w
  <2>3. /\ w \in Seq(S) /\ Len(w) = 1 + Len(v)
        /\ \A i \in 1 .. Len(v) : w[1 + i] = v[i]
    <3>1. /\ w \in Seq(S) /\ Len(w) = Len(h) + Len(v)
          /\ \A i \in 1 .. Len(v) : w[Len(h) + i] = v[i]
      <4>1. h \in Seq(S) /\ v \in Seq(S) /\ Joins(w, h, v)
        BY <1>8, <2>1, <2>2
      <4> QED
        BY <4>1, JoinedIs
    <3> QED
      BY <2>1, <3>1
  <2>4. /\ s \in Seq(S) /\ Len(s) = Len(w) + 1
        /\ \A i \in 1 .. Len(w) : s[i] = w[i]
    <3>1. /\ s \in Seq(S) /\ Len(s) = Len(w) + Len(l)
          /\ \A i \in 1 .. Len(w) : s[i] = w[i]
      <4>1. w \in Seq(S) /\ l \in Seq(S) /\ Joins(s, w, l)
        BY <2>1, <2>2, <2>3
      <4> QED
        BY <4>1, JoinedIs
    <3> QED
      BY <2>1, <3>1
  <2>5. 1 \in 1 .. Len(v) /\ 1 + 1 = 2 /\ 2 \in 1 .. Len(w) /\ Len(w) \in Nat /\ Len(w) >= 2
    BY <1>8, <2>3
  <2>6. Len(s) \in Nat /\ Len(s) >= 2 /\ s[2] = x
    BY <1>8, <2>3, <2>4, <2>5
  <2> QED
    BY <1>2, <1>12, <2>4, <2>6 DEF StreamShape, S, x, b, s
<1> QED
  BY <1>3, <1>9, <1>10, <1>11, <1>12

-----------------------------------------------------------------------------
(* Where everything is in a document.                                      *)

\* The sections the parser looks at: those of a document that begins with one.
Begun(d) == d.explicit /\ d.sections # <<>>

\* Where the parser is between sections, between the pairs of a section and
\* between the texts of a pair: that many tokens are behind it.
SectionPlaces(d) ==
    CHOOSE at : Chain(SectionSeqs(d), Stream(d), Nothing, at) /\ at[0] = 3
                /\ at[Len(SectionSeqs(d))] = Len(Stream(d)) - 2

PairsAt(section) ==
    CHOOSE at : Chain(PairSeqs(section), SectionTokens(section), Token("FLOW_ENTRY"), at) /\ at[0] = 4
                /\ at[Len(PairSeqs(section))] = Len(SectionTokens(section)) - 1

TextsAt(pair) ==
    CHOOSE at : Chain(TextSeqs(pair), PairTokens(pair), ListEntry(pair), at) /\ at[0] = 4
                /\ at[Len(TextSeqs(pair))] = Len(PairTokens(pair)) - 1

PairPlaces(d, k) ==
    [p \in 0 .. Len(PairSeqs(d.sections[k])) |-> SectionPlaces(d)[k - 1] + PairsAt(d.sections[k])[p]]

\* Where the tokens of a pair begin, behind a separator if there is one.
PairStart(d, k, p) == PairPlaces(d, k)[p] - Len(PairTokens(d.sections[k].pairs[p]))

TextPlaces(d, k, p) ==
    [t \in 0 .. Len(TextSeqs(d.sections[k].pairs[p])) |->
        PairStart(d, k, p) + TextsAt(d.sections[k].pairs[p])[t]]

LEMMA SectionsPlaced ==
    ASSUME NEW d \in Documents, Begun(d)
    PROVE  LET at == SectionPlaces(d)
               s  == Stream(d)
           IN  /\ Chain(SectionSeqs(d), s, Nothing, at) /\ at[0] = 3
               /\ at[Len(d.sections)] = Len(s) - 2
               /\ \A k \in 0 .. Len(d.sections) : at[k] \in Nat /\ at[k] <= Len(s) - 2
               /\ \A k \in 1 .. Len(d.sections) :
                    /\ k - 1 \in 0 .. Len(d.sections)
                    /\ at[k] = at[k - 1] + Len(SectionTokens(d.sections[k]))
                    /\ Lies(SectionTokens(d.sections[k]), s, at[k - 1])
<1> DEFINE list == SectionSeqs(d)
           s == Stream(d)
           at == SectionPlaces(d)
           n == Len(d.sections)
           upto == Len(s) - 2
<1>1. /\ s \in Seq(RealTokens) /\ Len(s) \in Nat
      /\ \A m \in Int : m = Len(s) - 2 => Chained(list, s, Nothing, 3, m)
  BY StreamShaped DEF StreamShape, Begun
<1>2. Chained(list, s, Nothing, 3, upto)
  BY <1>1
<1>3. \E to : Chain(list, s, Nothing, to) /\ to[0] = 3 /\ to[Len(list)] = Len(s) - 2
  BY <1>2 DEF Chained
<1>4. Chain(list, s, Nothing, at) /\ at[0] = 3 /\ at[Len(list)] = Len(s) - 2
  <2> HIDE DEF list, s
  <2> QED
    BY <1>3 DEF SectionPlaces, list, s
<1>5. /\ list \in Seq(Seq(RealTokens)) /\ Len(list) = n /\ n \in Nat
      /\ \A k \in 1 .. n : list[k] = SectionTokens(d.sections[k])
  BY SectionsTyped, DocumentIs
<1>6. \A k \in 0 .. n : at[k] \in Nat /\ at[k] <= Len(s) - 2
  <2> HIDE DEF list, s, at
  <2>1. \A k \in 0 .. Len(list) : at[k] \in Nat /\ at[k] <= at[Len(list)]
    BY <1>4, <1>5, ChainRises
  <2> QED
    BY <1>4, <1>5, <2>1
<1>7. \A t \in RealTokens : t # Nothing
  BY DEF RealTokens, Nothing, Token, TokenTypes
<1>8. ASSUME NEW k \in 1 .. n
      PROVE  /\ k - 1 \in 0 .. n
             /\ at[k] = at[k - 1] + Len(SectionTokens(d.sections[k]))
             /\ Lies(SectionTokens(d.sections[k]), s, at[k - 1])
  <2> HIDE DEF list, s, at, n
  <2>1. k - 1 \in 0 .. n
    BY <1>5
  <2>2. Spaced(list[k], s, Nothing, at[k - 1], at[k])
    BY <1>4, <1>5 DEF Chain
  <2>3. ~(at[k - 1] + 1 <= Len(s) /\ s[at[k - 1] + 1] = Nothing)
    <3>1. at[k - 1] \in Nat
      BY <1>6, <2>1
    <3>2. at[k - 1] + 1 <= Len(s) => at[k - 1] + 1 \in 1 .. Len(s)
      BY <1>1, <3>1 DEF s
    <3>3. at[k - 1] + 1 <= Len(s) => s[at[k - 1] + 1] \in RealTokens
      BY <1>1, <3>2, ElementOfSeq DEF s
    <3> QED
      BY <1>7, <3>3
  <2> QED
    BY <1>5, <2>1, <2>2, <2>3 DEF Spaced
<1> QED
  BY <1>4, <1>5, <1>6, <1>8

\* The tokens of a section, where they are.
LEMMA SectionPlaced ==
    ASSUME NEW d \in Documents, Begun(d), NEW k \in 1 .. Len(d.sections),
           NEW a, a = SectionPlaces(d)[k - 1]
    PROVE  LET section == d.sections[k]
               s       == Stream(d)
           IN  /\ section \in Sections /\ SectionShape(section, SectionTokens(section))
               /\ a \in Nat /\ a + 4 <= SectionPlaces(d)[k] /\ SectionPlaces(d)[k] <= Len(s) - 2
               /\ s[a + 1] = Token("KEY") /\ s[a + 2] = Scalar(section.name) /\ s[a + 3] = Token("VALUE")
               /\ section.style = "scalar" => s[a + 4] = Scalar("text")
               /\ section.style \in {"block", "flow"} =>
                    /\ s[a + 4] \in {Token("BLOCK_MAPPING_START"), Token("FLOW_MAPPING_START")}
                    /\ s[SectionPlaces(d)[k]] \in {Token("BLOCK_END"), Token("FLOW_MAPPING_END")}
<1> DEFINE section == d.sections[k]
           s == Stream(d)
           u == SectionTokens(section)
           b == SectionPlaces(d)[k]
           n == Len(d.sections)
<1>1. section \in Sections /\ k \in 0 .. n
  <2>1. n \in Nat /\ \A j \in 1 .. n : d.sections[j] \in Sections
    BY DocumentIs
  <2>2. section \in Sections /\ k \in 1 .. n
    BY <2>1
  <2> HIDE DEF n, section
  <2> QED
    BY <2>1, <2>2
<1>2. SectionShape(section, u)
  BY <1>1, SectionShaped
<1>3. /\ k - 1 \in 0 .. n /\ b = a + Len(u) /\ Lies(u, s, a)
      /\ a \in Nat /\ b \in Nat /\ b <= Len(s) - 2
  BY <1>1, SectionsPlaced
<1> HIDE DEF section, s, u, b, n
<1>4. Len(u) \in Nat /\ Len(u) >= 4
  BY <1>2 DEF SectionShape
<1>5. s[a + 1] = u[1] /\ s[a + 2] = u[2] /\ s[a + 3] = u[3] /\ s[a + 4] = u[4] /\ s[b] = u[Len(u)]
  <2>1. 1 \in 1 .. Len(u) /\ 2 \in 1 .. Len(u) /\ 3 \in 1 .. Len(u) /\ 4 \in 1 .. Len(u) /\ Len(u) \in 1 .. Len(u)
    BY <1>4
  <2>2. \A i \in 1 .. Len(u) : s[a + i] = u[i]
    BY <1>3 DEF Lies
  <2>3. s[a + Len(u)] = u[Len(u)]
    BY <2>1, <2>2
  <2> QED
    BY <1>3, <2>1, <2>2, <2>3
<1>6. a + 4 <= b
  BY <1>3, <1>4
<1> QED
  BY <1>1, <1>2, <1>3, <1>5, <1>6 DEF SectionShape, section, s, u, b, n

LEMMA PairsPlaced ==
    ASSUME NEW d \in Documents, Begun(d), NEW k \in 1 .. Len(d.sections),
           d.sections[k].style \in {"block", "flow"}
    PROVE  LET section == d.sections[k]
               at      == PairPlaces(d, k)
           IN  /\ Chain(PairSeqs(section), Stream(d), Token("FLOW_ENTRY"), at)
               /\ at[0] = SectionPlaces(d)[k - 1] + 4
               /\ at[Len(section.pairs)] = SectionPlaces(d)[k] - 1
               /\ \A p \in 0 .. Len(section.pairs) : at[p] \in Nat /\ at[p] <= SectionPlaces(d)[k] - 1
<1> DEFINE section == d.sections[k]
           list == PairSeqs(section)
           u == SectionTokens(section)
           s == Stream(d)
           rel == PairsAt(section)
           at == PairPlaces(d, k)
           a == SectionPlaces(d)[k - 1]
           b == SectionPlaces(d)[k]
           n == Len(section.pairs)
           e == Token("FLOW_ENTRY")
           upto == Len(u) - 1
<1>1. section \in Sections /\ SectionShape(section, u) /\ a \in Nat
  BY SectionPlaced
<1>2. b = a + Len(u) /\ Lies(u, s, a)
  BY SectionsPlaced
<1>3. /\ u \in Seq(RealTokens) /\ Len(u) \in Nat
      /\ \A m \in Int : m = Len(u) - 1 => Chained(list, u, e, 4, m)
  BY <1>1 DEF SectionShape
<1>4. list \in Seq(Seq(RealTokens)) /\ Len(list) = n /\ n \in Nat
  BY <1>1, PairsTyped, SectionIs
<1>5. s \in Seq(RealTokens)
  BY StreamShaped DEF StreamShape
<1>6. \E to : Chain(list, u, e, to) /\ to[0] = 4 /\ to[Len(list)] = Len(u) - 1
  <2>1. Chained(list, u, e, 4, upto)
    BY <1>3
  <2> QED
    BY <2>1 DEF Chained
<1>7. Chain(list, u, e, rel) /\ rel[0] = 4 /\ rel[Len(list)] = Len(u) - 1
  <2>1. rel = CHOOSE to : Chain(list, u, e, to) /\ to[0] = 4 /\ to[Len(list)] = Len(u) - 1
    BY DEF PairsAt
  <2> HIDE DEF list, u, e, rel
  <2> QED
    BY <1>6, <2>1
<1>8. at = [p \in 0 .. Len(list) |-> a + rel[p]]
  BY DEF PairPlaces
<1> HIDE DEF section, list, u, s, rel, at, a, b, n, e
<1>9. Chain(list, s, e, at)
  <2>1. /\ list \in Seq(Seq(RealTokens)) /\ u \in Seq(RealTokens) /\ s \in Seq(RealTokens) /\ a \in Nat
        /\ Chain(list, u, e, rel) /\ Lies(u, s, a)
    BY <1>1, <1>2, <1>3, <1>4, <1>5, <1>7
  <2>2. /\ DOMAIN at = 0 .. Len(list) /\ at = [p \in DOMAIN at |-> at[p]]
        /\ \A p \in 0 .. Len(list) : at[p] = a + rel[p]
    BY <1>8
  <2> QED
    BY <2>1, <2>2, ChainMoved
<1>10. at[0] = a + 4 /\ at[n] = b - 1
  <2>1. at[0] = a + rel[0] /\ at[n] = a + rel[n]
    BY <1>4, <1>8
  <2> QED
    BY <1>1, <1>2, <1>3, <1>4, <1>7, <2>1
<1>11. \A p \in 0 .. n : at[p] \in Nat /\ at[p] <= b - 1
  <2>1. \A p \in 0 .. Len(list) : at[p] \in Nat /\ at[p] <= at[Len(list)]
    BY <1>4, <1>9, ChainRises
  <2> QED
    BY <1>4, <1>10, <2>1
<1> QED
  BY <1>9, <1>10, <1>11 DEF section, list, s, at, a, b, n, e

\* The tokens of a pair, where they are: behind place b, up to place c.
PairLies(d, k, p, a, b, c) ==
    LET pair == d.sections[k].pairs[p]
        s    == Stream(d)
        t    == PairTokens(pair)
    IN  /\ pair \in SectionPairs /\ PairShape(pair, t)
        /\ a \in Nat /\ b \in Nat /\ c \in Nat /\ c <= SectionPlaces(d)[k] - 1
        /\ c = a + Len(t) /\ Lies(t, s, a)
        /\ a = b \/ (a = b + 1 /\ s[b + 1] = Token("FLOW_ENTRY"))

LEMMA PairPlaced ==
    ASSUME NEW d \in Documents, Begun(d), NEW k \in 1 .. Len(d.sections),
           d.sections[k].style \in {"block", "flow"}, NEW p \in 1 .. Len(d.sections[k].pairs),
           NEW a, a = PairStart(d, k, p), NEW b, b = PairPlaces(d, k)[p - 1], NEW c, c = PairPlaces(d, k)[p]
    PROVE  PairLies(d, k, p, a, b, c)
<1> DEFINE section == d.sections[k]
           pair == section.pairs[p]
           list == PairSeqs(section)
           s == Stream(d)
           t == PairTokens(pair)
           at == PairPlaces(d, k)
           n == Len(section.pairs)
           e == Token("FLOW_ENTRY")
<1>1. section \in Sections
  BY SectionPlaced
<1>2. n \in Nat /\ \A j \in 1 .. n : section.pairs[j] \in SectionPairs
  BY <1>1, SectionIs
<1>3. pair \in SectionPairs /\ PairShape(pair, t)
  BY <1>2, PairShaped
<1>4. /\ list \in Seq(Seq(RealTokens)) /\ Len(list) = n
      /\ \A j \in 1 .. n : list[j] = PairTokens(section.pairs[j])
  BY <1>1, PairsTyped
<1>5. list[p] = t
  BY <1>4
<1>6. /\ Chain(list, s, e, at)
      /\ \A j \in 0 .. n : at[j] \in Nat /\ at[j] <= SectionPlaces(d)[k] - 1
  BY PairsPlaced
<1>7. c = at[p] /\ b = at[p - 1] /\ a = at[p] - Len(t)
  BY DEF PairStart
<1>8. p \in 1 .. n
  OBVIOUS
<1> HIDE DEF section, pair, list, s, t, at, n, e
<1>9. p - 1 \in 0 .. n /\ p \in 0 .. n
  BY <1>2, <1>8
<1>10. b \in Nat /\ c \in Nat /\ c <= SectionPlaces(d)[k] - 1
  BY <1>6, <1>7, <1>9
<1>11. Spaced(t, s, e, b, c)
  BY <1>4, <1>5, <1>6, <1>7, <1>8 DEF Chain
<1>12. Len(t) \in Nat
  BY <1>3 DEF PairShape
<1>13. /\ a \in Nat /\ c = a + Len(t) /\ Lies(t, s, a)
       /\ a = b \/ (a = b + 1 /\ s[b + 1] = e)
  <2>1. CASE Lies(t, s, b) /\ c = b + Len(t)
    <3>1. a = b
      BY <1>7, <1>10, <1>12, <2>1
    <3> QED
      BY <1>10, <2>1, <3>1
  <2>2. CASE s[b + 1] = e /\ Lies(t, s, b + 1) /\ c = b + 1 + Len(t)
    <3>1. a = b + 1
      BY <1>7, <1>10, <1>12, <2>2
    <3>2. a \in Nat /\ c = a + Len(t)
      BY <1>10, <2>2, <3>1
    <3> QED
      BY <2>2, <3>1, <3>2
  <2> QED
    BY <1>11, <2>1, <2>2 DEF Spaced
<1> QED
  BY <1>3, <1>10, <1>13 DEF PairLies, section, pair, s, t, e

\* What it says, token by token.
PairText(d, k, p, a, c) ==
    LET pair == d.sections[k].pairs[p]
        s    == Stream(d)
    IN  /\ a + 3 <= c
        /\ s[a + 1] = Token("KEY") /\ s[a + 2] = Scalar(pair.key) /\ s[a + 3] = Token("VALUE")
        /\ pair.style = "scalar" => c = a + 4 /\ s[a + 4] = Scalar(pair.texts[1])
        /\ pair.style = "none" => c = a + 3
        /\ pair.style = "map" => a + 4 <= c /\ s[a + 4] = Token("BLOCK_MAPPING_START")
        /\ pair.style \in {"block", "flow"} =>
             /\ a + 5 <= c
             /\ s[a + 4] \in {Token("BLOCK_SEQUENCE_START"), Token("FLOW_SEQUENCE_START")}
             /\ s[c] \in {Token("BLOCK_END"), Token("FLOW_SEQUENCE_END")}

LEMMA PairRead ==
    ASSUME NEW d \in Documents, Begun(d), NEW k \in 1 .. Len(d.sections),
           d.sections[k].style \in {"block", "flow"}, NEW p \in 1 .. Len(d.sections[k].pairs),
           NEW a, a = PairStart(d, k, p), NEW c, c = PairPlaces(d, k)[p]
    PROVE  PairText(d, k, p, a, c)
<1> DEFINE pair == d.sections[k].pairs[p]
           s == Stream(d)
           t == PairTokens(pair)
           m == Len(t)
<1>1. PairShape(pair, t) /\ a \in Nat /\ c \in Nat /\ c = a + m /\ Lies(t, s, a)
  <2>1. PICK b : b = PairPlaces(d, k)[p - 1]
    OBVIOUS
  <2>2. PairLies(d, k, p, a, b, c)
    BY <2>1, PairPlaced
  <2> QED
    BY <2>2 DEF PairLies
<1> HIDE DEF pair, s, t
<1>2. m \in Nat /\ m >= 3
  BY <1>1 DEF PairShape
<1>3. \A i \in 1 .. m : s[a + i] = t[i]
  BY <1>1 DEF Lies
<1> HIDE DEF m
<1>4. /\ a + 3 <= c /\ (m = 4 => c = a + 4) /\ (m = 3 => c = a + 3) /\ (m >= 4 => a + 4 <= c)
      /\ m >= 5 => a + 5 <= c
  BY <1>1, <1>2
<1>5. 1 \in 1 .. m /\ 2 \in 1 .. m /\ 3 \in 1 .. m /\ m \in 1 .. m /\ (m >= 4 => 4 \in 1 .. m)
  BY <1>2
<1>6. /\ s[a + 1] = t[1] /\ s[a + 2] = t[2] /\ s[a + 3] = t[3] /\ s[a + m] = t[m]
      /\ m >= 4 => s[a + 4] = t[4]
  BY <1>3, <1>5
<1>7. /\ t[1] = Token("KEY") /\ t[2] = Scalar(pair.key) /\ t[3] = Token("VALUE")
      /\ pair.style = "scalar" => m = 4 /\ t[4] = Scalar(pair.texts[1])
      /\ pair.style = "none" => m = 3
      /\ pair.style = "map" => m >= 4 /\ t[4] = Token("BLOCK_MAPPING_START")
      /\ pair.style \in {"block", "flow"} =>
            /\ m >= 5
            /\ t[4] \in {Token("BLOCK_SEQUENCE_START"), Token("FLOW_SEQUENCE_START")}
            /\ t[m] \in {Token("BLOCK_END"), Token("FLOW_SEQUENCE_END")}
  BY <1>1 DEF PairShape, m
<1>8. (m = 4 => m >= 4) /\ (m >= 5 => m >= 4)
  BY <1>2
<1> QED
  BY <1>1, <1>4, <1>6, <1>7, <1>8 DEF PairText, pair, s

\* What follows a pair, or the beginning of its section.
LEMMA PairFollowed ==
    ASSUME NEW d \in Documents, Begun(d), NEW k \in 1 .. Len(d.sections),
           d.sections[k].style \in {"block", "flow"}, NEW p \in 0 .. Len(d.sections[k].pairs),
           NEW b, b = PairPlaces(d, k)[p]
    PROVE  LET s == Stream(d)
           IN  /\ b \in Nat /\ b + 1 <= SectionPlaces(d)[k]
               /\ IF p = Len(d.sections[k].pairs)
                  THEN b + 1 = SectionPlaces(d)[k] /\ s[b + 1] \in {Token("BLOCK_END"), Token("FLOW_MAPPING_END")}
                  ELSE p + 1 \in 1 .. Len(d.sections[k].pairs) /\ p = (p + 1) - 1
                       /\ s[b + 1] \in {Token("KEY"), Token("FLOW_ENTRY")}
<1> DEFINE section == d.sections[k]
           s == Stream(d)
           at == PairPlaces(d, k)
           n == Len(section.pairs)
           last == SectionPlaces(d)[k]
<1>1. section \in Sections /\ last \in Nat /\ s[last] \in {Token("BLOCK_END"), Token("FLOW_MAPPING_END")}
  <2>1. k \in 0 .. Len(d.sections)
    <3>1. Len(d.sections) \in Nat
      BY DocumentIs
    <3> DEFINE m == Len(d.sections)
    <3>2. k \in 1 .. m
      OBVIOUS
    <3> HIDE DEF m
    <3>3. m \in Nat => k \in 0 .. m
      BY <3>2
    <3> QED
      BY <3>1, <3>3 DEF m
  <2> QED
    BY <2>1, SectionPlaced, SectionsPlaced
<1>2. n \in Nat
  BY <1>1, SectionIs
<1>3. at[n] = last - 1 /\ b \in Nat /\ b <= last - 1 /\ b = at[p]
  BY PairsPlaced
<1>4. CASE p = n
  <2> HIDE DEF section, s, at, n, last
  <2>1. b + 1 = last
    BY <1>1, <1>3, <1>4
  <2> QED
    BY <1>1, <1>3, <1>4, <2>1 DEF section, s, at, n, last
<1>5. CASE p # n
  <2>1. p + 1 \in 1 .. n /\ p = (p + 1) - 1
    <3>1. p \in 0 .. n
      OBVIOUS
    <3> HIDE DEF n
    <3> QED
      BY <1>2, <1>5, <3>1
  <2> DEFINE q == p + 1
             a == PairStart(d, k, q)
  <2>2. /\ s[a + 1] = Token("KEY")
        /\ a = b \/ (a = b + 1 /\ s[b + 1] = Token("FLOW_ENTRY"))
    <3>1. q \in 1 .. Len(d.sections[k].pairs) /\ b = PairPlaces(d, k)[q - 1]
      BY <2>1
    <3> HIDE DEF q, a, s
    <3>2. s[a + 1] = Token("KEY")
      <4>1. PICK c : c = PairPlaces(d, k)[q]
        OBVIOUS
      <4>2. PairText(d, k, q, a, c)
        BY <3>1, <4>1, PairRead DEF a
      <4> QED
        BY <4>2 DEF PairText, s
    <3>3. a = b \/ (a = b + 1 /\ s[b + 1] = Token("FLOW_ENTRY"))
      <4>1. PICK c : c = PairPlaces(d, k)[q]
        OBVIOUS
      <4>2. a = PairStart(d, k, q)
        BY DEF a
      <4>3. PairLies(d, k, q, a, b, c)
        BY <3>1, <4>1, <4>2, PairPlaced
      <4> QED
        BY <4>3 DEF PairLies, s
    <3> QED
      BY <3>2, <3>3
  <2>3. s[b + 1] \in {Token("KEY"), Token("FLOW_ENTRY")}
    BY <2>2
  <2>4. b + 1 <= last
    <3> HIDE DEF last, at
    <3> QED
      BY <1>1, <1>3
  <2> QED
    BY <1>3, <1>5, <2>1, <2>3, <2>4
<1> QED
  BY <1>4, <1>5

LEMMA TextsPlaced ==
    ASSUME NEW d \in Documents, Begun(d), NEW k \in 1 .. Len(d.sections),
           d.sections[k].style \in {"block", "flow"}, NEW p \in 1 .. Len(d.sections[k].pairs),
           d.sections[k].pairs[p].style \in {"block", "flow"}
    PROVE  LET pair == d.sections[k].pairs[p]
               at   == TextPlaces(d, k, p)
           IN  /\ Chain(TextSeqs(pair), Stream(d), ListEntry(pair), at)
               /\ at[0] = PairStart(d, k, p) + 4
               /\ at[Len(pair.texts)] = PairPlaces(d, k)[p] - 1
               /\ Len(pair.texts) \in Nat
               /\ \A t \in 0 .. Len(pair.texts) : at[t] \in Nat /\ at[t] <= PairPlaces(d, k)[p] - 1
<1> DEFINE pair == d.sections[k].pairs[p]
           list == TextSeqs(pair)
           u == PairTokens(pair)
           s == Stream(d)
           rel == TextsAt(pair)
           at == TextPlaces(d, k, p)
           a == PairStart(d, k, p)
           c == PairPlaces(d, k)[p]
           n == Len(pair.texts)
           e == ListEntry(pair)
           upto == Len(u) - 1
<1>1. pair \in SectionPairs /\ PairShape(pair, u) /\ a \in Nat /\ c \in Nat /\ c = a + Len(u) /\ Lies(u, s, a)
  <2>1. PICK b : b = PairPlaces(d, k)[p - 1]
    OBVIOUS
  <2>2. a = PairStart(d, k, p) /\ c = PairPlaces(d, k)[p] /\ s = Stream(d)
    OBVIOUS
  <2> HIDE DEF a, c
  <2>3. PairLies(d, k, p, a, b, c)
    BY <2>1, <2>2, PairPlaced
  <2> QED
    BY <2>3 DEF PairLies
<1>2. pair.style \in {"block", "flow"}
  OBVIOUS
<1>3. /\ u \in Seq(RealTokens) /\ Len(u) \in Nat
      /\ \A m \in Int : m = Len(u) - 1 => Chained(list, u, e, 4, m)
  BY <1>1, <1>2 DEF PairShape
<1>4. list \in Seq(Seq(RealTokens)) /\ Len(list) = n /\ n \in Nat
  BY <1>1, TextsTyped, Covered, PairIs
<1>5. s \in Seq(RealTokens)
  BY StreamShaped DEF StreamShape
<1>6. \E to : Chain(list, u, e, to) /\ to[0] = 4 /\ to[Len(list)] = Len(u) - 1
  <2>1. Chained(list, u, e, 4, upto)
    BY <1>3
  <2> QED
    BY <2>1 DEF Chained
<1>7. Chain(list, u, e, rel) /\ rel[0] = 4 /\ rel[Len(list)] = Len(u) - 1
  <2>1. rel = CHOOSE to : Chain(list, u, e, to) /\ to[0] = 4 /\ to[Len(list)] = Len(u) - 1
    BY DEF TextsAt
  <2> HIDE DEF list, u, e, rel
  <2> QED
    BY <1>6, <2>1
<1>8. at = [t \in 0 .. Len(list) |-> a + rel[t]]
  BY DEF TextPlaces
<1> HIDE DEF pair, list, u, s, rel, at, a, c, n, e, upto
<1>9. Chain(list, s, e, at)
  <2>1. /\ list \in Seq(Seq(RealTokens)) /\ u \in Seq(RealTokens) /\ s \in Seq(RealTokens) /\ a \in Nat
        /\ Chain(list, u, e, rel) /\ Lies(u, s, a)
    BY <1>1, <1>3, <1>4, <1>5, <1>7
  <2>2. /\ DOMAIN at = 0 .. Len(list) /\ at = [t \in DOMAIN at |-> at[t]]
        /\ \A t \in 0 .. Len(list) : at[t] = a + rel[t]
    BY <1>8
  <2> QED
    BY <2>1, <2>2, ChainMoved
<1>10. at[0] = a + 4 /\ at[n] = c - 1
  <2>1. at[0] = a + rel[0] /\ at[n] = a + rel[n]
    BY <1>4, <1>8
  <2> QED
    BY <1>1, <1>3, <1>4, <1>7, <2>1
<1>11. \A t \in 0 .. n : at[t] \in Nat /\ at[t] <= c - 1
  <2>1. \A t \in 0 .. Len(list) : at[t] \in Nat /\ at[t] <= at[Len(list)]
    BY <1>4, <1>9, ChainRises
  <2> QED
    BY <1>4, <1>10, <2>1
<1> QED
  BY <1>4, <1>9, <1>10, <1>11 DEF pair, list, s, at, a, c, n, e

\* What stands behind a text of a list, or behind the beginning of the list.
TextFollows(texts, s, t, b, next, c) ==
    IF t = Len(texts)
    THEN b + 1 = c /\ s[b + 1] \in {Token("BLOCK_END"), Token("FLOW_SEQUENCE_END")}
    ELSE /\ t + 1 \in 1 .. Len(texts) /\ next \in Nat /\ next <= c - 1
         /\ \/ next = b + 1 /\ s[b + 1] = Scalar(texts[t + 1])
            \/ /\ next = b + 2 /\ s[b + 2] = Scalar(texts[t + 1])
               /\ s[b + 1] \in {Token("BLOCK_ENTRY"), Token("FLOW_ENTRY")}

LEMMA TextRead ==
    ASSUME NEW d \in Documents, Begun(d), NEW k \in 1 .. Len(d.sections),
           d.sections[k].style \in {"block", "flow"}, NEW p \in 1 .. Len(d.sections[k].pairs),
           d.sections[k].pairs[p].style \in {"block", "flow"},
           NEW t \in 0 .. Len(d.sections[k].pairs[p].texts), NEW b, b = TextPlaces(d, k, p)[t],
           NEW next, next = TextPlaces(d, k, p)[t + 1], NEW c, c = PairPlaces(d, k)[p]
    PROVE  b \in Nat /\ TextFollows(d.sections[k].pairs[p].texts, Stream(d), t, b, next, c)
<1> DEFINE pair == d.sections[k].pairs[p]
           list == TextSeqs(pair)
           s == Stream(d)
           at == TextPlaces(d, k, p)
           n == Len(pair.texts)
           e == ListEntry(pair)
<1>1. Chain(list, s, e, at) /\ at[n] = c - 1 /\ n \in Nat /\ \A i \in 0 .. n : at[i] \in Nat /\ at[i] <= c - 1
  BY TextsPlaced
<1>2. c \in Nat /\ s[c] \in {Token("BLOCK_END"), Token("FLOW_SEQUENCE_END")} /\ pair \in SectionPairs
  <2>1. PICK a, f : a = PairStart(d, k, p) /\ f = PairPlaces(d, k)[p - 1]
    OBVIOUS
  <2>2. s = Stream(d)
    OBVIOUS
  <2> HIDE DEF s
  <2>3. c \in Nat /\ pair \in SectionPairs
    <3>1. PairLies(d, k, p, a, f, c)
      BY <2>1, PairPlaced
    <3> QED
      BY <3>1 DEF PairLies
  <2>4. s[c] \in {Token("BLOCK_END"), Token("FLOW_SEQUENCE_END")}
    <3>1. PairText(d, k, p, a, c)
      BY <2>1, PairRead
    <3> QED
      BY <2>2, <3>1 DEF PairText
  <2> QED
    BY <2>3, <2>4
<1>3. Len(list) = n /\ \A i \in 1 .. n : list[i] = <<Scalar(pair.texts[i])>>
  BY <1>2, TextsTyped, Covered
<1>4. t \in 0 .. n /\ b = at[t]
  OBVIOUS
<1>5. e \in {Token("BLOCK_ENTRY"), Token("FLOW_ENTRY")}
  BY DEF ListEntry
<1> HIDE DEF pair, list, s, at, n, e
<1>6. b \in Nat
  BY <1>1, <1>4
<1>7. CASE t = n
  <2>1. b + 1 = c
    BY <1>1, <1>2, <1>4, <1>6, <1>7
  <2> QED
    BY <1>2, <1>6, <1>7, <2>1 DEF pair, s, n, TextFollows
<1>8. CASE t # n
  <2>1. t + 1 \in 1 .. n /\ t + 1 \in 0 .. n /\ (t + 1) - 1 = t
    BY <1>1, <1>4, <1>8
  <2> DEFINE q == t + 1
             x == Scalar(pair.texts[q])
             to == at[q]
  <2>2. to \in Nat /\ to <= c - 1
    BY <1>1, <2>1
  <2>3. Spaced(list[q], s, e, at[q - 1], at[q])
    BY <1>1, <1>3, <2>1 DEF Chain
  <2>4. q - 1 = t /\ list[q] = <<x>>
    BY <1>3, <2>1
  <2>5. Spaced(<<x>>, s, e, b, to)
    <3> HIDE DEF q, x
    <3> QED
      BY <1>4, <2>3, <2>4
  <2> HIDE DEF q, x, to
  <2>6. Len(<<x>>) = 1 /\ 1 \in 1 .. 1 /\ <<x>>[1] = x
    OBVIOUS
  <2>7. \/ s[b + 1] = x /\ to = b + 1
        \/ s[b + 1] = e /\ s[b + 1 + 1] = x /\ to = b + 1 + 1
    <3> DEFINE w == <<x>>
    <3>1. Len(w) = 1 /\ 1 \in 1 .. Len(w) /\ w[1] = x /\ Spaced(w, s, e, b, to)
      BY <2>5, <2>6
    <3> HIDE DEF w
    <3> QED
      BY <3>1 DEF Spaced, Lies
  <2>8. b + 1 + 1 = b + 2
    BY <1>6
  <2>9. \/ to = b + 1 /\ s[b + 1] = x
        \/ to = b + 2 /\ s[b + 2] = x /\ s[b + 1] \in {Token("BLOCK_ENTRY"), Token("FLOW_ENTRY")}
    BY <1>5, <2>7, <2>8
  <2> QED
    BY <1>6, <1>8, <2>1, <2>2, <2>9 DEF pair, s, at, n, q, x, to, TextFollows
<1> QED
  BY <1>7, <1>8

\* A plain block ends with its first end of a block.
PlainBlock(section) ==
    /\ section.style = "block"
    /\ \A p \in 1 .. Len(section.pairs) : section.pairs[p].style \notin {"block", "map"}

LEMMA SectionOpen ==
    ASSUME NEW d \in Documents, Begun(d), NEW k \in 1 .. Len(d.sections),
           NEW a, a = SectionPlaces(d)[k - 1], NEW b, b = SectionPlaces(d)[k], PlainBlock(d.sections[k])
    PROVE  LET s == Stream(d)
           IN  /\ a \in Nat /\ b \in Nat /\ s[b] = Token("BLOCK_END")
               /\ \A h \in a + 1 .. b - 1 : s[h] \in OpenTokens
<1> DEFINE section == d.sections[k]
           s == Stream(d)
           t == SectionTokens(section)
           m == Len(t)
<1>1. /\ SectionShape(section, t) /\ a \in Nat
      /\ b = a + m /\ Lies(t, s, a)
  BY SectionPlaced, SectionsPlaced
<1>2. /\ m \in Nat /\ m >= 4 /\ t[m] = Token("BLOCK_END")
      /\ \A i \in 1 .. m - 1 : t[i] \in OpenTokens
  BY <1>1 DEF SectionShape, PlainBlock
<1> HIDE DEF section, t, s
<1>3. \A i \in 1 .. m : s[a + i] = t[i]
  BY <1>1 DEF Lies
<1> HIDE DEF m
<1>4. b \in Nat /\ m \in 1 .. m /\ s[b] = t[m]
  BY <1>1, <1>2, <1>3
<1>5. ASSUME NEW h \in a + 1 .. b - 1
      PROVE  s[h] \in OpenTokens
  <2>1. h - a \in 1 .. m - 1 /\ h - a \in 1 .. m /\ a + (h - a) = h
    BY <1>1, <1>2
  <2>2. s[a + (h - a)] = t[h - a] /\ t[h - a] \in OpenTokens
    BY <1>2, <1>3, <2>1
  <2> QED
    BY <2>1, <2>2
<1> QED
  BY <1>1, <1>2, <1>4, <1>5 DEF s

\* The first three tokens, and what stands behind the last section.
LEMMA SectionsEnd ==
    ASSUME NEW d \in Documents, Begun(d)
    PROVE  LET s == Stream(d)
               b == SectionPlaces(d)[Len(d.sections)]
           IN  /\ s \in Seq(RealTokens) /\ Len(s) \in Nat /\ Len(s) >= 5
               /\ s[1] = Token("STREAM_START") /\ s[2] = Token("DOCUMENT_START")
               /\ s[3] = Token("BLOCK_MAPPING_START")
               /\ SectionPlaces(d)[0] = 3 /\ b \in Nat /\ b + 1 = Len(s) - 1
               /\ s[b + 1] = Token("BLOCK_END")
<1> DEFINE s == Stream(d)
           b == SectionPlaces(d)[Len(d.sections)]
<1>1. /\ s \in Seq(RealTokens) /\ Len(s) \in Nat /\ Len(s) >= 5
      /\ s[1] = Token("STREAM_START") /\ s[2] = Token("DOCUMENT_START")
      /\ s[3] = Token("BLOCK_MAPPING_START") /\ s[Len(s) - 1] = Token("BLOCK_END")
  BY StreamShaped DEF StreamShape, Begun
<1>2. SectionPlaces(d)[0] = 3 /\ b = Len(s) - 2
  BY SectionsPlaced
<1> HIDE DEF s, b
<1>3. b \in Nat /\ b + 1 = Len(s) - 1
  BY <1>1, <1>2
<1> QED
  BY <1>1, <1>2, <1>3 DEF s, b

-----------------------------------------------------------------------------
(* The tokens to come.                                                     *)

\* Those behind the first h of the document, up to where it is cut.
Upto(d) == Len(Stream(d)) - d.cut

Behind(d, u, h) ==
    /\ u \in Seq(RealTokens)
    /\ Len(u) = IF h <= Upto(d) THEN Upto(d) - h ELSE 0
    /\ \A j \in 1 .. Len(u) : u[j] = Stream(d)[h + j]

At(h) == Behind(doc, tokens, h)

LEMMA UptoIs ==
    ASSUME NEW d \in Documents
    PROVE  Upto(d) \in Int /\ Len(Stream(d)) \in Nat /\ Upto(d) <= Len(Stream(d)) /\ Stream(d) \in Seq(RealTokens)
<1> DEFINE n == Len(Stream(d))
<1>1. n \in Nat /\ d.cut \in Nat /\ Stream(d) \in Seq(RealTokens)
  BY StreamShaped, DocumentIs DEF StreamShape
<1> HIDE DEF n
<1>2. n - d.cut \in Int /\ n - d.cut <= n
  BY <1>1
<1> QED
  BY <1>1, <1>2 DEF Upto, n

\* The j-th of them.
LEMMA Ahead ==
    ASSUME doc \in Documents, NEW h \in Nat, At(h), NEW j \in Nat, j >= 1
    PROVE  \/ h + j <= Upto(doc) /\ tokens[j] = Stream(doc)[h + j] /\ T(j) = Stream(doc)[h + j].type
           \/ h + j > Upto(doc) /\ T(j) = "NO_TOKEN"
<1> DEFINE m == Len(tokens)
           upto == Upto(doc)
<1>1. /\ upto \in Int /\ m \in Nat /\ m = IF h <= upto THEN upto - h ELSE 0
      /\ \A i \in 1 .. m : tokens[i] = Stream(doc)[h + i]
  BY UptoIs, LenProperties DEF At, Behind
<1>2. T(j) = IF j <= m THEN tokens[j].type ELSE "NO_TOKEN"
  BY DEF T
<1> HIDE DEF m, upto
<1>3. (j <= m <=> h + j <= upto) /\ (~(j <= m) <=> h + j > upto) /\ (j <= m => j \in 1 .. m)
  BY <1>1
<1> QED
  BY <1>1, <1>2, <1>3 DEF upto

\* The tokens of a document that has just been opened.
LEMMA AtStart ==
    ASSUME NEW d \in Documents
    PROVE  Behind(d, Tokens(d), 0)
<1> DEFINE s == Stream(d)
           n == Len(s)
           m == Upto(d)
           u == Tokens(d)
<1>1. n \in Nat /\ m \in Int /\ m <= n /\ s \in Seq(RealTokens)
  BY UptoIs
<1>2. u = SubSeq(s, 1, m)
  BY DEF Tokens, Upto
<1>3. /\ \A i \in 1 .. m : s[i] \in RealTokens
      /\ m \in Nat => 1 .. m \subseteq 1 .. n
  <2>1. \A i \in 1 .. n : s[i] \in RealTokens
    BY <1>1, ElementOfSeq
  <2> HIDE DEF m, n
  <2> QED
    BY <1>1, <2>1
<1>4. PICK f \in Int : f = 1
  OBVIOUS
<1>5. \A i \in f .. m : s[i] \in RealTokens
  <2> HIDE DEF m, n, s
  <2> QED
    BY <1>1, <1>3, <1>4
<1>6. /\ u \in Seq(RealTokens) /\ Len(u) = IF f <= m THEN m - f + 1 ELSE 0
      /\ \A i \in 1 .. m - f + 1 : u[i] = s[f + i - 1]
  <2>1. u = SubSeq(s, f, m)
    BY <1>2, <1>4
  <2> HIDE DEF u, s, m, n
  <2> QED
    BY <1>1, <1>5, <2>1, SubSeqProperties
<1> HIDE DEF u, m, s
<1>7. /\ Len(u) = IF 0 <= m THEN m - 0 ELSE 0
      /\ \A i \in 1 .. Len(u) : i \in 1 .. m - f + 1 /\ f + i - 1 = 0 + i
  BY <1>1, <1>4, <1>6
<1> QED
  BY <1>6, <1>7 DEF Behind, m, s, u

\* What libyaml scans.
LEMMA TokensTyped ==
    ASSUME NEW d \in Documents
    PROVE  Tokens(d) \in Seq(RealTokens)
BY AtStart DEF Behind

\* Those behind some of them.
LEMMA BehindMore ==
    ASSUME NEW d \in Documents, NEW u, NEW h \in Nat, Behind(d, u, h), NEW m \in Nat,
           NEW v, v = SubSeq(u, m + 1, Len(u)), NEW g, g = h + m
    PROVE  Behind(d, v, g)
<1> DEFINE n == Len(u)
           f == m + 1
           upto == Upto(d)
           s == Stream(d)
<1>1. /\ u \in Seq(RealTokens) /\ n \in Nat /\ upto \in Int
      /\ n = IF h <= upto THEN upto - h ELSE 0
      /\ \A j \in 1 .. n : u[j] = s[h + j]
  BY UptoIs, LenProperties DEF Behind
<1>2. f \in Int /\ f >= 1 /\ \A i \in f .. n : i \in 1 .. n
  <2> HIDE DEF n
  <2> QED
    BY <1>1
<1>3. \A i \in f .. n : u[i] \in RealTokens
  BY <1>1, <1>2, ElementOfSeq
<1>4. v = SubSeq(u, f, n)
  OBVIOUS
<1> HIDE DEF n, f, upto, s
<1>5. /\ v \in Seq(RealTokens) /\ Len(v) = IF f <= n THEN n - f + 1 ELSE 0
      /\ \A i \in 1 .. n - f + 1 : v[i] = u[f + i - 1]
  <2>1. f \in Int /\ n \in Int
    BY <1>1, <1>2
  <2> DEFINE w == SubSeq(u, f, n)
  <2>2. /\ w \in Seq(RealTokens) /\ Len(w) = IF f <= n THEN n - f + 1 ELSE 0
        /\ \A i \in 1 .. n - f + 1 : w[i] = u[f + i - 1]
    BY <1>3, <2>1, SubSeqProperties
  <2> HIDE DEF w
  <2>3. v = w
    BY <1>4 DEF w
  <2> QED
    BY <2>2, <2>3
<1>6. /\ Len(v) = IF g <= upto THEN upto - g ELSE 0
      /\ \A i \in 1 .. Len(v) : i \in 1 .. n - f + 1 /\ f + i - 1 \in 1 .. n /\ h + (f + i - 1) = g + i
  BY <1>1, <1>5 DEF f
<1>7. \A i \in 1 .. Len(v) : v[i] = s[g + i]
  BY <1>1, <1>5, <1>6
<1> QED
  BY <1>5, <1>6, <1>7 DEF Behind, upto, s

LEMMA ScannedOn ==
    ASSUME doc \in Documents, NEW h \in Nat, At(h), NEW m \in Nat, Scanned(m), doc' = doc,
           NEW g, g = h + m
    PROVE  Behind(doc', tokens', g)
<1>1. tokens' = SubSeq(tokens, m + 1, Len(tokens))
  BY DEF Scanned
<1> DEFINE d == doc
           v == tokens'
<1>2. Behind(d, v, g)
  BY <1>1, BehindMore DEF At
<1> QED
  BY <1>2

\* Nothing is left where nothing is left.
LEMMA ScannedOut ==
    ASSUME doc \in Documents, NEW h \in Nat, At(h), h >= Upto(doc), Scanned(1), doc' = doc
    PROVE  Behind(doc', tokens', h)
<1>1. PICK m \in Nat : m = 1
  OBVIOUS
<1> DEFINE g == h + m
           d == doc
           v == tokens'
<1>2. g \in Nat /\ g >= Upto(doc) /\ Upto(doc) \in Int
  BY <1>1, UptoIs
<1>3. Behind(d, v, g)
  <2>1. Scanned(m)
    BY <1>1
  <2> HIDE DEF d, v, g
  <2> QED
    BY <2>1, ScannedOn DEF d, v, g
<1>4. v \in Seq(RealTokens) /\ Len(v) = 0
  <2> HIDE DEF d, v, g
  <2> QED
    BY <1>2, <1>3 DEF Behind, d
<1>5. Behind(d, v, h)
  <2> HIDE DEF v
  <2> QED
    BY <1>2, <1>4 DEF Behind
<1> QED
  BY <1>5

-----------------------------------------------------------------------------
(* What the parser sees, and what it does.                                 *)

\* A token in front of the end of the stream is there unless the document is
\* cut in front of it.
LEMMA Seen ==
    ASSUME doc \in Documents, NEW h \in Nat, At(h), NEW j \in Nat, j >= 1, h + j <= Len(Stream(doc)) - 1
    PROVE  \/ /\ tokens[j] = Stream(doc)[h + j] /\ T(j) = Stream(doc)[h + j].type
              /\ h + j <= Upto(doc)
           \/ T(j) = "NO_TOKEN" /\ doc.cut >= 2
<1> DEFINE n == Len(Stream(doc))
<1>1. n \in Nat /\ doc.cut \in Nat /\ Upto(doc) = n - doc.cut
  BY UptoIs, DocumentIs DEF Upto
<1>2. h + j <= n - 1
  OBVIOUS
<1> HIDE DEF n
<1>3. h + j > Upto(doc) => doc.cut >= 2
  BY <1>1, <1>2
<1> QED
  BY <1>3, Ahead

LEMMA TokenIs ==
    /\ \A type : Token(type).type = type
    /\ \A s : Scalar(s).type = "SCALAR" /\ Scalar(s).scalar = s
BY DEF Token, Scalar

YamlTyped == yaml = [mode |-> yaml.mode, section |-> yaml.section, opt |-> yaml.opt]

LEMMA GoneTo ==
    ASSUME YamlTyped
    PROVE  /\ \A mode : Goto(mode) => yaml'.mode = mode /\ yaml'.section = yaml.section /\ yaml'.opt = yaml.opt
           /\ ParseFails => yaml'.mode = "failed"
<1>1. yaml = [mode |-> yaml.mode, section |-> yaml.section, opt |-> yaml.opt]
  BY DEF YamlTyped
<1>2. ASSUME NEW mode, Goto(mode)
      PROVE  yaml'.mode = mode /\ yaml'.section = yaml.section /\ yaml'.opt = yaml.opt
  BY <1>1, <1>2 DEF Goto
<1> QED
  BY <1>2 DEF ParseFails

\* What the parser does in front of a document.
LEMMA InitReads ==
    ASSUME doc \in Documents, doc' = doc, YamlTyped, At(0), ParseInit
    PROVE  \/ Begun(doc) /\ yaml'.mode = "main" /\ Behind(doc', tokens', SectionPlaces(doc)[0])
           \/ yaml'.mode = "failed" /\ (doc.cut >= 2 \/ ~Begun(doc))
<1> DEFINE s == Stream(doc)
<1>1. StreamShape(doc, s) /\ doc.explicit \in BOOLEAN
  BY StreamShaped, DocumentIs
<1>2. \/ /\ T(1) = "STREAM_START" /\ T(2) = "DOCUMENT_START" /\ T(3) = "BLOCK_MAPPING_START"
         /\ yaml'.mode = "main" /\ Scanned(3)
      \/ /\ ~(T(1) = "STREAM_START" /\ T(2) = "DOCUMENT_START" /\ T(3) = "BLOCK_MAPPING_START")
         /\ yaml'.mode = "failed"
  BY GoneTo DEF ParseInit
<1>3. Len(s) \in Nat /\ s \in Seq(RealTokens) /\ Upto(doc) \in Int /\ Upto(doc) <= Len(s)
  BY UptoIs
<1>4. PICK h \in Nat : h = 0
  OBVIOUS
<1> HIDE DEF s
<1>5. CASE Begun(doc)
  <2>1. /\ Len(s) >= 5 /\ s[1] = Token("STREAM_START") /\ s[2] = Token("DOCUMENT_START")
        /\ s[3] = Token("BLOCK_MAPPING_START") /\ SectionPlaces(doc)[0] = 3
    BY <1>5, SectionsEnd DEF s
  <2>2. /\ h + 1 = 1 /\ h + 1 <= Len(s) - 1
        /\ h + 2 = 2 /\ h + 2 <= Len(s) - 1
        /\ h + 3 = 3 /\ h + 3 <= Len(s) - 1
    BY <1>3, <1>4, <2>1
  <2>3. doc.cut >= 2 \/ (T(1) = "STREAM_START" /\ T(2) = "DOCUMENT_START" /\ T(3) = "BLOCK_MAPPING_START")
    <3>1. At(h)
      BY <1>4
    <3>2. T(1) = s[1].type \/ doc.cut >= 2
      BY <2>2, <3>1, Seen DEF s
    <3>3. T(2) = s[2].type \/ doc.cut >= 2
      BY <2>2, <3>1, Seen DEF s
    <3>4. T(3) = s[3].type \/ doc.cut >= 2
      BY <2>2, <3>1, Seen DEF s
    <3> QED
      BY <2>1, <3>2, <3>3, <3>4, TokenIs
  <2>4. ASSUME Scanned(3)
        PROVE  Behind(doc', tokens', SectionPlaces(doc)[0])
    <3>1. PICK m \in Nat : m = 3
      OBVIOUS
    <3>2. At(h) /\ Scanned(m) /\ 3 = h + m
      BY <1>4, <2>4, <3>1
    <3>3. Behind(doc', tokens', 3)
      BY <3>2, ScannedOn
    <3> QED
      BY <2>1, <3>3
  <2> QED
    BY <1>2, <1>5, <2>3, <2>4
<1>6. CASE ~Begun(doc)
  <2>1. ~(T(2) = "DOCUMENT_START" /\ T(3) = "BLOCK_MAPPING_START")
    <3>1. At(h)
      BY <1>4
    <3>2. h + 2 = 2 /\ h + 3 = 3
      BY <1>4
    <3>3. /\ T(2) = "DOCUMENT_START" => s[2].type = "DOCUMENT_START" /\ 2 <= Upto(doc)
          /\ T(3) = "BLOCK_MAPPING_START" => s[3].type = "BLOCK_MAPPING_START" /\ 3 <= Upto(doc)
      BY <3>1, <3>2, Ahead DEF s
    <3>4. \A t \in RealTokens : /\ t.type = "DOCUMENT_START" => t = Token("DOCUMENT_START")
                                /\ t.type = "BLOCK_MAPPING_START" => t = Token("BLOCK_MAPPING_START")
      BY DEF RealTokens, Token
    <3>5. CASE ~doc.explicit
      <4>1. Len(s) >= 2 /\ s[2] # Token("DOCUMENT_START")
        BY <1>1, <3>5 DEF StreamShape, s
      <4>2. s[2] \in RealTokens
        <5>1. 2 \in 1 .. Len(s)
          BY <1>3, <4>1
        <5> QED
          BY <1>3, <5>1, ElementOfSeq
      <4> QED
        BY <3>3, <3>4, <4>1, <4>2
    <3>6. CASE doc.explicit /\ doc.sections = <<>>
      <4>1. Len(s) >= 3 /\ s[3] # Token("BLOCK_MAPPING_START")
        BY <1>1, <3>6 DEF StreamShape, s
      <4>2. s[3] \in RealTokens
        <5>1. 3 \in 1 .. Len(s)
          BY <1>3, <4>1
        <5> QED
          BY <1>3, <5>1, ElementOfSeq
      <4> QED
        BY <3>3, <3>4, <4>1, <4>2
    <3> QED
      BY <1>1, <1>6, <3>5, <3>6 DEF Begun
  <2> QED
    BY <1>2, <1>6, <2>1
<1> QED
  BY <1>5, <1>6

\* Where a section is, and that of the next.
LEMMA SectionBounds ==
    ASSUME NEW d \in Documents, Begun(d), NEW k \in 0 .. Len(d.sections), NEW a, a = SectionPlaces(d)[k]
    PROVE  /\ a \in Nat /\ a + 1 <= Len(Stream(d)) - 1 /\ Len(d.sections) \in Nat
           /\ k # Len(d.sections) =>
                /\ k + 1 \in 1 .. Len(d.sections) /\ (k + 1) - 1 = k /\ k + 1 \in 0 .. Len(d.sections)
                /\ d.sections[k + 1] \in Sections
                /\ SectionPlaces(d)[k + 1] \in Nat /\ a + 4 <= SectionPlaces(d)[k + 1]
                /\ a + 4 <= Len(Stream(d)) - 1
<1> DEFINE n == Len(d.sections)
           m == Len(Stream(d))
           at == SectionPlaces(d)
<1>1. n \in Nat /\ m \in Nat
  BY UptoIs, DocumentIs
<1>2. \A j \in 0 .. n : at[j] \in Nat /\ at[j] <= m - 2
  BY SectionsPlaced
<1>3. ASSUME k # n
      PROVE  /\ k + 1 \in 1 .. n /\ (k + 1) - 1 = k /\ k + 1 \in 0 .. n
             /\ d.sections[k + 1] \in Sections
             /\ at[k + 1] \in Nat /\ a + 4 <= at[k + 1] /\ a + 4 <= m - 1
  <2>1. k \in 0 .. n
    OBVIOUS
  <2>2. k + 1 \in 1 .. n /\ (k + 1) - 1 = k /\ k + 1 \in 0 .. n
    <3> HIDE DEF n
    <3> QED
      BY <1>1, <1>3, <2>1
  <2>3. PICK j : j = k + 1
    OBVIOUS
  <2>4. j \in 1 .. n /\ j - 1 = k
    <3> HIDE DEF n
    <3> QED
      BY <2>2, <2>3
  <2>5. d.sections[j] \in Sections /\ a + 4 <= SectionPlaces(d)[j]
    BY <2>4, SectionPlaced
  <2>6. at[j] \in Nat /\ at[j] <= m - 2 /\ a \in Nat
    <3> HIDE DEF at, n
    <3> QED
      BY <1>2, <2>1, <2>2, <2>3 DEF at
  <2>7. a + 4 <= at[j]
    BY <2>5
  <2>8. a + 4 <= m - 1
    <3> HIDE DEF at, n, m
    <3> QED
      BY <1>1, <2>6, <2>7
  <2> QED
    BY <2>2, <2>3, <2>5, <2>6, <2>7, <2>8
<1>4. a \in Nat /\ a + 1 <= m - 1
  <2>1. k \in 0 .. n /\ a = at[k]
    OBVIOUS
  <2> HIDE DEF n, m, at
  <2> QED
    BY <1>1, <1>2, <2>1
<1> QED
  BY <1>1, <1>3, <1>4

\* What it does in front of a section, or behind the last.
LEMMA SectionReads ==
    ASSUME doc \in Documents, doc' = doc, YamlTyped, Begun(doc), NEW k \in 0 .. Len(doc.sections),
           At(SectionPlaces(doc)[k]), ParseSection, Plain(doc)
    PROVE  \/ yaml'.mode = "failed" /\ doc.cut >= 2
           \/ yaml'.mode = "done" /\ doc.cut <= 1 /\ k = Len(doc.sections)
           \/ /\ k + 1 \in 1 .. Len(doc.sections) /\ k = (k + 1) - 1
              /\ LET section == doc.sections[k + 1]
                 IN  \/ /\ ~Known(section) /\ yaml'.mode = "skip"
                        /\ \E h \in SectionPlaces(doc)[k] + 2 .. SectionPlaces(doc)[k + 1] - 1 :
                                Behind(doc', tokens', h)
                     \/ Known(section) /\ yaml'.mode = "failed" /\ section.style \notin {"block", "flow"}
                     \/ /\ Known(section) /\ section.style \in {"block", "flow"}
                        /\ yaml'.mode = "pairs" /\ yaml'.section = section.name
                        /\ Behind(doc', tokens', PairPlaces(doc, k + 1)[0])
<1> DEFINE s == Stream(doc)
           a == SectionPlaces(doc)[k]
           n == Len(doc.sections)
<1>1. /\ a \in Nat /\ a + 1 <= Len(s) - 1 /\ n \in Nat
      /\ k # n => /\ k + 1 \in 1 .. n /\ (k + 1) - 1 = k /\ k + 1 \in 0 .. n
                  /\ SectionPlaces(doc)[k + 1] \in Nat /\ a + 4 <= SectionPlaces(doc)[k + 1]
                  /\ a + 4 <= Len(s) - 1
  BY SectionBounds
<1>2. /\ Len(s) \in Nat /\ doc.cut \in Nat /\ Upto(doc) = Len(s) - doc.cut
  BY UptoIs, DocumentIs DEF Upto
<1>3. CASE k = n
  <2>1. a + 1 = Len(s) - 1 /\ s[a + 1] = Token("BLOCK_END")
    BY <1>3, SectionsEnd
  <2>2. PICK j \in Nat : j = 1
    OBVIOUS
  <2>3. /\ At(a) /\ a + j <= Len(s) - 1 /\ j >= 1
        /\ a + j = a + 1
    BY <1>1, <2>2
  <2> HIDE DEF s, a, n
  <2>4. \/ T(1) = "BLOCK_END" /\ a + 1 <= Upto(doc)
        \/ T(1) = "NO_TOKEN" /\ doc.cut >= 2
    <3>1. \/ T(j) = s[a + j].type /\ a + j <= Upto(doc)
          \/ T(j) = "NO_TOKEN" /\ doc.cut >= 2
      BY <1>1, <2>3, Seen DEF s
    <3> QED
      BY <2>1, <2>2, <3>1, TokenIs
  <2>5. a + 1 <= Upto(doc) => doc.cut <= 1
    BY <1>1, <1>2, <2>1
  <2>6. /\ T(1) = "BLOCK_END" => yaml'.mode = "done"
        /\ T(1) = "NO_TOKEN" => yaml'.mode = "failed"
    BY GoneTo DEF ParseSection
  <2> QED
    BY <1>3, <2>4, <2>5, <2>6 DEF n
<1>4. CASE k # n
  <2>1. PICK l : l = k + 1
    OBVIOUS
  <2> DEFINE section == doc.sections[l]
             b == SectionPlaces(doc)[l]
  <2>2. l \in 1 .. n /\ l - 1 = k /\ b \in Nat /\ a + 4 <= b /\ a + 4 <= Len(s) - 1
    BY <1>1, <1>4, <2>1
  <2>3. /\ section \in Sections
        /\ s[a + 1] = Token("KEY") /\ s[a + 2] = Scalar(section.name) /\ s[a + 3] = Token("VALUE")
        /\ section.style = "scalar" => s[a + 4] = Scalar("text")
        /\ section.style \in {"block", "flow"} =>
                s[a + 4] \in {Token("BLOCK_MAPPING_START"), Token("FLOW_MAPPING_START")}
    BY <2>2, SectionPlaced
  <2>4. section.style \in {"block", "flow", "scalar"}
    BY <2>3, SectionIs
  <2>5. section.style \in {"block", "flow"} => PairPlaces(doc, l)[0] = a + 4
    BY <2>2, PairsPlaced
  <2>6. At(a)
    OBVIOUS
  <2> HIDE DEF section, b, s, a
  <2>7. PICK j1, j2, j3, j4 \in Nat : j1 = 1 /\ j2 = 2 /\ j3 = 3 /\ j4 = 4
    OBVIOUS
  <2>8. /\ a + j1 <= Len(s) - 1 /\ a + j2 <= Len(s) - 1 /\ a + j3 <= Len(s) - 1 /\ a + j4 <= Len(s) - 1
        /\ j1 >= 1 /\ j2 >= 1 /\ j3 >= 1 /\ j4 >= 1
    BY <1>1, <1>2, <2>2, <2>7
  <2>9. /\ T(1) = "KEY" \/ (T(1) = "NO_TOKEN" /\ doc.cut >= 2)
        /\ (T(2) = "SCALAR" /\ tokens[2].scalar = section.name) \/ (T(2) = "NO_TOKEN" /\ doc.cut >= 2)
        /\ T(3) = "VALUE" \/ (T(3) = "NO_TOKEN" /\ doc.cut >= 2)
        /\ \/ section.style = "scalar" /\ T(4) = "SCALAR"
           \/ section.style \in {"block", "flow"} /\ T(4) \in MappingStarts
           \/ T(4) = "NO_TOKEN" /\ doc.cut >= 2
    <3>1. T(1) = "KEY" \/ (T(1) = "NO_TOKEN" /\ doc.cut >= 2)
      <4>1. T(j1) = s[a + j1].type \/ (T(j1) = "NO_TOKEN" /\ doc.cut >= 2)
        BY <1>1, <2>6, <2>8, Seen DEF s
      <4> QED
        BY <2>3, <2>7, <4>1, TokenIs
    <3>2. (T(2) = "SCALAR" /\ tokens[2].scalar = section.name) \/ (T(2) = "NO_TOKEN" /\ doc.cut >= 2)
      <4>1. (tokens[j2] = s[a + j2] /\ T(j2) = s[a + j2].type) \/ (T(j2) = "NO_TOKEN" /\ doc.cut >= 2)
        BY <1>1, <2>6, <2>8, Seen DEF s
      <4> QED
        BY <2>3, <2>7, <4>1, TokenIs
    <3>3. T(3) = "VALUE" \/ (T(3) = "NO_TOKEN" /\ doc.cut >= 2)
      <4>1. T(j3) = s[a + j3].type \/ (T(j3) = "NO_TOKEN" /\ doc.cut >= 2)
        BY <1>1, <2>6, <2>8, Seen DEF s
      <4> QED
        BY <2>3, <2>7, <4>1, TokenIs
    <3>4. T(4) = s[a + 4].type \/ (T(4) = "NO_TOKEN" /\ doc.cut >= 2)
      <4>1. T(j4) = s[a + j4].type \/ (T(j4) = "NO_TOKEN" /\ doc.cut >= 2)
        BY <1>1, <2>6, <2>8, Seen DEF s
      <4> QED
        BY <2>7, <4>1
    <3>5. /\ section.style = "scalar" => s[a + 4].type = "SCALAR"
          /\ section.style \in {"block", "flow"} => s[a + 4].type \in MappingStarts
      BY <2>3, TokenIs DEF MappingStarts
    <3> QED
      BY <2>4, <3>1, <3>2, <3>3, <3>4, <3>5
  <2>10. Known(section) <=> Section(conf, section.name) # {}
    BY DEF Known
  <2>11. ASSUME NEW m \in Nat, Scanned(m), NEW g, g = a + m
         PROVE  Behind(doc', tokens', g)
    BY <1>1, <2>6, <2>11, ScannedOn
  <2>12. CASE doc.cut >= 2 /\ (T(1) = "NO_TOKEN" \/ T(2) = "NO_TOKEN")
    <3>1. T(1) # "BLOCK_END" /\ (T(1) # "KEY" \/ T(2) # "SCALAR")
      BY <2>9, <2>12
    <3>2. ParseFails
      BY <3>1 DEF ParseSection
    <3> QED
      BY <2>12, <3>2, GoneTo
  <2>13. CASE T(1) = "KEY" /\ T(2) = "SCALAR" /\ tokens[2].scalar = section.name /\ ~Known(section)
    <3>1. Goto("skip") /\ Scanned(2)
      BY <2>10, <2>13 DEF ParseSection
    <3>2. yaml'.mode = "skip"
      BY <3>1, GoneTo
    <3>3. PICK h : h = a + 2
      OBVIOUS
    <3>4. h \in a + 2 .. b - 1
      BY <1>1, <2>2, <3>3
    <3>5. Behind(doc', tokens', h)
      <4>1. PICK m \in Nat : m = 2
        OBVIOUS
      <4>2. Scanned(m) /\ h = a + m
        BY <3>1, <3>3, <4>1
      <4> QED
        BY <2>11, <4>2
    <3> QED
      BY <2>1, <2>2, <2>13, <3>2, <3>4, <3>5 DEF section, a, b, n
  <2>14. CASE T(1) = "KEY" /\ T(2) = "SCALAR" /\ tokens[2].scalar = section.name /\ Known(section)
    <3>1. IF T(3) = "VALUE" /\ T(4) \in MappingStarts
          THEN yaml' = [yaml EXCEPT !.mode = "pairs", !.section = section.name] /\ Scanned(4)
          ELSE ParseFails
      BY <2>10, <2>14 DEF ParseSection
    <3>2. CASE T(3) = "VALUE" /\ T(4) \in MappingStarts
      <4>1. section.style \in {"block", "flow"}
        BY <2>9, <3>2 DEF MappingStarts
      <4>2. yaml'.mode = "pairs" /\ yaml'.section = section.name
        <5>1. yaml' = [yaml EXCEPT !.mode = "pairs", !.section = section.name]
          BY <3>1, <3>2
        <5>2. yaml = [mode |-> yaml.mode, section |-> yaml.section, opt |-> yaml.opt]
          BY DEF YamlTyped
        <5> QED
          BY <5>1, <5>2
      <4>3. Behind(doc', tokens', PairPlaces(doc, l)[0])
        <5>1. PICK m \in Nat : m = 4
          OBVIOUS
        <5>2. Scanned(m) /\ PairPlaces(doc, l)[0] = a + m
          BY <2>5, <3>1, <3>2, <4>1, <5>1
        <5> QED
          BY <2>11, <5>2
      <4> QED
        BY <2>1, <2>2, <2>14, <4>1, <4>2, <4>3 DEF section, n
    <3>3. CASE ~(T(3) = "VALUE" /\ T(4) \in MappingStarts)
      <4>1. yaml'.mode = "failed"
        BY <3>1, <3>3, GoneTo
      <4>2. doc.cut >= 2 \/ section.style = "scalar"
        BY <2>9, <3>3
      <4> QED
        BY <2>1, <2>2, <2>14, <4>1, <4>2 DEF section, n
    <3> QED
      BY <3>2, <3>3
  <2> QED
    BY <2>9, <2>12, <2>13, <2>14
<1> QED
  BY <1>3, <1>4

\* And inside of one it skips.
LEMMA SkipReads ==
    ASSUME doc \in Documents, doc' = doc, YamlTyped, Begun(doc), NEW k \in 1 .. Len(doc.sections),
           PlainBlock(doc.sections[k]),
           NEW h \in SectionPlaces(doc)[k - 1] + 2 .. SectionPlaces(doc)[k] - 1, At(h), SkipSection
    PROVE  \/ yaml'.mode = "main" /\ Behind(doc', tokens', SectionPlaces(doc)[k])
           \/ /\ yaml'.mode = "skip"
              /\ \E g \in SectionPlaces(doc)[k - 1] + 2 .. SectionPlaces(doc)[k] - 1 : Behind(doc', tokens', g)
<1> DEFINE s == Stream(doc)
           a == SectionPlaces(doc)[k - 1]
           b == SectionPlaces(doc)[k]
           n == Len(doc.sections)
<1>1. /\ a \in Nat /\ b \in Nat /\ s[b] = Token("BLOCK_END")
      /\ \A i \in a + 1 .. b - 1 : s[i] \in OpenTokens
  BY SectionOpen
<1>2. b <= Len(s) - 2 /\ Len(s) \in Nat
  BY SectionPlaced, UptoIs
<1>3. h \in a + 2 .. b - 1
  OBVIOUS
<1> HIDE DEF s, a, b, n
<1>4. h \in Nat
  BY <1>1, <1>3
<1>5. PICK j \in Nat : j = 1
  OBVIOUS
<1>6. \/ T(1) = s[h + 1].type /\ h + 1 <= Upto(doc)
      \/ T(1) = "NO_TOKEN" /\ h >= Upto(doc)
  <2>1. Upto(doc) \in Int
    BY UptoIs
  <2>2. \/ T(j) = s[h + j].type /\ h + j <= Upto(doc)
        \/ T(j) = "NO_TOKEN" /\ h + j > Upto(doc)
    <3>1. j >= 1
      BY <1>5
    <3> QED
      BY <1>4, <3>1, Ahead DEF s
  <2> QED
    BY <1>4, <1>5, <2>1, <2>2
<1>7. /\ T(1) = "BLOCK_END" => yaml'.mode = "main"
      /\ T(1) # "BLOCK_END" => yaml'.mode = "skip"
      /\ Scanned(1)
  BY GoneTo DEF SkipSection
<1>8. CASE T(1) = "NO_TOKEN" /\ h >= Upto(doc)
  <2>1. Behind(doc', tokens', h)
    BY <1>4, <1>7, <1>8, ScannedOut
  <2> QED
    BY <1>3, <1>7, <1>8, <2>1 DEF a, b
<1>9. CASE T(1) = s[h + 1].type
  <2>1. PICK g : g = h + 1
    OBVIOUS
  <2>2. Behind(doc', tokens', g)
    <3>1. Scanned(j) /\ g = h + j
      BY <1>5, <1>7, <2>1
    <3> QED
      BY <1>4, <3>1, ScannedOn
  <2>3. CASE g = b
    <3>1. T(1) = "BLOCK_END"
      BY <1>1, <1>9, <2>1, <2>3, TokenIs
    <3> QED
      BY <1>7, <2>2, <2>3, <3>1 DEF b
  <2>4. CASE g # b
    <3>1. g \in a + 2 .. b - 1 /\ g \in a + 1 .. b - 1
      BY <1>1, <1>3, <2>1, <2>4
    <3>2. T(1) # "BLOCK_END"
      BY <1>1, <1>9, <2>1, <3>1 DEF OpenTokens
    <3> QED
      BY <1>7, <2>2, <3>1, <3>2 DEF a, b
  <2> QED
    BY <2>3, <2>4
<1> QED
  BY <1>6, <1>8, <1>9

\* The tokens of a pair, as the parser sees them.
PairAhead(pair, sep) ==
    /\ T(1) \in {"KEY", "FLOW_ENTRY"} /\ T(sep + 1) = "KEY" /\ T(sep + 2) = "SCALAR"
    /\ tokens[sep + 2].scalar = pair.key
    /\ T(sep + 3) = "VALUE" \/ (T(sep + 3) = "NO_TOKEN" /\ doc.cut >= 2)
    /\ \/ T(sep + 4) = "NO_TOKEN" /\ doc.cut >= 2
       \/ /\ pair.style \in {"none", "map"}
          /\ T(sep + 4) \notin {"SCALAR", "BLOCK_SEQUENCE_START", "FLOW_SEQUENCE_START"}
       \/ pair.style = "scalar" /\ T(sep + 4) = "SCALAR" /\ tokens[sep + 4].scalar = pair.texts[1]
       \/ pair.style \in {"block", "flow"} /\ T(sep + 4) \in {"BLOCK_SEQUENCE_START", "FLOW_SEQUENCE_START"}

PairCut(sep) ==
    /\ doc.cut >= 2 /\ T(1) \in {"NO_TOKEN", "KEY", "FLOW_ENTRY"}
    /\ T(sep + 1) = "NO_TOKEN" \/ T(sep + 2) = "NO_TOKEN"

LEMMA PairSeen ==
    ASSUME doc \in Documents, Begun(doc), NEW k \in 1 .. Len(doc.sections),
           doc.sections[k].style \in {"block", "flow"}, NEW q \in 1 .. Len(doc.sections[k].pairs),
           At(PairPlaces(doc, k)[q - 1]), NEW sep, sep = IF T(1) = "FLOW_ENTRY" THEN 1 ELSE 0
    PROVE  \/ PairCut(sep)
           \/ /\ PairAhead(doc.sections[k].pairs[q], sep)
              /\ PairStart(doc, k, q) = PairPlaces(doc, k)[q - 1] + sep
<1> DEFINE s == Stream(doc)
           pair == doc.sections[k].pairs[q]
<1>1. PICK a, b, c, last : /\ a = PairStart(doc, k, q) /\ b = PairPlaces(doc, k)[q - 1]
                           /\ c = PairPlaces(doc, k)[q] /\ last = SectionPlaces(doc)[k]
  OBVIOUS
<1>2. /\ pair \in SectionPairs /\ a \in Nat /\ b \in Nat /\ c \in Nat /\ c <= last - 1
      /\ a = b \/ (a = b + 1 /\ s[b + 1] = Token("FLOW_ENTRY"))
  <2>1. PairLies(doc, k, q, a, b, c)
    BY <1>1, PairPlaced
  <2> QED
    BY <1>1, <2>1 DEF PairLies
<1>3. /\ a + 3 <= c
      /\ s[a + 1] = Token("KEY") /\ s[a + 2] = Scalar(pair.key) /\ s[a + 3] = Token("VALUE")
      /\ pair.style = "scalar" => c = a + 4 /\ s[a + 4] = Scalar(pair.texts[1])
      /\ pair.style = "none" => c = a + 3
      /\ pair.style = "map" => a + 4 <= c /\ s[a + 4] = Token("BLOCK_MAPPING_START")
      /\ pair.style \in {"block", "flow"} =>
            s[a + 4] \in {Token("BLOCK_SEQUENCE_START"), Token("FLOW_SEQUENCE_START")}
  <2>1. PairText(doc, k, q, a, c)
    BY <1>1, PairRead
  <2> QED
    BY <2>1 DEF PairText
<1>4. s[c + 1] \in {Token("KEY"), Token("FLOW_ENTRY"), Token("BLOCK_END"), Token("FLOW_MAPPING_END")}
  <2>1. q \in 0 .. Len(doc.sections[k].pairs)
    <3>1. Len(doc.sections[k].pairs) \in Nat
      <4>1. doc.sections[k] \in Sections
        BY DocumentIs
      <4> QED
        BY <4>1, SectionIs
    <3> DEFINE m == Len(doc.sections[k].pairs)
    <3>2. q \in 1 .. m
      OBVIOUS
    <3> HIDE DEF m
    <3>3. m \in Nat => q \in 0 .. m
      BY <3>2
    <3> QED
      BY <3>1, <3>3 DEF m
  <2> QED
    BY <1>1, <2>1, PairFollowed
<1>5. last <= Len(s) - 2 /\ Len(s) \in Nat /\ last \in Nat
  <2>1. SectionPlaces(doc)[k] <= Len(s) - 2
    BY SectionPlaced
  <2>2. Len(s) \in Nat
    BY UptoIs
  <2>3. last \in Nat
    <3>1. Len(doc.sections) \in Nat
      BY DocumentIs
    <3> DEFINE n == Len(doc.sections)
    <3>2. k \in 1 .. n
      OBVIOUS
    <3> HIDE DEF n
    <3>3. n \in Nat => k \in 0 .. n
      BY <3>2
    <3> QED
      BY <1>1, <3>1, <3>3, SectionsPlaced DEF n
  <2> QED
    BY <1>1, <2>1, <2>2, <2>3
<1>6. At(b)
  BY <1>1
<1>7. pair.style \in {"scalar", "none", "block", "flow", "map"}
  BY <1>2, PairIs
<1> HIDE DEF s, pair
<1>8. ASSUME NEW j \in Nat, j >= 1, b + j <= a + 4
      PROVE  \/ tokens[j] = s[b + j] /\ T(j) = s[b + j].type
             \/ T(j) = "NO_TOKEN" /\ doc.cut >= 2
  <2>1. b + j <= Len(s) - 1
    BY <1>2, <1>3, <1>5, <1>8
  <2> QED
    BY <1>2, <1>6, <1>8, <2>1, Seen DEF s
<1>9. \/ T(1) = s[b + 1].type
      \/ T(1) = "NO_TOKEN" /\ doc.cut >= 2
  <2>1. PICK j \in Nat : j = 1
    OBVIOUS
  <2>2. j >= 1 /\ b + j <= a + 4
    BY <1>2, <2>1
  <2>3. T(j) = s[b + j].type \/ (T(j) = "NO_TOKEN" /\ doc.cut >= 2)
    BY <1>8, <2>2
  <2> QED
    BY <2>1, <2>3
<1>10. CASE T(1) = "NO_TOKEN" /\ doc.cut >= 2
  <2>1. T(sep + 1) = "NO_TOKEN"
    <3>1. sep = 0 /\ 0 + 1 = 1
      BY <1>10
    <3> QED
      BY <1>10, <3>1
  <2> QED
    BY <1>10, <2>1 DEF PairCut
<1>11. CASE T(1) = s[b + 1].type
  <2>1. a = b + sep /\ sep \in {0, 1} /\ T(1) \in {"KEY", "FLOW_ENTRY"}
    <3>1. CASE a = b
      <4>1. T(1) = "KEY" /\ sep = 0
        BY <1>3, <1>11, <3>1, TokenIs
      <4> QED
        BY <1>2, <3>1, <4>1
    <3>2. CASE a = b + 1 /\ s[b + 1] = Token("FLOW_ENTRY")
      <4>1. T(1) = "FLOW_ENTRY" /\ sep = 1
        BY <1>11, <3>2, TokenIs
      <4> QED
        BY <3>2, <4>1
    <3> QED
      BY <1>2, <3>1, <3>2
  <2>2. PICK j1, j2, j3, j4 : j1 = sep + 1 /\ j2 = sep + 2 /\ j3 = sep + 3 /\ j4 = sep + 4
    OBVIOUS
  <2>3. /\ j1 \in Nat /\ j1 >= 1 /\ b + j1 <= a + 4 /\ b + j1 = a + 1
        /\ j2 \in Nat /\ j2 >= 1 /\ b + j2 <= a + 4 /\ b + j2 = a + 2
        /\ j3 \in Nat /\ j3 >= 1 /\ b + j3 <= a + 4 /\ b + j3 = a + 3
        /\ j4 \in Nat /\ j4 >= 1 /\ b + j4 <= a + 4 /\ b + j4 = a + 4
    BY <1>2, <2>1, <2>2
  <2>4. T(j1) = "KEY" \/ (T(j1) = "NO_TOKEN" /\ doc.cut >= 2)
    <3>1. T(j1) = s[b + j1].type \/ (T(j1) = "NO_TOKEN" /\ doc.cut >= 2)
      BY <1>8, <2>3
    <3> QED
      BY <1>3, <2>3, <3>1, TokenIs
  <2>5. (T(j2) = "SCALAR" /\ tokens[j2].scalar = pair.key) \/ (T(j2) = "NO_TOKEN" /\ doc.cut >= 2)
    <3>1. (tokens[j2] = s[b + j2] /\ T(j2) = s[b + j2].type) \/ (T(j2) = "NO_TOKEN" /\ doc.cut >= 2)
      BY <1>8, <2>3
    <3> QED
      BY <1>3, <2>3, <3>1, TokenIs
  <2>6. T(j3) = "VALUE" \/ (T(j3) = "NO_TOKEN" /\ doc.cut >= 2)
    <3>1. T(j3) = s[b + j3].type \/ (T(j3) = "NO_TOKEN" /\ doc.cut >= 2)
      BY <1>8, <2>3
    <3> QED
      BY <1>3, <2>3, <3>1, TokenIs
  <2>7. \/ tokens[j4] = s[a + 4] /\ T(j4) = s[a + 4].type
        \/ T(j4) = "NO_TOKEN" /\ doc.cut >= 2
    <3>1. (tokens[j4] = s[b + j4] /\ T(j4) = s[b + j4].type) \/ (T(j4) = "NO_TOKEN" /\ doc.cut >= 2)
      BY <1>8, <2>3
    <3> QED
      BY <2>3, <3>1
  <2>8. \/ T(j4) = "NO_TOKEN" /\ doc.cut >= 2
        \/ /\ pair.style \in {"none", "map"}
           /\ T(j4) \notin {"SCALAR", "BLOCK_SEQUENCE_START", "FLOW_SEQUENCE_START"}
        \/ pair.style = "scalar" /\ T(j4) = "SCALAR" /\ tokens[j4].scalar = pair.texts[1]
        \/ pair.style \in {"block", "flow"} /\ T(j4) \in {"BLOCK_SEQUENCE_START", "FLOW_SEQUENCE_START"}
    <3> SUFFICES ASSUME tokens[j4] = s[a + 4], T(j4) = s[a + 4].type
                 PROVE  \/ /\ pair.style \in {"none", "map"}
                           /\ T(j4) \notin {"SCALAR", "BLOCK_SEQUENCE_START", "FLOW_SEQUENCE_START"}
                        \/ pair.style = "scalar" /\ T(j4) = "SCALAR" /\ tokens[j4].scalar = pair.texts[1]
                        \/ /\ pair.style \in {"block", "flow"}
                           /\ T(j4) \in {"BLOCK_SEQUENCE_START", "FLOW_SEQUENCE_START"}
      BY <2>7
    <3>1. CASE pair.style = "none"
      <4>1. c + 1 = a + 4
        BY <1>2, <1>3, <3>1
      <4>2. T(j4) \in {"KEY", "FLOW_ENTRY", "BLOCK_END", "FLOW_MAPPING_END"}
        BY <1>4, <4>1, TokenIs
      <4> QED
        BY <3>1, <4>2
    <3>2. CASE pair.style = "map"
      BY <1>3, <3>2, TokenIs
    <3>3. CASE pair.style = "scalar"
      BY <1>3, <3>3, TokenIs
    <3>4. CASE pair.style \in {"block", "flow"}
      BY <1>3, <3>4, TokenIs
    <3> QED
      BY <1>7, <3>1, <3>2, <3>3, <3>4
  <2>9. CASE doc.cut >= 2 /\ (T(j1) = "NO_TOKEN" \/ T(j2) = "NO_TOKEN")
    BY <2>1, <2>2, <2>9 DEF PairCut
  <2>10. CASE T(j1) = "KEY" /\ T(j2) = "SCALAR" /\ tokens[j2].scalar = pair.key
    BY <1>1, <2>1, <2>2, <2>6, <2>8, <2>10 DEF pair, PairAhead
  <2> QED
    BY <2>4, <2>5, <2>9, <2>10
<1> QED
  BY <1>9, <1>10, <1>11

\* What a pair has to say of its option, and a section that is known.
PairGood(c, section, pair) ==
    LET opt == Find(c, section.name, pair.key)
        o   == c.options[opt]
    IN  /\ opt # 0
        /\ pair.style = "scalar" \/ (pair.style \in {"block", "flow"} /\ o.multivalued)
        /\ \A t \in 1 .. Len(pair.texts) : ScalarAccepted(o, pair.texts[t])

\* What the parser does with a pair.
PairEffect(section, pair, at, list) ==
    LET opt == Find(conf, section.name, pair.key)
        o   == conf.options[opt]
    IN  \/ yaml'.mode \in {"failed", "unknown"} /\ ~PairGood(conf, section, pair)
        \/ /\ pair.style = "scalar" /\ PairGood(conf, section, pair)
           /\ conf' = Put(conf, opt, FromScalar(Emptied(o), pair.texts[1]))
           /\ yaml' = yaml /\ Behind(doc', tokens', at)
        \/ /\ pair.style \in {"block", "flow"} /\ opt # 0 /\ o.multivalued
           /\ conf' = Put(conf, opt, Emptied(o))
           /\ yaml'.mode = "list" /\ yaml'.section = yaml.section /\ yaml'.opt = opt
           /\ Behind(doc', tokens', list)

LEMMA PairReads ==
    ASSUME doc \in Documents, doc' = doc, YamlTyped, Begun(doc), NEW k \in 1 .. Len(doc.sections),
           doc.sections[k].style \in {"block", "flow"}, NEW q \in 1 .. Len(doc.sections[k].pairs),
           At(PairPlaces(doc, k)[q - 1]), yaml.section = doc.sections[k].name, KeyValue
    PROVE  \/ yaml'.mode = "failed" /\ doc.cut >= 2
           \/ PairEffect(doc.sections[k], doc.sections[k].pairs[q], PairPlaces(doc, k)[q], TextPlaces(doc, k, q)[0])
<1> DEFINE section == doc.sections[k]
           pair == section.pairs[q]
           opt == Find(conf, section.name, pair.key)
           o == conf.options[opt]
<1>1. PICK sep : sep = IF T(1) = "FLOW_ENTRY" THEN 1 ELSE 0
  OBVIOUS
<1>2. PairCut(sep) \/ (PairAhead(pair, sep) /\ PairStart(doc, k, q) = PairPlaces(doc, k)[q - 1] + sep)
  BY <1>1, PairSeen
<1>3. PICK a, b, c : /\ a = PairStart(doc, k, q) /\ b = PairPlaces(doc, k)[q - 1]
                     /\ c = PairPlaces(doc, k)[q]
  OBVIOUS
<1>4. /\ pair \in SectionPairs /\ a \in Nat /\ b \in Nat /\ c \in Nat
      /\ pair.style = "scalar" => c = a + 4
      /\ pair.style \in {"block", "flow"} => TextPlaces(doc, k, q)[0] = a + 4
  <2>1. pair \in SectionPairs /\ a \in Nat /\ b \in Nat /\ c \in Nat
    <3>1. PairLies(doc, k, q, a, b, c)
      BY <1>3, PairPlaced
    <3> QED
      BY <3>1 DEF PairLies
  <2>2. pair.style = "scalar" => c = a + 4
    <3>1. PairText(doc, k, q, a, c)
      BY <1>3, PairRead
    <3> QED
      BY <3>1 DEF PairText
  <2>3. pair.style \in {"block", "flow"} => TextPlaces(doc, k, q)[0] = a + 4
    BY <1>3, TextsPlaced
  <2> QED
    BY <2>1, <2>2, <2>3
<1>5. At(b) /\ sep \in {0, 1} /\ yaml.section = section.name
  BY <1>1, <1>3
<1> HIDE DEF section, pair, opt
<1>6. T(1) \notin {"BLOCK_END", "FLOW_MAPPING_END"}
  BY <1>2 DEF PairCut, PairAhead
<1>7. CASE PairCut(sep)
  <2>1. ParseFails
    BY <1>1, <1>6, <1>7 DEF KeyValue, PairCut
  <2> QED
    BY <1>7, <2>1, GoneTo DEF PairCut
<1>8. CASE PairAhead(pair, sep) /\ a = b + sep
  <2>1. opt = Find(conf, yaml.section, tokens[sep + 2].scalar)
    BY <1>5, <1>8 DEF opt, PairAhead
  <2>2. IF opt = 0
        THEN Goto("unknown")
        ELSE IF \/ T(sep + 3) # "VALUE"
                \/ T(sep + 4) \notin {"SCALAR", "BLOCK_SEQUENCE_START", "FLOW_SEQUENCE_START"}
        THEN ParseFails
        ELSE IF T(sep + 4) = "SCALAR"
        THEN /\ conf' = Put(conf, opt, FromScalar(Emptied(o), tokens[sep + 4].scalar))
             /\ IF ScalarAccepted(o, tokens[sep + 4].scalar) THEN UNCHANGED yaml /\ Scanned(sep + 4)
                ELSE ParseFails
        ELSE /\ conf' = Put(conf, opt, Emptied(o))
             /\ IF o.multivalued
                THEN yaml' = [yaml EXCEPT !.mode = "list", !.opt = opt] /\ Scanned(sep + 4)
                ELSE ParseFails
    BY <1>1, <1>6, <1>8, <2>1 DEF KeyValue, Put, PairAhead
  <2>3. PairGood(conf, section, pair) <=>
            /\ opt # 0
            /\ pair.style = "scalar" \/ (pair.style \in {"block", "flow"} /\ o.multivalued)
            /\ \A t \in 1 .. Len(pair.texts) : ScalarAccepted(o, pair.texts[t])
    BY DEF PairGood, opt
  <2>4. PairEffect(section, pair, c, TextPlaces(doc, k, q)[0]) <=>
            \/ yaml'.mode \in {"failed", "unknown"} /\ ~PairGood(conf, section, pair)
            \/ /\ pair.style = "scalar" /\ PairGood(conf, section, pair)
               /\ conf' = Put(conf, opt, FromScalar(Emptied(o), pair.texts[1]))
               /\ yaml' = yaml /\ Behind(doc', tokens', c)
            \/ /\ pair.style \in {"block", "flow"} /\ opt # 0 /\ o.multivalued
               /\ conf' = Put(conf, opt, Emptied(o))
               /\ yaml'.mode = "list" /\ yaml'.section = yaml.section /\ yaml'.opt = opt
               /\ Behind(doc', tokens', TextPlaces(doc, k, q)[0])
    BY DEF PairEffect, opt
  <2> HIDE DEF o
  <2>5. ASSUME Scanned(sep + 4)
        PROVE  Behind(doc', tokens', a + 4)
    <3>1. PICK m, g : m = sep + 4 /\ g = a + 4
      OBVIOUS
    <3>2. m \in Nat /\ g = b + m
      BY <1>4, <1>5, <1>8, <3>1
    <3>3. Behind(doc', tokens', g)
      BY <1>4, <1>5, <2>5, <3>1, <3>2, ScannedOn
    <3> QED
      BY <3>1, <3>3
  <2>6. CASE opt = 0
    <3>1. yaml'.mode = "unknown" /\ ~PairGood(conf, section, pair)
      BY <2>2, <2>3, <2>6, GoneTo
    <3> QED
      BY <1>3, <2>4, <3>1 DEF section, pair
  <2>7. CASE opt # 0 /\ (\/ T(sep + 3) # "VALUE"
                         \/ T(sep + 4) \notin {"SCALAR", "BLOCK_SEQUENCE_START", "FLOW_SEQUENCE_START"})
    <3>1. yaml'.mode = "failed"
      BY <2>2, <2>7, GoneTo
    <3>2. doc.cut >= 2 \/ pair.style \in {"none", "map"}
      BY <1>8, <2>7 DEF PairAhead
    <3>3. doc.cut >= 2 \/ ~PairGood(conf, section, pair)
      BY <2>3, <3>2
    <3> QED
      BY <1>3, <2>4, <3>1, <3>3 DEF section, pair
  <2>8. CASE opt # 0 /\ T(sep + 3) = "VALUE" /\ T(sep + 4) = "SCALAR"
    <3>1. pair.style = "scalar" /\ tokens[sep + 4].scalar = pair.texts[1]
      BY <1>8, <2>8 DEF PairAhead
    <3>2. /\ conf' = Put(conf, opt, FromScalar(Emptied(o), pair.texts[1]))
          /\ IF ScalarAccepted(o, pair.texts[1]) THEN UNCHANGED yaml /\ Scanned(sep + 4) ELSE ParseFails
      BY <2>2, <2>8, <3>1
    <3>3. PairGood(conf, section, pair) <=> ScalarAccepted(o, pair.texts[1])
      <4>1. Len(pair.texts) = 1
        BY <1>4, <3>1, PairIs
      <4>2. \A t : t \in 1 .. 1 <=> t = 1
        OBVIOUS
      <4> QED
        BY <2>3, <2>8, <3>1, <4>1, <4>2
    <3>4. CASE ScalarAccepted(o, pair.texts[1])
      <4>1. yaml' = yaml /\ Behind(doc', tokens', c)
        BY <1>4, <2>5, <3>1, <3>2, <3>4
      <4> QED
        BY <1>3, <2>4, <3>1, <3>2, <3>3, <3>4, <4>1 DEF section, pair
    <3>5. CASE ~ScalarAccepted(o, pair.texts[1])
      <4>1. yaml'.mode = "failed"
        BY <3>2, <3>5, GoneTo
      <4> QED
        BY <1>3, <2>4, <3>3, <3>5, <4>1 DEF section, pair
    <3> QED
      BY <3>4, <3>5
  <2>9. CASE opt # 0 /\ T(sep + 3) = "VALUE" /\ T(sep + 4) \in {"BLOCK_SEQUENCE_START", "FLOW_SEQUENCE_START"}
    <3>1. pair.style \in {"block", "flow"}
      BY <1>8, <2>9 DEF PairAhead
    <3>2. /\ conf' = Put(conf, opt, Emptied(o))
          /\ IF o.multivalued THEN yaml' = [yaml EXCEPT !.mode = "list", !.opt = opt] /\ Scanned(sep + 4)
             ELSE ParseFails
      BY <2>2, <2>9
    <3>3. CASE o.multivalued
      <4>1. yaml'.mode = "list" /\ yaml'.section = yaml.section /\ yaml'.opt = opt
        <5>1. yaml = [mode |-> yaml.mode, section |-> yaml.section, opt |-> yaml.opt]
          BY DEF YamlTyped
        <5>2. yaml' = [yaml EXCEPT !.mode = "list", !.opt = opt]
          BY <3>2, <3>3
        <5> QED
          BY <5>1, <5>2
      <4>2. Behind(doc', tokens', TextPlaces(doc, k, q)[0])
        BY <1>4, <2>5, <3>1, <3>2, <3>3
      <4> QED
        BY <1>3, <2>4, <2>9, <3>1, <3>2, <3>3, <4>1, <4>2 DEF section, pair
    <3>4. CASE ~o.multivalued
      <4>1. yaml'.mode = "failed" /\ ~PairGood(conf, section, pair)
        BY <2>3, <3>1, <3>2, <3>4, GoneTo
      <4> QED
        BY <1>3, <2>4, <4>1 DEF section, pair
    <3> QED
      BY <3>3, <3>4
  <2> QED
    BY <2>6, <2>7, <2>8, <2>9
<1> QED
  BY <1>2, <1>3, <1>7, <1>8

\* Behind the last pair.
LEMMA PairsRead ==
    ASSUME doc \in Documents, doc' = doc, YamlTyped, Begun(doc), NEW k \in 1 .. Len(doc.sections),
           doc.sections[k].style \in {"block", "flow"}, NEW p, p = Len(doc.sections[k].pairs),
           At(PairPlaces(doc, k)[p]), KeyValue
    PROVE  \/ yaml'.mode = "failed" /\ doc.cut >= 2
           \/ yaml'.mode = "main" /\ conf' = conf /\ Behind(doc', tokens', SectionPlaces(doc)[k])
<1>1. PICK b, last : b = PairPlaces(doc, k)[p] /\ last = SectionPlaces(doc)[k]
  OBVIOUS
<1>2. /\ b \in Nat /\ b + 1 = last
      /\ Stream(doc)[b + 1] \in {Token("BLOCK_END"), Token("FLOW_MAPPING_END")}
  <2>1. p \in 0 .. Len(doc.sections[k].pairs)
    <3>1. Len(doc.sections[k].pairs) \in Nat
      <4>1. doc.sections[k] \in Sections
        BY DocumentIs
      <4> QED
        BY <4>1, SectionIs
    <3> QED
      BY <3>1
  <2>2. b + 1 = SectionPlaces(doc)[k] /\ b \in Nat
    BY <1>1, <2>1, PairFollowed
  <2> QED
    BY <1>1, <2>1, <2>2, PairFollowed
<1>3. PICK j \in Nat : j = 1
  OBVIOUS
<1>4. b + j <= Len(Stream(doc)) - 1 /\ j >= 1 /\ last = b + j
  <2>1. last <= Len(Stream(doc)) - 2 /\ Len(Stream(doc)) \in Nat
    BY <1>1, SectionPlaced, UptoIs
  <2> DEFINE m == Len(Stream(doc))
  <2> HIDE DEF m
  <2>2. b + j <= m - 1 /\ j >= 1 /\ last = b + j
    BY <1>2, <1>3, <2>1 DEF m
  <2> QED
    BY <2>2 DEF m
<1>5. At(b)
  BY <1>1
<1>6. T(1) \in {"BLOCK_END", "FLOW_MAPPING_END"} \/ (T(1) = "NO_TOKEN" /\ doc.cut >= 2)
  <2>1. T(j) = Stream(doc)[b + j].type \/ (T(j) = "NO_TOKEN" /\ doc.cut >= 2)
    BY <1>2, <1>4, <1>5, Seen
  <2> QED
    BY <1>2, <1>3, <2>1, TokenIs
<1>7. CASE T(1) = "NO_TOKEN" /\ doc.cut >= 2
  <2>1. ParseFails
    <3>1. T(0 + 1) # "KEY"
      BY <1>7
    <3> QED
      BY <1>7, <3>1 DEF KeyValue
  <2> QED
    BY <1>7, <2>1, GoneTo
<1>8. CASE T(1) \in {"BLOCK_END", "FLOW_MAPPING_END"}
  <2>1. Goto("main") /\ Scanned(1) /\ conf' = conf
    BY <1>8 DEF KeyValue
  <2>2. Behind(doc', tokens', last)
    <3>1. Scanned(j)
      BY <1>3, <2>1
    <3> QED
      BY <1>2, <1>4, <1>5, <3>1, ScannedOn
  <2> QED
    BY <1>1, <2>1, <2>2, GoneTo
<1> QED
  BY <1>6, <1>7, <1>8

\* What the parser does with an element of a list, or its end.
LEMMA TextReads ==
    ASSUME doc \in Documents, doc' = doc, YamlTyped, Begun(doc), NEW k \in 1 .. Len(doc.sections),
           doc.sections[k].style \in {"block", "flow"}, NEW q \in 1 .. Len(doc.sections[k].pairs),
           doc.sections[k].pairs[q].style \in {"block", "flow"},
           NEW t \in 0 .. Len(doc.sections[k].pairs[q].texts), At(TextPlaces(doc, k, q)[t]), ListItem
    PROVE  LET texts == doc.sections[k].pairs[q].texts
               o     == conf.options[yaml.opt]
           IN  \/ yaml'.mode = "failed" /\ doc.cut >= 2
               \/ /\ t = Len(texts) /\ yaml'.mode = "pairs" /\ yaml'.section = yaml.section /\ conf' = conf
                  /\ Behind(doc', tokens', PairPlaces(doc, k)[q])
               \/ /\ t + 1 \in 1 .. Len(texts)
                  /\ \/ yaml'.mode = "failed" /\ ~ScalarAccepted(o, texts[t + 1])
                     \/ /\ ScalarAccepted(o, texts[t + 1]) /\ yaml' = yaml
                        /\ conf' = Put(conf, yaml.opt, FromScalar(o, texts[t + 1]))
                        /\ Behind(doc', tokens', TextPlaces(doc, k, q)[t + 1])
<1> DEFINE pair == doc.sections[k].pairs[q]
           texts == pair.texts
           n == Len(texts)
           s == Stream(doc)
           o == conf.options[yaml.opt]
<1>1. PICK b, c, next, text : /\ b = TextPlaces(doc, k, q)[t] /\ c = PairPlaces(doc, k)[q]
                              /\ next = TextPlaces(doc, k, q)[t + 1] /\ text = texts[t + 1]
  OBVIOUS
<1>2. /\ b \in Nat
      /\ IF t = n
         THEN b + 1 = c /\ s[b + 1] \in {Token("BLOCK_END"), Token("FLOW_SEQUENCE_END")}
         ELSE /\ t + 1 \in 1 .. n /\ next \in Nat /\ next <= c - 1
              /\ \/ next = b + 1 /\ s[b + 1] = Scalar(text)
                 \/ next = b + 2 /\ s[b + 2] = Scalar(text) /\ s[b + 1] \in {Token("BLOCK_ENTRY"), Token("FLOW_ENTRY")}
  <2>1. b \in Nat /\ TextFollows(texts, s, t, b, next, c)
    BY <1>1, TextRead
  <2> HIDE DEF texts, s
  <2> QED
    BY <1>1, <2>1 DEF TextFollows
<1>3. c \in Nat /\ c <= Len(s) - 3 /\ Len(s) \in Nat
  <2>1. PICK a, f, last : a = PairStart(doc, k, q) /\ f = PairPlaces(doc, k)[q - 1] /\ last = SectionPlaces(doc)[k]
    OBVIOUS
  <2>2. c \in Nat /\ c <= last - 1
    <3>1. PairLies(doc, k, q, a, f, c)
      BY <1>1, <2>1, PairPlaced
    <3> QED
      BY <2>1, <3>1 DEF PairLies
  <2>3. Len(s) \in Nat
    BY UptoIs
  <2>4. last <= Len(s) - 2 /\ last \in Nat
    <3>1. PICK i : i = k - 1
      OBVIOUS
    <3>2. Len(doc.sections) \in Nat
      BY DocumentIs
    <3>3. k \in 0 .. Len(doc.sections)
      <4> DEFINE m == Len(doc.sections)
      <4>1. k \in 1 .. m
        OBVIOUS
      <4> HIDE DEF m
      <4>2. m \in Nat => k \in 0 .. m
        BY <4>1
      <4> QED
        BY <3>2, <4>2 DEF m
    <3> QED
      BY <2>1, <3>3, SectionsPlaced
  <2> HIDE DEF s
  <2> QED
    BY <2>2, <2>3, <2>4
<1>4. At(b)
  BY <1>1
<1> HIDE DEF pair, texts, n, s
<1>5. ASSUME NEW j \in Nat, j >= 1, b + j <= c
      PROVE  \/ tokens[j] = s[b + j] /\ T(j) = s[b + j].type
             \/ T(j) = "NO_TOKEN" /\ doc.cut >= 2
  <2>1. b + j <= Len(s) - 1
    BY <1>2, <1>3, <1>5
  <2> QED
    BY <1>2, <1>4, <1>5, <2>1, Seen DEF s
<1>6. b + 1 <= c
  <2>1. CASE t = n
    BY <1>2, <1>3, <2>1
  <2>2. CASE t # n
    BY <1>2, <1>3, <2>2
  <2> QED
    BY <2>1, <2>2
<1>7. PICK j1, j2 \in Nat : j1 = 1 /\ j2 = 2
  OBVIOUS
<1>8. (tokens[1] = s[b + 1] /\ T(1) = s[b + 1].type) \/ (T(1) = "NO_TOKEN" /\ doc.cut >= 2)
  <2>1. j1 >= 1 /\ b + j1 <= c /\ b + j1 = b + 1
    BY <1>6, <1>7
  <2>2. (tokens[j1] = s[b + j1] /\ T(j1) = s[b + j1].type) \/ (T(j1) = "NO_TOKEN" /\ doc.cut >= 2)
    BY <1>5, <2>1
  <2> QED
    BY <1>7, <2>1, <2>2
<1>9. ASSUME NEW m \in Nat, Scanned(m), NEW g, g = b + m
      PROVE  Behind(doc', tokens', g)
  BY <1>2, <1>4, <1>9, ScannedOn
<1>10. CASE T(1) = "NO_TOKEN" /\ doc.cut >= 2
  <2>1. T(0 + 1) # "SCALAR"
    BY <1>10
  <2>2. ParseFails
    BY <1>10, <2>1 DEF ListItem
  <2> QED
    BY <1>10, <2>2, GoneTo
<1>11. CASE t = n /\ T(1) = s[b + 1].type
  <2>1. T(1) \in {"BLOCK_END", "FLOW_SEQUENCE_END"}
    BY <1>2, <1>11, TokenIs
  <2>2. Goto("pairs") /\ Scanned(1) /\ conf' = conf
    BY <2>1 DEF ListItem
  <2>3. Behind(doc', tokens', c)
    <3>1. Scanned(j1) /\ c = b + j1
      BY <1>2, <1>7, <1>11, <2>2
    <3> QED
      BY <1>9, <3>1
  <2>4. yaml'.mode = "pairs" /\ yaml'.section = yaml.section
    BY <2>2, GoneTo
  <2> QED
    BY <1>1, <1>11, <2>2, <2>3, <2>4 DEF pair, texts, n
<1>12. CASE t # n /\ tokens[1] = s[b + 1] /\ T(1) = s[b + 1].type
  <2>1. PICK entry : entry = IF T(1) \in {"BLOCK_ENTRY", "FLOW_ENTRY"} THEN 1 ELSE 0
    OBVIOUS
  <2>2. /\ T(1) \in {"SCALAR", "BLOCK_ENTRY", "FLOW_ENTRY"} /\ entry \in {0, 1}
        /\ next = b + (entry + 1)
        /\ \/ T(entry + 1) = "SCALAR" /\ tokens[entry + 1].scalar = text
           \/ T(entry + 1) = "NO_TOKEN" /\ doc.cut >= 2
    <3>1. CASE next = b + 1 /\ s[b + 1] = Scalar(text)
      <4>1. T(1) = "SCALAR" /\ entry = 0 /\ tokens[1].scalar = text
        BY <1>12, <2>1, <3>1, TokenIs
      <4>2. entry + 1 = 1
        BY <4>1
      <4> QED
        BY <3>1, <4>1, <4>2
    <3>2. CASE next = b + 2 /\ s[b + 2] = Scalar(text) /\ s[b + 1] \in {Token("BLOCK_ENTRY"), Token("FLOW_ENTRY")}
      <4>1. T(1) \in {"BLOCK_ENTRY", "FLOW_ENTRY"} /\ entry = 1
        BY <1>12, <2>1, <3>2, TokenIs
      <4>2. j2 >= 1 /\ b + j2 <= c /\ b + j2 = b + 2 /\ entry + 1 = 2
        BY <1>2, <1>3, <1>7, <1>12, <3>2, <4>1
      <4>3. (tokens[j2] = s[b + j2] /\ T(j2) = s[b + j2].type) \/ (T(j2) = "NO_TOKEN" /\ doc.cut >= 2)
        BY <1>5, <4>2
      <4>4. (T(2) = "SCALAR" /\ tokens[2].scalar = text) \/ (T(2) = "NO_TOKEN" /\ doc.cut >= 2)
        BY <1>7, <3>2, <4>2, <4>3, TokenIs
      <4> QED
        BY <3>2, <4>1, <4>2, <4>4
    <3> QED
      BY <1>2, <1>12, <3>1, <3>2
  <2>3. T(1) \notin {"BLOCK_END", "FLOW_SEQUENCE_END"}
    BY <2>2
  <2>4. IF T(entry + 1) # "SCALAR" THEN ParseFails
        ELSE /\ conf' = Put(conf, yaml.opt, FromScalar(o, tokens[entry + 1].scalar))
             /\ IF ScalarAccepted(o, tokens[entry + 1].scalar) THEN UNCHANGED yaml /\ Scanned(entry + 1)
                ELSE ParseFails
    BY <2>1, <2>3 DEF ListItem, Put
  <2> HIDE DEF o
  <2>5. CASE T(entry + 1) = "NO_TOKEN" /\ doc.cut >= 2
    BY <2>4, <2>5, GoneTo
  <2>6. CASE T(entry + 1) = "SCALAR" /\ tokens[entry + 1].scalar = text
    <3>1. /\ conf' = Put(conf, yaml.opt, FromScalar(o, text))
          /\ IF ScalarAccepted(o, text) THEN UNCHANGED yaml /\ Scanned(entry + 1) ELSE ParseFails
      BY <2>4, <2>6
    <3>2. CASE ScalarAccepted(o, text)
      <4>1. Behind(doc', tokens', next)
        <5>1. PICK m : m = entry + 1
          OBVIOUS
        <5>2. m \in Nat /\ Scanned(m) /\ next = b + m
          BY <2>2, <3>1, <3>2, <5>1
        <5> QED
          BY <1>9, <5>2
      <4> QED
        BY <1>1, <1>2, <1>12, <3>1, <3>2, <4>1 DEF pair, texts, n, o
    <3>3. CASE ~ScalarAccepted(o, text)
      <4>1. yaml'.mode = "failed"
        BY <3>1, <3>3, GoneTo
      <4> QED
        BY <1>1, <1>2, <1>12, <3>3, <4>1 DEF pair, texts, n, o
    <3> QED
      BY <3>2, <3>3
  <2> QED
    BY <2>2, <2>5, <2>6
<1> QED
  BY <1>8, <1>10, <1>11, <1>12

-----------------------------------------------------------------------------
(* What is said of a document and stays true of it.                        *)

KnownIn(c, section) == Section(c, section.name) # {}

SectionGood(c, section) ==
    KnownIn(c, section) =>
        /\ section.style \in {"block", "flow"}
        /\ \A p \in 1 .. Len(section.pairs) : PairGood(c, section, section.pairs[p])

\* The first k sections of a document, and the document.
Good(c, d, k) == \A j \in 1 .. k : SectionGood(c, d.sections[j])
AllGood(c, d) == Begun(d) /\ d.cut <= 1 /\ Good(c, d, Len(d.sections))

\* Faultless and Plain, of any configuration.
PairFaultless(c, section, pair) ==
    LET opt == Find(c, section.name, pair.key)
        o   == c.options[opt]
    IN  /\ opt # 0
        /\ \/ pair.style = "scalar"
           \/ pair.style \in {"block", "flow"} /\ o.multivalued
        /\ \A text \in ToSet(pair.texts) : ScalarAccepted(o, text)
SectionFaultless(c, section) ==
    KnownIn(c, section) =>
        /\ section.style \in {"block", "flow"}
        /\ \A pair \in ToSet(section.pairs) : PairFaultless(c, section, pair)
FaultlessIn(c, d) ==
    /\ d.explicit /\ d.sections # <<>> /\ d.cut <= 1
    /\ \A section \in ToSet(d.sections) : SectionFaultless(c, section)

PlainIn(c, d) ==
    \A section \in ToSet(d.sections) :
        KnownIn(c, section) \/ /\ section.style = "block"
                               /\ \A pair \in ToSet(section.pairs) : pair.style \notin {"block", "map"}

LEMMA Elements ==
    ASSUME NEW s, DOMAIN s = 1 .. Len(s)
    PROVE  \A x : x \in ToSet(s) <=> \E i \in 1 .. Len(s) : x = s[i]
BY DEF ToSet

LEMMA FaultlessIs ==
    ASSUME NEW c, NEW d \in Documents
    PROVE  /\ FaultlessIn(c, d) <=> AllGood(c, d)
           /\ PlainIn(c, d) <=> \A k \in 1 .. Len(d.sections) : KnownIn(c, d.sections[k]) \/ PlainBlock(d.sections[k])
<1>1. /\ DOMAIN d.sections = 1 .. Len(d.sections)
      /\ \A k \in 1 .. Len(d.sections) : d.sections[k] \in Sections
  BY DocumentIs
<1>2. ASSUME NEW k \in 1 .. Len(d.sections), NEW section, section = d.sections[k]
      PROVE  /\ DOMAIN section.pairs = 1 .. Len(section.pairs)
             /\ \A p \in 1 .. Len(section.pairs) : section.pairs[p] \in SectionPairs
  BY <1>1, <1>2, SectionIs
<1>3. ASSUME NEW section, NEW pair \in SectionPairs
      PROVE  PairGood(c, section, pair) <=> PairFaultless(c, section, pair)
  <2>1. DOMAIN pair.texts = 1 .. Len(pair.texts)
    BY PairIs
  <2>2. \A x : x \in ToSet(pair.texts) <=> \E i \in 1 .. Len(pair.texts) : x = pair.texts[i]
    BY <2>1, Elements
  <2> QED
    BY <2>2 DEF PairGood, PairFaultless
<1>4. ASSUME NEW k \in 1 .. Len(d.sections), NEW section, section = d.sections[k]
      PROVE  SectionGood(c, section) <=> SectionFaultless(c, section)
  <2>1. \A x : x \in ToSet(section.pairs) <=> \E i \in 1 .. Len(section.pairs) : x = section.pairs[i]
    BY <1>2, <1>4, Elements
  <2>2. \A p \in 1 .. Len(section.pairs) : section.pairs[p] \in SectionPairs
    BY <1>2, <1>4
  <2>3. (\A p \in 1 .. Len(section.pairs) : PairGood(c, section, section.pairs[p])) <=>
            \A pair \in ToSet(section.pairs) : PairGood(c, section, pair)
    BY <2>1
  <2>4. \A pair \in ToSet(section.pairs) : pair \in SectionPairs
    BY <2>1, <2>2
  <2>5. (\A pair \in ToSet(section.pairs) : PairGood(c, section, pair)) <=>
            \A pair \in ToSet(section.pairs) : PairFaultless(c, section, pair)
    BY <1>3, <2>4
  <2> QED
    BY <2>3, <2>5 DEF SectionGood, SectionFaultless
<1>5. \A x : x \in ToSet(d.sections) <=> \E i \in 1 .. Len(d.sections) : x = d.sections[i]
  BY <1>1, Elements
<1>6. FaultlessIn(c, d) <=> AllGood(c, d)
  <2>1. (\A k \in 1 .. Len(d.sections) : SectionGood(c, d.sections[k])) <=>
            \A section \in ToSet(d.sections) : SectionFaultless(c, section)
    BY <1>4, <1>5
  <2> QED
    BY <2>1 DEF FaultlessIn, AllGood, Good, Begun
<1>7. PlainIn(c, d) <=> \A k \in 1 .. Len(d.sections) : KnownIn(c, d.sections[k]) \/ PlainBlock(d.sections[k])
  <2>1. ASSUME NEW k \in 1 .. Len(d.sections), NEW section, section = d.sections[k]
        PROVE  PlainBlock(section) <=>
                    /\ section.style = "block"
                    /\ \A pair \in ToSet(section.pairs) : pair.style \notin {"block", "map"}
    <3>1. \A x : x \in ToSet(section.pairs) <=> \E i \in 1 .. Len(section.pairs) : x = section.pairs[i]
      BY <1>2, <2>1, Elements
    <3> QED
      BY <3>1 DEF PlainBlock
  <2> QED
    BY <1>5, <2>1 DEF PlainIn
<1> QED
  BY <1>6, <1>7

LEMMA SaysTheSame ==
    /\ \A section : Known(section) <=> KnownIn(conf, section)
    /\ \A d : (Faultless(d) <=> FaultlessIn(conf, d)) /\ (Plain(d) <=> PlainIn(conf, d))
BY DEF Known, KnownIn, Faultless, FaultlessIn, SectionFaultless, PairFaultless, Plain, PlainIn

\* All of it stays the same while only values change.
Stays(new, c) ==
    /\ Kept(new, c)
    /\ \A o \in DOMAIN c.options : new.options[o].no_override = c.options[o].no_override

LEMMA AcceptedSame ==
    ASSUME NEW x, NEW o, SameButValues(x, o), x.no_override = o.no_override, NEW text
    PROVE  /\ Valid(x, text) <=> Valid(o, text)
           /\ ScalarAccepted(x, text) <=> ScalarAccepted(o, text)
BY DEF SameButValues, Valid, ScalarAccepted

LEMMA GoodSame ==
    ASSUME NEW c, NEW new, Well(c), Stays(new, c)
    PROVE  /\ \A section : KnownIn(new, section) <=> KnownIn(c, section)
           /\ \A section, pair : PairGood(new, section, pair) <=> PairGood(c, section, pair)
           /\ \A d, k : Good(new, d, k) <=> Good(c, d, k)
           /\ \A d : AllGood(new, d) <=> AllGood(c, d)
           /\ \A d : PlainIn(new, d) <=> PlainIn(c, d)
<1>1. /\ DOMAIN new.options = DOMAIN c.options
      /\ \A i \in DOMAIN c.options : /\ SameButValues(new.options[i], c.options[i])
                                     /\ new.options[i].no_override = c.options[i].no_override
  BY DEF Stays, Kept
<1>2. \A name : Section(new, name) = Section(c, name)
  BY <1>1 DEF Section, SameButValues
<1>3. \A section : KnownIn(new, section) <=> KnownIn(c, section)
  BY <1>2 DEF KnownIn
<1>4. ASSUME NEW section, NEW pair
      PROVE  PairGood(new, section, pair) <=> PairGood(c, section, pair)
  <2> DEFINE i == Find(c, section.name, pair.key)
  <2>1. Find(new, section.name, pair.key) = i
    BY FindKept DEF Stays
  <2>2. i # 0 => i \in DOMAIN c.options
    BY FindIs
  <2> HIDE DEF i
  <2>3. i # 0 => /\ new.options[i].multivalued = c.options[i].multivalued
                 /\ \A text : ScalarAccepted(new.options[i], text) <=> ScalarAccepted(c.options[i], text)
    <3>1. i # 0 => /\ SameButValues(new.options[i], c.options[i])
                   /\ new.options[i].no_override = c.options[i].no_override
      BY <1>1, <2>2
    <3> QED
      BY <3>1, AcceptedSame DEF SameButValues
  <2>4. /\ PairGood(new, section, pair) <=>
            /\ i # 0
            /\ \/ pair.style = "scalar"
               \/ pair.style \in {"block", "flow"} /\ new.options[i].multivalued
            /\ \A t \in 1 .. Len(pair.texts) : ScalarAccepted(new.options[i], pair.texts[t])
        /\ PairGood(c, section, pair) <=>
            /\ i # 0
            /\ \/ pair.style = "scalar"
               \/ pair.style \in {"block", "flow"} /\ c.options[i].multivalued
            /\ \A t \in 1 .. Len(pair.texts) : ScalarAccepted(c.options[i], pair.texts[t])
    <3>1. i = Find(c, section.name, pair.key)
      BY DEF i
    <3> QED
      BY <2>1, <3>1 DEF PairGood
  <2> QED
    BY <2>3, <2>4
<1>5. \A section : SectionGood(new, section) <=> SectionGood(c, section)
  BY <1>3, <1>4 DEF SectionGood
<1>6. \A d, k : Good(new, d, k) <=> Good(c, d, k)
  BY <1>5 DEF Good
<1>7. \A d : AllGood(new, d) <=> AllGood(c, d)
  BY <1>6 DEF AllGood
<1>8. \A d : PlainIn(new, d) <=> PlainIn(c, d)
  BY <1>3 DEF PlainIn
<1> QED
  BY <1>3, <1>4, <1>6, <1>7, <1>8

\* A step of the parser is such a change.
LEMMA ParserKeeps ==
    ASSUME Well(conf), config_parse_main
    PROVE  /\ Well(conf') /\ Stays(conf', conf)
           /\ \A o \in DOMAIN conf.options : conf.options[o].no_override => conf'.options[o] = conf.options[o]
<1>1. CASE UNCHANGED conf
  BY <1>1 DEF Stays, Kept, SameButValues
<1>2. CASE \E o \in DOMAIN conf.options : \E x :
                FileChanges(x, conf.options[o]) /\ conf' = Put(conf, o, x)
  <2>1. PICK o \in DOMAIN conf.options : \E x : FileChanges(x, conf.options[o]) /\ conf' = Put(conf, o, x)
    BY <1>2
  <2>0. PICK x : FileChanges(x, conf.options[o]) /\ conf' = Put(conf, o, x)
    BY <2>1
  <2>2. /\ Well(conf') /\ DOMAIN conf'.options = DOMAIN conf.options
        /\ \A j \in DOMAIN conf.options : conf'.options[j] = IF j = o THEN x ELSE conf.options[j]
    BY <2>0, OptionChanged DEF FileChanges
  <2>3. \A j \in DOMAIN conf.options : SameButValues(conf.options[j], conf.options[j])
    BY DEF SameButValues
  <2> QED
    BY <2>0, <2>2, <2>3 DEF Stays, Kept, FileChanges
<1> QED
  BY <1>1, <1>2, ParserChanges

-----------------------------------------------------------------------------
(* Where the parser is in a document, and what it has found of it so far.  *)

AtSection(k) ==
    /\ Begun(doc) /\ k \in 0 .. Len(doc.sections)
    /\ At(SectionPlaces(doc)[k]) /\ Good(conf, doc, k)

InUnknown(k) ==
    /\ Begun(doc) /\ k \in 1 .. Len(doc.sections)
    /\ ~KnownIn(conf, doc.sections[k]) /\ Good(conf, doc, k - 1)
    /\ \E h \in SectionPlaces(doc)[k - 1] + 2 .. SectionPlaces(doc)[k] - 1 : At(h)

InKnown(k, p) ==
    LET section == doc.sections[k]
    IN  /\ Begun(doc) /\ k \in 1 .. Len(doc.sections)
        /\ KnownIn(conf, section) /\ section.style \in {"block", "flow"} /\ yaml.section = section.name
        /\ Good(conf, doc, k - 1) /\ \A j \in 1 .. p : PairGood(conf, section, section.pairs[j])

AtPair(k, p) ==
    InKnown(k, p) /\ p \in 0 .. Len(doc.sections[k].pairs) /\ At(PairPlaces(doc, k)[p])

AtText(k, p, t) ==
    LET section == doc.sections[k]
        pair    == section.pairs[p]
        o       == conf.options[yaml.opt]
    IN  /\ InKnown(k, p - 1) /\ p \in 1 .. Len(section.pairs)
        /\ pair.style \in {"block", "flow"}
        /\ yaml.opt = Find(conf, section.name, pair.key) /\ yaml.opt # 0 /\ o.multivalued
        /\ t \in 0 .. Len(pair.texts) /\ \A j \in 1 .. t : ScalarAccepted(o, pair.texts[j])
        /\ At(TextPlaces(doc, k, p)[t])

\* A step that leaves the configuration as it is, but for values.
Parses == /\ Well(conf) /\ doc \in Documents /\ doc' = doc /\ YamlTyped
          /\ Plain(doc) /\ Well(conf') /\ Stays(conf', conf)

LEMMA ParsesSame ==
    ASSUME Parses
    PROVE  /\ \A section : KnownIn(conf', section) <=> KnownIn(conf, section)
           /\ \A section, pair : PairGood(conf', section, pair) <=> PairGood(conf, section, pair)
           /\ \A k : Good(conf', doc', k) <=> Good(conf, doc, k)
           /\ AllGood(conf', doc') <=> AllGood(conf, doc)
BY GoodSame DEF Parses

\* One section more, one pair more.
LEMMA GoodNext ==
    ASSUME NEW c, NEW d \in Documents, NEW k \in 1 .. Len(d.sections), Good(c, d, k - 1), SectionGood(c, d.sections[k])
    PROVE  Good(c, d, k)
<1>1. k \in Nat /\ \A j \in 1 .. k : j \in 1 .. k - 1 \/ j = k
  <2>1. Len(d.sections) \in Nat
    BY DocumentIs
  <2> QED
    BY <2>1
<1> QED
  BY <1>1 DEF Good

LEMMA BadSection ==
    ASSUME NEW c, NEW d \in Documents, NEW k \in 1 .. Len(d.sections), ~SectionGood(c, d.sections[k])
    PROVE  ~AllGood(c, d)
BY DEF AllGood, Good

LEMMA InitMoves ==
    ASSUME Parses, At(0), ParseInit
    PROVE  \/ yaml'.mode = "failed" /\ ~AllGood(conf, doc)
           \/ yaml'.mode = "main" /\ conf' = conf /\ AtSection(0)'
<1>1. doc \in Documents /\ doc' = doc /\ YamlTyped
  BY DEF Parses
<1>2. CASE Begun(doc) /\ yaml'.mode = "main" /\ Behind(doc', tokens', SectionPlaces(doc)[0])
  <2>1. 0 \in 0 .. Len(doc'.sections)
    BY <1>1, DocumentIs
  <2>2. Good(conf', doc', 0)
    BY DEF Good
  <2>3. AtSection(0)'
    BY <1>1, <1>2, <2>1, <2>2 DEF AtSection, At
  <2>4. conf' = conf
    BY DEF ParseInit
  <2> QED
    BY <1>2, <2>3, <2>4
<1>3. CASE yaml'.mode = "failed" /\ (doc.cut >= 2 \/ ~Begun(doc))
  <2>1. doc.cut \in Nat
    BY <1>1, DocumentIs
  <2>2. doc.cut >= 2 => ~(doc.cut <= 1)
    BY <2>1
  <2> QED
    BY <1>3, <2>2 DEF AllGood
<1> QED
  BY <1>1, <1>2, <1>3, InitReads

LEMMA CutBad ==
    ASSUME NEW d \in Documents, d.cut >= 2, NEW c
    PROVE  ~AllGood(c, d)
<1>1. d.cut \in Nat
  BY DocumentIs
<1>2. ~(d.cut <= 1)
  BY <1>1
<1> QED
  BY <1>2 DEF AllGood

LEMMA SectionMoves ==
    ASSUME Parses, NEW k, AtSection(k), ParseSection
    PROVE  \/ yaml'.mode = "failed" /\ ~AllGood(conf, doc)
           \/ yaml'.mode = "done" /\ conf' = conf /\ AllGood(conf, doc) /\ k = Len(doc.sections)
           \/ yaml'.mode = "skip" /\ conf' = conf /\ k = (k + 1) - 1 /\ InUnknown(k + 1)'
           \/ yaml'.mode = "pairs" /\ conf' = conf /\ k = (k + 1) - 1 /\ AtPair(k + 1, 0)'
<1>1. doc \in Documents /\ doc' = doc /\ YamlTyped /\ Plain(doc)
  BY DEF Parses
<1>2. Begun(doc) /\ k \in 0 .. Len(doc.sections) /\ At(SectionPlaces(doc)[k]) /\ Good(conf, doc, k)
  BY DEF AtSection
<1>3. conf' = conf
  BY DEF ParseSection
<1>4. CASE yaml'.mode = "failed" /\ doc.cut >= 2
  BY <1>1, <1>4, CutBad
<1>5. CASE yaml'.mode = "done" /\ doc.cut <= 1 /\ k = Len(doc.sections)
  BY <1>2, <1>3, <1>5 DEF AllGood
<1>6. CASE /\ k + 1 \in 1 .. Len(doc.sections) /\ k = (k + 1) - 1
           /\ ~Known(doc.sections[k + 1]) /\ yaml'.mode = "skip"
           /\ \E h \in SectionPlaces(doc)[k] + 2 .. SectionPlaces(doc)[k + 1] - 1 : Behind(doc', tokens', h)
  <2>1. PICK j : j = k + 1
    OBVIOUS
  <2>2. j \in 1 .. Len(doc.sections) /\ k = j - 1 /\ ~KnownIn(conf, doc.sections[j])
    BY <1>6, <2>1, SaysTheSame
  <2>3. \E h \in SectionPlaces(doc)[j - 1] + 2 .. SectionPlaces(doc)[j] - 1 : Behind(doc', tokens', h)
    BY <1>6, <2>1, <2>2
  <2>4. Good(conf, doc, j - 1)
    BY <1>2, <2>2
  <2>5. InUnknown(j)'
    BY <1>1, <1>2, <1>3, <2>2, <2>3, <2>4 DEF InUnknown, At
  <2> QED
    BY <1>3, <1>6, <2>1, <2>5
<1>7. CASE /\ k + 1 \in 1 .. Len(doc.sections)
           /\ Known(doc.sections[k + 1]) /\ yaml'.mode = "failed" /\ doc.sections[k + 1].style \notin {"block", "flow"}
  <2>1. ~SectionGood(conf, doc.sections[k + 1])
    BY <1>7, SaysTheSame DEF SectionGood
  <2> QED
    BY <1>1, <1>7, <2>1, BadSection
<1>8. CASE /\ k + 1 \in 1 .. Len(doc.sections) /\ k = (k + 1) - 1
           /\ Known(doc.sections[k + 1]) /\ doc.sections[k + 1].style \in {"block", "flow"}
           /\ yaml'.mode = "pairs" /\ yaml'.section = doc.sections[k + 1].name
           /\ Behind(doc', tokens', PairPlaces(doc, k + 1)[0])
  <2>1. PICK j : j = k + 1
    OBVIOUS
  <2>2. j \in 1 .. Len(doc.sections) /\ k = j - 1 /\ KnownIn(conf, doc.sections[j])
        /\ doc.sections[j].style \in {"block", "flow"} /\ yaml'.section = doc.sections[j].name
        /\ Behind(doc', tokens', PairPlaces(doc, j)[0])
    BY <1>8, <2>1, SaysTheSame
  <2>3. Good(conf, doc, j - 1)
    BY <1>2, <2>2
  <2>4. 0 \in 0 .. Len(doc.sections[j].pairs)
    <3>1. doc.sections[j] \in Sections
      BY <1>1, <2>2, DocumentIs
    <3>2. Len(doc.sections[j].pairs) \in Nat
      BY <3>1, SectionIs
    <3> QED
      BY <3>2
  <2>5. InKnown(j, 0)'
    BY <1>1, <1>2, <1>3, <2>2, <2>3 DEF InKnown
  <2>6. AtPair(j, 0)'
    BY <1>1, <2>2, <2>4, <2>5 DEF AtPair, At
  <2> QED
    BY <1>3, <1>8, <2>1, <2>6
<1> QED
  BY <1>1, <1>2, <1>4, <1>5, <1>6, <1>7, <1>8, SectionReads

LEMMA SkipMoves ==
    ASSUME Parses, NEW k, InUnknown(k), SkipSection
    PROVE  \/ yaml'.mode = "main" /\ conf' = conf /\ AtSection(k)'
           \/ yaml'.mode = "skip" /\ conf' = conf /\ InUnknown(k)'
<1>1. doc \in Documents /\ doc' = doc /\ YamlTyped /\ Plain(doc)
  BY DEF Parses
<1>2. /\ Begun(doc) /\ k \in 1 .. Len(doc.sections)
      /\ ~KnownIn(conf, doc.sections[k]) /\ Good(conf, doc, k - 1)
  BY DEF InUnknown
<1>3. PICK h \in SectionPlaces(doc)[k - 1] + 2 .. SectionPlaces(doc)[k] - 1 : At(h)
  BY DEF InUnknown
<1>4. conf' = conf
  BY DEF SkipSection
<1>5. PlainBlock(doc.sections[k])
  BY <1>1, <1>2, FaultlessIs, SaysTheSame
<1>6. CASE yaml'.mode = "main" /\ Behind(doc', tokens', SectionPlaces(doc)[k])
  <2>1. SectionGood(conf, doc.sections[k])
    BY <1>2 DEF SectionGood
  <2>2. Good(conf, doc, k)
    BY <1>1, <1>2, <2>1, GoodNext
  <2>3. k \in 0 .. Len(doc.sections)
    BY <1>1, <1>2, DocumentIs
  <2>4. AtSection(k)'
    BY <1>1, <1>2, <1>4, <1>6, <2>2, <2>3 DEF AtSection, At
  <2> QED
    BY <1>4, <1>6, <2>4
<1>7. CASE /\ yaml'.mode = "skip"
           /\ \E g \in SectionPlaces(doc)[k - 1] + 2 .. SectionPlaces(doc)[k] - 1 : Behind(doc', tokens', g)
  <2>1. InUnknown(k)'
    BY <1>1, <1>2, <1>4, <1>7 DEF InUnknown, At
  <2> QED
    BY <1>4, <1>7, <2>1
<1> QED
  BY <1>1, <1>2, <1>3, <1>5, <1>6, <1>7, SkipReads

\* A pair that is not good makes its section, and its document, bad.
LEMMA BadPair ==
    ASSUME NEW c, NEW d \in Documents, NEW k \in 1 .. Len(d.sections), KnownIn(c, d.sections[k]),
           NEW q \in 1 .. Len(d.sections[k].pairs), ~PairGood(c, d.sections[k], d.sections[k].pairs[q])
    PROVE  ~AllGood(c, d)
<1>1. ~SectionGood(c, d.sections[k])
  BY DEF SectionGood
<1> QED
  BY <1>1, BadSection

\* The values of the pair behind place p.
PairMoves(k, p) ==
    LET section == doc.sections[k]
        q       == p + 1
        pair    == section.pairs[q]
        opt     == Find(conf, section.name, pair.key)
        o       == conf.options[opt]
    IN  /\ q \in 1 .. Len(section.pairs) /\ q - 1 = p /\ opt # 0
        /\ \/ /\ pair.style = "scalar" /\ yaml' = yaml
              /\ conf' = Put(conf, opt, FromScalar(Emptied(o), pair.texts[1])) /\ AtPair(k, q)'
           \/ /\ pair.style \in {"block", "flow"} /\ yaml'.mode = "list" /\ o.multivalued
              /\ conf' = Put(conf, opt, Emptied(o)) /\ AtText(k, q, 0)'

LEMMA KeyValueMoves ==
    ASSUME Parses, NEW k, NEW p, AtPair(k, p), KeyValue, yaml.mode = "pairs"
    PROVE  \/ yaml'.mode \in {"failed", "unknown"} /\ ~AllGood(conf, doc)
           \/ yaml'.mode = "main" /\ conf' = conf /\ p = Len(doc.sections[k].pairs) /\ AtSection(k)'
           \/ PairMoves(k, p)
<1> DEFINE section == doc.sections[k]
           q == p + 1
           pair == section.pairs[q]
<1>1. doc \in Documents /\ doc' = doc /\ YamlTyped /\ Plain(doc)
  BY DEF Parses
<1>2. /\ InKnown(k, p) /\ p \in 0 .. Len(section.pairs) /\ At(PairPlaces(doc, k)[p])
      /\ Begun(doc) /\ k \in 1 .. Len(doc.sections)
      /\ KnownIn(conf, section) /\ section.style \in {"block", "flow"} /\ yaml.section = section.name
      /\ Good(conf, doc, k - 1) /\ \A j \in 1 .. p : PairGood(conf, section, section.pairs[j])
  BY DEF AtPair, InKnown
<1>3. section \in Sections /\ Len(section.pairs) \in Nat
  <2>1. section \in Sections
    BY <1>1, <1>2, DocumentIs
  <2> QED
    BY <2>1, SectionIs
<1>4. CASE p = Len(section.pairs)
  <2>1. CASE yaml'.mode = "failed" /\ doc.cut >= 2
    BY <1>1, <2>1, CutBad
  <2>2. CASE yaml'.mode = "main" /\ conf' = conf /\ Behind(doc', tokens', SectionPlaces(doc)[k])
    <3>1. SectionGood(conf, section)
      BY <1>2, <1>4 DEF SectionGood
    <3>2. Good(conf, doc, k)
      BY <1>1, <1>2, <3>1, GoodNext
    <3>3. k \in 0 .. Len(doc.sections)
      BY <1>1, <1>2, DocumentIs
    <3>4. AtSection(k)'
      BY <1>1, <1>2, <2>2, <3>2, <3>3 DEF AtSection, At
    <3> QED
      BY <1>4, <2>2, <3>4
  <2> QED
    BY <1>1, <1>2, <1>4, <2>1, <2>2, PairsRead
<1>5. CASE p # Len(section.pairs)
  <2>1. q \in 1 .. Len(section.pairs) /\ q - 1 = p /\ q \in 0 .. Len(section.pairs)
        /\ \A j \in 1 .. q : j \in 1 .. p \/ j = q
    <3>1. p \in 0 .. Len(section.pairs)
      BY <1>2
    <3> HIDE DEF section
    <3> QED
      BY <1>3, <1>5, <3>1
  <2>2. pair \in SectionPairs
    BY <1>3, <2>1, SectionIs
  <2> HIDE DEF q
  <2>3. CASE yaml'.mode = "failed" /\ doc.cut >= 2
    BY <1>1, <2>3, CutBad
  <2>4. CASE PairEffect(section, pair, PairPlaces(doc, k)[q], TextPlaces(doc, k, q)[0])
    <3> DEFINE opt == Find(conf, section.name, pair.key)
               o == conf.options[opt]
    <3>1. CASE yaml'.mode \in {"failed", "unknown"} /\ ~PairGood(conf, section, pair)
      BY <1>1, <1>2, <2>1, <3>1, BadPair
    <3>2. CASE /\ pair.style = "scalar" /\ PairGood(conf, section, pair)
               /\ conf' = Put(conf, opt, FromScalar(Emptied(o), pair.texts[1]))
               /\ yaml' = yaml /\ Behind(doc', tokens', PairPlaces(doc, k)[q])
      <4>1. \A j \in 1 .. q : PairGood(conf', section, section.pairs[j])
        BY <1>2, <2>1, <3>2, ParsesSame
      <4>2. KnownIn(conf', section) /\ Good(conf', doc', k - 1)
        BY <1>2, ParsesSame
      <4>3. InKnown(k, q)'
        BY <1>1, <1>2, <3>2, <4>1, <4>2 DEF InKnown
      <4>4. AtPair(k, q)'
        BY <1>1, <2>1, <3>2, <4>3 DEF AtPair, At
      <4>5. opt # 0
        BY <3>2 DEF PairGood
      <4>6. PairMoves(k, p)
        BY <2>1, <3>2, <4>4, <4>5 DEF PairMoves, q
      <4> QED
        BY <4>6
    <3>3. CASE /\ pair.style \in {"block", "flow"} /\ opt # 0 /\ o.multivalued
               /\ conf' = Put(conf, opt, Emptied(o))
               /\ yaml'.mode = "list" /\ yaml'.section = yaml.section /\ yaml'.opt = opt
               /\ Behind(doc', tokens', TextPlaces(doc, k, q)[0])
      <4>1. \A j \in 1 .. q - 1 : PairGood(conf', section, section.pairs[j])
        BY <1>2, <2>1, ParsesSame
      <4>2. KnownIn(conf', section) /\ Good(conf', doc', k - 1)
        BY <1>2, ParsesSame
      <4>3. InKnown(k, q - 1)'
        BY <1>1, <1>2, <3>3, <4>1, <4>2 DEF InKnown
      <4>4. Find(conf', section.name, pair.key) = opt /\ conf'.options[opt].multivalued
        <5>1. Kept(conf', conf) /\ opt \in DOMAIN conf.options
          BY <3>3, FindIs DEF Parses, Stays
        <5>2. Find(conf', section.name, pair.key) = opt
          BY <5>1, FindKept
        <5>3. SameButValues(conf'.options[opt], conf.options[opt])
          BY <5>1 DEF Kept
        <5>4. conf.options[opt].multivalued
          BY <3>3
        <5> HIDE DEF opt
        <5>5. conf'.options[opt].multivalued
          BY <5>3, <5>4 DEF SameButValues
        <5> QED
          BY <5>2, <5>5
      <4>5. 0 \in 0 .. Len(pair.texts) /\ \A j \in 1 .. 0 : ScalarAccepted(conf'.options[opt], pair.texts[j])
        <5>1. Len(pair.texts) \in Nat
          BY <2>2, PairIs
        <5> HIDE DEF pair
        <5> QED
          BY <5>1
      <4>6. AtText(k, q, 0)'
        BY <1>1, <2>1, <3>3, <4>3, <4>4, <4>5 DEF AtText, At
      <4>7. PairMoves(k, p)
        BY <2>1, <3>3, <4>6 DEF PairMoves, q
      <4> QED
        BY <4>7
    <3> QED
      BY <2>4, <3>1, <3>2, <3>3 DEF PairEffect
  <2>5. At(PairPlaces(doc, k)[q - 1])
    BY <1>2, <2>1
  <2> QED
    BY <1>1, <1>2, <2>1, <2>3, <2>4, <2>5, PairReads
<1> QED
  BY <1>4, <1>5

\* The text behind place t of a list.
TextMoves(k, p, t) ==
    LET text == doc.sections[k].pairs[p].texts[t + 1]
        o    == conf.options[yaml.opt]
    IN  /\ t + 1 \in 1 .. Len(doc.sections[k].pairs[p].texts) /\ (t + 1) - 1 = t
        /\ ScalarAccepted(o, text) /\ yaml' = yaml
        /\ conf' = Put(conf, yaml.opt, FromScalar(o, text)) /\ AtText(k, p, t + 1)'

LEMMA ListItemMoves ==
    ASSUME Parses, NEW k, NEW p, NEW t, AtText(k, p, t), ListItem
    PROVE  \/ yaml'.mode = "failed" /\ ~AllGood(conf, doc)
           \/ /\ yaml'.mode = "pairs" /\ conf' = conf /\ t = Len(doc.sections[k].pairs[p].texts)
              /\ AtPair(k, p)'
           \/ TextMoves(k, p, t)
<1> DEFINE section == doc.sections[k]
           pair == section.pairs[p]
           texts == pair.texts
           o == conf.options[yaml.opt]
<1>1. doc \in Documents /\ doc' = doc /\ YamlTyped /\ Plain(doc)
  BY DEF Parses
<1>2. /\ Begun(doc) /\ k \in 1 .. Len(doc.sections)
      /\ KnownIn(conf, section) /\ section.style \in {"block", "flow"} /\ yaml.section = section.name
      /\ Good(conf, doc, k - 1) /\ \A j \in 1 .. p - 1 : PairGood(conf, section, section.pairs[j])
      /\ p \in 1 .. Len(section.pairs) /\ pair.style \in {"block", "flow"}
      /\ yaml.opt = Find(conf, section.name, pair.key) /\ yaml.opt # 0 /\ o.multivalued
      /\ t \in 0 .. Len(texts) /\ \A j \in 1 .. t : ScalarAccepted(o, texts[j])
      /\ At(TextPlaces(doc, k, p)[t])
  BY DEF AtText, InKnown
<1>3. section \in Sections /\ Len(section.pairs) \in Nat
  <2>1. section \in Sections
    BY <1>1, <1>2, DocumentIs
  <2> QED
    BY <2>1, SectionIs
<1>4. pair \in SectionPairs /\ Len(texts) \in Nat
  <2>1. pair \in SectionPairs
    BY <1>2, <1>3, SectionIs
  <2> QED
    BY <2>1, PairIs
<1>5. /\ p \in 0 .. Len(section.pairs) /\ \A j \in 1 .. p : j \in 1 .. p - 1 \/ j = p
  <2>1. p \in 1 .. Len(section.pairs)
    BY <1>2
  <2> HIDE DEF section
  <2> QED
    BY <1>3, <2>1
<1>6. CASE yaml'.mode = "failed" /\ doc.cut >= 2
  BY <1>1, <1>6, CutBad
<1>7. CASE /\ t = Len(texts) /\ yaml'.mode = "pairs" /\ yaml'.section = yaml.section /\ conf' = conf
           /\ Behind(doc', tokens', PairPlaces(doc, k)[p])
  <2>1. PairGood(conf, section, pair)
    BY <1>2, <1>7 DEF PairGood
  <2>2. \A j \in 1 .. p : PairGood(conf, section, section.pairs[j])
    BY <1>2, <1>5, <2>1
  <2>3. InKnown(k, p)'
    BY <1>1, <1>2, <1>7, <2>2 DEF InKnown
  <2>4. AtPair(k, p)'
    BY <1>1, <1>5, <1>7, <2>3 DEF AtPair, At
  <2> QED
    BY <1>7, <2>4
<1>8. CASE t + 1 \in 1 .. Len(texts) /\ yaml'.mode = "failed" /\ ~ScalarAccepted(o, texts[t + 1])
  <2>1. ~PairGood(conf, section, pair)
    BY <1>2, <1>8 DEF PairGood
  <2> QED
    BY <1>1, <1>2, <1>8, <2>1, BadPair
<1>9. CASE /\ t + 1 \in 1 .. Len(texts) /\ ScalarAccepted(o, texts[t + 1]) /\ yaml' = yaml
           /\ conf' = Put(conf, yaml.opt, FromScalar(o, texts[t + 1]))
           /\ Behind(doc', tokens', TextPlaces(doc, k, p)[t + 1])
  <2>1. t \in 0 .. Len(texts)
    BY <1>2
  <2>2. (t + 1) - 1 = t /\ t + 1 \in 0 .. Len(texts) /\ \A j \in 1 .. t + 1 : j \in 1 .. t \/ j = t + 1
    <3> HIDE DEF texts
    <3> QED
      BY <1>4, <1>9, <2>1
  <2>3. \A j \in 1 .. p - 1 : PairGood(conf', section, section.pairs[j])
    BY <1>2, ParsesSame
  <2>4. KnownIn(conf', section) /\ Good(conf', doc', k - 1)
    BY <1>2, ParsesSame
  <2>5. InKnown(k, p - 1)'
    BY <1>1, <1>2, <1>9, <2>3, <2>4 DEF InKnown
  <2>6. /\ Find(conf', section.name, pair.key) = yaml.opt /\ conf'.options[yaml.opt].multivalued
        /\ \A text : ScalarAccepted(conf'.options[yaml.opt], text) <=> ScalarAccepted(o, text)
    <3>1. Kept(conf', conf) /\ yaml.opt \in DOMAIN conf.options
      BY <1>2, FindIs DEF Parses, Stays
    <3>2. SameButValues(conf'.options[yaml.opt], o) /\ conf'.options[yaml.opt].no_override = o.no_override
      BY <3>1 DEF Kept, Parses, Stays
    <3>3. Find(conf', section.name, pair.key) = Find(conf, section.name, pair.key)
      BY <3>1, FindKept
    <3>4. conf'.options[yaml.opt].multivalued = o.multivalued
      BY <3>2 DEF SameButValues
    <3>5. \A text : ScalarAccepted(conf'.options[yaml.opt], text) <=> ScalarAccepted(o, text)
      BY <3>2, AcceptedSame
    <3> QED
      BY <1>2, <3>3, <3>4, <3>5
  <2>7. \A j \in 1 .. t + 1 : ScalarAccepted(conf'.options[yaml.opt], texts[j])
    BY <1>2, <1>9, <2>2, <2>6
  <2>8. AtText(k, p, t + 1)'
    BY <1>1, <1>2, <1>9, <2>2, <2>5, <2>6, <2>7 DEF AtText, At
  <2>9. TextMoves(k, p, t)
    BY <1>9, <2>2, <2>8 DEF TextMoves
  <2> QED
    BY <2>9
<1> QED
  BY <1>1, <1>2, <1>6, <1>7, <1>8, <1>9, TextReads

\* All of it: what is true of the parser while it reads a plain document.
Reader ==
    /\ yaml.mode = "init" => At(0)
    /\ yaml.mode = "main" => \E k : AtSection(k)
    /\ yaml.mode = "skip" => \E k : InUnknown(k)
    /\ yaml.mode = "pairs" => \E k, p : AtPair(k, p)
    /\ yaml.mode = "list" => \E k, p, t : AtText(k, p, t)
    /\ yaml.mode = "done" => AllGood(conf, doc)
    /\ Rejected => ~AllGood(conf, doc)

LEMMA ReaderStep ==
    ASSUME Parses, Reader, config_parse_main
    PROVE  Reader'
<1>1. ASSUME yaml'.mode \in {"failed", "unknown"}, ~AllGood(conf, doc)
      PROVE  Reader'
  <2>1. ~AllGood(conf', doc')
    BY <1>1, ParsesSame
  <2> QED
    BY <1>1, <2>1 DEF Reader
<1>2. ASSUME yaml'.mode = "main", NEW k, AtSection(k)'
      PROVE  Reader'
  BY <1>2 DEF Reader, Rejected
<1>3. ASSUME yaml'.mode = "skip", NEW k, InUnknown(k)'
      PROVE  Reader'
  BY <1>3 DEF Reader, Rejected
<1>4. ASSUME yaml'.mode = "pairs", NEW k, NEW p, AtPair(k, p)'
      PROVE  Reader'
  BY <1>4 DEF Reader, Rejected
<1>5. ASSUME yaml'.mode = "list", NEW k, NEW p, NEW t, AtText(k, p, t)'
      PROVE  Reader'
  BY <1>5 DEF Reader, Rejected
<1>6. ASSUME yaml'.mode = "done", AllGood(conf, doc)
      PROVE  Reader'
  <2>1. AllGood(conf', doc')
    BY <1>6, ParsesSame
  <2> QED
    BY <1>6, <2>1 DEF Reader, Rejected
<1>7. CASE ParseInit
  <2>1. At(0)
    BY <1>7 DEF ParseInit, Reader
  <2> QED
    BY <1>1, <1>2, <1>7, <2>1, InitMoves
<1>8. CASE ParseSection
  <2>1. PICK k : AtSection(k)
    BY <1>8 DEF ParseSection, Reader
  <2> QED
    BY <1>1, <1>3, <1>4, <1>6, <1>8, <2>1, SectionMoves
<1>9. CASE SkipSection
  <2>1. PICK k : InUnknown(k)
    BY <1>9 DEF SkipSection, Reader
  <2> QED
    BY <1>2, <1>3, <1>9, <2>1, SkipMoves
<1>10. CASE KeyValue
  <2>1. yaml.mode = "pairs"
    BY <1>10 DEF KeyValue
  <2>2. PICK k, p : AtPair(k, p)
    BY <2>1 DEF Reader
  <2>3. CASE PairMoves(k, p)
    <3>1. \/ yaml' = yaml /\ AtPair(k, p + 1)'
          \/ yaml'.mode = "list" /\ AtText(k, p + 1, 0)'
      BY <2>3 DEF PairMoves
    <3> QED
      BY <1>4, <1>5, <2>1, <3>1
  <2> QED
    BY <1>1, <1>2, <1>10, <2>1, <2>2, <2>3, KeyValueMoves
<1>11. CASE ListItem
  <2>1. yaml.mode = "list"
    BY <1>11 DEF ListItem
  <2>2. PICK k, p, t : AtText(k, p, t)
    BY <2>1 DEF Reader
  <2>3. CASE TextMoves(k, p, t)
    <3>1. yaml' = yaml /\ AtText(k, p, t + 1)'
      BY <2>3 DEF TextMoves
    <3> QED
      BY <1>5, <2>1, <3>1
  <2> QED
    BY <1>1, <1>4, <1>11, <2>2, <2>3, ListItemMoves
<1> QED
  BY <1>7, <1>8, <1>9, <1>10, <1>11 DEF config_parse_main

\* Sequences of nothing give nothing.
LEMMA FlattenNothing ==
    ASSUME NEW seqs, NEW n \in Nat, DOMAIN seqs = 1 .. n, seqs = [i \in 1 .. n |-> seqs[i]],
           \A i \in 1 .. n : seqs[i] = <<>>
    PROVE  FlattenSeq(seqs) = <<>>
<1>1. \A i \in 1 .. n : seqs[i] \in Seq({})
  BY EmptySeq
<1>2. seqs \in Seq(Seq({}))
  BY <1>1
<1>3. FlattenSeq(seqs) \in Seq({})
  BY <1>2, FlattenTyped
<1> QED
  BY <1>3

\* The last element, if there is one, else nothing.
Latest(all) == IF all = <<>> THEN <<>> ELSE Last(all)

LEMMA LatestIs ==
    ASSUME NEW S, NEW all \in Seq(S)
    PROVE  /\ Latest(<<>>) = <<>>
           /\ \A x \in S : all \o <<x>> \in Seq(S) /\ Latest(all \o <<x>>) = x
           /\ all \o <<>> = all
<1>1. Latest(<<>>) = <<>>
  BY DEF Latest
<1>2. ASSUME NEW x \in S
      PROVE  all \o <<x>> \in Seq(S) /\ Latest(all \o <<x>>) = x
  <2> DEFINE u == all \o <<x>>
  <2>1. Len(all) \in Nat /\ <<x>> \in Seq(S) /\ Len(<<x>>) = 1 /\ <<x>>[1] = x
    OBVIOUS
  <2>2. u \in Seq(S) /\ Len(u) = Len(all) + 1 /\ u[Len(all) + 1] = x
    <3>1. /\ u \in Seq(S) /\ Len(u) = Len(all) + Len(<<x>>)
          /\ \A i \in 1 .. Len(<<x>>) : u[Len(all) + i] = <<x>>[i]
      BY <2>1, Joined
    <3>2. 1 \in 1 .. Len(<<x>>)
      BY <2>1
    <3> HIDE DEF u
    <3> QED
      BY <2>1, <3>1, <3>2
  <2> HIDE DEF u
  <2>3. u # <<>>
    BY <2>1, <2>2
  <2>4. Latest(u) = x
    BY <2>2, <2>3 DEF Latest, Last
  <2> QED
    BY <2>2, <2>4 DEF u
<1> QED
  BY <1>1, <1>2

-----------------------------------------------------------------------------
(* The values an option that is not a boolean takes from texts.            *)

ValueOf(o, text) == IF o.type = "PARAM_INT" THEN AsLong[text] ELSE text

\* One of them, or all.
Taken(o, all) ==
    LET one == IF o.multivalued \/ all = <<>> THEN all ELSE <<Head(all)>>
    IN  [k \in DOMAIN one |-> ValueOf(o, one[k])]

\* It depends on no value, and is nothing of nothing.
LEMMA TakenSame ==
    ASSUME NEW new, NEW o, SameButValues(new, o), NEW all
    PROVE  Taken(new, all) = Taken(o, all)
BY DEF Taken, ValueOf, SameButValues

LEMMA TakenNothing ==
    ASSUME NEW o
    PROVE  Taken(o, <<>>) = <<>>
BY DEF Taken

\* One text more.
LEMMA TakenMore ==
    ASSUME NEW o, Sound(o), o.type # "PARAM_BOOL", NEW all \in Seq(STRING), o.values = Taken(o, all),
           NEW text \in STRING, Valid(o, text), NEW new, new = config_add_value_from_string(o, text)
    PROVE  new.values = Taken(new, Append(all, text))
<1> DEFINE v == ValueOf(o, text)
           more == Append(all, text)
<1>1. Option(o) /\ o.type \in ParamTypes
  BY DEF Sound, Option
<1>2. SameButValues(new, o)
  BY ValueFromString
<1>3. Len(all) \in Nat /\ DOMAIN all = 1 .. Len(all)
  OBVIOUS
<1>4. IF HasRoom(o) THEN new = WithValue(o, v) ELSE new = o
  <2>1. CASE o.type = "PARAM_STRING"
    BY <2>1 DEF config_add_value_from_string, opt_add_value_string, WithValue, ValueOf
  <2>2. CASE o.type = "PARAM_INT"
    BY <2>2 DEF config_add_value_from_string, opt_add_value_int, WithValue, ValueOf, Valid
  <2> QED
    BY <1>1, <2>1, <2>2 DEF ParamTypes
<1>5. HasRoom(o) => new.values = Append(o.values, v)
  BY <1>1, <1>4, ValueAppended
<1>6. /\ more \in Seq(STRING) /\ Len(more) = Len(all) + 1 /\ more # <<>> /\ more[Len(all) + 1] = text
      /\ \A k \in 1 .. Len(all) : more[k] = all[k]
  OBVIOUS
<1> HIDE DEF v, more
<1>7. Taken(new, more) = Taken(o, more)
  BY <1>2, TakenSame
<1>8. CASE o.multivalued
  <2>1. HasRoom(o)
    BY <1>8 DEF HasRoom
  <2>2. o.values = [k \in 1 .. Len(all) |-> ValueOf(o, all[k])]
    BY <1>3, <1>8 DEF Taken
  <2>3. Taken(o, more) = [k \in 1 .. Len(all) + 1 |-> ValueOf(o, more[k])]
    BY <1>6, <1>8 DEF Taken
  <2> DEFINE f == [k \in 1 .. Len(all) |-> ValueOf(o, all[k])]
             g == [k \in 1 .. Len(all) + 1 |-> ValueOf(o, more[k])]
             S == {ValueOf(o, all[k]) : k \in 1 .. Len(all)} \cup {v}
  <2>4. f \in Seq(S) /\ Len(f) = Len(all)
    BY <1>3
  <2>5. /\ Append(f, v) \in Seq(S) /\ Len(Append(f, v)) = Len(all) + 1
        /\ \A k \in 1 .. Len(all) : Append(f, v)[k] = f[k]
        /\ Append(f, v)[Len(all) + 1] = v
    <3>1. v \in S
      OBVIOUS
    <3> HIDE DEF f, S
    <3> QED
      BY <1>3, <2>4, <3>1, AppendProperties
  <2>6. \A k \in 1 .. Len(all) : f[k] = ValueOf(o, more[k])
    BY <1>6
  <2>7. ValueOf(o, more[Len(all) + 1]) = v
    BY <1>6 DEF v
  <2> DEFINE n == Len(all)
  <2>8. n \in Nat /\ \A k \in 1 .. n + 1 : k \in 1 .. n \/ k = n + 1
    BY <1>3
  <2>9. \A k \in 1 .. n + 1 : Append(f, v)[k] = ValueOf(o, more[k])
    <3> HIDE DEF f, n
    <3>1. \A k \in 1 .. n : Append(f, v)[k] = ValueOf(o, more[k])
      BY <2>5, <2>6 DEF n
    <3>2. Append(f, v)[n + 1] = ValueOf(o, more[n + 1])
      BY <2>5, <2>7 DEF n
    <3> QED
      BY <2>8, <3>1, <3>2
  <2>10. Append(f, v) = [k \in 1 .. n + 1 |-> ValueOf(o, more[k])]
    <3> DEFINE h == Append(f, v)
    <3>1. h \in Seq(S) /\ Len(h) = n + 1
      BY <2>5
    <3> HIDE DEF f, S, h
    <3>2. h = [k \in 1 .. n + 1 |-> h[k]]
      BY <2>8, <3>1
    <3> QED
      BY <2>9, <3>2 DEF h
  <2>11. new.values = Append(f, v)
    BY <1>5, <2>1, <2>2
  <2>12. new.values = Taken(o, more)
    <3> HIDE DEF f
    <3> QED
      BY <2>3, <2>10, <2>11
  <2> QED
    BY <1>7, <2>12 DEF more
<1>9. CASE ~o.multivalued
  <2>1. Taken(o, more) = <<ValueOf(o, Head(more))>>
    BY <1>6, <1>9 DEF Taken
  <2>2. CASE all = <<>>
    <3>1. o.values = <<>> /\ Head(more) = text
      BY <1>6, <2>2, TakenNothing DEF more
    <3>2. new.values = <<v>>
      BY <1>5, <3>1 DEF HasRoom
    <3>3. v = ValueOf(o, Head(more))
      BY <3>1 DEF v
    <3>4. new.values = Taken(new, more)
      BY <1>7, <2>1, <3>2, <3>3
    <3> QED
      BY <3>4 DEF more
  <2>3. CASE all # <<>>
    <3>1. o.values = <<ValueOf(o, Head(all))>>
      BY <1>9, <2>3 DEF Taken
    <3>2. Head(more) = Head(all)
      BY <1>3, <1>6, <2>3
    <3>3. o.values # <<>>
      BY <3>1
    <3>4. new = o
      BY <1>4, <1>9, <3>3 DEF HasRoom
    <3>5. new.values = Taken(new, more)
      BY <1>7, <2>1, <3>1, <3>2, <3>4
    <3> QED
      BY <3>5 DEF more
  <2> QED
    BY <2>2, <2>3
<1> QED
  BY <1>1, <1>8, <1>9 DEF Option

-----------------------------------------------------------------------------
(* The texts a document gives an option, up to a place in it.              *)

Texts == Seq(STRING)

\* SectionTexts and DocumentTexts before they are flattened, of any
\* configuration.
Told(c, section, pair, o) == IF Find(c, section.name, pair.key) = o THEN <<pair.texts>> ELSE <<>>
SectionTold(c, section, o) == [k \in DOMAIN section.pairs |-> Told(c, section, section.pairs[k], o)]
DocumentTold(c, d, o) == [k \in DOMAIN d.sections |-> FlattenSeq(SectionTold(c, d.sections[k], o))]

\* What was said before the document, and in k sections of it, and in p pairs
\* of the k-th one.
Upon(c, before, d, o, k) == before \o Initial(DocumentTold(c, d, o), k)
Within(c, before, d, o, k, p) ==
    Upon(c, before, d, o, k - 1) \o Initial(SectionTold(c, d.sections[k], o), p)

\* One sequence after two others.
LEMMA AfterBoth ==
    ASSUME NEW S, NEW s \in Seq(S), NEW t \in Seq(S), NEW u \in Seq(S), NEW v, v = t \o u
    PROVE  s \o v = (s \o t) \o u
BY ConcatAssociative

\* They are what the reference of AsGiven joins.
LEMMA SaysTexts ==
    /\ \A section, o : SectionTexts(section, o) = FlattenSeq(SectionTold(conf, section, o))
    /\ \A d, o : DocumentTexts(d, o) = FlattenSeq(DocumentTold(conf, d, o))
BY DEF SectionTexts, DocumentTexts, SectionTold, DocumentTold, Told

\* Sequences of texts.
LEMMA ToldTyped ==
    ASSUME NEW c, NEW section, NEW pair \in SectionPairs, NEW o
    PROVE  Told(c, section, pair, o) \in Seq(Texts)
<1>1. pair.texts \in Texts
  BY DEF SectionPairs, Pairs, Texts
<1> QED
  BY <1>1 DEF Told

LEMMA SectionToldTyped ==
    ASSUME NEW c, NEW section \in Sections, NEW o
    PROVE  /\ SectionTold(c, section, o) \in Seq(Seq(Texts))
           /\ Len(SectionTold(c, section, o)) = Len(section.pairs) /\ Len(section.pairs) \in Nat
           /\ \A p \in 1 .. Len(section.pairs) :
                SectionTold(c, section, o)[p] = Told(c, section, section.pairs[p], o)
<1> DEFINE s == SectionTold(c, section, o)
           n == Len(section.pairs)
<1>1. /\ DOMAIN section.pairs = 1 .. n /\ n \in Nat
      /\ \A p \in 1 .. n : section.pairs[p] \in SectionPairs
  BY SectionIs
<1>2. s = [p \in 1 .. n |-> Told(c, section, section.pairs[p], o)]
  BY <1>1 DEF SectionTold
<1>3. \A p \in 1 .. n : Told(c, section, section.pairs[p], o) \in Seq(Texts)
  BY <1>1, ToldTyped
<1> HIDE DEF s, n
<1>4. s \in Seq(Seq(Texts)) /\ Len(s) = n
  BY <1>1, <1>2, <1>3
<1> QED
  BY <1>1, <1>2, <1>4 DEF s, n

LEMMA DocumentToldTyped ==
    ASSUME NEW c, NEW d \in Documents, NEW o
    PROVE  /\ DocumentTold(c, d, o) \in Seq(Seq(Texts))
           /\ Len(DocumentTold(c, d, o)) = Len(d.sections) /\ Len(d.sections) \in Nat
           /\ \A k \in 1 .. Len(d.sections) :
                DocumentTold(c, d, o)[k] = FlattenSeq(SectionTold(c, d.sections[k], o))
<1> DEFINE s == DocumentTold(c, d, o)
           n == Len(d.sections)
<1>1. /\ DOMAIN d.sections = 1 .. n /\ n \in Nat
      /\ \A k \in 1 .. n : d.sections[k] \in Sections
  BY DocumentIs
<1>2. s = [k \in 1 .. n |-> FlattenSeq(SectionTold(c, d.sections[k], o))]
  BY <1>1 DEF DocumentTold
<1>3. \A k \in 1 .. n : FlattenSeq(SectionTold(c, d.sections[k], o)) \in Seq(Texts)
  BY <1>1, SectionToldTyped, FlattenTyped
<1> HIDE DEF s, n
<1>4. s \in Seq(Seq(Texts)) /\ Len(s) = n
  BY <1>1, <1>2, <1>3
<1> QED
  BY <1>1, <1>2, <1>4 DEF s, n

\* A section that is not known says nothing.
LEMMA UnknownSilent ==
    ASSUME NEW c, NEW section \in Sections, ~KnownIn(c, section), NEW o, o # 0
    PROVE  FlattenSeq(SectionTold(c, section, o)) = <<>>
<1> DEFINE s == SectionTold(c, section, o)
           n == Len(section.pairs)
<1>1. /\ s \in Seq(Seq(Texts)) /\ Len(s) = n /\ n \in Nat
      /\ \A p \in 1 .. n : s[p] = Told(c, section, section.pairs[p], o)
  BY SectionToldTyped
<1>2. \A pair : Find(c, section.name, pair.key) = 0
  BY DEF KnownIn, Find
<1>3. \A p \in 1 .. n : s[p] = <<>>
  BY <1>1, <1>2 DEF Told
<1> HIDE DEF s, n
<1>4. DOMAIN s = 1 .. n /\ s = [p \in 1 .. n |-> s[p]]
  BY <1>1
<1>5. FlattenSeq(s) = <<>>
  BY <1>1, <1>3, <1>4, FlattenNothing
<1> QED
  BY <1>5 DEF s

\* They begin with what was said before, and grow by a section.
UponSums(c, before, d, o) ==
           /\ \A k \in 0 .. Len(d.sections) : Upon(c, before, d, o, k) \in Seq(Texts)
           /\ Upon(c, before, d, o, 0) = before
           /\ Upon(c, before, d, o, Len(d.sections)) = before \o FlattenSeq(DocumentTold(c, d, o))
           /\ \A k \in 1 .. Len(d.sections) :
                Upon(c, before, d, o, k) =
                    Upon(c, before, d, o, k - 1) \o FlattenSeq(SectionTold(c, d.sections[k], o))

LEMMA UponIs ==
    ASSUME NEW c, NEW before \in Seq(Texts), NEW d \in Documents, NEW o
    PROVE  UponSums(c, before, d, o)
<1> DEFINE s == DocumentTold(c, d, o)
           n == Len(d.sections)
           In(k) == Initial(s, k)
<1>1. /\ s \in Seq(Seq(Texts)) /\ Len(s) = n /\ n \in Nat
      /\ \A k \in 1 .. n : s[k] = FlattenSeq(SectionTold(c, d.sections[k], o))
  BY DocumentToldTyped
<1> HIDE DEF s, n
<1>2. /\ In(0) = <<>> /\ In(n) = FlattenSeq(s)
  BY <1>1, FrontEnds
<1>3. \A k \in 1 .. n : In(k - 1) \in Seq(Texts) /\ In(k) \in Seq(Texts) /\ In(k) = In(k - 1) \o s[k]
  BY <1>1, FrontNext
<1>4. \A k \in 1 .. n : s[k] \in Seq(Texts)
  BY <1>1, ElementOfSeq
<1>5. \A k \in 0 .. n : In(k) \in Seq(Texts)
  <2>1. \A k \in 0 .. n : k = 0 \/ k \in 1 .. n
    BY <1>1
  <2>2. <<>> \in Seq(Texts)
    BY EmptySeq
  <2> HIDE DEF In
  <2> QED
    BY <1>2, <1>3, <2>1, <2>2
<1> HIDE DEF In
<1>6. \A k : Upon(c, before, d, o, k) = before \o In(k)
  BY DEF Upon, In, s
<1>7. \A k \in 0 .. n : before \o In(k) \in Seq(Texts)
  BY <1>5
<1>8. before \o <<>> = before
  OBVIOUS
<1>9. ASSUME NEW k \in 1 .. n
      PROVE  before \o In(k) = (before \o In(k - 1)) \o s[k]
  <2>1. In(k - 1) \in Seq(Texts) /\ s[k] \in Seq(Texts) /\ In(k) = In(k - 1) \o s[k]
    BY <1>3, <1>4
  <2>2. PICK t, u, v : t = In(k - 1) /\ u = s[k] /\ v = In(k)
    OBVIOUS
  <2>3. before \in Seq(Texts)
    OBVIOUS
  <2>4. t \in Seq(Texts) /\ u \in Seq(Texts) /\ v = t \o u
    BY <2>1, <2>2
  <2>5. before \o v = (before \o t) \o u
    BY <2>3, <2>4, AfterBoth
  <2> QED
    BY <2>2, <2>5
<1> QED
  BY <1>1, <1>2, <1>6, <1>7, <1>8, <1>9 DEF UponSums, n, s

\* The same of the pairs of a section.
WithinSums(c, before, d, o, k) ==
    LET section == d.sections[k]
        W(p) == Within(c, before, d, o, k, p)
    IN  /\ \A p \in 0 .. Len(section.pairs) : W(p) \in Seq(Texts)
        /\ W(0) = Upon(c, before, d, o, k - 1)
        /\ W(Len(section.pairs)) = Upon(c, before, d, o, k)
        /\ \A p \in 1 .. Len(section.pairs) :
             W(p) = W(p - 1) \o Told(c, section, section.pairs[p], o)

LEMMA WithinIs ==
    ASSUME NEW c, NEW before \in Seq(Texts), NEW d \in Documents, NEW o, NEW k \in 1 .. Len(d.sections)
    PROVE  WithinSums(c, before, d, o, k)
<1> DEFINE section == d.sections[k]
           s == SectionTold(c, section, o)
           n == Len(section.pairs)
           first == Upon(c, before, d, o, k - 1)
           In(p) == Initial(s, p)
<1>1. section \in Sections /\ Len(d.sections) \in Nat
  BY DocumentIs
<1>2. /\ s \in Seq(Seq(Texts)) /\ Len(s) = n /\ n \in Nat
      /\ \A p \in 1 .. n : s[p] = Told(c, section, section.pairs[p], o)
  BY <1>1, SectionToldTyped
<1>3. first \in Seq(Texts) /\ Upon(c, before, d, o, k) = first \o FlattenSeq(s)
  <2>1. k \in 1 .. Len(d.sections) /\ k - 1 \in 0 .. Len(d.sections)
    BY <1>1
  <2>2. /\ \A j \in 0 .. Len(d.sections) : Upon(c, before, d, o, j) \in Seq(Texts)
        /\ \A j \in 1 .. Len(d.sections) :
             Upon(c, before, d, o, j) =
                 Upon(c, before, d, o, j - 1) \o FlattenSeq(SectionTold(c, d.sections[j], o))
    <3>1. UponSums(c, before, d, o)
      BY UponIs
    <3> HIDE DEF section, s, n, first, In
    <3> QED
      BY <3>1 DEF UponSums
  <2> QED
    BY <2>1, <2>2
<1>4. \A p : Within(c, before, d, o, k, p) = first \o In(p)
  BY DEF Within
<1> HIDE DEF section, s, n, first
<1>5. /\ In(0) = <<>> /\ In(n) = FlattenSeq(s)
  BY <1>2, FrontEnds
<1>6. \A p \in 1 .. n : In(p - 1) \in Seq(Texts) /\ In(p) \in Seq(Texts) /\ In(p) = In(p - 1) \o s[p]
  BY <1>2, FrontNext
<1>7. \A p \in 1 .. n : s[p] \in Seq(Texts)
  BY <1>2, ElementOfSeq
<1>8. \A p \in 0 .. n : In(p) \in Seq(Texts)
  <2>1. \A p \in 0 .. n : p = 0 \/ p \in 1 .. n
    BY <1>2
  <2>2. <<>> \in Seq(Texts)
    BY EmptySeq
  <2> HIDE DEF In
  <2> QED
    BY <1>5, <1>6, <2>1, <2>2
<1> HIDE DEF In
<1>9. \A p \in 0 .. n : first \o In(p) \in Seq(Texts)
  BY <1>3, <1>8
<1>10. first \o <<>> = first
  BY <1>3
<1>11. ASSUME NEW p \in 1 .. n
       PROVE  first \o In(p) = (first \o In(p - 1)) \o s[p]
  <2>1. In(p - 1) \in Seq(Texts) /\ s[p] \in Seq(Texts) /\ In(p) = In(p - 1) \o s[p]
    BY <1>6, <1>7
  <2>2. PICK t, u, v : t = In(p - 1) /\ u = s[p] /\ v = In(p)
    OBVIOUS
  <2>3. first \in Seq(Texts)
    BY <1>3
  <2>4. t \in Seq(Texts) /\ u \in Seq(Texts) /\ v = t \o u
    BY <2>1, <2>2
  <2>5. first \o v = (first \o t) \o u
    BY <2>3, <2>4, AfterBoth
  <2> QED
    BY <2>2, <2>5
<1> QED
  BY <1>2, <1>3, <1>4, <1>5, <1>9, <1>10, <1>11 DEF WithinSums, n, section, first

\* What a document says depends on the names of the options only.
LEMMA ToldSame ==
    ASSUME NEW new, NEW c, Kept(new, c)
    PROVE  /\ \A section, o : SectionTold(new, section, o) = SectionTold(c, section, o)
           /\ \A d, o : DocumentTold(new, d, o) = DocumentTold(c, d, o)
           /\ \A before, d, o, k : Upon(new, before, d, o, k) = Upon(c, before, d, o, k)
           /\ \A before, d, o, k, p : Within(new, before, d, o, k, p) = Within(c, before, d, o, k, p)
<1>1. \A section, pair, o : Told(new, section, pair, o) = Told(c, section, pair, o)
  BY FindKept DEF Told
<1>2. \A section, o : SectionTold(new, section, o) = SectionTold(c, section, o)
  BY <1>1 DEF SectionTold
<1>3. \A d, o : DocumentTold(new, d, o) = DocumentTold(c, d, o)
  BY <1>2 DEF DocumentTold
<1>4. \A before, d, o, k : Upon(new, before, d, o, k) = Upon(c, before, d, o, k)
  BY <1>3 DEF Upon
<1>5. \A before, d, o, k, p : Within(new, before, d, o, k, p) = Within(c, before, d, o, k, p)
  BY <1>2, <1>4 DEF Within
<1> QED
  BY <1>2, <1>3, <1>4, <1>5

-----------------------------------------------------------------------------
(* What an option has while a document is read.                            *)

\* An option a file may change has taken the last of these texts.
Gave(c, o, all) ==
    ~c.options[o].no_override => c.options[o].values = Taken(c.options[o], Latest(all))

\* The value of a scalar.
LEMMA ScalarTaken ==
    ASSUME NEW o, Sound(o), o.type # "PARAM_BOOL", ~o.no_override, NEW texts \in Seq(STRING), Len(texts) = 1,
           NEW x, x = FromScalar(Emptied(o), texts[1]), ScalarAccepted(x, texts[1])
    PROVE  x.values = Taken(x, texts)
<1>1. texts = Append(<<>>, texts[1]) /\ texts[1] \in STRING /\ <<>> \in Seq(STRING)
  OBVIOUS
<1>2. PICK e, text : e = Emptied(o) /\ text = texts[1]
  OBVIOUS
<1>3. FileChanges(e, o) /\ Sound(e) /\ SameButValues(e, o) /\ e.no_override = o.no_override
  BY <1>2, EmptiedOption DEF FileChanges
<1>4. e = config_option_remove_all_values(o)
  BY <1>2 DEF Emptied
<1>5. e.values = Taken(e, <<>>)
  BY <1>4, ValuesRemoved, TakenNothing
<1>6. x = config_add_value_from_string(e, text) /\ e.type # "PARAM_BOOL"
  BY <1>2, <1>3 DEF FromScalar, SameButValues
<1>7. SameButValues(x, e) /\ x.no_override = e.no_override
  BY <1>3, <1>6, ValueFromString
<1>8. Valid(e, text)
  BY <1>2, <1>3, <1>7, AcceptedSame DEF ScalarAccepted
<1>9. x.values = Taken(x, Append(<<>>, text))
  BY <1>1, <1>2, <1>3, <1>5, <1>6, <1>8, TakenMore
<1> QED
  BY <1>1, <1>2, <1>9

\* An element of a list.
LEMMA ElementTaken ==
    ASSUME NEW o, Sound(o), o.type # "PARAM_BOOL", ~o.no_override, NEW texts \in Seq(STRING),
           NEW t, t \in 0 .. Len(texts), t + 1 \in 1 .. Len(texts), o.values = Taken(o, SubSeq(texts, 1, t)),
           ScalarAccepted(o, texts[t + 1]), NEW x, x = FromScalar(o, texts[t + 1])
    PROVE  x.values = Taken(x, SubSeq(texts, 1, t + 1))
<1>1. /\ SubSeq(texts, 1, t) \in Seq(STRING) /\ texts[t + 1] \in STRING
      /\ SubSeq(texts, 1, t + 1) = Append(SubSeq(texts, 1, t), texts[t + 1])
  OBVIOUS
<1>2. PICK all, text : all = SubSeq(texts, 1, t) /\ text = texts[t + 1]
  OBVIOUS
<1>3. all \in Seq(STRING) /\ text \in STRING /\ SubSeq(texts, 1, t + 1) = Append(all, text)
  BY <1>1, <1>2
<1>4. Valid(o, text) /\ x = config_add_value_from_string(o, text) /\ o.values = Taken(o, all)
  BY <1>2 DEF ScalarAccepted, FromScalar
<1>5. x.values = Taken(x, Append(all, text))
  BY <1>3, <1>4, TakenMore
<1> QED
  BY <1>3, <1>5

\* Nothing and all of the texts.
LEMMA PartOfTexts ==
    ASSUME NEW texts \in Seq(STRING)
    PROVE  SubSeq(texts, 1, 0) = <<>> /\ SubSeq(texts, 1, Len(texts)) = texts
OBVIOUS

\* An option that has what it got, and did not change.
LEMMA GaveStill ==
    ASSUME NEW new, NEW c, NEW o, NEW all, new.options[o] = c.options[o], Gave(c, o, all)
    PROVE  Gave(new, o, all)
BY DEF Gave

-----------------------------------------------------------------------------
(* The parser, and an option that is no boolean.                           *)

\* What the option has by now; before the document it was given these texts.
Taking(o, before) ==
    /\ yaml.mode = "init" => Gave(conf, o, before)
    /\ yaml.mode = "main" => \E k : AtSection(k) /\ Gave(conf, o, Upon(conf, before, doc, o, k))
    /\ yaml.mode = "skip" => \E k : InUnknown(k) /\ Gave(conf, o, Upon(conf, before, doc, o, k - 1))
    /\ yaml.mode = "pairs" => \E k, p : AtPair(k, p) /\ Gave(conf, o, Within(conf, before, doc, o, k, p))
    /\ yaml.mode = "list" => \E k, p, t :
            /\ AtText(k, p, t)
            /\ IF o = yaml.opt
               THEN Gave(conf, o, <<SubSeq(doc.sections[k].pairs[p].texts, 1, t)>>)
               ELSE Gave(conf, o, Within(conf, before, doc, o, k, p - 1))
    /\ yaml.mode = "done" => Gave(conf, o, before \o FlattenSeq(DocumentTold(conf, doc, o)))

\* What was said in a document does not depend on what it changed.
LEMMA ParsesUpon ==
    ASSUME Parses
    PROVE  /\ \A before, o, k : Upon(conf', before, doc', o, k) = Upon(conf, before, doc, o, k)
           /\ \A before, o, k, p : Within(conf', before, doc', o, k, p) = Within(conf, before, doc, o, k, p)
           /\ \A o : DocumentTold(conf', doc', o) = DocumentTold(conf, doc, o)
<1>1. Kept(conf', conf) /\ doc' = doc
  BY DEF Parses, Stays
<1> QED
  BY <1>1, ToldSame

\* Step by step: the start of the document, a section, what is skipped.
LEMMA InitGives ==
    ASSUME Parses, At(0), ParseInit, NEW o, NEW before \in Seq(Texts), Taking(o, before)
    PROVE  Taking(o, before)'
<1>1. CASE yaml'.mode = "failed"
  BY <1>1 DEF Taking
<1>2. CASE yaml'.mode = "main" /\ conf' = conf /\ AtSection(0)'
  <2>1. Gave(conf, o, before)
    BY DEF Taking, ParseInit
  <2>2. Upon(conf, before, doc, o, 0) = before
    <3>1. doc \in Documents
      BY DEF Parses
    <3>2. UponSums(conf, before, doc, o)
      BY <3>1, UponIs
    <3> QED
      BY <3>2 DEF UponSums
  <2>3. Gave(conf', o, Upon(conf', before, doc', o, 0))
    BY <1>2, <2>1, <2>2, ParsesUpon
  <2> QED
    BY <1>2, <2>3 DEF Taking
<1> QED
  BY <1>1, <1>2, InitMoves

LEMMA SectionGives ==
    ASSUME Parses, ParseSection, NEW o, NEW before \in Seq(Texts), Taking(o, before)
    PROVE  Taking(o, before)'
<1>1. PICK k : AtSection(k) /\ Gave(conf, o, Upon(conf, before, doc, o, k))
  BY DEF Taking, ParseSection
<1>2. doc \in Documents /\ doc' = doc
  BY DEF Parses
<1>3. UponSums(conf, before, doc, o)
  BY <1>2, UponIs
<1>4. CASE yaml'.mode = "failed"
  BY <1>4 DEF Taking
<1>5. CASE yaml'.mode = "done" /\ conf' = conf /\ k = Len(doc.sections)
  <2>1. Gave(conf, o, before \o FlattenSeq(DocumentTold(conf, doc, o)))
    BY <1>1, <1>3, <1>5 DEF UponSums
  <2> QED
    BY <1>2, <1>5, <2>1 DEF Taking
<1>6. CASE yaml'.mode = "skip" /\ conf' = conf /\ k = (k + 1) - 1 /\ InUnknown(k + 1)'
  <2>1. PICK j : j = k + 1
    OBVIOUS
  <2>2. InUnknown(j)' /\ k = j - 1
    BY <1>6, <2>1
  <2>3. Gave(conf', o, Upon(conf', before, doc', o, j - 1))
    BY <1>1, <1>2, <1>6, <2>2
  <2> QED
    BY <1>6, <2>2, <2>3 DEF Taking
<1>7. CASE yaml'.mode = "pairs" /\ conf' = conf /\ k = (k + 1) - 1 /\ AtPair(k + 1, 0)'
  <2>1. PICK j : j = k + 1
    OBVIOUS
  <2>2. AtPair(j, 0)' /\ k = j - 1
    BY <1>7, <2>1
  <2>3. j \in 1 .. Len(doc.sections)
    BY <1>2, <2>2 DEF AtPair, InKnown
  <2>4. Within(conf, before, doc, o, j, 0) = Upon(conf, before, doc, o, j - 1)
    BY <1>2, <2>3, WithinIs DEF WithinSums
  <2>5. Gave(conf', o, Within(conf', before, doc', o, j, 0))
    BY <1>1, <1>2, <1>7, <2>2, <2>4
  <2> QED
    BY <1>7, <2>2, <2>5 DEF Taking
<1> QED
  BY <1>1, <1>4, <1>5, <1>6, <1>7, SectionMoves

LEMMA SkipGives ==
    ASSUME Parses, SkipSection, NEW o, o # 0, NEW before \in Seq(Texts), Taking(o, before)
    PROVE  Taking(o, before)'
<1>1. PICK k : InUnknown(k) /\ Gave(conf, o, Upon(conf, before, doc, o, k - 1))
  BY DEF Taking, SkipSection
<1>2. doc \in Documents /\ doc' = doc
  BY DEF Parses
<1>3. k \in 1 .. Len(doc.sections) /\ ~KnownIn(conf, doc.sections[k])
  BY <1>1 DEF InUnknown
<1>4. CASE yaml'.mode = "main" /\ conf' = conf /\ AtSection(k)'
  <2>1. doc.sections[k] \in Sections
    BY <1>2, <1>3, DocumentIs
  <2>2. FlattenSeq(SectionTold(conf, doc.sections[k], o)) = <<>>
    BY <1>3, <2>1, UnknownSilent
  <2>3. /\ Upon(conf, before, doc, o, k) =
              Upon(conf, before, doc, o, k - 1) \o FlattenSeq(SectionTold(conf, doc.sections[k], o))
        /\ Upon(conf, before, doc, o, k - 1) \in Seq(Texts)
    <3>1. UponSums(conf, before, doc, o)
      BY <1>2, UponIs
    <3>2. k - 1 \in 0 .. Len(doc.sections)
      BY <1>2, <1>3, DocumentIs
    <3> QED
      BY <1>3, <3>1, <3>2 DEF UponSums
  <2>4. \A s \in Seq(Texts) : s \o <<>> = s
    OBVIOUS
  <2>5. Upon(conf, before, doc, o, k) = Upon(conf, before, doc, o, k - 1)
    BY <2>2, <2>3, <2>4
  <2>6. Gave(conf', o, Upon(conf', before, doc', o, k))
    BY <1>1, <1>2, <1>4, <2>5
  <2> QED
    BY <1>4, <2>6 DEF Taking
<1>5. CASE yaml'.mode = "skip" /\ conf' = conf /\ InUnknown(k)'
  <2>1. Gave(conf', o, Upon(conf', before, doc', o, k - 1))
    BY <1>1, <1>2, <1>5
  <2> QED
    BY <1>5, <2>1 DEF Taking
<1> QED
  BY <1>1, <1>4, <1>5, SkipMoves

\* The last of one.
LEMMA LatestOne ==
    ASSUME NEW x
    PROVE  Latest(<<x>>) = x
BY DEF Latest, Last

\* One pair more in what was said.
LEMMA OnePair ==
    ASSUME Parses, NEW o, NEW before \in Seq(Texts), NEW k \in 1 .. Len(doc.sections),
           NEW p \in 1 .. Len(doc.sections[k].pairs)
    PROVE  LET section == doc.sections[k]
               pair    == section.pairs[p]
               said    == Within(conf, before, doc, o, k, p - 1)
               now     == Within(conf, before, doc, o, k, p)
           IN  /\ section \in Sections /\ pair \in SectionPairs
               /\ Find(conf, section.name, pair.key) = o => Latest(now) = pair.texts
               /\ Find(conf, section.name, pair.key) # o => now = said
<1> DEFINE section == doc.sections[k]
           pair == section.pairs[p]
           said == Within(conf, before, doc, o, k, p - 1)
           now == Within(conf, before, doc, o, k, p)
<1>1. doc \in Documents
  BY DEF Parses
<1>2. section \in Sections /\ pair \in SectionPairs
  <2>1. section \in Sections
    BY <1>1, DocumentIs
  <2> QED
    BY <2>1, SectionIs
<1>3. WithinSums(conf, before, doc, o, k)
  BY <1>1, WithinIs
<1>4. said \in Seq(Texts) /\ now = said \o Told(conf, section, pair, o)
  <2>1. p - 1 \in 0 .. Len(section.pairs)
    <3>1. Len(section.pairs) \in Nat /\ p \in 1 .. Len(section.pairs)
      BY <1>2, SectionIs
    <3> HIDE DEF section
    <3> QED
      BY <3>1
  <2> QED
    BY <1>3, <2>1 DEF WithinSums
<1>5. pair.texts \in Texts
  BY <1>2 DEF SectionPairs, Pairs, Texts
<1> HIDE DEF said, now
<1>6. CASE Find(conf, section.name, pair.key) = o
  <2>1. now = said \o <<pair.texts>>
    BY <1>4, <1>6 DEF Told
  <2>2. Latest(now) = pair.texts
    BY <1>4, <1>5, <2>1, LatestIs
  <2> QED
    BY <1>2, <1>6, <2>2 DEF now
<1>7. CASE Find(conf, section.name, pair.key) # o
  <2>1. now = said \o <<>>
    BY <1>4, <1>7 DEF Told
  <2>2. now = said
    BY <1>4, <2>1, LatestIs
  <2> QED
    BY <1>2, <1>7, <2>2 DEF now, said
<1> QED
  BY <1>6, <1>7

\* The pair behind place p, which is the q-th.
LEMMA PairGives ==
    ASSUME Parses, NEW k, NEW p, AtPair(k, p), PairMoves(k, p), yaml.mode = "pairs",
           NEW o, o \in DOMAIN conf.options, conf.options[o].type # "PARAM_BOOL",
           NEW before \in Seq(Texts), Gave(conf, o, Within(conf, before, doc, o, k, p))
    PROVE  Taking(o, before)'
<1> DEFINE section == doc.sections[k]
<1>1. doc \in Documents /\ doc' = doc /\ Well(conf)
  BY DEF Parses
<1>2. k \in 1 .. Len(doc.sections)
  BY DEF AtPair, InKnown
<1>3. PICK q : q = p + 1
  OBVIOUS
<1>4. PICK pair : pair = section.pairs[q]
  OBVIOUS
<1>5. PICK opt : opt = Find(conf, section.name, pair.key)
  OBVIOUS
<1>6. PICK old : old = conf.options[opt]
  OBVIOUS
<1>7. /\ q \in 1 .. Len(section.pairs) /\ q - 1 = p /\ opt # 0
      /\ \/ /\ pair.style = "scalar" /\ yaml' = yaml
            /\ conf' = Put(conf, opt, FromScalar(Emptied(old), pair.texts[1])) /\ AtPair(k, q)'
         \/ /\ pair.style \in {"block", "flow"} /\ yaml'.mode = "list" /\ old.multivalued
            /\ conf' = Put(conf, opt, Emptied(old)) /\ AtText(k, q, 0)'
  BY <1>3, <1>4, <1>5, <1>6 DEF PairMoves
<1>8. opt \in DOMAIN conf.options /\ Sound(old)
  <2>1. opt \in DOMAIN conf.options
    <3>1. opt # 0 /\ Find(conf, section.name, pair.key) = opt
      BY <1>5, <1>7
    <3> QED
      BY <1>1, <3>1, FindIs
  <2> QED
    BY <1>1, <1>6, <2>1 DEF Well
<1>9. /\ section \in Sections /\ pair \in SectionPairs
      /\ opt = o => Latest(Within(conf, before, doc, o, k, q)) = pair.texts
      /\ opt # o => Within(conf, before, doc, o, k, q) = Within(conf, before, doc, o, k, p)
  BY <1>2, <1>4, <1>5, <1>7, OnePair
<1>10. pair.texts \in Seq(STRING)
  BY <1>9 DEF SectionPairs, Pairs
<1>11. \A r : Within(conf', before, doc', o, k, r) = Within(conf, before, doc, o, k, r)
  BY ParsesUpon
<1>12. Find(conf', section.name, pair.key) = opt
  BY <1>5, FindKept DEF Parses, Stays
<1>13. ASSUME NEW x, FileChanges(x, old), conf' = Put(conf, opt, x)
       PROVE  /\ conf'.options[opt] = x
              /\ opt # o => conf'.options[o] = conf.options[o]
  BY <1>1, <1>8, <1>13, OptionChanged DEF FileChanges
<1>14. CASE /\ pair.style = "scalar" /\ yaml' = yaml
            /\ conf' = Put(conf, opt, FromScalar(Emptied(old), pair.texts[1])) /\ AtPair(k, q)'
  <2>1. PICK x : x = FromScalar(Emptied(old), pair.texts[1])
    OBVIOUS
  <2>2. FileChanges(x, old)
    BY <1>8, <2>1, ReplacedOption
  <2>3. conf'.options[opt] = x /\ (opt # o => conf'.options[o] = conf.options[o])
    BY <1>13, <1>14, <2>1, <2>2
  <2>4. Gave(conf', o, Within(conf', before, doc', o, k, q))
    <3>1. CASE opt # o
      <4>1. Gave(conf', o, Within(conf, before, doc, o, k, p))
        BY <2>3, <3>1, GaveStill
      <4> QED
        BY <1>9, <1>11, <3>1, <4>1
    <3>2. CASE opt = o
      <4>1. Len(pair.texts) = 1
        BY <1>9, <1>14, PairIs
      <4>2. ScalarAccepted(x, pair.texts[1])
        <5>1. PairGood(conf', section, pair)
          <6>1. InKnown(k, q)'
            BY <1>14 DEF AtPair
          <6>2. \A j \in 1 .. q : PairGood(conf', doc'.sections[k], doc'.sections[k].pairs[j])
            BY <6>1 DEF InKnown
          <6>3. q \in 1 .. q
            <7>1. Len(section.pairs) \in Nat
              BY <1>9, SectionIs
            <7> HIDE DEF section
            <7> QED
              BY <1>7, <7>1
          <6> QED
            BY <1>1, <1>4, <6>2, <6>3
        <5>2. 1 \in 1 .. Len(pair.texts)
          BY <4>1
        <5> QED
          BY <1>12, <2>3, <5>1, <5>2 DEF PairGood
      <4>3. ASSUME ~x.no_override
            PROVE  x.values = Taken(x, pair.texts)
        <5>1. ~old.no_override /\ old.type # "PARAM_BOOL"
          BY <1>6, <2>2, <3>2, <4>3 DEF FileChanges
        <5> QED
          BY <1>8, <1>10, <2>1, <4>1, <4>2, <5>1, ScalarTaken
      <4>4. Gave(conf', o, Within(conf, before, doc, o, k, q))
        BY <1>9, <2>3, <3>2, <4>3 DEF Gave
      <4> QED
        BY <1>11, <4>4
    <3> QED
      BY <3>1, <3>2
  <2> QED
    BY <1>14, <2>4 DEF Taking
<1>15. CASE /\ pair.style \in {"block", "flow"} /\ yaml'.mode = "list" /\ old.multivalued
            /\ conf' = Put(conf, opt, Emptied(old)) /\ AtText(k, q, 0)'
  <2>1. PICK x : x = Emptied(old)
    OBVIOUS
  <2>2. FileChanges(x, old)
    BY <1>8, <2>1, EmptiedOption
  <2>3. conf'.options[opt] = x /\ (opt # o => conf'.options[o] = conf.options[o])
    BY <1>13, <1>15, <2>1, <2>2
  <2>4. yaml'.opt = opt
    BY <1>1, <1>4, <1>12, <1>15 DEF AtText
  <2>5. CASE opt # o
    <3>1. Gave(conf', o, Within(conf, before, doc, o, k, p))
      BY <2>3, <2>5, GaveStill
    <3>2. Gave(conf', o, Within(conf', before, doc', o, k, q - 1))
      BY <1>7, <1>11, <3>1
    <3> QED
      BY <1>15, <2>4, <2>5, <3>2 DEF Taking
  <2>6. CASE opt = o
    <3>1. ~x.no_override => x.values = <<>>
      BY <1>8, <2>1, <2>2, ValuesRemoved DEF Emptied, FileChanges
    <3>2. PICK texts : texts = SubSeq(doc'.sections[k].pairs[q].texts, 1, 0)
      OBVIOUS
    <3>3. texts = <<>>
      BY <1>1, <1>4, <1>10, <3>2, PartOfTexts
    <3>5. Latest(<<texts>>) = texts
      BY LatestOne
    <3>6. Gave(conf', o, <<texts>>)
      BY <2>3, <2>6, <3>1, <3>3, <3>5, TakenNothing DEF Gave
    <3> QED
      BY <1>15, <2>4, <2>6, <3>2, <3>6 DEF Taking
  <2> QED
    BY <2>5, <2>6
<1> QED
  BY <1>7, <1>14, <1>15

LEMMA KeyValueGives ==
    ASSUME Parses, KeyValue, NEW o, o \in DOMAIN conf.options, conf.options[o].type # "PARAM_BOOL",
           NEW before \in Seq(Texts), Taking(o, before)
    PROVE  Taking(o, before)'
<1>1. yaml.mode = "pairs"
  BY DEF KeyValue
<1>2. PICK k, p : AtPair(k, p) /\ Gave(conf, o, Within(conf, before, doc, o, k, p))
  BY <1>1 DEF Taking
<1>3. doc \in Documents /\ doc' = doc /\ k \in 1 .. Len(doc.sections)
  BY <1>2 DEF Parses, AtPair, InKnown
<1>4. CASE yaml'.mode \in {"failed", "unknown"}
  BY <1>4 DEF Taking
<1>5. CASE yaml'.mode = "main" /\ conf' = conf /\ p = Len(doc.sections[k].pairs) /\ AtSection(k)'
  <2>1. WithinSums(conf, before, doc, o, k)
    BY <1>3, WithinIs
  <2>2. Gave(conf', o, Upon(conf', before, doc', o, k))
    BY <1>2, <1>3, <1>5, <2>1 DEF WithinSums
  <2> QED
    BY <1>5, <2>2 DEF Taking
<1>6. CASE PairMoves(k, p)
  BY <1>1, <1>2, <1>6, PairGives
<1> QED
  BY <1>1, <1>2, <1>4, <1>5, <1>6, KeyValueMoves

\* An element of a list, or its end.
LEMMA ListItemGives ==
    ASSUME Parses, ListItem, NEW o, o \in DOMAIN conf.options, conf.options[o].type # "PARAM_BOOL",
           NEW before \in Seq(Texts), Taking(o, before)
    PROVE  Taking(o, before)'
<1>1. PICK k, p, t :
        /\ AtText(k, p, t)
        /\ IF o = yaml.opt
           THEN Gave(conf, o, <<SubSeq(doc.sections[k].pairs[p].texts, 1, t)>>)
           ELSE Gave(conf, o, Within(conf, before, doc, o, k, p - 1))
  BY DEF Taking, ListItem
<1> DEFINE section == doc.sections[k]
<1>2. PICK pair : pair = section.pairs[p]
  OBVIOUS
<1>3. PICK opt : opt = yaml.opt
  OBVIOUS
<1>4. /\ doc \in Documents /\ doc' = doc /\ Well(conf)
      /\ k \in 1 .. Len(doc.sections) /\ p \in 1 .. Len(section.pairs)
      /\ opt = Find(conf, section.name, pair.key) /\ opt # 0 /\ t \in 0 .. Len(pair.texts)
  BY <1>1, <1>2, <1>3 DEF Parses, AtText, InKnown
<1>5. opt \in DOMAIN conf.options /\ Sound(conf.options[opt])
  <2>1. opt # 0 /\ Find(conf, section.name, pair.key) = opt
    BY <1>4
  <2>2. opt \in DOMAIN conf.options
    BY <1>4, <2>1, FindIs
  <2> QED
    BY <1>4, <2>2 DEF Well
<1>6. /\ section \in Sections /\ pair \in SectionPairs
      /\ opt = o => Latest(Within(conf, before, doc, o, k, p)) = pair.texts
      /\ opt # o => Within(conf, before, doc, o, k, p) = Within(conf, before, doc, o, k, p - 1)
  BY <1>2, <1>4, OnePair
<1>7. pair.texts \in Seq(STRING)
  BY <1>6 DEF SectionPairs, Pairs
<1>8. \A r : Within(conf', before, doc', o, k, r) = Within(conf, before, doc, o, k, r)
  BY ParsesUpon
<1>9. CASE yaml'.mode = "failed"
  BY <1>9 DEF Taking
<1>10. CASE yaml'.mode = "pairs" /\ conf' = conf /\ t = Len(pair.texts) /\ AtPair(k, p)'
  <2>1. Gave(conf, o, Within(conf, before, doc, o, k, p))
    <3>1. CASE opt # o
      BY <1>1, <1>3, <1>6, <3>1
    <3>2. CASE opt = o
      <4>1. Gave(conf, o, <<SubSeq(pair.texts, 1, t)>>)
        BY <1>1, <1>2, <1>3, <3>2
      <4>2. SubSeq(pair.texts, 1, t) = pair.texts
        BY <1>7, <1>10, PartOfTexts
      <4>3. Latest(<<pair.texts>>) = pair.texts
        BY LatestOne
      <4> QED
        BY <1>6, <3>2, <4>1, <4>2, <4>3 DEF Gave
    <3> QED
      BY <3>1, <3>2
  <2>2. Gave(conf', o, Within(conf', before, doc', o, k, p))
    BY <1>4, <1>10, <2>1
  <2> QED
    BY <1>10, <2>2 DEF Taking
<1>11. CASE TextMoves(k, p, t)
  <2>1. PICK u, x, old : u = t + 1 /\ old = conf.options[opt] /\ x = FromScalar(old, pair.texts[t + 1])
    OBVIOUS
  <2>2. /\ t + 1 \in 1 .. Len(pair.texts) /\ ScalarAccepted(old, pair.texts[t + 1]) /\ yaml' = yaml
        /\ conf' = Put(conf, opt, x) /\ AtText(k, p, u)'
    BY <1>2, <1>3, <1>11, <2>1 DEF TextMoves
  <2>3. FileChanges(x, old)
    BY <1>5, <2>1, ScalarOption
  <2>4. conf'.options[opt] = x /\ (opt # o => conf'.options[o] = conf.options[o])
    <3>1. Sound(x) /\ conf' = Put(conf, opt, x)
      BY <2>2, <2>3 DEF FileChanges
    <3> QED
      BY <1>4, <1>5, <3>1, OptionChanged
  <2>5. yaml'.mode = "list" /\ yaml'.opt = opt
    BY <1>3, <2>2 DEF ListItem
  <2>6. CASE opt # o
    <3>1. Gave(conf', o, Within(conf, before, doc, o, k, p - 1))
      BY <1>1, <1>3, <2>4, <2>6, GaveStill
    <3>2. Gave(conf', o, Within(conf', before, doc', o, k, p - 1))
      BY <1>8, <3>1
    <3> QED
      BY <2>2, <2>5, <2>6, <3>2 DEF Taking
  <2>7. CASE opt = o
    <3>1. Gave(conf, o, <<SubSeq(pair.texts, 1, t)>>)
      BY <1>1, <1>2, <1>3, <2>7
    <3>2. Latest(<<SubSeq(pair.texts, 1, t)>>) = SubSeq(pair.texts, 1, t)
      BY LatestOne
    <3>3. ~old.no_override => old.values = Taken(old, SubSeq(pair.texts, 1, t))
      BY <2>1, <2>7, <3>1, <3>2 DEF Gave
    <3>4. x.no_override = old.no_override
      BY <2>3 DEF FileChanges
    <3>5. ~x.no_override => x.values = Taken(x, SubSeq(pair.texts, 1, t + 1))
      <4>1. Sound(old) /\ old.type # "PARAM_BOOL"
        BY <1>5, <2>1, <2>7
      <4>2. PICK texts : texts = pair.texts
        OBVIOUS
      <4>3. /\ texts \in Seq(STRING) /\ t \in 0 .. Len(texts) /\ t + 1 \in 1 .. Len(texts)
            /\ ScalarAccepted(old, texts[t + 1]) /\ x = FromScalar(old, texts[t + 1])
        BY <1>4, <1>7, <2>1, <2>2, <4>2
      <4>4. SUFFICES ASSUME ~x.no_override
                     PROVE  x.values = Taken(x, SubSeq(texts, 1, t + 1))
        BY <4>2
      <4>5. ~old.no_override /\ old.values = Taken(old, SubSeq(texts, 1, t))
        BY <3>3, <3>4, <4>2, <4>4
      <4> QED
        BY <4>1, <4>3, <4>5, ElementTaken
    <3>6. Latest(<<SubSeq(pair.texts, 1, u)>>) = SubSeq(pair.texts, 1, u)
      BY LatestOne
    <3>7. Gave(conf', o, <<SubSeq(pair.texts, 1, u)>>)
      BY <2>1, <2>4, <2>7, <3>5, <3>6 DEF Gave
    <3>8. Gave(conf', o, <<SubSeq(doc'.sections[k].pairs[p].texts, 1, u)>>)
      BY <1>2, <1>4, <3>7
    <3> QED
      BY <2>2, <2>5, <2>7, <3>8 DEF Taking
  <2> QED
    BY <2>6, <2>7
<1> QED
  BY <1>1, <1>2, <1>9, <1>10, <1>11, ListItemMoves

\* The parser, whatever it does.
LEMMA TakingStep ==
    ASSUME Parses, Reader, config_parse_main, NEW o, o \in DOMAIN conf.options, o # 0,
           conf.options[o].type # "PARAM_BOOL", NEW before \in Seq(Texts), Taking(o, before)
    PROVE  Taking(o, before)'
<1>1. CASE ParseInit
  <2>1. At(0)
    BY <1>1 DEF ParseInit, Reader
  <2> QED
    BY <1>1, <2>1, InitGives
<1> QED
  BY <1>1, SectionGives, SkipGives, KeyValueGives, ListItemGives DEF config_parse_main
=============================================================================
