------------------------------ MODULE MCServices ------------------------------
(* Plugins that use one service each, and one that asks for a version the host *)
(* does not have.  Limits are scaled: strings to three or four bytes, lists to *)
(* one or two entries.                                                         *)
EXTENDS Services

A(n) == [i \in 1..n |-> "ascii"]
Over == A(4)                          \* over every limit of three
Bad == <<"bad">>
DotX == <<"dot", "upper">>
CutInside == <<"ascii", "ascii", "lead2", "cont">>

MCLimit ==
  [s \in StringLimits |-> IF s \in {"label", "io_url"} THEN 4 ELSE 3]
  @@ ("tags" :> 2 @@ "subsongs" :> 1 @@ "names" :> 1 @@ "settings" :> 2 @@
      "choices" :> 1 @@ "io_data" :> 2 @@ "log_format" :> 3)

MCStrings ==
  {Null, <<>>, DotX, Bad, <<"bad", "bad">>, CutInside, Front(CutInside)}
  \cup {A(n) : n \in 1..5}
MCRead == [s \in MCStrings, l \in StringLimits |-> plugin_str(s, MCLimit[l])]
MCDecoded == [s \in MCStrings, l \in StringLimits |-> decode(s, MCLimit[l])]

Version(service) == IF service = "metadata" THEN 2 ELSE 1
MCApiVersion == [s \in {"io", "log", "metadata", "settings"} |-> Version(s)]
MCRequests ==
  {{[service |-> s, version |-> Version(s)]} : s \in DOMAIN MCApiVersion}
  \cup {{[service |-> "io", version |-> 2], [service |-> "log", version |-> 1]}}

-----------------------------------------------------------------------------
Tag(tag, data) == [call |-> "set_tag", own |-> TRUE, tag |-> tag, data |-> data]
TagNumber(tag, x) == [call |-> "set_tag_f64", own |-> TRUE, tag |-> tag, number |-> x]
Subsong(text, x) ==
  [call |-> "add_subsong", own |-> TRUE, index |-> 0, text |-> text, length |-> x]
Name(kind, text) == [call |-> kind, own |-> TRUE, text |-> text]
Foreign(p) == [p EXCEPT !.own = FALSE]

Texts == {Null, A(1), CutInside, Bad}

MCPushes ==
  {Name("create_url", t) : t \in Texts} \cup
  {Tag(t, A(1)) : t \in Texts} \cup {Tag(A(1), t) : t \in {Over, Bad}} \cup
  {Tag(<<>>, Over)} \cup
  {TagNumber(Null, "nan"), TagNumber(A(1), "nan"), TagNumber(Over, "positive")} \cup
  {Subsong(A(1), x) : x \in Numbers} \cup
  {[Subsong(t, "nan") EXCEPT !.index = 1] : t \in {Over, Bad}} \cup
  {Name("samples", t) : t \in Texts \ {Null}} \cup {Name("instruments", t) : t \in {Over, Bad}} \cup
  {Foreign(Tag(A(1), A(1))), Foreign(TagNumber(A(1), "nan")),
   Foreign(Subsong(A(1), "zero")), Foreign(Name("samples", A(1)))}

-----------------------------------------------------------------------------
MCLogCalls ==
  [level : {0, 5, 6}, file : {Null, A(3), A(4)}, line : {-1, 1},
   fmt : {Null, A(3), A(4)},
   formatted : {<<>>, A(3), A(4), CutInside, Bad, <<"bad", "bad">>}]

-----------------------------------------------------------------------------
NoArray == [null |-> TRUE, items |-> <<>>, count |-> 0]
Array(items) == [null |-> FALSE, items |-> items, count |-> Len(items)]
TooLong(items) == [null |-> FALSE, items |-> items, count |-> 3]

Entry(type, id, value, choices) ==
  [type |-> type, id |-> id, name |-> Null, desc |-> Null, value |-> value,
   choices |-> choices]
Choice(name, value) == [name |-> name, value |-> value]

One == <<"one">>
IntEntry(id) == Entry("Int", id, One, NoArray)
ChoiceEntry(type, items) == Entry(type, A(1), A(1), Array(items))

Entries ==
  {Entry("Unknown", A(1), One, NoArray), Entry("Unknown", A(4), One, NoArray),
   IntEntry(Null), IntEntry(Bad), IntEntry(A(3)), IntEntry(A(4)),
   [IntEntry(A(1)) EXCEPT !.name = A(5)], [IntEntry(A(1)) EXCEPT !.desc = A(3)],
   Entry("Float", A(2), One, NoArray),
   Entry("Bool", A(1), <<"true">>, NoArray), Entry("Bool", A(1), <<"two">>, NoArray),
   Entry("IntChoice", A(1), One, NoArray),
   ChoiceEntry("IntChoice", <<Choice(Null, One)>>), ChoiceEntry("IntChoice", <<Choice(A(5), One)>>),
   ChoiceEntry("StrChoice", <<Choice(A(1), A(1))>>), ChoiceEntry("StrChoice", <<Choice(Null, Over)>>),
   ChoiceEntry("StrChoice", <<Choice(A(1), Over)>>),
   [ChoiceEntry("StrChoice", <<>>) EXCEPT !.choices = TooLong(<<>>)],
   Entry("StrChoice", A(1), Over, NoArray)}

Reg1 == A(3)
MCRegCalls ==
  {[reg |-> Reg1, array |-> Array(<<e>>)] : e \in Entries} \cup
  {[reg |-> Reg1, array |-> Array(<<IntEntry(A(1)), e>>)] : e \in {IntEntry(A(1)), IntEntry(A(2)), IntEntry(A(4))}} \cup
  {[reg |-> r, array |-> NoArray] : r \in {Null, <<>>, Over, Bad}} \cup
  {[reg |-> Bad, array |-> Array(<<IntEntry(Bad), Entry("Float", A(1), One, NoArray)>>)],
   [reg |-> Reg1, array |-> TooLong(<<>>)]}

Lookup(accessor, reg, ext, id) == [accessor |-> accessor, reg |-> reg, ext |-> ext, id |-> id]
MCLookups ==
  {Lookup(a, Reg1, <<>>, A(1)) : a \in Accessors} \cup
  {Lookup("int", r, Null, A(3)) : r \in {Null, Over, Reg1, Bad}} \cup
  {Lookup("int", Reg1, e, A(1)) : e \in {Null, DotX, Over}} \cup
  {Lookup("int", Reg1, Null, id) : id \in {Null, Bad, A(4)}}
MCExtensions == {<<>>, A(1)}
MCHostValues == {[accessor |-> a, value |-> <<"two">>] : a \in {"int", "float"}}
MCIoUrls == {Null, A(2), A(5), Bad}
MCFileUrl == A(2)
=============================================================================
