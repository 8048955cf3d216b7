----------------------------- MODULE MCDocuments -----------------------------
(***************************************************************************)
(* Short texts over one character of each kind, and four programs that     *)
(* use every production, changed in up to two places in a row.             *)
(***************************************************************************)
EXTENDS RecordedPrograms, TLC

SomeSymbols == {"-", ">", "/", ";"}
SomePairs == {<<"-", ">">>}
FewBytes == [source |-> 7, IDENT |-> 2, INT |-> 2, STRING |-> 3, tokens |-> 3, errors |-> 2]
Typed == {"n", "x", "e_acute", "7", "arabic_7", "-", ">", "/", "@", " ", "form_feed", Quote, Backslash, NewLine}

Numbers == ("1" :> "1") @@ ("01" :> "1")
FewLimits == [items |-> 2, depth |-> 2]

Vars == <<"var", "x">>
Args(list) == <<list>>
Block(list) == <<list>>
Let(name, e) == <<"let", name, <<>>, e>>
Program(effects, statements) ==
    <<<<<<"resource", "c", "T">>>>, <<<<"model", "m", "T">>>>,
      <<<<"decision", "d", <<>>, effects, Block(statements)>>>>>>
Inner == <<<<"check", <<"call", "c", "f", Args(<<Vars, Vars>>)>>, "text">>,
           <<"measure", "u", "T", <<"int", "1">>>>>>
Sources == {
    <<<<>>, <<>>, <<<<"decision", "d", <<>>, <<<<"E", "c">>, <<"E", "m">>>>, Block(<<Let("x", <<"snapshot", "c">>)>>)>>>>>>,
    <<<<>>, <<>>, <<<<"decision", "d", <<>>, <<>>,
        Block(<<Let("x", <<"propose", "m", "T", Args(<<Vars, <<"string", "text">>, <<"int", "1">>>>)>>)>>)>>>>>>,
    <<<<>>, <<>>, <<<<"decision", "d", <<>>, <<>>,
        Block(<<Let("x", <<"explore", "i", Vars, Vars, Block(Inner)>>)>>)>>>>>>,
    <<<<<<"resource", "c", "T">>>>, <<<<"model", "m", "T">>>>, <<<<"decision", "d", <<>>, <<>>,
        Block(<<<<"return", <<"commit", <<"select", <<"simulate", "c", "f", Args(<<>>)>>, "u">>, "c">>>>>>)>>>>>>}
Programs == {Source(p) : p \in Sources}
Puts ==
    {Word(w) : w \in {"x", "let", "snapshot", "else"}}
        \cup {Sign(w) : w \in {",", ";", ")", "}", "(", ":", "->"}}
        \cup {Text("text"), Text(")"), [kind |-> "INT", value |-> "01"]}
=============================================================================
