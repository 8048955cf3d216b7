-------------------------- MODULE RecordedPrograms ---------------------------
(***************************************************************************)
(* What is recorded of a program (foresee/compiler.py), the printer that   *)
(* turns it back into source (source_from_ir), and the parser that reads   *)
(* it again when a report is replayed.                                     *)
(***************************************************************************)
EXTENDS Documents

(* What the checker records of an expression: all but annotations.         *)
RECURSIVE Recorded(_), RecordedStatement(_)
RecordedList(list) == <<[i \in DOMAIN list[1] |-> Recorded(list[1][i])]>>
Recorded(e) ==
    CASE e[1] \in {"propose", "call", "simulate"} -> [e EXCEPT ![4] = RecordedList(@)]
      [] e[1] \in {"select", "commit"} -> [e EXCEPT ![2] = Recorded(@)]
      [] e[1] = "explore" ->
            [e EXCEPT ![3] = Recorded(@), ![4] = Recorded(@),
                      ![5] = <<[i \in DOMAIN @[1] |-> RecordedStatement(@[1][i])]>>]
      [] OTHER -> e
RecordedStatement(s) ==
    CASE s[1] = "let" -> [s EXCEPT ![3] = <<>>, ![4] = Recorded(@)]
      [] s[1] = "measure" -> [s EXCEPT ![4] = Recorded(@)]
      [] s[1] \in {"check", "return"} -> [s EXCEPT ![2] = Recorded(@)]
RecordedProgram(program) ==
    [program EXCEPT ![3] =
        [i \in DOMAIN @ |->
            [@[i] EXCEPT ![5] = <<[j \in DOMAIN @[1] |-> RecordedStatement(@[1][j])]>>]]]

(* Printing: words, punctuation and literals, separated by blanks.         *)
Word(value) == [kind |-> "IDENT", value |-> value]
Sign(value) == [kind |-> "SYMBOL", value |-> value]
Text(value) == [kind |-> "STRING", value |-> value]
NoCommas(printed) == FlattenSeq(printed)             \* mutant
Commas(printed) ==
    FlattenSeq([i \in DOMAIN printed |-> IF i = 1 THEN printed[i] ELSE <<Sign(",")>> \o printed[i]])

RECURSIVE PrintExpression(_), PrintStatement(_)
PrintArguments(list) ==
    <<Sign("(")>> \o Commas([i \in DOMAIN list[1] |-> PrintExpression(list[1][i])]) \o <<Sign(")")>>
PrintBlock(block) ==
    <<Sign("{")>> \o FlattenSeq([i \in DOMAIN block[1] |-> PrintStatement(block[1][i])]) \o <<Sign("}")>>
PrintExpression(e) ==
    CASE e[1] = "string" -> <<Text(e[2])>>
      [] e[1] = "int" -> <<[kind |-> "INT", value |-> e[2]]>>
      [] e[1] = "var" -> <<Word(e[2])>>
      [] e[1] = "snapshot" -> <<Word("snapshot"), Word(e[2])>>
      [] e[1] = "propose" ->
            <<Word("propose"), Word(e[2]), Sign("<"), Word(e[3]), Sign(">")>> \o PrintArguments(e[4])
      [] e[1] = "call" -> <<Word(e[2]), Sign("."), Word(e[3])>> \o PrintArguments(e[4])
      [] e[1] = "simulate" ->
            <<Word("simulate"), Word(e[2]), Sign("."), Word(e[3])>> \o PrintArguments(e[4])
      [] e[1] = "explore" ->
            <<Word("explore"), Word(e[2]), Word("in")>> \o PrintExpression(e[3])
                \o <<Word("from")>> \o PrintExpression(e[4]) \o PrintBlock(e[5])
      [] e[1] = "select" -> <<Word("select")>> \o PrintExpression(e[2]) \o <<Word("minimize"), Word(e[3])>>
      [] e[1] = "commit" -> <<Word("commit")>> \o PrintExpression(e[2]) \o <<Word("to"), Word(e[3])>>
PrintStatement(s) ==
    (CASE s[1] = "let" -> <<Word("let"), Word(s[2]), Sign("=")>> \o PrintExpression(s[4])
       [] s[1] = "return" -> <<Word("return")>> \o PrintExpression(s[2])
       [] s[1] = "check" -> <<Word("check")>> \o PrintExpression(s[2]) \o <<Word("else"), Text(s[3])>>
       [] s[1] = "measure" ->
             <<Word("measure"), Word(s[2]), Sign(":"), Word(s[3]), Sign("=")>> \o PrintExpression(s[4]))
        \o <<Sign(";")>>

PrintDeclaration(d) ==
    IF d[1] # "decision"
    THEN <<Word(d[1]), Word(d[2]), Sign(":"), Word(d[3]), Sign(";")>>
    ELSE <<Word("decision"), Word(d[2]), Sign("("), Sign(")"), Sign("!"), Sign("{")>>
            \o Commas([i \in DOMAIN d[4] |-> <<Word(d[4][i][1]), Sign("("), Word(d[4][i][2]), Sign(")")>>])
            \o <<Sign("}")>> \o PrintBlock(d[5])
Source(program) ==
    FlattenSeq([k \in 1 .. 3 |->
        FlattenSeq([i \in DOMAIN program[k] |-> PrintDeclaration(program[k][i])])])
        \o <<[kind |-> "EOF", value |-> ""]>>

(* A program that was accepted reads back from what is recorded of it as   *)
(* the same program: replay checks what ran, not something else.           *)
RecordedProgramsReadBack ==
    tokens # <<>> =>
        LET read == Parse(tokens, Unlimited)
            recorded == RecordedProgram(read.node)
            again == Parse(Source(recorded), Unlimited)
        IN  read.code = "" => again.code = "" /\ again.node = recorded
=============================================================================
