-------------------------------- MODULE Lexer --------------------------------
(***************************************************************************)
(* The reference lexer (foresee/lexer.py) and the quoting of recorded text *)
(* by the evidence printer (foresee/replay.py).                            *)
(*                                                                         *)
(* A source is a sequence of characters.  What decides how a character is  *)
(* read is its class, so one or two characters stand for each.  Positions  *)
(* start at one.  The kind of a symbol, in the code its own text, is       *)
(* "SYMBOL".                                                               *)
(***************************************************************************)
EXTENDS Integers, Sequences, FiniteSets, SequencesExt

CONSTANTS
    Letters,          \* ASCII letters and the underscore
    OtherLetters,     \* letters of other alphabets
    Digits,           \* ASCII digits
    OtherDigits,      \* characters Python counts among the digits
    Symbols,          \* punctuation that is a token
    Pairs,            \* symbols of two characters
    Strange,          \* characters no token starts with
    Controls          \* control characters with no escape in the language

Quote == "\""
Backslash == "\\"
NewLine == "nl"
Blanks == {" ", "tab", "cr"}

(* A character is of one kind.                                             *)
Classes == <<Letters, OtherLetters, Digits, OtherDigits, Symbols, Strange, Controls, Blanks,
           {Quote, Backslash, NewLine}>>
Characters == UNION Range(Classes)

ASSUME LexerAssumption ==
    /\ \A i, j \in DOMAIN Classes : i # j => Classes[i] \cap Classes[j] = {}
    /\ {"n", "r", "t"} \subseteq Letters
    /\ "/" \in Symbols
    /\ Pairs \subseteq (Symbols \X Symbols) \ {<<"/", "/">>}

(* The escapes a literal may contain, and what they stand for.             *)
Escapes == [c \in {"n", "r", "t", Quote, Backslash} |->
               CASE c = "n" -> NewLine [] c = "r" -> "cr" [] c = "t" -> "tab" [] OTHER -> c]

Begin == [at |-> 1, line |-> 1, column |-> 1, tokens |-> <<>>, errors |-> <<>>]
SpanTo(scan, end) ==
    [start |-> scan.at, end |-> end, line |-> scan.line, column |-> scan.column]
Past(scan, end) == [scan EXCEPT !.at = end, !.column = @ + (end - scan.at)]
Emit(scan, kind, value, end) ==
    [Past(scan, end) EXCEPT
        !.tokens = Append(@, [kind |-> kind, value |-> value, span |-> SpanTo(scan, end)])]
Complain(scan, code, end) ==
    [scan EXCEPT !.errors = Append(@, [code |-> code, span |-> SpanTo(scan, end)])]

(* Where the run of characters of a class that includes position i ends.   *)
RunEnd(s, i, class) ==
    CHOOSE end \in i .. Len(s) + 1 :
        /\ \A k \in i .. end - 1 : s[k] \in class
        /\ end <= Len(s) => s[end] \notin class

(* A literal that is being read: its text so far, and where the rest of    *)
(* it starts.  Escapes the language does not have are told at once.        *)
Opened(scan) == [scan |-> scan, text |-> <<>>, end |-> scan.at + 1, closed |-> FALSE]
Over(s, literal) ==
    literal.closed \/ literal.end > Len(s) \/ s[literal.end] = NewLine
Inside(s, literal) ==
    LET i == literal.end
        on(length, text) == [literal EXCEPT !.end = i + length, !.text = @ \o text]
    IN  CASE Over(s, literal) -> literal
          [] ~Over(s, literal) /\ s[i] = Quote -> [literal EXCEPT !.end = i + 1, !.closed = TRUE]
          [] ~Over(s, literal) /\ s[i] = Backslash /\ i = Len(s) -> on(1, <<>>)
          [] ~Over(s, literal) /\ s[i] = Backslash /\ i < Len(s) ->
                IF s[i + 1] \in DOMAIN Escapes THEN on(2, <<Escapes[s[i + 1]]>>)
                ELSE [on(2, <<>>) EXCEPT !.scan = Complain(@, "F1003", i + 1)]
          [] OTHER -> on(1, <<s[i]>>)

(* Every turn of a loop over a source moves on, so it ends within as many  *)
(* turns as the source has characters.                                     *)
Literal(s, scan) ==
    LET after[k \in 0 .. Len(s)] ==                 \* after k turns
            IF k = 0 THEN Opened(scan) ELSE Inside(s, after[k - 1])
    IN  after[Len(s)]

ReadOpen(s, scan) ==                                 \* mutant
    LET literal == Literal(s, scan) IN
    Emit(literal.scan, "STRING", literal.text, literal.end)
ReadLiteral(s, scan) ==
    LET literal == Literal(s, scan) IN
    IF literal.closed THEN Emit(literal.scan, "STRING", literal.text, literal.end)
    ELSE Past(Complain(literal.scan, "F1002", literal.end), literal.end)

(* Names and numbers may use the letters and digits of any alphabet.       *)
NameStart == Letters \cup OtherLetters
AnyDigit == Digits \cup OtherDigits

(* One turn of the lexer's loop.                                           *)
ReadNext(s, scan) ==
    LET i == scan.at
        c == s[i]
        pair == IF i < Len(s) THEN <<c, s[i + 1]>> ELSE <<c>>
        run(class) == RunEnd(s, i, class)
    IN  CASE c \in Blanks -> Past(scan, i + 1)
          [] c = NewLine -> [scan EXCEPT !.at = i + 1, !.line = @ + 1, !.column = 1]
          [] pair = <<"/", "/">> -> Past(scan, run(Characters \ {NewLine}))
          [] pair \in Pairs -> Emit(scan, "SYMBOL", pair, i + 2)
          [] c \in NameStart ->
                Emit(scan, "IDENT", SubSeq(s, i, run(NameStart \cup AnyDigit) - 1), run(NameStart \cup AnyDigit))
          [] c \in AnyDigit -> Emit(scan, "INT", SubSeq(s, i, run(AnyDigit) - 1), run(AnyDigit))
          [] c = Quote -> ReadLiteral(s, scan)
          [] c \in Symbols /\ pair \notin Pairs \cup {<<"/", "/">>} ->
                Emit(scan, "SYMBOL", <<c>>, i + 1)
          [] OTHER -> Past(Complain(scan, "F1001", i + 1), i + 1)

Turn(s, scan) == IF scan.at \in DOMAIN s THEN ReadNext(s, scan) ELSE scan
ReadAll(s) ==
    LET after[k \in 0 .. Len(s)] ==
            IF k = 0 THEN Begin ELSE Turn(s, after[k - 1])
    IN  after[Len(s)]
Outcome(scan) ==
    [tokens |-> IF scan.errors = <<>> THEN scan.tokens ELSE <<>>, errors |-> scan.errors]
Lex(s) == Outcome(Emit(ReadAll(s), "EOF", <<>>, ReadAll(s).at))

(* How a recorded text is written (json.dumps, ensure_ascii=False): a      *)
(* control character other than the three with an escape of their own      *)
(* becomes \b, \f or \u00XX.                                               *)
WrittenPlain(c) == IF c = Backslash THEN <<c>> ELSE <<Backslash, c>>   \* mutant
Written(c) ==
    CASE c \in {Quote, Backslash} -> <<Backslash, c>>
      [] c = NewLine -> <<Backslash, "n">>
      [] c = "cr" -> <<Backslash, "r">>
      [] c = "tab" -> <<Backslash, "t">>
      [] c \in Controls -> <<Backslash, "u">>
      [] OTHER -> <<c>>
Quoted(text) ==
    LET after[k \in 0 .. Len(text)] ==               \* after k characters
            IF k = 0 THEN <<Quote>> ELSE after[k - 1] \o Written(text[k])
    IN  after[Len(text)] \o <<Quote>>
=============================================================================
