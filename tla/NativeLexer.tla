----------------------------- MODULE NativeLexer -----------------------------
(***************************************************************************)
(* The native lexer (crates/foresee-syntax/src/lib.rs): the same language  *)
(* with ASCII names and numbers, under budgets (limits.rs).                *)
(***************************************************************************)
EXTENDS Lexer

CONSTANTS
    Budget            \* bytes of a source and of an IDENT, INT or STRING
                      \* value; tokens and errors of a source

ASSUME BudgetAssumption ==
    /\ DOMAIN Budget = {"source", "IDENT", "INT", "STRING", "tokens", "errors"}
    /\ \A what \in DOMAIN Budget : Budget[what] \in Nat \ {0}

(* Characters outside ASCII take two bytes.                                *)
Ascii == Characters \ (OtherLetters \cup OtherDigits)
Bytes(text) == Len(text) + Len(SelectSeq(text, LAMBDA c : c \notin Ascii))

(* A reading ends early with one error, or with the errors up to the cap.  *)
Ended == 0
Refuse(scan, span) == [scan EXCEPT !.at = Ended, !.errors = <<[code |-> "F0001", span |-> span]>>]
Capped(scan) ==
    [scan EXCEPT
        !.at = Ended,
        !.errors = [i \in 1 .. Budget["errors"] |->
                       IF i = Budget["errors"] THEN [@[i] EXCEPT !.code = "F0002"] ELSE @[i]]]
TooMany(scan) == Len(scan.errors) >= Budget["errors"]

(* A token is kept if its value and their number are within the budgets.   *)
Keep(scan, kind, value, end) ==
    IF Bytes(value) > Budget[IF kind = "SYMBOL" THEN "STRING" ELSE kind]
    THEN Refuse(scan, SpanTo(scan, end))
    ELSE IF Len(scan.tokens) >= Budget["tokens"]
    THEN Refuse(scan, [start |-> end, end |-> end, line |-> scan.line,
                       column |-> Past(scan, end).column])
    ELSE Emit(scan, kind, value, end)

(* A literal, one character at a time; an unclosed one still makes a token.*)
(* What is done with a literal is its scan.                                *)
NativeOpened(scan) == [scan |-> scan, text |-> <<>>, end |-> scan.at + 1, done |-> FALSE]
NativeInside(s, literal) ==
    LET i == literal.end
        scan == literal.scan
        text == literal.text
        done(result) == [literal EXCEPT !.scan = result, !.done = TRUE]
        unclosed(end) == done(Keep(Complain(scan, "F1002", end), "STRING", text, end))
        on(length, more) == [literal EXCEPT !.end = i + length, !.text = @ \o more]
    IN  IF literal.done THEN literal
        ELSE IF i > Len(s) THEN unclosed(i)
        ELSE IF TooMany(scan) THEN done(Capped(scan))
        ELSE IF Bytes(text) > Budget["STRING"] THEN done(Refuse(scan, SpanTo(scan, i)))
        ELSE IF s[i] = Quote THEN done(Keep(scan, "STRING", text, i + 1))
        ELSE IF s[i] = NewLine THEN unclosed(i)
        ELSE IF s[i] # Backslash THEN on(1, <<s[i]>>)
        ELSE IF i = Len(s) THEN unclosed(i + 1)
        ELSE IF s[i + 1] \in DOMAIN Escapes THEN on(2, <<Escapes[s[i + 1]]>>)
        ELSE [on(2, <<>>) EXCEPT !.scan = Complain(scan, "F1003", i + 1)]
NativeLiteral(s, scan) ==
    LET after[k \in 0 .. Len(s)] ==
            IF k = 0 THEN NativeOpened(scan) ELSE NativeInside(s, after[k - 1])
    IN  after[Len(s)].scan

(* One turn of the loop.                                                   *)
NativeReadNext(s, scan) ==
    LET i == scan.at
        c == s[i]
        pair == IF i < Len(s) THEN <<c, s[i + 1]>> ELSE <<c>>
        word(kind, class) == Keep(scan, kind, SubSeq(s, i, RunEnd(s, i, class) - 1), RunEnd(s, i, class))
    IN  CASE TooMany(scan) -> Capped(scan)
          [] ~TooMany(scan) /\ c \in Blanks -> Past(scan, i + 1)
          [] ~TooMany(scan) /\ c = NewLine -> [scan EXCEPT !.at = i + 1, !.line = @ + 1, !.column = 1]
          [] ~TooMany(scan) /\ pair = <<"/", "/">> -> Past(scan, RunEnd(s, i, Characters \ {NewLine}))
          [] ~TooMany(scan) /\ pair \in Pairs -> Keep(scan, "SYMBOL", pair, i + 2)
          [] ~TooMany(scan) /\ c \in Letters -> word("IDENT", Letters \cup Digits)
          [] ~TooMany(scan) /\ c \in Digits -> word("INT", Digits)
          [] ~TooMany(scan) /\ c = Quote -> NativeLiteral(s, scan)
          [] ~TooMany(scan) /\ c \in Symbols /\ pair \notin Pairs \cup {<<"/", "/">>} ->
                Keep(scan, "SYMBOL", <<c>>, i + 1)
          [] OTHER -> Past(Complain(scan, IF c \in Ascii THEN "F1001" ELSE "F1004", i + 1), i + 1)

NativeTurn(s, scan) == IF scan.at \in DOMAIN s THEN NativeReadNext(s, scan) ELSE scan
NativeReadAll(s) ==
    LET after[k \in 0 .. Len(s)] ==
            IF k = 0 THEN Begin ELSE NativeTurn(s, after[k - 1])
    IN  after[Len(s)]
Conclude(scan) ==
    IF scan.at = Ended THEN scan
    ELSE IF scan.errors = <<>> THEN Emit(scan, "EOF", <<>>, scan.at)
    ELSE IF TooMany(scan) THEN Capped(scan)
    ELSE scan
NativeLex(s) ==
    Outcome(IF Bytes(s) > Budget["source"] THEN Refuse(Begin, SpanTo(Begin, 1))
            ELSE Conclude(NativeReadAll(s)))
=============================================================================
