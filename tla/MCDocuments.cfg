\* Both front ends read the same language, and what is recorded reads back.
SPECIFICATION DraftSpec
CONSTANTS
    Letters = {"n", "r", "t", "x"}
    OtherLetters = {"e_acute"}
    Digits = {"7"}
    OtherDigits = {"arabic_7"}
    Symbols <- SomeSymbols
    Pairs <- SomePairs
    Strange = {"@"}
    Controls = {"form_feed"}
    Budget <- FewBytes
    Numeral <- Numbers
    Alphabet <- Typed
    Samples <- Programs
    Vocabulary <- Puts
    Limits <- FewLimits
    MaxLength = 5
    MaxEdits = 2
INVARIANTS
    FrontEndsAgree
    RecordedProgramsReadBack
    PlainTextReadsBack
\* A document may be as long, or as changed, as the bounds allow.
CHECK_DEADLOCK FALSE
