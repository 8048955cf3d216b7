\* Text that is recorded does not always read back.
SPECIFICATION DraftSpec
CONSTANTS
    Letters = {"n", "r", "t", "x"}
    OtherLetters = {"e_acute"}
    Digits = {"7"}
    OtherDigits = {"arabic_7"}
    Symbols <- SomeSymbols
    Pairs <- SomePairs
    Strange = {"@"}
    Controls = {"form_feed"}
    Budget <- FewBytes
    Numeral <- Numbers
    Alphabet <- Typed
    Samples = {}
    Vocabulary <- Puts
    Limits <- FewLimits
    MaxLength = 4
    MaxEdits = 2
INVARIANT RecordedTextReadsBack
\* A document may be as long, or as changed, as the bounds allow.
CHECK_DEADLOCK FALSE
