------------------------------ MODULE Documents ------------------------------
(***************************************************************************)
(* Documents as a writer leaves them: characters typed one by one, or a    *)
(* program of which a few tokens in a row are replaced, inserted, deleted  *)
(* or turned into string literals (the mutations of tools/fuzz_compiler.py *)
(* and the malformed cases of tools/check_frontends.py).  Both front ends  *)
(* read every one of them.                                                 *)
(***************************************************************************)
EXTENDS NativeLexer, Parser

CONSTANTS
    Alphabet,         \* the characters that are typed
    Samples,          \* programs to start from, as tokens
    Vocabulary,       \* tokens that are put in
    Limits,           \* items and nesting the native parser allows
    MaxLength,        \* bound: characters typed
    MaxEdits          \* bound: tokens changed in one program

(* A token of a program is its kind and its value.                         *)
Tokens == [kind : {"IDENT", "INT", "STRING", "SYMBOL", "EOF"}, value : STRING]

ASSUME DocumentsAssumption ==
    /\ Samples \subseteq Seq(Tokens) /\ Vocabulary \subseteq Tokens
    /\ Limits \in [items : Nat, depth : Nat]

VARIABLES
    characters,       \* the characters typed
    tokens,           \* the tokens of the program, or none
    cursor,           \* the token that may change next
    edits             \* tokens changed so far

draft == <<characters, tokens, cursor, edits>>

DraftInit ==
    /\ characters = <<>>
    /\ tokens \in Samples \cup {<<>>}
    /\ cursor \in DOMAIN tokens \cup {0} /\ (cursor = 0) = (tokens = <<>>)
    /\ edits = 0

Type(c) ==
    /\ tokens = <<>> /\ Len(characters) < MaxLength
    /\ characters' = Append(characters, c)
    /\ UNCHANGED <<tokens, cursor, edits>>

(* Puts tokens in the place of the one at the cursor.                      *)
Put(new) ==
    /\ tokens # <<>> /\ edits < MaxEdits /\ cursor < Len(tokens)
    /\ tokens' = SubSeq(tokens, 1, cursor - 1) \o new \o SubSeq(tokens, cursor + 1, Len(tokens))
    /\ cursor' = cursor + Len(new)
    /\ edits' = edits + 1
    /\ UNCHANGED characters

Replace(token) == Put(<<token>>)
Insert(token) == Put(<<token, tokens[cursor]>>)
Delete == Put(<<>>)
Requote == tokens # <<>> /\ tokens[cursor].kind # "STRING" /\ Put(<<[kind |-> "STRING", value |-> tokens[cursor].value]>>)

DraftNext ==
    \/ \E c \in Alphabet : Type(c)
    \/ \E token \in Vocabulary : Replace(token) \/ Insert(token)
    \/ Delete
    \/ Requote
DraftSpec == DraftInit /\ [][DraftNext]_draft

(***************************************************************************)
(* Both front ends read the same language.                                 *)
(***************************************************************************)
Codes(reading) == {reading.errors[i].code : i \in DOMAIN reading.errors}

(* Whatever the native lexer accepts, the reference reads as the same      *)
(* tokens at the same places; and unless a budget or a character outside   *)
(* ASCII is in the way, it refuses with the same codes at the same places. *)
LexersAgree ==
    LET native == NativeLex(characters)
        python == Lex(characters)
    IN  \/ native = python
        \/ Codes(native) \cap {"F0001", "F0002", "F1004"} # {}

(* Likewise the parsers, within the limits.                                *)
ParsersAgree ==
    tokens # <<>> =>
        LET native == Parse(tokens, Limits) IN
        native = Parse(tokens, Unlimited) \/ native.code \in {"F0001", "F2002"}

FrontEndsAgree == LexersAgree /\ ParsersAgree

(* Every text an accepted literal denotes is quoted so that the lexer      *)
(* reads the same text.                                                    *)
ReadsBack(text) ==
    LET again == Lex(Quoted(text)) IN
    /\ again.errors = <<>>
    /\ Len(again.tokens) = 2
    /\ again.tokens[1].kind = "STRING"
    /\ again.tokens[1].value = text
Literals ==
    {token.value : token \in {Lex(characters).tokens[i] : i \in
        {j \in DOMAIN Lex(characters).tokens : Lex(characters).tokens[j].kind = "STRING"}}}
RecordedTextReadsBack == \A text \in Literals : ReadsBack(text)

(* ... unless it contains a control character the language has no escape   *)
(* for.                                                                    *)
PlainTextReadsBack ==
    \A text \in Literals : (\A i \in DOMAIN text : text[i] \notin Controls) <=> ReadsBack(text)
=============================================================================
