------------------------------- MODULE Parser --------------------------------
(***************************************************************************)
(* The recursive-descent parser (foresee/parser.py) and the native one,    *)
(* which has the same productions under limits (crates/foresee-syntax).    *)
(*                                                                         *)
(* A token is its kind and its value.  Keywords and punctuation are        *)
(* matched by value alone, whatever the kind.  A node is a sequence: the   *)
(* keyword, if there is one, and what the production captured, in order.   *)
(***************************************************************************)
EXTENDS Integers, Sequences, FiniteSets, Functions

CONSTANTS
    Numeral           \* the number each integer literal stands for, in digits

(* Productions: sequences of token kinds, of rules and of literal tokens.  *)
Kinds == {"IDENT", "STRING"}
Forms ==                            \* chosen by their keyword
    [expression |->
        [snapshot |-> <<"IDENT">>,
         propose |-> <<"IDENT", "<", "IDENT", ">", "arguments">>,
         explore |-> <<"IDENT", "in", "expression", "from", "expression", "block">>,
         simulate |-> <<"IDENT", ".", "IDENT", "arguments">>,
         select |-> <<"expression", "minimize", "IDENT">>,
         commit |-> <<"expression", "to", "IDENT">>],
     statement |->
        [let |-> <<"IDENT", "annotation", "=", "expression", ";">>,
         return |-> <<"expression", ";">>,
         check |-> <<"expression", "else", "STRING", ";">>,
         measure |-> <<"IDENT", ":", "IDENT", "=", "expression", ";">>],
     declaration |->
        [resource |-> <<"IDENT", ":", "IDENT", ";">>,
         model |-> <<"IDENT", ":", "IDENT", ";">>,
         decision |-> <<"IDENT", "(", ")", "result", "!", "{", "effects", "}", "block">>]]
Groups ==
    [arguments |-> <<"(", "expressions", ")">>,
     block |-> <<"{", "statements", "}">>,
     effect |-> <<"IDENT", "(", "IDENT", ")">>]
Options ==                          \* absent unless the first token is there
    [annotation |-> <<":", "IDENT", "parameter">>,
     parameter |-> <<"<", "IDENT", ">">>,
     result |-> <<"->", "DecisionResult">>]
Lists ==                            \* read up to a token, with commas or without
    [expressions |-> [of |-> "expression", until |-> ")", commas |-> TRUE, trailing |-> FALSE],
     effects |-> [of |-> "effect", until |-> "}", commas |-> TRUE, trailing |-> TRUE],
     statements |-> [of |-> "statement", until |-> "}", commas |-> FALSE, trailing |-> TRUE],
     declarations |-> [of |-> "declaration", until |-> "EOF", commas |-> FALSE, trailing |-> TRUE]]
Call == <<".", "IDENT", "arguments">>
Productions ==
    Range(Groups) \cup Range(Options) \cup {Call}
        \cup (UNION {Range(Forms[rule]) : rule \in DOMAIN Forms})
Rules == DOMAIN Forms \cup DOMAIN Groups \cup DOMAIN Options \cup DOMAIN Lists
Items == Rules \cup Kinds \cup UNION {Range(items) : items \in Productions}

Got(at, node) == [at |-> at, code |-> "", node |-> node]
Bad(at, code) == [at |-> at, code |-> code, node |-> <<>>]

(* Limits of the native parser: items of a list, nesting of expressions.   *)
(* The reference has neither: a negative one is never met.                 *)
Unlimited == [items |-> -1, depth |-> -1]

(* A list that has as many items as are allowed.                           *)
CutShort(at) == Got(at, <<>>)                        \* mutant
Full(at) == Bad(at, "F0001")

(* In what follows `read` is how an item reads that is part of the one at  *)
(* hand, at a token and with the room that is left for items and nesting.  *)

(* Reads the items of a production one after the other.                    *)
NextPart(item, read, room, before) ==
    LET part == read[item][before.at][room] IN
    IF before.code # "" THEN before
    ELSE IF part.code # "" THEN part
    ELSE Got(part.at, IF item \in Rules \cup Kinds THEN Append(before.node, part.node)
                      ELSE before.node)
Follow(items, read, at, room, node) ==
    LET after[k \in 0 .. Len(items)] ==              \* after k items
            IF k = 0 THEN Got(at, node)
            ELSE NextPart(items[k], read, room, after[k - 1])
    IN  after[Len(items)]

(* Reads one more item of a list, and the rest of the list after it.       *)
ReadList(rule, t, read, at, room, limit) ==
    LET list == Lists[rule]
        first == room.items = limit.items
        ended == (IF list.until = "EOF" THEN t[at].kind ELSE t[at].value) = list.until
        part == read[list.of][at][[room EXCEPT !.items = limit.items]]
        rest(next) == read[rule][next][[room EXCEPT !.items = @ - 1]]
        before(more) == IF more.code # "" THEN more ELSE Got(more.at, <<part.node>> \o more.node)
    IN  CASE ended /\ (list.trailing \/ first) -> Got(at, <<>>)
          [] ~ended /\ rule = "statements" /\ t[at].kind = "EOF" -> Bad(at, "F2001")
          [] OTHER ->
                IF room.items = 0 THEN Full(at)
                ELSE IF part.code # "" THEN part
                ELSE IF ~list.commas THEN before(rest(part.at))
                ELSE IF t[part.at].value = "," THEN before(rest(part.at + 1))
                ELSE Got(part.at, <<part.node>>)

ReadForm(rule, t, read, at, room) ==
    LET keyword == t[at].value IN Follow(Forms[rule][keyword], read, at + 1, room, <<keyword>>)

ReadExpression(t, read, at, room) ==
    LET token == t[at]
        within == [room EXCEPT !.depth = @ - 1]
    IN  CASE room.depth = 0 -> Bad(at, "F2002")
          [] room.depth # 0 /\ token.value \in DOMAIN Forms.expression ->
                ReadForm("expression", t, read, at, within)
          [] OTHER ->
                CASE token.kind = "STRING" -> Got(at + 1, <<"string", token.value>>)
                  [] token.kind = "INT" -> Got(at + 1, <<"int", Numeral[token.value]>>)
                  [] token.kind = "IDENT" ->
                        IF t[at + 1].value = "."
                        THEN Follow(Call, read, at + 1, within, <<"call", token.value>>)
                        ELSE Got(at + 1, <<"var", token.value>>)
                  [] OTHER -> Bad(at, "F2001")

ReadItem(item, t, read, at, room, limit) ==
    LET token == t[at]
    IN  CASE item \in Kinds -> IF token.kind = item THEN Got(at + 1, token.value) ELSE Bad(at, "F2001")
          [] item = "expression" -> ReadExpression(t, read, at, room)
          [] item \in DOMAIN Forms \ {"expression"} ->
                IF token.value \in DOMAIN Forms[item] THEN ReadForm(item, t, read, at, room)
                ELSE Bad(at, "F2001")
          [] item \in DOMAIN Groups -> Follow(Groups[item], read, at, room, <<>>)
          [] item \in DOMAIN Options ->
                IF token.value = Options[item][1] THEN Follow(Options[item], read, at, room, <<>>)
                ELSE Got(at, <<>>)
          [] item \in DOMAIN Lists -> ReadList(item, t, read, at, room, limit)
          [] item \notin Kinds \cup Rules ->
                IF token.value = item THEN Got(at + 1, item) ELSE Bad(at, "F2001")

(* Readings within one another: no more than four begin at one token.      *)
Deepest(t) == 4 * (Len(t) + 1)
Rooms == [items : Int, depth : Int]
NoRoom == [item \in Items |-> [at \in Nat |-> [room \in Rooms |-> Bad(at, "F2001")]]]
Around(t, limit, read) ==
    [item \in Items |-> [at \in Nat |-> [room \in Rooms |->
        ReadItem(item, t, read, at, room, limit)]]]
Read(t, limit) ==
    LET read[n \in 0 .. Deepest(t)] ==               \* n readings within one another
            IF n = 0 THEN NoRoom ELSE Around(t, limit, read[n - 1])
    IN  read[Deepest(t)]

(* A program keeps its resources, models and decisions apart.              *)
Of(kind, declarations) == SelectSeq(declarations, LAMBDA d : d[1] = kind)
Parse(t, limit) ==
    LET read == Read(t, limit)["declarations"][1][limit] IN
    [read EXCEPT !.node = <<Of("resource", @), Of("model", @), Of("decision", @)>>]
=============================================================================
