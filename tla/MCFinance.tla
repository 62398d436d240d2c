------------------------------ MODULE MCFinance ------------------------------
(***************************************************************************)
(* Instances of Finance for TLC.                                           *)
(***************************************************************************)
EXTENDS Finance

\* Every way to ask: the styles with the forms they are met in.
Ways ==
    ({"statement", "list", "sql"} \X {"symbol", "word"})
    \cup ({"mongo"} \X {"word", "dollar"})
    \cup {<<"statement", "dollar">>, <<"sql", "not">>}

\* Texts with more in them than a comparison, and hidden keys.
More   == {"sql"} \X {"minus", "and", "or", "loose"}
Hidden == {<<"mongo", "hidden">>, <<"plain", "hidden">>}

Compared(column, operator, value, also, w) ==
    [column |-> column, operator |-> operator, value |-> value, also |-> also,
     style |-> w[1], form |-> w[2]]

Condition(column, operator, value, w) == Compared(column, operator, value, value, w)

Above == Condition("net", "gt", 3, <<"statement", "word">>)

\* Every operator on an amount, those of a text, a column that is not there.
Asked ==
    {Condition("gross", o, 1123, w) : o \in Allowed \cup {"in"}, w \in Ways}
    \cup {Condition("description", o, {"rent"}, w) : o \in {"ne", "ct"}, w \in Ways}
    \cup {Compared("gross", o, 1123, 4, w) : o \in {"eq", "gt"}, w \in More}
    \cup {Compared("description", "eq", {"rent"}, {}, w) : w \in {<<"sql", "or">>, <<"sql", "loose">>}}
    \cup {Condition("gross", "eq", 1123, w) : w \in Hidden}
    \cup {Condition("description", "eq", {"rent"}, <<"plain", "word">>)}
    \cup {Condition("unknown", "eq", 0, <<"plain", "word">>), Above}

\* None, one, a range, or one next to a condition that is guessed.
AllAsked ==
    {{}} \cup {{c} : c \in Asked} \cup
    {{Above, Condition("gross", "lt", 1123, <<"sql", "symbol">>)},
     {Above, Condition("gross", "eq", 1123, <<"plain", "hidden">>)},
     {Above, Compared("gross", "lt", 4, 1123, <<"sql", "or">>)}}
=============================================================================
