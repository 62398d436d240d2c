------------------------------- MODULE Finance -------------------------------
(***************************************************************************)
(* The tools of the finance agent: amounts are added to the table expense  *)
(* (revenue is the same) and the tables are queried with conditions, on    *)
(* one of two database backends.  Amounts are in cents, rates in percent.  *)
(* A description is the set of its words.                                  *)
(***************************************************************************)
EXTENDS Integers, Sequences, FiniteSets

CONSTANTS
    Backends,     \* of {"supabase", "postgres"}
    Amounts,      \* what the model may pass for net_amount and gross_amount
    Rates,        \* and for tax_rate
    Words,        \* of descriptions
    Wheres,       \* what it may ask for: sets of
                  \* [column, operator, value, also, style, form]
    MaxRows       \* bound on the rows

\* A plain dictionary of columns and values can only mean equality; only a text
\* can hold more than a comparison; only dictionaries have keys.
ASSUME FinanceAssumption ==
    /\ Backends \subseteq {"supabase", "postgres"}
    /\ Amounts \subseteq Nat
    /\ Rates \subseteq 0 .. 100
    /\ MaxRows \in Nat
    /\ \A where \in Wheres : \A c \in where :
          /\ c.style \in {"statement", "list", "sql", "mongo", "plain"}
          /\ c.style = "plain" => c.operator = "eq"
          /\ c.form \in {"not", "minus", "and", "or", "loose"} => c.style = "sql"
          /\ c.form = "hidden" => c.style \in {"mongo", "plain"}

VARIABLES
    backend,
    table,     \* the rows, by id
    told       \* what the last tool told the model

vars == <<backend, table, told>>

AmountOf == {"net", "gross", "tax"}
Columns  == AmountOf \cup {"description"}

\* The arguments a model may give: any of the amounts.
Arguments ==
    {a \in UNION {[S -> Amounts \cup Rates] : S \in SUBSET AmountOf} :
        \A k \in DOMAIN a : IF k = "tax" THEN a[k] \in Rates ELSE a[k] \in Amounts}

Row == [net : Int, gross : Int, tax : Int, description : SUBSET Words, rated : BOOLEAN]

Nothing == [kind |-> "nothing"]
Failed  == [kind |-> "failed"]
Raised  == [kind |-> "raised"]

TypeOK ==
    /\ backend \in Backends
    /\ table \in Seq(Row) /\ Len(table) <= MaxRows
    /\ \/ told \in {Nothing, Failed, Raised}
       \/ /\ told.kind = "added"
          /\ told.row = Len(table) /\ told.gross \in Int
       \/ /\ told.kind = "found"
          /\ told.where \in Wheres
          /\ DOMAIN told.shown \subseteq DOMAIN table
          /\ told.shown \in [DOMAIN told.shown -> Int]

Init ==
    /\ backend \in Backends
    /\ table = <<>>
    /\ told = Nothing

-----------------------------------------------------------------------------
(***************************************************************************)
(* check_net_gross.  round(n / d, 2) is a nearest cent; which of the two   *)
(* when both are as near depends on whether a float or a Decimal is        *)
(* rounded.                                                                *)
(***************************************************************************)
Rounded(n, d) == {r \in {n \div d, n \div d + 1} : 2 * (n - d * r) <= d /\ 2 * (d * r - n) <= d}

\* Mutant: the rate is taken off the gross amount.
Net_OffGross(gross, tax) == Rounded(gross * (100 - tax), 100)

Gross(net, tax) == Rounded(net * (100 + tax), 100)
Net(gross, tax) == Rounded(gross * 100, 100 + tax)
Tax(net, gross) == IF net = 0 THEN {} ELSE Rounded((gross - net) * 100, net)

\* ExpenseCreate.model_validate: the amounts it may come to; none, and it
\* raises.
Validated(a) ==
    LET has == DOMAIN a
    IN  IF {"net", "tax"} \subseteq has
        THEN {[net |-> a["net"], gross |-> g, tax |-> a["tax"]] : g \in Gross(a["net"], a["tax"])}
        ELSE IF {"gross", "tax"} \subseteq has
        THEN {[net |-> n, gross |-> a["gross"], tax |-> a["tax"]] : n \in Net(a["gross"], a["tax"])}
        ELSE IF {"net", "gross"} \subseteq has
        THEN {[net |-> a["net"], gross |-> a["gross"], tax |-> t] : t \in Tax(a["net"], a["gross"])}
        ELSE {}

\* Expense(**row) validates the row as if it were an input.
Shown(row) == {r.gross : r \in Validated([k \in AmountOf |-> row[k]])}

-----------------------------------------------------------------------------
(***************************************************************************)
(* AddExpenseTool, AddRevenueTool                                          *)
(***************************************************************************)
Insert(a, d) ==
    /\ Len(table) < MaxRows
    /\ \E v \in Validated(a) :
          table' = Append(table, [net |-> v.net, gross |-> v.gross, tax |-> v.tax,
                                  description |-> d, rated |-> "tax" \in DOMAIN a])
    /\ UNCHANGED backend

Add(a, d) ==
    /\ Insert(a, d)
    /\ \E g \in Shown(table'[Len(table')]) :
          told' = [kind |-> "added", row |-> Len(table'), gross |-> g]

\* The insert is done, and its response is lost.
AddLost(a, d) ==
    /\ Insert(a, d)
    /\ told' = Failed

AddRefused(a) ==
    /\ Validated(a) = {}
    /\ told' = Failed
    /\ UNCHANGED <<backend, table>>

-----------------------------------------------------------------------------
(***************************************************************************)
(* QueryConfig.validate_where.  A condition is asked for in one of several *)
(* styles; its operator is what it means, its form how it is spelled:      *)
(*                                                                         *)
(*   symbol ">="    word "gte"    dollar "$gte"                            *)
(*   not    "NOT x >= 5"          minus  "gross - x >= 5"                  *)
(*   and    "x = 'a' AND x = 'b'" or     "x = 'a' OR x = 'b'"              *)
(*   loose  "x = a OR x = b"      hidden {"_x": 3}, a key that begins so   *)
(*                                                                         *)
(* where value is the first thing compared with and also the second, in    *)
(* an item of a list: a text that is the whole question is split at AND.   *)
(* A pattern is a word that is contained; whether it is anchored is left   *)
(* out.                                                                    *)
(***************************************************************************)
Allowed == {"eq", "gt", "lt", "gte", "lte", "ne", "ct"}

Refused == "refused"

\* WhereStatement.validate_operator: LIKE and contains are words too.
Statement(form, operator) ==
    IF form \in {"symbol", "word"} /\ operator \in Allowed THEN operator ELSE Refused

\* _parse_list_condition: its own table, and then the statement's.
ListItem(form, operator) == Statement(form, operator)

\* Mutant: the shorter symbols come first in the pattern.
Sql_Shortest(form, operator) ==
    IF form \notin {"word", "dollar"} /\ operator \in Allowed
    THEN IF operator \in {"gte", "lte"} THEN (IF operator = "gte" THEN "gt" ELSE "lt") ELSE operator
    ELSE Refused

\* _parse_sql_condition searches for the first thing that looks like a
\* comparison, wherever it begins, and ignores what is around it.
Sql(form, operator) ==
    IF form \notin {"word", "dollar"} /\ operator \in Allowed THEN operator ELSE Refused

\* _parse_dict_condition: what does not begin with "$" is taken for equality (of
\* a list, it is refused).
Mongo(form, operator) ==
    IF form = "dollar" \/ operator = "in" THEN Statement("word", operator) ELSE "eq"

\* The operator a condition is read as.
Read(c) ==
    CASE c.style = "statement" -> Statement(c.form, c.operator)
      [] c.style = "list"      -> ListItem(c.form, c.operator)
      [] c.style = "sql"       -> Sql(c.form, c.operator)
      [] c.style = "mongo"     -> Mongo(c.form, c.operator)
      [] c.style = "plain"     -> "eq"

\* Up to the next quote, what follows is a part of the value.
Value(c) ==
    IF c.form = "loose" /\ c.column = "description" THEN c.value \cup c.also \cup {"or"} ELSE c.value

\* A hidden key is skipped; "x NOT LIKE y" is a condition on a column NOT.
Parse(where) ==
    {[column   |-> IF c.form = "not" /\ c.operator = "ct" THEN "not" ELSE c.column,
      operator |-> Read(c), value |-> Value(c), clean |-> c.form # "loose"] :
        c \in {d \in where : d.form # "hidden"}}

-----------------------------------------------------------------------------
(***************************************************************************)
(* QueryDataTool                                                           *)
(***************************************************************************)
\* What a comparison means, to PostgREST and to PostgreSQL.
Compare(x, operator, v) ==
    CASE operator = "eq"  -> x = v
      [] operator = "ne"  -> x # v
      [] operator = "gt"  -> x > v
      [] operator = "lt"  -> x < v
      [] operator = "gte" -> x >= v
      [] operator = "lte" -> x <= v
      [] operator = "ct"  -> v \subseteq x

Matching(conditions) ==
    {i \in DOMAIN table : \A c \in conditions : Compare(table[i][c.column], c.operator, c.value)}

\* SupabaseRepository.query_dynamic: PostgREST has an operator for each; like is
\* not one of numbers.
PostgRest(conditions) ==
    \A c \in conditions : c.operator = "ct" => c.column = "description"

\* PostgresRepository.query_dynamic knows three operators; for any other it
\* passes a parameter the statement has no place for.  Every column is quoted,
\* the asterisk that stands for all of them too.
RawSql(conditions, columns) ==
    columns # {"*"} /\ \A c \in conditions : c.operator \in {"eq", "gt", "lt"}

\* supabase_query_from_config looks at the columns first; no database compares
\* an amount with a text.
Executes(conditions, columns) ==
    /\ columns \subseteq Columns \cup {"*"}
    /\ \A c \in conditions : c.column \in Columns /\ (c.clean \/ c.column = "description")
    /\ IF backend = "supabase" THEN PostgRest(conditions) ELSE RawSql(conditions, columns)

\* format_query_results: a whole row is validated once more before it is shown,
\* a part of one is shown as it is.
Display(rows, columns) ==
    IF columns = {"*"}
    THEN {f \in [rows -> UNION {Shown(table[i]) : i \in rows}] :
            \A i \in rows : f[i] \in Shown(table[i])}
    ELSE {[i \in rows |-> table[i].gross]}

\* What is refused by QueryConfig is raised where nothing catches it; what fails
\* later is told to the model.
Query(where, columns) ==
    /\ LET conditions == Parse(where)
       IN  IF \E c \in conditions : c.operator = Refused
           THEN told' = Raised
           ELSE IF ~Executes(conditions, columns)
           THEN told' = Failed
           ELSE \E f \in Display(Matching(conditions), columns) :
                   told' = [kind |-> "found", where |-> where, shown |-> f]
    /\ UNCHANGED <<backend, table>>

\* A table the tool does not know.
UnknownTable ==
    /\ told' = Failed
    /\ UNCHANGED <<backend, table>>

-----------------------------------------------------------------------------
Next ==
    \/ \E a \in Arguments, d \in SUBSET Words : Add(a, d) \/ AddLost(a, d)
    \/ \E a \in Arguments : AddRefused(a)
    \/ UnknownTable
    \/ \E where \in Wheres, columns \in {{"*"}, {"net"}, {"unknown"}} : Query(where, columns)

Spec == Init /\ [][Next]_vars
-----------------------------------------------------------------------------
(***************************************************************************)
(* Properties                                                              *)
(***************************************************************************)

(***************************************************************************)
(* If a rate was given, the amount the user is told, when it is added and  *)
(* whenever it is found, is within a cent of the one in the table, though  *)
(* reading a row computes it again from a net amount that may itself have  *)
(* been rounded.                                                           *)
(***************************************************************************)
Close(gross, row) == row.rated => gross - row.gross \in -1 .. 1

ToldWithinACent ==
    /\ told.kind = "added" => Close(told.gross, table[told.row])
    /\ told.kind = "found" => \A i \in DOMAIN told.shown : Close(told.shown[i], table[i])

(***************************************************************************)
(* A query in the styles the tool describes that is answered is answered   *)
(* with the rows that were asked for, whichever style and backend: there   *)
(* what cannot be read or expressed is refused.  What is more than a       *)
(* comparison is not refused but guessed: of an alternative only the first *)
(* is read, so that nothing else than what was asked for is shown, but not *)
(* all of it; a further condition and one on a hidden key are ignored, so  *)
(* that all of it is shown, and more.  A negation, a difference, an        *)
(* alternative without quotes and an operator of the dictionaries without  *)
(* its $ may be answered with anything.                                    *)
(***************************************************************************)
WellSpelled(c) ==
    c.form \in {"symbol", "word", "dollar"} /\ (c.style = "mongo" => c.form = "dollar")

\* What a condition asks for.
Asks(row, c) ==
    LET x == IF c.form = "minus" THEN row["gross"] - row[c.column] ELSE row[c.column]
        Is(v) == Compare(x, c.operator, v)
    IN  CASE c.form = "not"             -> ~Is(c.value)
          [] c.form = "and"             -> Is(c.value) /\ Is(c.also)
          [] c.form \in {"or", "loose"} -> Is(c.value) \/ Is(c.also)
          [] OTHER                      -> Is(c.value)

AskedFor(where) == {i \in DOMAIN table : \A c \in where : Asks(table[i], c)}

AnswerIsRight ==
    told.kind = "found" =>
        /\ (\A c \in told.where : WellSpelled(c) \/ c.form = "or") =>
               DOMAIN told.shown \subseteq AskedFor(told.where)
        /\ (\A c \in told.where : WellSpelled(c) \/ c.form \in {"and", "hidden"}) =>
               AskedFor(told.where) \subseteq DOMAIN told.shown

(***************************************************************************)
(* Checked by hand, and not true: what is answered is what was asked for,  *)
(* however it was asked.                                                   *)
(***************************************************************************)
NothingIsGuessed ==
    told.kind = "found" => DOMAIN told.shown = AskedFor(told.where)

(***************************************************************************)
(* models.py: "Calcula automaticamente valores faltantes", missing values  *)
(* are computed.  Then what is there stays, and the amount told is the one *)
(* in the table.                                                           *)
(***************************************************************************)
ToldAsStored == told.kind = "added" => told.gross = table[told.row].gross
=============================================================================
