----------------------------- MODULE Substitution -----------------------------
(***************************************************************************)
(* What a node's text becomes when it is executed (types.rs).  Variables,  *)
(* {v}, are inserted first and as they are; results of earlier nodes, $r,  *)
(* $r?, $r.c, $r.c? and $r.*, are inserted after that and, in SQL, quoted. *)
(* A text is a sequence of characters; the keywords the code generates are *)
(* one character each.  The server that reads the SQL is external: Lex.    *)
(*                                                                         *)
(* A behaviour is one execution of one template: the variables, the        *)
(* results, and the session that checks the quoting and reads the text.    *)
(***************************************************************************)
EXTENDS SqlLiterals, FiniteSets

CONSTANTS
    Strings,    \* the string values of a result's column, sequences of characters
    Numbers,    \* the number values, as JSON prints them
    MaxPieces   \* bound: pieces of a template

VARIABLES
    template,   \* the pieces of the node's text, with what separates them
    result,     \* result["r"]: the stored result of node r
    variable,   \* the value of variable v: the name of a piece
    quoting,    \* SqlQuotingVersion, or "raw" outside SQL
    standard,   \* standard_conforming_strings of the session
    text,       \* the text so far
    step        \* "braces", "results", "session", "read", "failed" or "parked"

substvars == <<template, result, variable, quoting, standard, text, step>>

-------------------------------------------------------------------------------
(* Results as they are stored: a row set, a response envelope, or text that *)
(* is not JSON.  The only column or field is c.  A nested value is quoted   *)
(* as a string with its JSON text is, and a boolean written as a number     *)
(* without a sign is: they are among the strings and the numbers.           *)

Null == [type |-> "null", chars |-> <<"null">>]
Cells == {Null} \cup [type : {"string"}, chars : Strings]
                \cup [type : {"number"}, chars : Numbers]

Rowset(rows) == [form |-> "rows", cells |-> rows, chars |-> <<"rows">>]
Envelope(cell) == [form |-> "object", cells |-> <<cell>>, chars |-> <<"{", "'", "}">>]
NotJson(chars) == [form |-> "text", cells |-> <<>>, chars |-> chars]

Results == {Rowset(<<>>)}
    \cup {Rowset(<<cell>>) : cell \in Cells}
    \cup {Rowset(<<a, b>>) : a \in Cells \ {Null}, b \in {Null}}
    \cup {Envelope(cell) : cell \in Cells}
    \cup {NotJson(chars) : chars \in Strings \ {<<>>}}

Other == Rowset(<<[type |-> "string", chars |-> <<"x">>]>>)

-------------------------------------------------------------------------------
(* Characters *)

Digits == {"1"}
Ident == {"r", "c", "d", "v", "w", "x", "E"} \cup Digits
Starts(s, prefix) == IsPrefix(prefix, s)

\* The identifier s starts with, or the empty sequence.
parse_identifier(s) ==
    LET lens == {n \in 1..Len(s) : s[1] \notin Digits /\ \A i \in 1..n : s[i] \in Ident}
    IN  SubSeq(s, 1, Cardinality(lens))

quote_identifier(s) == <<"\"">> \o Doubled(s, {"\""}) \o <<"\"">>

Quoted(s) == IF quoting = "raw" THEN s ELSE quote_literal(s, quoting)

format_value(cell) ==
    IF cell.type = "string" THEN Quoted(cell.chars)
    ELSE IF quoting = "V1" /\ Starts(cell.chars, <<"-">>) THEN <<" ">> \o cell.chars
    ELSE cell.chars

-------------------------------------------------------------------------------
(* The value of one reference: [ok, text].                                  *)

Ok(s) == [ok |-> TRUE, text |-> s]
Err == [ok |-> FALSE, text |-> <<>>]
NullOr(null_safe) == IF null_safe THEN Ok(<<"NULL">>) ELSE Err

extract_first_column_value(res, null_safe) ==
    CASE res.form # "rows"      -> Ok(Quoted(res.chars))
      [] res.cells = <<>>       -> NullOr(null_safe)
      [] res.cells[1] = Null    -> NullOr(null_safe)
      [] OTHER                  -> Ok(format_value(res.cells[1]))

\* A field that is missing stays a pattern in SQL and is an error elsewhere.
extract_column_value(name, res, col, null_safe) ==
    CASE res.form = "text"      -> Err
      [] res.form = "rows" /\ res.cells = <<>> -> NullOr(null_safe)
      [] col # <<"c">>          ->
            IF quoting = "raw" /\ ~null_safe THEN Err
            ELSE Ok(<<"$">> \o name \o <<".">> \o col \o IF null_safe THEN <<"?">> ELSE <<>>)
      [] res.cells[1] = Null    -> NullOr(null_safe)
      [] OTHER                  -> Ok(format_value(res.cells[1]))

RowValue(cell) ==
    CASE cell.type = "string" -> quote_literal(cell.chars, quoting) \o <<"::text">>
      [] cell = Null          -> <<"NULL">>
      [] OTHER                -> cell.chars

Joined(parts) == FoldLeft(LAMBDA out, p : IF out = <<>> THEN p ELSE out \o <<",">> \o p,
                          <<>>, parts)

\* MAX_ROWSET_EXPANSION is not reached.
expand_row_set(name, res) ==
    CASE res.form # "rows"    -> Err
      [] quoting = "raw"      -> Ok(<<"[", "rows", "]">>)
      [] res.cells = <<>>     -> Ok(<<"(", "SELECT NULL WHERE false", ")", "AS">>
                                    \o quote_identifier(name))
      [] OTHER -> Ok(<<"(", "VALUES">>
                     \o Joined([i \in DOMAIN res.cells |->
                                    <<"(">> \o RowValue(res.cells[i]) \o <<")">>])
                     \o <<")", "AS">> \o quote_identifier(name)
                     \o <<"(">> \o quote_identifier(<<"c">>) \o <<")">>)

-------------------------------------------------------------------------------
(* The pass over results.                                                   *)

Names == <<<<"r", "r">>, <<"r">>>>
ResultOf(name) == IF name = <<"r">> THEN result ELSE Other

From(s, n) == SubSeq(s, n, Len(s))

\* What $name at the start of s is replaced by, and how much of s it takes;
\* length 0 when the name does not match.
Reference(s, name) ==
    LET after == From(s, 2 + Len(name))
        col == IF Starts(after, <<".">>) THEN parse_identifier(Tail(after)) ELSE <<>>
        safe == Starts(From(after, 2 + Len(col)), <<"?">>)
        res == ResultOf(name)
        base == 1 + Len(name)
        none == [length |-> 0, value |-> Err]
    IN  IF ~Starts(Tail(s), name) THEN none
        ELSE IF Starts(after, <<".", "*">>)
        THEN [length |-> base + 2, value |-> expand_row_set(name, res)]
        ELSE IF col # <<>>
        THEN [length |-> base + 1 + Len(col) + IF safe THEN 1 ELSE 0,
              value |-> extract_column_value(name, res, col, safe)]
        ELSE IF Starts(after, <<"?">>)
        THEN [length |-> base + 1, value |-> extract_first_column_value(res, TRUE)]
        ELSE IF after = <<>> \/ Head(after) \notin Ident
        THEN [length |-> base, value |-> extract_first_column_value(res, FALSE)]
        ELSE none

\* A single scan, the longest name first; what is inserted is not scanned.
RECURSIVE substitute_results(_)
substitute_results(s) ==
    LET refs == [i \in DOMAIN Names |-> Reference(s, Names[i])]
        hits == {i \in DOMAIN Names : refs[i].length > 0}
        ref == refs[CHOOSE i \in hits : \A j \in hits : i <= j]
        Before(prefix, rest) == IF rest.ok THEN Ok(prefix \o rest.text) ELSE Err
    IN  IF s = <<>> THEN Ok(<<>>)
        ELSE IF Head(s) # "$" \/ hits = {}
        THEN Before(<<Head(s)>>, substitute_results(Tail(s)))
        ELSE IF ~ref.value.ok THEN Err
        ELSE Before(ref.value.text, substitute_results(From(s, ref.length + 1)))

-------------------------------------------------------------------------------
(* Templates: pieces between separators.                                    *)

PieceText == [
    one      |-> <<"1">>,
    scalar   |-> <<"$", "r">>,
    safe     |-> <<"$", "r", "?">>,
    column   |-> <<"$", "r", ".", "c">>,
    missing  |-> <<"$", "r", ".", "d">>,
    safecol  |-> <<"$", "r", ".", "c", "?">>,
    safemiss |-> <<"$", "r", ".", "d", "?">>,
    rowset   |-> <<"$", "r", ".", "*">>,
    longer   |-> <<"$", "r", "r">>,
    unknown  |-> <<"$", "r", "1">>,
    var      |-> <<"{", "v", "}">>,
    undef    |-> <<"{", "w", "}">>,
    open     |-> <<"{">>]

Pieces == DOMAIN PieceText
Separators == {" ", "-"}
VariableValues == {"one", "scalar", "var"}

Templates == UNION {[1..n -> [piece : Pieces, sep : Separators]] : n \in 1..MaxPieces}

Flat(parts) == FoldLeft(LAMBDA out, p : out \o p, <<>>, parts)
TemplateText(t) == Flat([i \in DOMAIN t |-> <<t[i].sep>> \o PieceText[t[i].piece]])

\* The pass over braces: an opening brace is paired with the next closing one,
\* and what is between them is a name or stays.
RECURSIVE substitute_braced_variables(_)
substitute_braced_variables(s) ==
    LET opens == {i \in DOMAIN s : s[i] = "{"}
        open == CHOOSE i \in opens : \A j \in opens : i <= j
        closes == {i \in DOMAIN s : i > open /\ s[i] = "}"}
        close == CHOOSE i \in closes : \A j \in closes : i <= j
        name == SubSeq(s, open + 1, close - 1)
        value == IF name = <<"v">> THEN PieceText[variable] ELSE SubSeq(s, open, close)
    IN  IF opens = {} \/ closes = {} THEN s
        ELSE SubSeq(s, 1, open - 1) \o value
             \o substitute_braced_variables(From(s, close + 1))

-------------------------------------------------------------------------------
SubstInit ==
    /\ template \in Templates
    /\ result \in Results
    /\ variable \in VariableValues
    /\ quoting \in {"Legacy", "V1", "raw"}
    /\ standard \in BOOLEAN
    /\ text = TemplateText(template)
    /\ step = "braces"

\* A bug: results first, so that the pass over braces reads their values.
ResultsFirst ==
    LET out == substitute_results(text)
    IN  /\ step = "braces"
        /\ step' = CASE ~out.ok -> "failed" [] quoting = "raw" -> "read" [] OTHER -> "session"
        /\ text' = substitute_braced_variables(out.text)
        /\ UNCHANGED <<template, result, variable, quoting, standard>>

\* substitute_all_with_options, first half.
SubstituteBraces ==
    /\ step = "braces"
    /\ step' = "results"
    /\ text' = substitute_braced_variables(text)
    /\ UNCHANGED <<template, result, variable, quoting, standard>>

\* substitute_all_with_options, second half.
SubstituteResults ==
    LET out == substitute_results(text)
    IN  /\ step = "results"
        /\ step' = CASE ~out.ok -> "failed" [] quoting = "raw" -> "read" [] OTHER -> "session"
        /\ text' = out.text
        /\ UNCHANGED <<template, result, variable, quoting, standard>>

\* Literals recorded by an older version are only run where a backslash is an
\* ordinary character.
prepare_sql_quoting ==
    /\ step = "session"
    /\ step' = IF quoting = "Legacy" /\ ~standard THEN "failed" ELSE "read"
    /\ UNCHANGED <<template, result, variable, quoting, standard, text>>

SubstNext == SubstituteBraces \/ SubstituteResults \/ prepare_sql_quoting

-------------------------------------------------------------------------------
(* External: how the server reads SQL.  Words, literals and everything else. *)

Token(kind, chars) == [kind |-> kind, chars |-> chars]

RECURSIVE Lex(_)
Lex(s) ==
    LET lit == LiteralAt(s, standard)
        word == {n \in 1..Len(s) : \A i \in 1..n : s[i] \in Ident}
        n == Cardinality(word)
    IN  CASE s = <<>>             -> <<>>
          [] Head(s) = " "        -> Lex(Tail(s))
          [] Starts(s, <<"-", "-">>) -> <<>>
          [] BeginsLiteral(s)     -> <<Token("literal", lit.value)>> \o Lex(lit.rest)
          [] n > 0                -> <<Token("word", SubSeq(s, 1, n))>> \o Lex(From(s, n + 1))
          [] OTHER                -> <<Token("symbol", <<Head(s)>>)>> \o Lex(Tail(s))

-------------------------------------------------------------------------------
(* The reference: what each piece of a template stands for.                 *)

\* Outside SQL nothing is quoted and the text itself is what is sent.
Read(s) == IF quoting = "raw" THEN s ELSE Lex(s)
Literal(chars) == Ok(IF quoting = "raw" THEN chars ELSE <<Token("literal", chars)>>)
AsWritten(chars) == Ok(Read(chars))

CellTokens(cell) == IF cell.type = "string" THEN Literal(cell.chars) ELSE AsWritten(cell.chars)

RowTokens(cell) ==
    CASE cell = Null          -> Lex(<<"(", "NULL", ")">>)
      [] cell.type = "string" -> Lex(<<"(">>) \o Literal(cell.chars).text \o Lex(<<"::text", ")">>)
      [] OTHER                -> Lex(<<"(">> \o cell.chars \o <<")">>)

RowsetTokens ==
    Lex(<<"(", "VALUES">>)
    \o Flat([i \in DOMAIN result.cells |->
                 (IF i = 1 THEN <<>> ELSE Lex(<<",">>)) \o RowTokens(result.cells[i])])
    \o Lex(<<")", "AS", "\"", "r", "\"", "(", "\"", "c", "\"", ")">>)

NoValue == result.form = "rows" /\ (result.cells = <<>> \/ result.cells[1] = Null)

ScalarMeans ==
    IF NoValue THEN Err
    ELSE IF result.form = "rows" THEN CellTokens(result.cells[1])
    ELSE Literal(result.chars)

Reading(piece) ==
    CASE piece = "scalar" -> ScalarMeans
      [] piece = "safe" ->
            IF NoValue THEN AsWritten(<<"NULL">>) ELSE ScalarMeans
      [] piece = "column" ->
            IF result.form = "text" \/ result.cells = <<>> \/ result.cells[1] = Null THEN Err
            ELSE CellTokens(result.cells[1])
      [] piece = "safecol" ->
            IF result.form = "text" THEN Err
            ELSE IF result.cells = <<>> \/ result.cells[1] = Null THEN AsWritten(<<"NULL">>)
            ELSE CellTokens(result.cells[1])
      [] piece = "safemiss" ->
            IF result.form = "text" THEN Err
            ELSE IF result.cells = <<>> THEN AsWritten(<<"NULL">>)
            ELSE AsWritten(PieceText["safemiss"])
      [] piece = "missing" ->
            IF result.form = "text" \/ result.cells = <<>> \/ quoting = "raw" THEN Err
            ELSE AsWritten(PieceText["missing"])
      [] piece = "rowset" ->
            IF result.form # "rows" THEN Err
            ELSE IF quoting = "raw" THEN Ok(<<"[", "rows", "]">>)
            ELSE IF result.cells = <<>>
            THEN AsWritten(<<"(", "SELECT NULL WHERE false", ")", "AS", "\"", "r", "\"">>)
            ELSE Ok(RowsetTokens)
      [] piece = "longer" -> Literal(<<"x">>)
      [] OTHER -> AsWritten(PieceText[piece])

\* A variable stands for its text, unless an open brace has taken its braces.
Means(i) ==
    LET piece == template[i].piece
        taken == \E j \in 1..(i - 1) :
                    /\ template[j].piece = "open"
                    /\ \A k \in (j + 1)..(i - 1) : template[k].piece \notin {"var", "undef"}
        out == IF piece # "var" \/ taken THEN Reading(piece)
               ELSE IF variable = "var" THEN AsWritten(PieceText["var"])
               ELSE Reading(variable)
    IN  IF out.ok THEN Ok(Read(<<template[i].sep>>) \o out.text) ELSE Err

\* Numbers that begin with a sign are safe after an operator only since V1.
SignsAreSafe == quoting # "Legacy" \/ \A i \in DOMAIN result.cells :
                                      ~Starts(result.cells[i].chars, <<"-">>)

\* Quoting at the boundary between data and SQL (types.rs:724-1195,
\* execute_sql.rs:72): whatever characters a result holds, backslashes, quotes,
\* dollar signs and braces among them, and whatever the session's setting, the
\* server reads each reference of a text as one literal with the stored value or
\* as its number, each variable as the text it stands for, and everything else as
\* it was written; outside SQL the text is those parts as they are; and the text
\* is refused exactly when a strict reference has nothing to stand for.
ValuesStayValues ==
    LET means == [i \in DOMAIN template |-> Means(i)]
        defined == \A i \in DOMAIN means : means[i].ok
    IN  SignsAreSafe =>
            /\ step = "read" => Read(text) = Flat([i \in DOMAIN means |-> means[i].text])
            /\ step \in {"session", "read"} => defined
            /\ step = "failed" /\ (quoting # "Legacy" \/ standard) => ~defined
===============================================================================
