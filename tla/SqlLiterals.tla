---------------------------- MODULE SqlLiterals ----------------------------
(***************************************************************************)
(* String literals of SQL: how pg_durable writes one, and how the server   *)
(* reads it back, which is external.  Both go along a sequence of          *)
(* characters.                                                             *)
(***************************************************************************)
EXTENDS Naturals, Sequences, SequencesExt

Doubled(s, chars) ==
    LET out[n \in 0 .. Len(s)] ==
            IF n = 0 THEN <<>>
            ELSE out[n - 1] \o (IF s[n] \in chars THEN <<s[n], s[n]>> ELSE <<s[n]>>)
    IN  out[Len(s)]

\* A bug: V1 without escape syntax.
PlainLiteral(s, version) == <<"'">> \o Doubled(s, {"'"}) \o <<"'">>

Blank == " "

\* V1 is escape_literal of the PostgreSQL client library.
quote_literal(s, version) ==
    IF version = "V1" /\ "\\" \in Range(s)
    THEN <<Blank, "E", "'">> \o Doubled(s, {"'", "\\"}) \o <<"'">>
    ELSE <<"'">> \o Doubled(s, {"'"}) \o <<"'">>

---------------------------------------------------------------------------
(* External: the server. *)

\* A character of the value, written with n characters.
TakeCharacter(scan, n, ch) ==
    [at |-> scan.at + n, value |-> Append(scan.value, ch), open |-> TRUE]

\* One step inside a literal of s: a pair of quotes, the closing quote, an escaped
\* character, or any other.
ReadStep(s, escapes, scan) ==
    IF ~scan.open \/ scan.at > Len(s) THEN scan
    ELSE IF s[scan.at] = "'"
    THEN IF scan.at < Len(s) /\ s[scan.at + 1] = "'" THEN TakeCharacter(scan, 2, "'")
         ELSE [at |-> scan.at + 1, value |-> scan.value, open |-> FALSE]
    ELSE IF s[scan.at] = "\\" /\ escapes /\ scan.at < Len(s)
    THEN TakeCharacter(scan, 2, s[scan.at + 1])
    ELSE TakeCharacter(scan, 1, s[scan.at])

ReadResult(s, end) ==
    [value |-> end.value, rest |-> IF end.open THEN <<"end">> ELSE SubSeq(s, end.at, Len(s))]

\* The value of the literal whose opening quote is before s, and what follows it.
ReadLiteral(s, escapes) ==
    LET scan[n \in 0 .. Len(s)] ==
            IF n = 0 THEN [at |-> 1, value |-> <<>>, open |-> TRUE]
            ELSE ReadStep(s, escapes, scan[n - 1])
    IN  ReadResult(s, scan[Len(s)])

\* A literal begins with a quote, or with an E and a quote; only the second has
\* escapes whatever the setting of standard_conforming_strings.
BeginsLiteral(s) == IsPrefix(<<"'">>, s) \/ IsPrefix(<<"E", "'">>, s)
LiteralAt(s, standard_strings) ==
    ReadLiteral(IF Head(s) = "E" THEN SubSeq(s, 3, Len(s)) ELSE Tail(s),
                Head(s) = "E" \/ ~standard_strings)
=============================================================================
