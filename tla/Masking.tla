------------------------------- MODULE Masking -------------------------------
(***************************************************************************)
(* How the handlers mask rows on their way: _relay_lines of PostgreSQL     *)
(* (COPY text) and MySQL (one INSERT per row), _mask_dat_file of MSSQL     *)
(* (bcp -c).  Each cuts a line into fields by its own rules and replaces   *)
(* the fields of the ruled columns; the reference writes the masked row    *)
(* the way the engine writes rows.  A value is a sequence of characters,   *)
(* of which only the quote, the backslash, the separator and one more text *)
(* of each engine matter.                                                  *)
(*                                                                         *)
(* What the loop of a dump knows of a table it reads from its text: a      *)
(* header or INSERT that the pattern does not match lets the rows pass,    *)
(* the names of the columns are cut at every comma, and in PostgreSQL a    *)
(* row may itself read like a header.                                      *)
(***************************************************************************)
EXTENDS Naturals, Sequences, SequencesExt

CONSTANTS
    Engines,  \* of {"postgres", "mysql", "mssql"}
    MaxValue  \* bound on the length of a value

VARIABLES
    job,      \* the engine, the rules, the spelling of the names, the collation strip
    loading,  \* the table whose rows the dump gives: "people", "none"
    reader,   \* current_table of the loop: "people", "none", "forged" by a row
    line      \* the values of the row to be relayed, <<>>: none

vars == <<job, loading, reader, line>>

Columns == {1, 2}

\* The separator of the engine.
Sep == IF job.engine = "mysql" THEN "," ELSE "tab"

\* The text of an engine that its loop does not take for data: the collation that
\* strip_collation removes, the setting that is not relayed, the end of a line, which
\* bcp -c does not escape.  Where it is data it stands for any other character.
Odd == CASE job.engine = "mysql" -> " COLLATE utf8mb4_0900_ai_ci"
         [] job.engine = "postgres" -> "SET transaction_timeout"
         [] OTHER -> "newline"

Chars == {"'", "\\", Sep, Odd}
Values == UNION {[1 .. n -> Chars] : n \in 0 .. MaxValue}

\* How the names of the columns reach the loop: as they are; inside the quotes of
\* pg_dump, or with a backtick that mysqldump doubles; with a comma; not at all, the
\* column having been dropped between the export of MSSQL and the read of its schema.
Spellings == {"plain", "quoted", "comma", "dropped"}

\* ruled: the columns of people with a rule.
TypeOK ==
    /\ job \in [engine : Engines \cup {"none"}, ruled : SUBSET Columns,
                spelt : [Columns -> Spellings], strip : BOOLEAN]
    /\ loading \in {"people", "none"}
    /\ reader \in {"people", "none", "forged"}
    /\ line = <<>> \/ line \in [Columns -> Values]

Init ==
    /\ job = [engine |-> "none", ruled |-> {}, spelt |-> [i \in Columns |-> "plain"],
              strip |-> FALSE]
    /\ loading = "none" /\ reader = "none"
    /\ line = <<>>

-----------------------------------------------------------------------------
(* One row *)

\* The fake value, as the engine writes it; _quote_mysql_value quotes it.
Fake == IF job.engine = "mysql" THEN <<"'", "fake", "'">> ELSE <<"fake">>

\* How the dump writes a character, and a value.
Escape(c) ==
    CASE job.engine = "mysql" /\ c \in {"'", "\\"}  -> <<"\\", c>>
      [] job.engine = "postgres" /\ c = "\\"        -> <<"\\", "\\">>
      [] job.engine = "postgres" /\ c = Sep         -> <<"\\", "t">>
      [] OTHER                                      -> <<c>>

Literal(v) ==
    LET text == FlattenSeq([i \in DOMAIN v |-> Escape(v[i])]) IN
    IF job.engine = "mysql" THEN <<"'">> \o text \o <<"'">> ELSE text

Join(fields) == FoldLeft(LAMBDA l, f : l \o <<Sep>> \o f, Head(fields), Tail(fields))

\* str.split(c).
CutAt(text, c) ==
    LET Cut(s, d) == IF d = c THEN Append(s, <<>>)
                     ELSE [s EXCEPT ![Len(s)] = Append(@, d)]
    IN FoldLeft(Cut, <<<<>>>>, text)

\* A faulty variant: the naive split.
NaiveSplit(text) == CutAt(text, Sep)

\* split('\t'), and _split_values: a quote toggles unless a backslash precedes it.
Split(text) ==
    LET Cut(s, c) ==
          IF c = Sep /\ ~s.in_quotes
          THEN [s EXCEPT !.values = Append(@, s.current), !.current = <<>>, !.prev = c]
          ELSE [s EXCEPT !.current = Append(@, c), !.prev = c,
                         !.in_quotes = (@ # (job.engine = "mysql" /\ c = "'" /\ s.prev # "\\"))]
        end == FoldLeft(Cut, [values |-> <<>>, current |-> <<>>, in_quotes |-> FALSE, prev |-> ""], text)
    IN Append(end.values, end.current)

\* The names that the loop has of the columns, 0: none that has a rule.
ColNames ==
    LET Parts(i) == CASE job.spelt[i] = "plain"   -> <<i>>
                      [] job.spelt[i] = "quoted"  -> <<0>>
                      [] job.spelt[i] = "comma"   -> <<0, 0>>
                      [] job.spelt[i] = "dropped" -> <<>>
    IN Parts(1) \o Parts(2)

\* The fields in the places of ruled names are replaced.
MaskLine(text) ==
    LET fields == Split(text) IN
    Join([i \in DOMAIN fields |->
             IF i \in DOMAIN ColNames /\ ColNames[i] \in job.ruled THEN Fake ELSE fields[i]])

\* The replacement of the collation, in the line of a row as in any other.
Stripped(v) == IF job.strip /\ Odd \in Range(v) THEN SelectSeq(v, LAMBDA c : c # Odd) ELSE v

StartsOdd(v) == v # <<>> /\ Head(v) = Odd

\* What the loop makes of a row: a line like the setting is left out, one of a table
\* it has no rules for passes, and each line of the file of MSSQL is a row.
Relayed(values) ==
    LET text == Join([i \in Columns |-> Literal(Stripped(values[i]))]) IN
    IF job.engine = "postgres" /\ StartsOdd(values[1]) THEN <<>>
    ELSE IF reader # "people" \/ job.ruled = {} THEN text
    ELSE IF job.engine = "mssql" /\ Odd \in Range(text)
    THEN LET lines == CutAt(text, Odd) IN
         FlattenSeq([n \in DOMAIN lines |-> MaskLine(lines[n]) \o <<Odd>>])
    ELSE MaskLine(text)

\* The masked row, as the engine writes it.
Masked(values) ==
    Join([i \in Columns |-> IF i \in job.ruled THEN Fake ELSE Literal(values[i])])

-----------------------------------------------------------------------------
(* The stream of a dump *)

Begin(engine, ruled, spelt, strip) ==
    /\ job.engine = "none"
    /\ \A i \in Columns : spelt[i] \in {"plain"} \cup
         (IF engine = "mssql" THEN {"dropped"} ELSE {"quoted", "comma"})
    /\ strip => engine = "mysql"
    /\ job' = [engine |-> engine, ruled |-> ruled, spelt |-> spelt, strip |-> strip]
    /\ UNCHANGED <<loading, reader, line>>

\* The header COPY, the INSERTs of a table, the file of a table.  A name with a space
\* or a parenthesis keeps the pattern from matching.
TableBegins(matches) ==
    /\ job.engine # "none" /\ loading = "none"
    /\ job.engine = "mssql" => matches
    /\ loading' = "people"
    /\ reader' = IF matches THEN "people" ELSE "none"
    /\ UNCHANGED <<job, line>>

Row(values) ==
    /\ loading = "people" /\ line = <<>>
    /\ line' = values
    /\ UNCHANGED <<job, loading, reader>>

RelayRow ==
    /\ line # <<>>
    /\ line' = <<>>
    /\ UNCHANGED <<job, loading, reader>>

\* A row that reads like a COPY header: the loop takes it for one.
RowLikeHeader ==
    /\ job.engine = "postgres" /\ loading # "none" /\ line = <<>>
    /\ reader' = "forged"
    /\ UNCHANGED <<job, loading, line>>

\* \. ends the rows of a COPY.
TableEnds ==
    /\ loading # "none" /\ line = <<>>
    /\ loading' = "none" /\ reader' = "none"
    /\ UNCHANGED <<job, line>>

Next ==
    \/ \E e \in Engines, r \in SUBSET Columns, p \in [Columns -> Spellings], c \in BOOLEAN :
         Begin(e, r, p, c)
    \/ \E m \in BOOLEAN : TableBegins(m)
    \/ \E f \in [Columns -> Values] : Row(f)
    \/ RelayRow \/ RowLikeHeader \/ TableEnds

Spec == Init /\ [][Next]_vars

-----------------------------------------------------------------------------
(* Properties *)

\* The lines that are changed or left out whatever the rules.
Altered(values) ==
    \/ job.strip /\ \E i \in Columns : Odd \in Range(values[i])
    \/ job.engine = "postgres" /\ StartsOdd(values[1])

\* A rule whose column is not found by its name, or not in its place.
Misplaced ==
    \E i \in job.ruled :
        \/ job.spelt[i] # "plain"
        \/ \E k \in Columns : k < i /\ job.spelt[k] \in {"comma", "dropped"}

\* The rows that the splitting does not understand.
Missplit(values) ==
    \E i \in Columns :
        CASE job.engine = "mysql"    -> values[i] # <<>> /\ Last(values[i]) = "\\"
          [] job.engine = "mssql"    -> {Sep, Odd} \cap Range(values[i]) # {}
          [] job.engine = "postgres" -> FALSE

\* A table with rules is masked only if its header or INSERT was recognised and no
\* row has been taken for a header since, if its columns are found, and the row split.
Misread(values) ==
    Altered(values) \/ (job.ruled # {} /\ (reader # loading \/ Misplaced \/ Missplit(values)))

\* What is relayed of a row is the masked row: every ruled column replaced and
\* nothing else changed.  Not so for: a table whose header or INSERT the pattern does
\* not match (a space, a backtick, a parenthesis in a name), the rows of PostgreSQL
\* from one that reads like a header on, a ruled column whose name is in quotes or has
\* a comma, or stands behind such a one or behind one dropped meanwhile; a MySQL value
\* that ends in a backslash, an MSSQL value with a tab or a line break; a MySQL value
\* with the text of the collation when that is stripped, and a row of PostgreSQL that
\* begins like the setting that is left out.
MaskedUnlessMisread ==
    line # <<>> /\ ~Misread(line) => Relayed(line) = Masked(line)

=============================================================================
