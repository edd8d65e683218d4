------------------------------- MODULE D1Client -------------------------------
(***************************************************************************)
(* The client of Cloudflare D1's /query endpoint (pkg/cfclient/d1.go):     *)
(* what a repository call returns for each HTTP answer, and how a row's    *)
(* columns reach the caller's variables.  A call posts a body of one or    *)
(* more statements; the answer holds one result per statement.             *)
(***************************************************************************)
EXTENDS Naturals, FiniteSets, Sequences, SequencesExt

\* External: what may come back for a body whose statements went as `results`.
\* Each result has its success bit and its rows.
Whole(results) == \A i \in DOMAIN results : results[i].success

Reply(status, decodes, success, results) ==
    [status |-> status, decodes |-> decodes, success |-> success, results |-> results,
     error |-> "none"]

\* The answers that tell the truth.  A failing statement is reported by the
\* status, by the envelope, or by the result's own bit alone ("rare, but
\* possible for partial batch failures").  With no rows to tell, the results
\* may be missing ("degenerate but valid").
Told(results) ==
    IF Whole(results)
    THEN {Reply(200, TRUE, TRUE, results)}
         \cup (IF \A i \in DOMAIN results : results[i].rows = <<>>
               THEN {Reply(200, TRUE, TRUE, <<>>)} ELSE {})
    ELSE {Reply(400, TRUE, FALSE, <<>>), Reply(200, TRUE, FALSE, results),
          Reply(200, TRUE, TRUE, results)}

\* One statement: carried out with these rows, or kept from running by a
\* constraint that the message names, unless the message is missing.
Ran(rows) == Told(<<[success |-> TRUE, rows |-> rows]>>)

Refused(constraint) ==
    {[a EXCEPT !.error = e] : a \in Told(<<[success |-> FALSE, rows |-> <<>>]>>),
                              e \in {constraint, "none"}}

\* The answers that tell nothing of what D1 did: a transport error or the
\* context's end (status 0), a refused token, a wrong database, a broken edge.
\*
\* Assumed away: a success without results that hides rows, or a statement that
\* never ran.  Nothing in the client tells it from the one above: QueryRow
\* would read it as no rows and Exec as done.
Garbled == {Reply(s, FALSE, FALSE, <<>>) : s \in {0, 200, 401, 404, 502}}

-----------------------------------------------------------------------------
DoQuery_TopLevelOnly(a) ==
    IF a.status \div 100 = 2 /\ a.decodes /\ a.success THEN "ok" ELSE "failed"

\* doQuery: every way not to succeed is an error, and a partial success is none.
DoQuery(a) ==
    CASE a.status = 0 -> "http"
      [] a.status \in {401, 403} -> "unauthorized"
      [] a.status = 404 -> "not found"
      [] a.status \div 100 # 2 -> "status"
      [] ~a.decodes -> "decode"
      [] ~a.success \/ ~Whole(a.results) -> "failed"
      [] OTHER -> "ok"

Exec(a) == DoQuery(a)

\* QueryRow and the error of its Scan: the first row of the first result.
QueryRow(a) ==
    IF DoQuery(a) # "ok" THEN DoQuery(a)
    ELSE IF a.results = <<>> \/ a.results[1].rows = <<>> THEN "no rows"
    ELSE "ok"

\* Query: the rows a caller's `for rows.Next()` walks.
Query(a) == IF a.results = <<>> THEN <<>> ELSE a.results[1].rows

\* The repositories tell constraints apart by the text of the error.
Violates(a, constraint) == DoQuery(a) # "ok" /\ a.error = constraint

-----------------------------------------------------------------------------
(* Rows.  A row is decoded to a map from column names to JSON values, so   *)
(* the order in which D1 sent the columns is lost.                         *)

Text(x) == [type |-> "string", is |-> x]
Number(n) == [type |-> "float64", is |-> n]
Null == [type |-> "nil", is |-> "nil"]

\* The columns any multi-column query selects, in alphabetical order.
Alphabet == <<"created_at", "driver_id", "email", "id", "model", "name", "password_hash",
              "plate_number", "role", "updated_at">>

Columns(line) == {i \in DOMAIN Alphabet : Alphabet[i] \in DOMAIN line}

ColumnOrder_Descending(line) ==
    LET columns == Columns(line) IN
    [n \in 1..Cardinality(columns) |->
        Alphabet[CHOOSE i \in columns : Cardinality({j \in columns : j >= i}) = n]]

\* collectColumnOrder and sortStrings: the n-th column has n up to it.
ColumnOrder(line) ==
    LET columns == Columns(line) IN
    [n \in 1..Cardinality(columns) |->
        Alphabet[CHOOSE i \in columns : Cardinality({j \in columns : j <= i}) = n]]

\* assignD1Value: what a destination of each type takes.
Assignable(dest, value) ==
    \/ value.type = "nil"
    \/ dest \in {"string", "*string"} /\ value.type = "string"
    \/ dest = "int64" /\ value.type = "float64"

Assigned(dest, value) ==
    IF value.type # "nil" THEN value.is
    ELSE IF dest = "*string" THEN "nil" ELSE IF dest = "string" THEN "" ELSE 0

\* Scan binds its destinations to the columns by position ...
Scans(line, dests) ==
    LET columns == ColumnOrder(line) IN
    /\ Len(dests) <= Len(columns)
    /\ \A i \in DOMAIN dests : Assignable(dests[i], line[columns[i]])

\* ... and leaves these values in them.
Scanned(line, dests) ==
    LET columns == ColumnOrder(line) IN
    [i \in DOMAIN dests |-> Assigned(dests[i], line[columns[i]])]
=============================================================================
