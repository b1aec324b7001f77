------------------------------ MODULE Execute ------------------------------
(***************************************************************************)
(* One request to /execute (http.go) and getQueryResults (utils.go): USE   *)
(* and the query are separate calls on a database/sql pool of the request, *)
(* which takes an idle connection for each, or a new one.  The MySQL       *)
(* server may refuse anything and close an idle connection.                *)
(***************************************************************************)
EXTENDS Integers

CONSTANTS Databases,  \* names a request may ask for
          Default,    \* the database of the DSN
          MaxRows     \* bound: rows of a result


VARIABLES stage,    \* "parse", "use", "query", "rows", "done"
          want,     \* parsedData.Database
          conn,     \* database of the pool's connection, if there is one
          fetched,  \* rows in resultRows
          result,   \* the server's first result set: its columns and rows,
                    \* where it was run, and whether another one follows
          dropped,  \* history: the server closed the connection after USE
          scanned,  \* history: rows.Scan failed
          answer    \* what the browser is sent

vars == <<stage, want, conn, fetched, result, dropped, scanned, answer>>

NoConn   == "none"

ExecuteAssumption ==
  /\ MaxRows \in Nat
  /\ "" \notin Databases /\ NoConn \notin Databases \cup {Default}

NoResult == [columns |-> FALSE, rows |-> 0, db |-> "", more |-> FALSE]
Said(kind) == [kind |-> kind, rows |-> 0]

Init ==
  /\ stage = "parse" /\ want = "" /\ conn = NoConn /\ fetched = 0
  /\ result = NoResult /\ dropped = FALSE /\ scanned = FALSE
  /\ answer = Said("none")

\* The handler returns; db.Close closes the connections that are not in use.
Finish(a, left) ==
  /\ stage' = "done" /\ answer' = a /\ conn' = left

\* ParseForm fails and nothing is written.
ParseFormFails ==
  /\ stage = "parse" /\ Finish(Said("nothing"), NoConn)
  /\ UNCHANGED <<want, fetched, result, dropped, scanned>>

\* The error of json.Unmarshal is ignored: no database, and an empty query.
Unmarshal(db) ==
  /\ stage = "parse"
  /\ want' = db
  /\ stage' = IF db = "" THEN "query" ELSE "use"
  /\ UNCHANGED <<conn, fetched, result, dropped, scanned, answer>>

\* sql.Open or db.Exec fails.
Refused ==
  /\ stage \in {"parse", "use"}
  /\ Finish(Said("error"), NoConn)
  /\ UNCHANGED <<want, fetched, result, dropped, scanned>>

\* db.Exec("USE ..."): the connection goes back to the pool.
Use ==
  /\ stage = "use" /\ stage' = "query"
  /\ conn' = want
  /\ UNCHANGED <<want, fetched, result, dropped, scanned, answer>>

Drop ==
  /\ stage = "query" /\ conn # NoConn
  /\ conn' = NoConn /\ dropped' = TRUE
  /\ UNCHANGED <<stage, want, fetched, result, scanned, answer>>

\* db.Query on the pool's connection, or on a new one in its default database.
\* A CALL may have several result sets; the driver skips those without columns.
Query ==
  /\ stage = "query"
  /\ conn' = IF conn = NoConn THEN Default ELSE conn
  /\ \E columns, more \in BOOLEAN, n \in 0 .. MaxRows :
       /\ ~columns => n = 0 /\ ~more
       /\ result' = [columns |-> columns, rows |-> n, db |-> conn', more |-> more]
  /\ stage' = "rows"
  /\ UNCHANGED <<want, fetched, dropped, scanned, answer>>

QueryFails ==
  /\ stage = "query" /\ Finish(Said("error"), NoConn)
  /\ UNCHANGED <<want, fetched, result, dropped, scanned>>

MutNextRow ==   \* one row too many
  /\ stage = "rows" /\ fetched <= result.rows
  /\ fetched' = fetched + 1
  /\ UNCHANGED <<stage, want, conn, result, dropped, scanned, answer>>

\* rows.Next, rows.Scan and the copy of the values.
NextRow ==
  /\ stage = "rows" /\ fetched < result.rows
  /\ fetched' = fetched + 1
  /\ UNCHANGED <<stage, want, conn, result, dropped, scanned, answer>>

\* rows.Scan fails: return without rows.Close, so the connection is in use.
ScanFails ==
  /\ stage = "rows" /\ fetched < result.rows
  /\ Finish(Said("error"), conn) /\ scanned' = TRUE
  /\ UNCHANGED <<want, fetched, result, dropped>>

MutBreaks ==   \* rows.Err is not asked
  /\ stage = "rows" /\ Finish([kind |-> "table", rows |-> fetched], NoConn)
  /\ UNCHANGED <<want, fetched, result, dropped, scanned>>

\* rows.Next returns false because of an error, which rows.Err returns.
Breaks ==
  /\ stage = "rows" /\ Finish(Said("error"), NoConn)
  /\ UNCHANGED <<want, fetched, result, dropped, scanned>>

\* All rows are there: a table, or "Empty response" without columns.  rows.Next
\* has closed the rows if no other result set follows; rows.Close, which would
\* release the connection in any case, is not called.
Render ==
  /\ stage = "rows" /\ fetched = result.rows
  /\ Finish(IF result.columns THEN [kind |-> "table", rows |-> fetched]
            ELSE Said("empty"), IF result.more THEN conn ELSE NoConn)
  /\ UNCHANGED <<want, fetched, result, dropped, scanned>>

Next ==
  \/ ParseFormFails \/ Refused \/ Use \/ Drop \/ Query \/ QueryFails
  \/ NextRow \/ ScanFails \/ Breaks \/ Render
  \/ \E db \in Databases \cup {""} : Unmarshal(db)

-----------------------------------------------------------------------------

TypeOK ==
  /\ stage \in {"parse", "use", "query", "rows", "done"}
  /\ want \in Databases \cup {""}
  /\ conn \in Databases \cup {NoConn, Default}
  /\ fetched \in 0 .. MaxRows /\ fetched <= result.rows
  /\ result \in [columns : BOOLEAN, rows : 0 .. MaxRows,
                 db : Databases \cup {"", Default}, more : BOOLEAN]
  /\ dropped \in BOOLEAN /\ scanned \in BOOLEAN
  /\ answer \in [kind : {"none", "nothing", "error", "table", "empty"},
                 rows : 0 .. MaxRows]

\* A table is the complete first result set: an error in the middle of the rows
\* is answered instead of the rows before it.
TableIsWhole == answer.kind = "table" => answer.rows = result.rows

\* What was answered comes from the database asked for, unless the connection
\* that USE was sent on was closed before the query: the pool then takes a new
\* one, and the query runs in the default database.
RightDatabase ==
  answer.kind \in {"table", "empty"} =>
    result.db = (IF want = "" \/ dropped THEN Default ELSE want)

\* A connection outlives the request in two cases, and in no other: a row could
\* not be scanned, or the answer is a table that another result set followed.
ConnectionsClosed ==
  stage = "done" =>
    (conn # NoConn <=> scanned \/ (answer.kind = "table" /\ result.more))

AnswerSound == TableIsWhole /\ RightDatabase /\ ConnectionsClosed
=============================================================================
