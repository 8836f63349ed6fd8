--------------------------- MODULE MCQueryExecutor ---------------------------
(* Small instances of QueryExecutor for TLC.                               *)
EXTENDS QueryExecutor, TLC

CONSTANTS emptyKey, otherKey, whole, ragged    \* keys and rows

NewRowOf(status, val) == [status |-> status, key |-> otherKey, value |-> val]

\* A row; a row that lacks a column, and behind it one that cannot be encoded;
\* and, behind a row, one that is too short.
Batches ==
    {<<NewRowOf("good", whole)>>, <<NewRowOf("good", ragged), NewRowOf("bad", whole)>>,
     <<NewRowOf("good", whole), NewRowOf("short", whole)>>}

\* The column some rows lack in the select list, or in the WHERE clause.
Verdicts ==
    {[v \in Value |-> IF v = ragged THEN "panic" ELSE "take"],
     [v \in Value |-> IF v = ragged THEN "error" ELSE "skip"]}

\* The history of outcomes and the contents of the log guard no step (MaxLog is
\* out of reach), and of the properties only TypeOK looks at them: states that
\* differ only there are not told apart.
WithoutLog ==
    <<clock, registry, active, minted, tables, pages, root, index, op, faults,
      crashes, session, catalog, lock, stmts, history>>
==============================================================================
