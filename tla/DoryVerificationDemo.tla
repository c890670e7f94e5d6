------------------------ MODULE DoryVerificationDemo ------------------------
(***************************************************************************)
(* The CLI demo of david/src/main.rs.  main proves the query              *)
(* "SELECT * FROM table WHERE b = 1" over a three-row table, then calls   *)
(* run_dory_verification with the query text, the schema, the query      *)
(* commitments, the proof and the serialized result, and prints whether  *)
(* verification succeeded and whether the result is the expected table.  *)
(* run_dory_verification is also a public function whose arguments come  *)
(* "from API": an API caller may pass any query, schema, commitments,    *)
(* proof and result, and the function must then return None unless the  *)
(* result verifies.                                                       *)
(*                                                                         *)
(* The SQL parser, QueryExpr::try_new, QueryProof::new and verify live    *)
(* outside src/; they are modelled by their contracts (spec 4.3): a query *)
(* is a filter "SELECT * FROM t WHERE col = val", a commitment binds the  *)
(* committed column data, and verify accepts exactly a proof made for    *)
(* the verifier's query expression and the committed data, together with *)
(* that query's true result.                                              *)
(***************************************************************************)
EXTENDS Integers, Sequences, FiniteSets

CONSTANTS
    QueryTexts,   \* SQL texts an API caller may pass
    SchemaTexts,  \* default schemas an API caller may pass
    ApiTables     \* tables an API caller may have committed to or proved over

VARIABLES
    caller,            \* "main", or "api" for an outside caller
    pc,                \* "prove", "verify", "print" or "done"
    query,             \* the arguments of run_dory_verification
    defaultSchema,
    queryCommitments,
    proof,
    serializedResult,
    resultOpt,         \* its return value: [some, table]
    printed            \* main's line: [line |-> "ok" | "failed" | "none", match]

vars == <<caller, pc, query, defaultSchema, queryCommitments, proof,
          serializedResult, resultOpt, printed>>

None    == [some |-> FALSE, table |-> <<>>]
NothingPrinted == [line |-> "none", match |-> FALSE]
Some(t) == [some |-> TRUE, table |-> t]

----------------------------------------------------------------------------
(* The contracts of the code outside src/.                                 *)

\* query.parse(): the texts that parse, and what they parse to.
ParseQuery(text) ==
    CASE text = "SELECT * FROM table WHERE b = 1"
            -> [ok |-> TRUE, table |-> "table", col |-> "b", val |-> 1]
      [] text = "SELECT * FROM table WHERE b = 0"
            -> [ok |-> TRUE, table |-> "table", col |-> "b", val |-> 0]
      [] text = "SELECT * FROM table WHERE c = 1"
            -> [ok |-> TRUE, table |-> "table", col |-> "c", val |-> 1]
      [] OTHER -> [ok |-> FALSE]

\* default_schema.parse(): an identifier, or a parse error.
Identifiers == {"sxt", "other"}
ParseSchema(text) ==
    IF text \in Identifiers THEN [ok |-> TRUE, id |-> text] ELSE [ok |-> FALSE]

\* QueryExpr::try_new against a schema accessor that knows one table and
\* its columns: the table must resolve, the filter column must exist, and
\* SELECT * selects every column the accessor knows.
QueryExprTryNew(ast, schema, tableRef, columns) ==
    IF /\ schema.id \o "." \o ast.table = tableRef
       /\ ast.col \in columns
    THEN [ok |-> TRUE, table |-> tableRef, cols |-> columns, col |-> ast.col, val |-> ast.val]
    ELSE [ok |-> FALSE]

\* proof_expr().get_column_references()
ColumnReferences(e) == e.cols \cup {e.col}

\* The rows of data the filter keeps, and the result table over e.cols.
Eval(e, data) ==
    LET rows == SelectSeq([i \in 1..Len(data[e.col]) |-> i],
                          LAMBDA i : data[e.col][i] = e.val)
    IN [c \in e.cols |-> [k \in 1..Len(rows) |-> data[c][rows[k]]]]

\* QueryCommitments::from_accessor_with_max_bounds: one commitment per
\* referenced column, abstracted to the data it binds.
FromAccessorWithMaxBounds(refs, tableRef, data) ==
    [table |-> tableRef, cols |-> [c \in refs |-> data[c]]]

\* QueryProof::new: a proof about e over the referenced data, and the result.
QueryProofNew(e, data) ==
    [proof  |-> [expr |-> e, data |-> [c \in ColumnReferences(e) |-> data[c]]],
     result |-> Eval(e, data)]

\* proof.verify(expr, commitments, result, setup) succeeds.
Verify(p, e, commitments, result) ==
    /\ p.expr = e
    /\ commitments.table = e.table
    /\ p.data = commitments.cols
    /\ result = Eval(e, commitments.cols)

----------------------------------------------------------------------------
(* The demo's own code.                                                     *)

DemoTableRef == "sxt.table"
DemoQuery    == "SELECT * FROM table WHERE b = 1"
DemoTable    == [a |-> <<1, 2, 3>>, b |-> <<1, 0, 1>>]

\* Mutant: run_verification checks the proof against the expression the
\* proof carries instead of the one built from the caller's query.
RunVerificationAgainstProofExpr(q, s, commitments, p, result) ==
    LET ast    == ParseQuery(q)
        schema == ParseSchema(s)
        qe     == QueryExprTryNew(ast, schema, commitments.table, DOMAIN commitments.cols)
    IN IF /\ ast.ok /\ schema.ok /\ qe.ok
          /\ Verify(p, p.expr, commitments, result)
       THEN Some(result) ELSE None

\* run_verification: each `.ok()?` returns None at the first failure, in
\* the order query.parse(), default_schema.parse(), QueryExpr::try_new
\* (which resolves the query against the commitments), proof.verify.
RunVerification(q, s, commitments, p, result) ==
    LET ast    == ParseQuery(q)
        schema == ParseSchema(s)
        qe     == QueryExprTryNew(ast, schema, commitments.table, DOMAIN commitments.cols)
    IN IF /\ ast.ok /\ schema.ok /\ qe.ok
          /\ Verify(p, qe, commitments, result)
       THEN Some(result) ELSE None

\* Mutant: main commits only the filter column, not every column the
\* query references.
ProveCommittingFilterColumn ==
    /\ pc = "prove"
    /\ LET qe == QueryExprTryNew(ParseQuery(DemoQuery), ParseSchema("sxt"),
                                 DemoTableRef, DOMAIN DemoTable)
           pr == QueryProofNew(qe, DemoTable)
       IN /\ qe.ok
          /\ proof' = pr.proof
          /\ serializedResult' = pr.result
          /\ queryCommitments' = FromAccessorWithMaxBounds({qe.col}, DemoTableRef, DemoTable)
    /\ query' = DemoQuery
    /\ defaultSchema' = "sxt"
    /\ pc' = "verify"
    /\ UNCHANGED <<caller, resultOpt, printed>>

\* main up to the call: the accessor holds the table, the query expression
\* is built against it (.unwrap(): it resolves), the proof and result are
\* produced, and the commitments of the referenced columns are taken.
Prove ==
    /\ pc = "prove"
    /\ LET qe == QueryExprTryNew(ParseQuery(DemoQuery), ParseSchema("sxt"),
                                 DemoTableRef, DOMAIN DemoTable)
           pr == QueryProofNew(qe, DemoTable)
       IN /\ qe.ok
          /\ proof' = pr.proof
          /\ serializedResult' = pr.result
          /\ queryCommitments' = FromAccessorWithMaxBounds(ColumnReferences(qe),
                                                           DemoTableRef, DemoTable)
    /\ query' = DemoQuery
    /\ defaultSchema' = "sxt"
    /\ pc' = "verify"
    /\ UNCHANGED <<caller, resultOpt, printed>>

\* run_dory_verification: forwards its arguments to run_verification.
RunDoryVerification ==
    /\ pc = "verify"
    /\ resultOpt' = RunVerification(query, defaultSchema, queryCommitments, proof,
                                    serializedResult)
    /\ pc' = IF caller = "main" THEN "print" ELSE "done"
    /\ UNCHANGED <<caller, query, defaultSchema, queryCommitments, proof,
                   serializedResult, printed>>

ExpectedResult == [a |-> <<1, 3>>, b |-> <<1, 1>>]

\* main's match on the returned option.
PrintResult ==
    /\ pc = "print"
    /\ printed' = IF resultOpt.some
                  THEN [line |-> "ok", match |-> resultOpt.table = ExpectedResult]
                  ELSE [line |-> "failed", match |-> FALSE]
    /\ pc' = "done"
    /\ UNCHANGED <<caller, query, defaultSchema, queryCommitments, proof,
                   serializedResult, resultOpt>>

----------------------------------------------------------------------------
(* What an API caller may pass: the query expressions that resolve        *)
(* against a table of ApiTables, honest proofs of them over any such      *)
(* table, their results, and commitments to all or only some columns.     *)

ApiExprs ==
    UNION {IF ParseQuery(q).ok
           THEN LET e == QueryExprTryNew(ParseQuery(q), ParseSchema("sxt"),
                                         DemoTableRef, DOMAIN t)
                IN IF e.ok THEN {e} ELSE {}
           ELSE {} : q \in QueryTexts, t \in ApiTables}

ApiProofs      == {QueryProofNew(e, t).proof : e \in ApiExprs, t \in ApiTables}
ApiResults     == {QueryProofNew(e, t).result : e \in ApiExprs, t \in ApiTables}
ApiCommitments == UNION {{FromAccessorWithMaxBounds(refs, DemoTableRef, t) :
                               refs \in {DOMAIN t, {"b"}}} : t \in ApiTables}

Init ==
    /\ \/ /\ caller = "main"
          /\ pc = "prove"
          /\ query = "" /\ defaultSchema = ""
          /\ queryCommitments = "unset" /\ proof = "unset" /\ serializedResult = "unset"
       \/ /\ caller = "api"
          /\ pc = "verify"
          /\ query \in QueryTexts
          /\ defaultSchema \in SchemaTexts
          /\ queryCommitments \in ApiCommitments
          /\ proof \in ApiProofs
          /\ serializedResult \in ApiResults
    /\ resultOpt = None
    /\ printed = NothingPrinted

Next == Prove \/ RunDoryVerification \/ PrintResult

Spec == Init /\ [][Next]_vars

----------------------------------------------------------------------------
(* Properties.                                                              *)

\* Soundness of run_dory_verification (its doc comment: it returns None
\* if the results cannot be verified): whatever the API caller passes,
\* a returned table is the answer to the caller's OWN query text, resolved
\* under the caller's schema against the committed data, never the answer
\* to whatever query the proof was made for or to data nobody committed.
VerifiedResultAnswersQuery ==
    resultOpt.some =>
        LET ast    == ParseQuery(query)
            schema == ParseSchema(defaultSchema)
            qe     == QueryExprTryNew(ast, schema, queryCommitments.table,
                                      DOMAIN queryCommitments.cols)
        IN /\ ast.ok /\ schema.ok /\ qe.ok
           /\ resultOpt.table = Eval(qe, queryCommitments.cols)

\* Completeness of the demo: main's proof, made against the accessor, is
\* accepted by the verifier, which re-resolves the query against the
\* commitments only, and main prints "Verification OK, result match: true".
DemoVerifiesItsOwnProof ==
    (caller = "main" /\ pc = "done") =>
        printed = [line |-> "ok", match |-> TRUE]

=============================================================================
