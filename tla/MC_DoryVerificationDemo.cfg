CONSTANTS
    QueryTexts <- MCQueryTexts
    SchemaTexts <- MCSchemaTexts
    ApiTables <- MCApiTables
SPECIFICATION Spec
INVARIANT VerifiedResultAnswersQuery
INVARIANT DemoVerifiesItsOwnProof
\* The program exits once the call has returned and main has printed.
CHECK_DEADLOCK FALSE
