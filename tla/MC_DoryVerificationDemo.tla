---------------------- MODULE MC_DoryVerificationDemo ----------------------
(* The demo, with an API caller choosing among well-formed and malformed   *)
(* query texts and schemas, the demo's honest table and a tampered copy    *)
(* in which every row passes the filter.                                   *)
EXTENDS DoryVerificationDemo

MCQueryTexts == {"SELECT * FROM table WHERE b = 1",
                 "SELECT * FROM table WHERE b = 0",
                 "SELECT * FROM table WHERE c = 1",
                 "SELEC * FROM table"}

MCSchemaTexts == {"sxt", "other", "not an identifier"}

MCApiTables == {[a |-> <<1, 2, 3>>, b |-> <<1, 0, 1>>],
                [a |-> <<1, 2, 3>>, b |-> <<1, 1, 1>>]}
=============================================================================
