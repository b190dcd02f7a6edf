---------------------------- MODULE MCBatchProfile ----------------------------
(***************************************************************************)
(* Instances of the batch profile lookup for TLC.                          *)
(***************************************************************************)
EXTENDS BatchProfile, TLC

CONSTANTS c1, c2, c3

\* c1 is in every load, c2 leaves after the first, c3 arrives with the last.
SomeContents == [g \in Loads |-> {c1} \cup (IF g = 1 THEN {c2} ELSE {})
                                      \cup (IF g = MaxLoad THEN {c3} ELSE {})]

\* Nothing is encrypted in the first load.
SomeSecret == [g \in Loads |-> IF g = 1 THEN {} ELSE Columns]

\* encrypt.md, section 4: the monthly schema encrypts names and the like.
NamesOnly == [g \in Loads |-> {"CUSNM"}]

\* Sharded index, one index, one object for each customer.
SomeLayouts == {{"shard", "bulk", "meta"}, {"full", "bulk", "meta"},
                {"single", "meta"}}

=============================================================================
