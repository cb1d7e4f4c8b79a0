------------------------------- MODULE Survey -------------------------------
(***************************************************************************)
(* What the matrix harness promises, without servers, ports or processes:  *)
(* a survey settles every <<chain, client>> pair exactly once, as a cell   *)
(* or as a runner failure; results.json is rewritten only when no pair is  *)
(* left, with exactly the cells; MATRIX.md is rewritten only after it.     *)
(* A survey may be abandoned at any time, also while a file is written.    *)
(***************************************************************************)
EXTENDS Naturals

CONSTANT Pairs

VARIABLES
    surveying,   \* a harness process is running
    verdict,     \* what is known of each pair in this survey
    results,     \* the pairs with a cell in results.json
    matrix       \* the pairs with a mark in MATRIX.md

vars == <<surveying, verdict, results, matrix>>

Verdicts == {"todo", "cell", "failed"}

\* A file being written is torn: emptied and not yet filled.
Outputs == [whole : BOOLEAN, pairs : SUBSET Pairs]
Torn == [whole |-> FALSE, pairs |-> {}]
Whole(ps) == [whole |-> TRUE, pairs |-> ps]

AllTodo == [p \in Pairs |-> "todo"]
CellPairs == {p \in Pairs : verdict[p] = "cell"}
Settled == \A p \in Pairs : verdict[p] # "todo"

TypeOK ==
    /\ surveying \in BOOLEAN
    /\ verdict \in [Pairs -> Verdicts]
    /\ results \in Outputs
    /\ matrix \in Outputs

Init ==
    /\ surveying = FALSE
    /\ verdict = AllTodo
    /\ results = Whole({})
    /\ matrix = Whole({})

Begin ==
    /\ ~surveying
    /\ surveying' = TRUE
    /\ verdict' = AllTodo
    /\ UNCHANGED <<results, matrix>>

\* A pair is settled once and for all.
Settle(p) ==
    /\ surveying
    /\ verdict[p] = "todo"
    /\ \E v \in {"cell", "failed"} : verdict' = [verdict EXCEPT ![p] = v]
    /\ UNCHANGED <<surveying, results, matrix>>

\* Nothing is published while a pair is open.
RewriteResults ==
    /\ surveying
    /\ Settled
    /\ results' \in {Torn, Whole(CellPairs)}
    /\ UNCHANGED <<surveying, verdict, matrix>>

\* The matrix follows the results of the same survey.
RewriteMatrix ==
    /\ surveying
    /\ Settled
    /\ results = Whole(CellPairs)
    /\ matrix' \in {Torn, Whole(CellPairs)}
    /\ surveying' = (matrix' = Torn)
    /\ UNCHANGED <<verdict, results>>

Abandon ==
    /\ surveying
    /\ surveying' = FALSE
    /\ verdict' = AllTodo
    /\ UNCHANGED <<results, matrix>>

Next ==
    \/ Begin
    \/ \E p \in Pairs : Settle(p)
    \/ RewriteResults
    \/ RewriteMatrix
    \/ Abandon

Spec == Init /\ [][Next]_vars
=============================================================================
