---------------------------- MODULE RequestCache ----------------------------
(***************************************************************************)
(* The tables of an evaluation that grow by one entry at a time: the       *)
(* request cache of CachedTextModel, one file per request, which a later   *)
(* process reads again (eval/python: personamem_effect_runner.py).         *)
(***************************************************************************)
EXTENDS Naturals

\* The table after an entry has been written.
With(table, key, value) ==
    [k \in DOMAIN table \cup {key} |-> IF k = key THEN value ELSE table[k]]

\* The table after some entries have been written; those it has are kept.
Extended(table, more) ==
    [k \in DOMAIN table \cup DOMAIN more |-> IF k \in DOMAIN table THEN table[k] ELSE more[k]]

\* The history of provider calls after one more for the request.
CountCall(calls, request) ==
    With(calls, request, IF request \in DOMAIN calls THEN calls[request] + 1 ELSE 1)

=============================================================================
