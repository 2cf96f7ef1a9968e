------------------------------ MODULE RowStore ------------------------------
(***************************************************************************)
(* What the commit pipeline promises of the rows: commits take effect one  *)
(* at a time, each at a timestamp greater than every earlier one, and a    *)
(* row that is deleted stays deleted at the same timestamp.                *)
(***************************************************************************)
EXTENDS Integers

CONSTANTS Row, START_TS

VARIABLES deleted,   \* the timestamp at which a row was deleted, 0 if it was not
          last       \* timestamp of the last commit

storeVars == <<deleted, last>>

StoreInit == /\ deleted = [r \in Row |-> 0]
             /\ last = START_TS

(* The commit at last' deletes the rows whose version changes.             *)
Commit ==
    /\ last' > last
    /\ deleted' \in [Row -> {deleted[r] : r \in Row} \cup {last'}]
    /\ \A r \in Row : deleted'[r] # deleted[r] =>
                          deleted[r] = 0 /\ deleted'[r] = last'

StoreSpec == StoreInit /\ [][Commit]_storeVars

=============================================================================
