-------------------------------- MODULE EvoDB --------------------------------
(***************************************************************************)
(* The layered database of CEvoDB (evo/evodb.cpp, CDBTransaction in        *)
(* dbwrapper.h): the transaction of the block being connected (cur) over   *)
(* the root transaction (root), which collects what was committed since    *)
(* the last flush, over LevelDB (db).                                      *)
(*                                                                         *)
(* A transaction has a map of writes and a set of deletes, and a key is in *)
(* at most one of them: Write takes it out of the deletes, Erase out of    *)
(* the writes.  So a transaction is a function on keys: the value written, *)
(* Absent for a delete, Untouched for neither.                             *)
(***************************************************************************)
CONSTANTS Absent, Untouched

\* CDBTransaction::Write and Erase
Write(tx, k, v) == [tx EXCEPT ![k] = v]
Erase(tx, k) == [tx EXCEPT ![k] = Absent]

\* What a reader of tx over a parent sees (Read, Exists, the iterator); also
\* what the parent becomes when tx is committed to it.
Over(tx, parent) ==
    [k \in DOMAIN parent |-> IF tx[k] = Untouched THEN parent[k] ELSE tx[k]]

\* A transaction after Clear, for keys K.
Clear(K) == [k \in K |-> Untouched]

=============================================================================
