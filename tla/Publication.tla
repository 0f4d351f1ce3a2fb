---------------------------- MODULE Publication ----------------------------
(***************************************************************************)
(* What a publisher publishes: the rows of its tables, and the changes a   *)
(* WAL makes to them.  A transaction is one change of one row, and its     *)
(* number is the version it gives that row; version 0 is the row as it was *)
(* before the WAL.  A message is <<row, version>>.                         *)
(***************************************************************************)
EXTENDS Integers, Sequences

CONSTANTS Table,    \* the tables of the publication
          Row,      \* the rows (primary keys) of all of them
          TableOf,  \* TableOf[r]: the table row r is in
          Initial   \* the rows that exist at version 0

ASSUME PublicationAssumption ==
    /\ TableOf \in [Row -> Table]
    /\ Initial \subseteq Row

(* What a transaction does to its row: write an image without or with a    *)
(* NULL column, or delete it.                                              *)
Op == {"put", "putNull", "delete"}

Transaction == [row : Row, op : Op]

Message == Row \X Nat

(* Version v is what the first n transactions of w leave of row r.         *)
Current(w, r, v, n) ==
    /\ v = 0 \/ w[v].row = r
    /\ \A i \in v + 1..n : w[i].row # r

Version(w, r, n) == CHOOSE v \in 0..n : Current(w, r, v, n)

Exists(w, r, v) == IF v = 0 THEN r \in Initial ELSE w[v].op # "delete"

HasNull(w, m) == m[2] # 0 /\ w[m[2]].op = "putNull"

(* The rows of t after the first n transactions of w.                      *)
Snapshot(w, t, n) ==
    {m \in Row \X (0..n) :
        /\ TableOf[m[1]] = t
        /\ Current(w, m[1], m[2], n)
        /\ Exists(w, m[1], m[2])}

(* What transaction i of w says.                                           *)
ChangeOf(w, i) == <<w[i].row, i>>

(* What the transactions after the first n, up to k, say of table t.       *)
Changes(w, t, n, k) == {ChangeOf(w, i) : i \in {j \in n + 1..k : TableOf[w[j].row] = t}}
=============================================================================
