------------------------------ MODULE Storage ------------------------------
(***************************************************************************)
(* internal/storage: the SQLite file agent.db that every agent process on  *)
(* the machine shares.  Two of its tables carry control state: "queue"     *)
(* (payloads waiting for the Portal) and "config" (a key-value table).     *)
(* This module gives the SQL statements as operators on the tables; the    *)
(* modules that own a table decide when a statement fails.                 *)
(*                                                                         *)
(* A queue row is [id, stamp]: the INTEGER PRIMARY KEY and the identity of *)
(* the payload.  The payload bytes and the type (which only selects the    *)
(* endpoint) are abstracted to that identity, the status column is always  *)
(* 'pending', and created_at is written and never used to order anything.  *)
(***************************************************************************)
EXTENDS Integers, FiniteSets

QueueRow == [id : Nat \ {0}, stamp : Nat \ {0}]

\* Mutant of NextRowId: the lowest free id instead of the next one.
LowestFreeId(q) ==
    {i \in {1} \cup {r.id + 1 : r \in q} :
        /\ \A r \in q : r.id # i
        /\ \A j \in 1..(i - 1) : \E r \in q : r.id = j}

\* The rowid SQLite gives an inserted row.  The key is declared INTEGER
\* PRIMARY KEY without AUTOINCREMENT, so it is one more than the largest id
\* now in the table (1 when it is empty): the id of a deleted last row is
\* used again.  A set with one member.
NextRowId(q) ==
    {i \in {1} \cup {r.id + 1 : r \in q} : \A r \in q : r.id < i}

\* INSERT INTO queue, the payload being identified by stamp.
Enqueue(q, stamp) == q \cup {[id |-> i, stamp |-> stamp] : i \in NextRowId(q)}

\* SELECT ... ORDER BY id ASC LIMIT limit: the limit oldest rows.
Pending(q, limit) ==
    {r \in q : Cardinality({s \in q : s.id < r.id}) < limit}

\* Mutant of FirstRow: ORDER BY id DESC.
LastRow(rows) == {r \in rows : \A s \in rows : r.id >= s.id}

\* The row that "ORDER BY id" puts first (empty only when rows is).
FirstRow(rows) == {r \in rows : \A s \in rows : r.id <= s.id}

\* Mutant of DeleteQueueItem: the statement matches nothing.
DeleteNothing(q, i) == {r \in q : r.id # i - i}

\* DELETE FROM queue WHERE id = ?: whatever row has that id now.
DeleteQueueItem(q, i) == {r \in q : r.id # i}
=============================================================================
