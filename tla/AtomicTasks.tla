---------------------------- MODULE AtomicTasks ----------------------------
(***************************************************************************)
(* What the reference vertical promises its clients: a table whose rows    *)
(* are created, patched and removed one indivisible step at a time.  A     *)
(* patch changes the fields it names, computed from the row it replaces,   *)
(* and no step ever leaves two open tasks under one title.                 *)
(***************************************************************************)
EXTENDS TaskData

CONSTANTS
  InitialTable,    \* what the table holds before the first request
  Patches          \* what clients ask for: no other change may come about
VARIABLE table

Init == table = InitialTable

Create(id, row) ==
  /\ table[id] = NoRow
  /\ row.status = DEFAULT_STATUS
  /\ row.created_at = row.updated_at
  /\ ~TitleTaken(table, id, row)
  /\ table' = [table EXCEPT ![id] = row]

PatchRow(id, p, now) ==
  /\ table[id] # NoRow
  /\ Valid(p)
  /\ ~NamesNothing(p)
  /\ ~TitleTaken(table, id, Apply(table[id], p, now))
  /\ table' = [table EXCEPT ![id] = Apply(table[id], p, now)]

Remove(id) ==
  /\ table[id] # NoRow
  /\ table' = [table EXCEPT ![id] = NoRow]

Next ==
  \E id \in TaskIds :
    \/ \E row \in Row : Create(id, row)
    \/ \E p \in Patches, now \in Stamps : PatchRow(id, p, now)
    \/ Remove(id)

Spec == Init /\ [][Next]_table
=============================================================================
