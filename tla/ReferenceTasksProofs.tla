------------------------ MODULE ReferenceTasksProofs ------------------------
(***************************************************************************)
(* Theorems about ReferenceTasks, for any number of requests, ids, titles  *)
(* and patches.  First typing, the partial unique index under every        *)
(* interleaving and, when the clock never repeats a stamp, that no update  *)
(* is lost; then, under the same clock, the implementation of AtomicTasks; *)
(* then, whatever the clock, that an answer tells the client what is so.   *)
(***************************************************************************)
EXTENDS ReferenceTasks, TLAPS

\* What typing needs to be inductive: a request under way and a statement on
\* its way name a real id, a statement carries a row if it writes one, and a
\* reply of "row" comes with the row.
Wired ==
  \A r \in Requests :
    /\ pc[r] \notin {"idle", "done"} => op[r].id \in TaskIds
    /\ stmt[r] # "none" => op[r].id \in TaskIds /\ pc[r] # "idle"
    /\ stmt[r] \in {"insert", "update"} => new[r] \in Row
    /\ reply[r] = "row" => got[r] \in Row

\* dataclasses.replace with checked fields yields a task.
LEMMA ApplyIsRow ==
  ASSUME NEW row \in Row, NEW p \in Patch, NEW now \in Stamps, Valid(p)
  PROVE  Apply(row, p, now) \in Row
BY DEF Row, Patch, Valid, Apply, Patched

\* create_task with checked fields yields a task.
LEMMA NewRowIsRow ==
  ASSUME NEW title \in Titles, NEW details \in Details, NEW now \in Stamps
  PROVE  NewRow(title, details, now) \in Row
BY DEF Row, NewRow, DEFAULT_STATUS, ALLOWED_STATUSES

\* An absent row is not a row.
LEMMA RowIsNotNoRow == NoRow \notin Row
BY DataAssumption DEF DataAssumption

\* The patches a client may send are patches, and so is the empty one.
LEMMA PatchesArePatches ==
  /\ NoPatch \in Patch
  /\ \A p \in Patches \cup {NoPatch} : p \in Patch
BY RequestAssumption DEF RequestAssumption, NoPatch, Patch

\* What a statement's reply leaves behind, whether or not its request listens.
LEMMA ReplyTyping ==
  ASSUME TypeOK, Wired, NEW r \in Requests, NEW what \in Replies,
         NEW row \in MaybeRow, what = "row" => row \in Row,
         Reply(r, what, row)
  PROVE  /\ stmt' = [stmt EXCEPT ![r] = "none"]
         /\ reply' \in [Requests -> Replies]
         /\ got' \in [Requests -> MaybeRow]
         /\ \A q \in Requests : reply'[q] = "row" => got'[q] \in Row
<1>1. CASE pc[r] = "done"
  BY <1>1 DEF Reply, TypeOK, Wired
<1>2. CASE pc[r] # "done"
  BY <1>2 DEF Reply, TypeOK, Wired
<1> QED
  BY <1>1, <1>2

-----------------------------------------------------------------------------
\* No request and an empty table, or the rows it starts with.
LEMMA TypingInit == Init => TypeOK /\ Wired
<1> SUFFICES ASSUME Init PROVE TypeOK /\ Wired
  OBVIOUS
<1>1. NoOp \in Op
  BY PatchesArePatches DEF NoOp, Op, Kinds
<1>2. TypeOK
  <2>1. table \in [TaskIds -> MaybeRow]
    BY RequestAssumption DEF RequestAssumption, Init
  <2>2. used \in SUBSET Stamps
    BY <2>1 DEF Init, StampsOf, MaybeRow, Row
  <2> QED
    BY <1>1, <2>1, <2>2
       DEF Init, TypeOK, PCs, Statements, Replies, Answers, MaybeRow
<1>3. Wired
  BY DEF Init, Wired
<1> QED
  BY <1>2, <1>3

\* What a create asks for is an operation, with the id drawn for it.
LEMMA CreatesAreOps ==
  ASSUME NEW o \in Op, NEW id \in TaskIds
  PROVE  /\ [o EXCEPT !.kind = "create", !.id = id] \in Op
         /\ [o EXCEPT !.kind = "create", !.id = id].id = id
BY DEF Op, Kinds

\* A create refused by its field checks is an operation too.
LEMMA RefusedCreatesAreOps ==
  ASSUME NEW o \in Op
  PROVE  [o EXCEPT !.kind = "create"] \in Op
BY DEF Op, Kinds

\* Every statement of the service and of PostgreSQL keeps the types.
LEMMA TypingStep == TypeOK /\ Wired /\ [Next]_vars => TypeOK' /\ Wired'
<1> SUFFICES ASSUME TypeOK, Wired, [Next]_vars PROVE TypeOK' /\ Wired'
  OBVIOUS
<1> USE DEF TypeOK, Wired, PCs, Statements, Replies, Answers
<1>1. ASSUME NEW r \in Requests, NEW title \in Titles \cup BadTitles,
             NEW details \in Details \cup BadDetails,
             RefuseCreate(r, title, details)
      PROVE  TypeOK' /\ Wired'
  <2>1. op' = [q \in Requests |-> IF q = r THEN [op[r] EXCEPT !.kind = "create"] ELSE op[q]]
    BY <1>1 DEF RefuseCreate
  <2>2. op' \in [Requests -> Op]
    BY <2>1, RefusedCreatesAreOps
  <2> QED
    BY <1>1, <2>2 DEF RefuseCreate, Finish, MaybeRow
<1>2. ASSUME NEW r \in Requests, NEW title \in Titles \cup BadTitles,
             NEW details \in Details \cup BadDetails,
             NEW id \in TaskIds, NEW now \in Stamps,
             BeginCreate(r, title, details, id, now)
      PROVE  TypeOK' /\ Wired'
  <2>1. NewRow(title, details, now) \in Row
    BY <1>2, NewRowIsRow DEF BeginCreate
  <2>2. op' \in [Requests -> Op] /\ op'[r].id = id
    <3>1. op' = [q \in Requests |->
                  IF q = r THEN [op[r] EXCEPT !.kind = "create", !.id = id] ELSE op[q]]
      BY <1>2 DEF BeginCreate
    <3>2. op \in [Requests -> Op]
      OBVIOUS
    <3>3. /\ [op[r] EXCEPT !.kind = "create", !.id = id] \in Op
          /\ [op[r] EXCEPT !.kind = "create", !.id = id].id = id
      BY <3>2, CreatesAreOps
    <3> HIDE DEF TypeOK, Wired, PCs, Statements, Replies, Answers
    <3> QED
      BY <3>1, <3>2, <3>3
  <2>3. new' \in [Requests -> MaybeRow] /\ new'[r] \in Row
    BY <1>2, <2>1 DEF BeginCreate, MaybeRow
  <2>4. \A other \in Requests \ {r} :
          /\ op'[other] = op[other] /\ new'[other] = new[other]
          /\ pc'[other] = pc[other] /\ stmt'[other] = stmt[other]
          /\ reply'[other] = reply[other] /\ got'[other] = got[other]
    BY <1>2 DEF BeginCreate, Send
  <2> QED
    BY <1>2, <2>2, <2>3, <2>4 DEF BeginCreate, Send, MaybeRow
<1>3. ASSUME NEW r \in Requests, NEW kind \in {"get", "update"},
             NEW id \in TaskIds \cup {Malformed}, NEW p \in Patches \cup {NoPatch},
             RefuseUnread(r, kind, id, p)
      PROVE  TypeOK' /\ Wired'
  <2>1. p \in Patch
    BY PatchesArePatches
  <2>2. op' \in [Requests -> Op]
    BY <1>3, <2>1 DEF RefuseUnread, Op, Kinds
  <2>3. PICK how \in {"invalid_422", "not_found_404"} : Finish(r, how)
    BY <1>3 DEF RefuseUnread
  <2> QED
    BY <1>3, <2>2, <2>3 DEF RefuseUnread, Finish, MaybeRow
<1>4. ASSUME NEW r \in Requests, NEW kind \in {"get", "update"},
             NEW id \in TaskIds \cup {Malformed}, NEW p \in Patches \cup {NoPatch},
             BeginRead(r, kind, id, p)
      PROVE  TypeOK' /\ Wired'
  <2>1. p \in Patch
    BY PatchesArePatches
  <2> QED
    BY <1>4, <2>1 DEF BeginRead, Send, MaybeRow, Op, Kinds
<1>5. ASSUME NEW r \in Requests, CreateAnswered(r)
      PROVE  TypeOK' /\ Wired'
  BY <1>5 DEF CreateAnswered, Finish, MaybeRow
<1>6. ASSUME NEW r \in Requests, EndAfterRead(r)
      PROVE  TypeOK' /\ Wired'
  <2>1. PICK how \in Answers : Finish(r, how)
    BY <1>6 DEF EndAfterRead
  <2> QED
    BY <1>6, <2>1 DEF EndAfterRead, Finish, MaybeRow
<1>7. ASSUME NEW r \in Requests, NEW now \in Stamps, BeginWrite(r, now)
      PROVE  TypeOK' /\ Wired'
  <2>1. got[r] \in Row /\ op[r].patch \in Patch /\ Valid(op[r].patch)
    BY <1>7 DEF BeginWrite, Op
  <2>2. Apply(got[r], op[r].patch, now) \in Row
    BY <2>1, ApplyIsRow
  <2>3. op[r].id \in TaskIds
    BY <1>7 DEF BeginWrite, Answered
  <2> QED
    BY <1>7, <2>1, <2>2, <2>3 DEF BeginWrite, Answered, Send, MaybeRow
<1>8. ASSUME NEW r \in Requests, EndAfterWrite(r)
      PROVE  TypeOK' /\ Wired'
  <2>1. PICK how \in Answers : Finish(r, how)
    BY <1>8 DEF EndAfterWrite
  <2> QED
    BY <1>8, <2>1 DEF EndAfterWrite, Finish, MaybeRow
<1>9. ASSUME NEW r \in Requests, BeginReread(r)
      PROVE  TypeOK' /\ Wired'
  BY <1>9 DEF BeginReread, Answered, Send, MaybeRow
<1>10. ASSUME NEW r \in Requests, EndAfterReread(r)
       PROVE  TypeOK' /\ Wired'
  BY <1>10 DEF EndAfterReread, Finish, MaybeRow
<1>11. ASSUME NEW r \in Requests, NEW how \in {"error_500", "dropped"},
              Interrupted(r, how)
       PROVE  TypeOK' /\ Wired'
  BY <1>11 DEF Interrupted, Finish, MaybeRow
<1>12. ASSUME NEW r \in Requests, DbSelect(r)
       PROVE  TypeOK' /\ Wired'
  <2>1. table[op[r].id] \in MaybeRow
    BY <1>12 DEF DbSelect
  <2>2. PICK what \in {"row", "no_row"} :
          /\ Reply(r, what, table[op[r].id])
          /\ what = "row" => table[op[r].id] \in Row
    BY <1>12, <2>1 DEF DbSelect, MaybeRow
  <2>3. /\ stmt' = [stmt EXCEPT ![r] = "none"]
        /\ reply' \in [Requests -> Replies]
        /\ got' \in [Requests -> MaybeRow]
        /\ \A q \in Requests : reply'[q] = "row" => got'[q] \in Row
    BY <2>1, <2>2, ReplyTyping
  <2> QED
    BY <1>12, <2>3 DEF DbSelect
<1>13. ASSUME NEW r \in Requests,
              stmt[r] \in {"insert", "update"},
              \/ /\ \E what \in {"no_row", "taken"} : Reply(r, what, NoRow)
                 /\ UNCHANGED <<table, writes>>
              \/ Reply(r, "stored", new[r]) /\ Store(r, op[r].id),
              UNCHANGED <<pc, op, cur, new, answer, issued, used>>
       PROVE  TypeOK' /\ Wired'
  <2>1. op[r].id \in TaskIds /\ new[r] \in Row
    BY <1>13
  <2>2. /\ stmt' = [stmt EXCEPT ![r] = "none"]
        /\ reply' \in [Requests -> Replies]
        /\ got' \in [Requests -> MaybeRow]
        /\ \A q \in Requests : reply'[q] = "row" => got'[q] \in Row
    <3>1. PICK what \in {"no_row", "taken", "stored"}, row \in {NoRow, new[r]} :
            Reply(r, what, row)
      BY <1>13
    <3>2. row \in MaybeRow
      BY <2>1 DEF MaybeRow
    <3> QED
      BY <3>1, <3>2, ReplyTyping
  <2>3. table' \in [TaskIds -> MaybeRow] /\ writes' \in SUBSET Write
    <3>1. CASE UNCHANGED <<table, writes>>
      BY <3>1
    <3>2. CASE Store(r, op[r].id)
      <4>1. [by |-> r, id |-> op[r].id, old |-> table[op[r].id], new |-> new[r]] \in Write
        BY <2>1 DEF Write
      <4> QED
        BY <3>2, <2>1, <4>1 DEF Store, MaybeRow
    <3> QED
      BY <1>13, <3>1, <3>2
  <2> QED
    BY <1>13, <2>1, <2>2, <2>3
<1>14. ASSUME NEW r \in Requests, DbInsert(r)
       PROVE  TypeOK' /\ Wired'
  <2>1. stmt[r] \in {"insert", "update"}
    BY <1>14 DEF DbInsert
  <2>2. \/ Reply(r, "taken", NoRow) /\ UNCHANGED <<table, writes>>
        \/ Reply(r, "stored", new[r]) /\ Store(r, op[r].id)
    BY <1>14 DEF DbInsert
  <2>3. UNCHANGED <<pc, op, cur, new, answer, issued, used>>
    BY <1>14 DEF DbInsert
  <2> QED
    BY <1>13, <2>1, <2>2, <2>3
<1>15. ASSUME NEW r \in Requests, DbUpdate(r)
       PROVE  TypeOK' /\ Wired'
  <2>1. stmt[r] \in {"insert", "update"}
    BY <1>15 DEF DbUpdate
  <2>2. \/ /\ \E what \in {"no_row", "taken"} : Reply(r, what, NoRow)
           /\ UNCHANGED <<table, writes>>
        \/ Reply(r, "stored", new[r]) /\ Store(r, op[r].id)
    BY <1>15 DEF DbUpdate
  <2>3. UNCHANGED <<pc, op, cur, new, answer, issued, used>>
    BY <1>15 DEF DbUpdate
  <2> QED
    BY <1>13, <2>1, <2>2, <2>3
<1>16. ASSUME NEW id \in TaskIds, RemovedByOther(id)
       PROVE  TypeOK' /\ Wired'
  BY <1>16 DEF RemovedByOther, MaybeRow
<1>17. ASSUME UNCHANGED vars
       PROVE  TypeOK' /\ Wired'
  BY <1>17 DEF vars
<1> QED
  BY <1>1, <1>2, <1>3, <1>4, <1>5, <1>6, <1>7, <1>8, <1>9, <1>10, <1>11, <1>12,
     <1>14, <1>15, <1>16, <1>17
  DEF Next, Receive, Continue, Server

\* TypeOK holds for any number of requests, ids, titles and patches.
THEOREM Typing == Spec => []TypeOK
<1>1. Init => TypeOK /\ Wired
  BY TypingInit
<1>2. TypeOK /\ Wired /\ [Next]_vars => (TypeOK /\ Wired)'
  BY TypingStep
<1> QED
  BY <1>1, <1>2, PTL DEF Spec

-----------------------------------------------------------------------------
(* The partial unique index: TitleTaken is asked in the same statement that *)
(* stores the row, so it needs nothing of the clock or of the requests.      *)

\* A row stored under a title nobody holds leaves the table consistent.
LEMMA StoringAFreeTitle ==
  ASSUME NEW tbl \in [TaskIds -> MaybeRow], OneOpenTaskPerTitle(tbl),
         NEW id \in TaskIds, NEW row \in Row, ~TitleTaken(tbl, id, row)
  PROVE  OneOpenTaskPerTitle([tbl EXCEPT ![id] = row])
BY DEF OneOpenTaskPerTitle, TitleTaken, MaybeRow

\* Removing a row frees titles and takes none.
LEMMA Removing ==
  ASSUME NEW tbl \in [TaskIds -> MaybeRow], OneOpenTaskPerTitle(tbl),
         NEW id \in TaskIds
  PROVE  OneOpenTaskPerTitle([tbl EXCEPT ![id] = NoRow])
BY DEF OneOpenTaskPerTitle, IsOpen

\* The table changes in three actions only.
LEMMA TableChanges ==
  ASSUME [Next]_vars
  PROVE  \/ UNCHANGED table
         \/ \E r \in Requests : DbInsert(r) \/ DbUpdate(r)
         \/ \E id \in TaskIds : RemovedByOther(id)
<1>1. \A r \in Requests : Receive(r) => UNCHANGED table
  BY DEF Receive, RefuseCreate, BeginCreate, RefuseUnread, BeginRead
<1>2. \A r \in Requests : Continue(r) => UNCHANGED table
  BY DEF Continue, CreateAnswered, EndAfterRead, BeginWrite, EndAfterWrite, BeginReread,
         EndAfterReread
<1>3. \A r \in Requests : DbSelect(r) => UNCHANGED table
  BY DEF DbSelect
<1>4. \A r \in Requests, how \in {"error_500", "dropped"} :
        Interrupted(r, how) => UNCHANGED table
  BY DEF Interrupted
<1> QED
  BY <1>1, <1>2, <1>3, <1>4 DEF Next, Server, vars

\* Every statement keeps at most one open task under a title.
LEMMA ConsistentStep ==
  TypeOK /\ Wired /\ TableIsConsistent /\ [Next]_vars => TableIsConsistent'
<1> SUFFICES ASSUME TypeOK, Wired, TableIsConsistent, [Next]_vars
             PROVE  TableIsConsistent'
  OBVIOUS
<1> USE DEF TableIsConsistent
<1>1. CASE UNCHANGED table
  BY <1>1 DEF OneOpenTaskPerTitle
<1>2. ASSUME NEW r \in Requests, DbInsert(r) \/ DbUpdate(r)
      PROVE  TableIsConsistent'
  <2>1. op[r].id \in TaskIds /\ new[r] \in Row
    BY <1>2 DEF DbInsert, DbUpdate, Wired
  <2>2. \/ UNCHANGED table
        \/ /\ ~TitleTaken(table, op[r].id, new[r])
           /\ table' = [table EXCEPT ![op[r].id] = new[r]]
    BY <1>2 DEF DbInsert, DbUpdate, Store
  <2> QED
    BY <1>1, <2>1, <2>2, StoringAFreeTitle DEF TypeOK
<1>3. ASSUME NEW id \in TaskIds, RemovedByOther(id)
      PROVE  TableIsConsistent'
  BY <1>3, Removing DEF RemovedByOther, TypeOK
<1> QED
  BY <1>1, <1>2, <1>3, TableChanges

\* uq_reference_tasks_open_title holds under every interleaving of creates,
\* renames, closings and reopenings, whatever the clock does.
THEOREM OneOpenTask == Spec => []TableIsConsistent
<1>1. Init => TypeOK /\ Wired /\ TableIsConsistent
  BY TypingInit, RequestAssumption DEF RequestAssumption, Init, TableIsConsistent
<1>2. TypeOK /\ Wired /\ TableIsConsistent /\ [Next]_vars
        => (TypeOK /\ Wired /\ TableIsConsistent)'
  BY TypingStep, ConsistentStep
<1> QED
  BY <1>1, <1>2, PTL DEF Spec

-----------------------------------------------------------------------------
(* No lost update.  The stamp identifies a version of a row: that is true   *)
(* only while no clock reading repeats, so FreshStamps is assumed.          *)

\* Every stamp in the system came from a reading of the clock.
StampsAreUsed ==
  /\ \A id \in TaskIds : table[id] # NoRow => table[id].updated_at \in used
  /\ \A r \in Requests :
       /\ cur[r] # NoRow => cur[r].updated_at \in used
       /\ got[r] # NoRow => got[r].updated_at \in used
       /\ new[r] # NoRow => new[r].updated_at \in used

Pending(r) == stmt[r] \in {"insert", "update"}

\* The stamp of a write on its way stands nowhere else: not in the table, not
\* in a row somebody read, not in another write on its way.
PendingIsNew ==
  \A r \in Requests : Pending(r) =>
    /\ \A id \in TaskIds :
         table[id] # NoRow => table[id].updated_at # new[r].updated_at
    /\ \A q \in Requests :
         /\ cur[q] # NoRow => cur[q].updated_at # new[r].updated_at
         /\ got[q] # NoRow => got[q].updated_at # new[r].updated_at
         /\ q # r /\ Pending(q) => new[q].updated_at # new[r].updated_at

\* A row with the stamp that was read is the row that was read.
SameOrMoved(row, read) ==
  row # NoRow /\ row.updated_at = read.updated_at => row = read

ReadIsCurrent ==
  \A r \in Requests :
    /\ stmt[r] = "update" => SameOrMoved(table[op[r].id], cur[r])
    /\ pc[r] = "reading" /\ reply[r] = "row" => SameOrMoved(table[op[r].id], got[r])

\* A write on its way is the one its request asks for, computed from the row
\* it read.
WritesAsAsked ==
  \A r \in Requests :
    /\ stmt[r] = "insert" => op[r].kind = "create"
    /\ stmt[r] = "update" =>
         /\ cur[r] \in Row
         /\ new[r] = Apply(cur[r], op[r].patch, new[r].updated_at)

\* A request that wrote has begun, so what it asked for no longer changes.
WritersBegan == \A w \in writes : pc[w.by] # "idle"

Versions ==
  StampsAreUsed /\ PendingIsNew /\ ReadIsCurrent /\ WritesAsAsked /\ WritersBegan

\* Only the stamps of the first rows are used and no update was made.
LEMMA VersionsInit == Init => Versions /\ NoLostUpdate
<1> SUFFICES ASSUME Init PROVE Versions /\ NoLostUpdate
  OBVIOUS
<1>1. StampsAreUsed
  BY DEF Init, StampsOf, StampsAreUsed
<1>2. PendingIsNew /\ ReadIsCurrent /\ WritesAsAsked
  BY DEF Init, PendingIsNew, Pending, ReadIsCurrent, WritesAsAsked
<1>3. WritersBegan /\ NoLostUpdate
  BY DEF Init, WritersBegan, NoLostUpdate
<1> QED
  BY <1>1, <1>2, <1>3 DEF Versions

\* The history of writes keeps its meaning as long as the requests that wrote
\* keep theirs.
LEMMA HistoryStands ==
  ASSUME TypeOK, Versions, NoLostUpdate, UNCHANGED writes,
         \A q \in Requests : pc[q] # "idle" => pc'[q] # "idle" /\ op'[q] = op[q]
  PROVE  WritersBegan' /\ NoLostUpdate'
<1>1. \A w \in writes : w.by \in Requests /\ pc[w.by] # "idle"
  BY DEF TypeOK, Write, Versions, WritersBegan
<1> QED
  BY <1>1 DEF WritersBegan, NoLostUpdate

\* A step of one request that computes and sends no row: every refusal, every
\* answer, every SELECT sent, and a request cut short.
LEMMA QuietStep ==
  ASSUME TypeOK, Wired, Versions, NoLostUpdate, NEW r \in Requests,
         UNCHANGED <<table, cur, new, used, writes>>,
         \A q \in Requests \ {r} :
           /\ op'[q] = op[q] /\ pc'[q] = pc[q] /\ stmt'[q] = stmt[q]
           /\ reply'[q] = reply[q] /\ got'[q] = got[q],
         op'[r] = op[r] \/ pc[r] = "idle",
         pc'[r] # "idle", reply'[r] = "none", got'[r] = NoRow,
         stmt'[r] = stmt[r] \/ stmt'[r] = "select"
  PROVE  Versions' /\ NoLostUpdate'
<1>1. pc[r] = "idle" => stmt[r] = "none"
  BY DEF Wired
<1>2. StampsAreUsed'
  BY DEF Versions, StampsAreUsed
<1>3. PendingIsNew'
  BY DEF Versions, PendingIsNew, Pending
<1>4. ReadIsCurrent'
  BY <1>1 DEF Versions, ReadIsCurrent
<1>5. WritesAsAsked'
  BY <1>1 DEF Versions, WritesAsAsked
<1>6. WritersBegan' /\ NoLostUpdate'
  BY HistoryStands
<1> QED
  BY <1>2, <1>3, <1>4, <1>5, <1>6 DEF Versions

\* A row with a new stamp is sent: BeginCreate and BeginWrite.
LEMMA SendingStep ==
  ASSUME TypeOK, Wired, Versions, NoLostUpdate, NEW r \in Requests, NEW now \in Stamps,
         NEW row \in Row, row.updated_at = now, now \notin used,
         used' = used \cup {now},
         new' = [new EXCEPT ![r] = row],
         cur'[r] = cur[r] \/ cur'[r] = got[r],
         UNCHANGED <<table, writes>>,
         \A q \in Requests \ {r} :
           /\ op'[q] = op[q] /\ pc'[q] = pc[q] /\ stmt'[q] = stmt[q]
           /\ reply'[q] = reply[q] /\ got'[q] = got[q] /\ cur'[q] = cur[q],
         op'[r] = op[r] \/ pc[r] = "idle",
         pc'[r] # "idle", reply'[r] = "none", got'[r] = NoRow,
         stmt[r] = "none", Pending(r)',
         stmt'[r] = "insert" => op'[r].kind = "create",
         stmt'[r] = "update" =>
           /\ cur'[r] \in Row
           /\ row = Apply(cur'[r], op'[r].patch, now)
           /\ SameOrMoved(table[op'[r].id], cur'[r])
  PROVE  Versions' /\ NoLostUpdate'
<1>1. new'[r] = row /\ \A q \in Requests \ {r} : new'[q] = new[q]
  BY DEF TypeOK
<1>2. StampsAreUsed'
  BY <1>1 DEF Versions, StampsAreUsed
<1>3. PendingIsNew'
  <2>1. ASSUME NEW q \in Requests \ {r}, Pending(q)'
        PROVE  /\ \A id \in TaskIds :
                    table'[id] # NoRow => table'[id].updated_at # new'[q].updated_at
               /\ \A p \in Requests :
                    /\ cur'[p] # NoRow => cur'[p].updated_at # new'[q].updated_at
                    /\ got'[p] # NoRow => got'[p].updated_at # new'[q].updated_at
                    /\ p # q /\ Pending(p)' => new'[p].updated_at # new'[q].updated_at
    <3>1. Pending(q) /\ new[q] \in Row
      BY <2>1 DEF Pending, Wired
    <3>2. new[q].updated_at \in used
      BY <3>1, RowIsNotNoRow DEF Versions, StampsAreUsed
    <3> QED
      BY <1>1, <3>1, <3>2 DEF Versions, PendingIsNew, Pending
  <2>2. /\ \A id \in TaskIds :
             table'[id] # NoRow => table'[id].updated_at # now
        /\ \A p \in Requests :
             /\ cur'[p] # NoRow => cur'[p].updated_at # now
             /\ got'[p] # NoRow => got'[p].updated_at # now
             /\ p # r /\ Pending(p)' => new'[p].updated_at # now
    <3>1. \A p \in Requests \ {r} : Pending(p)' => new[p] \in Row
      BY DEF Pending, Wired
    <3> QED
      BY <1>1, <3>1, RowIsNotNoRow DEF Versions, StampsAreUsed
  <2> QED
    BY <1>1, <2>1, <2>2 DEF PendingIsNew
<1>4. ReadIsCurrent'
  BY DEF Versions, ReadIsCurrent
<1>5. WritesAsAsked'
  BY <1>1 DEF Versions, WritesAsAsked
<1>6. WritersBegan' /\ NoLostUpdate'
  BY HistoryStands
<1> QED
  BY <1>2, <1>3, <1>4, <1>5, <1>6 DEF Versions

\* get reads the row and remembers its stamp.
LEMMA SelectStep ==
  ASSUME TypeOK, Wired, Versions, NoLostUpdate, NEW r \in Requests, DbSelect(r)
  PROVE  Versions' /\ NoLostUpdate'
<1>1. op[r].id \in TaskIds /\ UNCHANGED <<table, pc, op, cur, new, used, writes>>
  BY DEF DbSelect, Wired
<1>2. \A q \in Requests :
        stmt'[q] # "none" => q # r /\ stmt'[q] = stmt[q]
  BY DEF DbSelect, Reply, TypeOK
<1>3. /\ \A q \in Requests \ {r} : reply'[q] = reply[q] /\ got'[q] = got[q]
      /\ \/ reply'[r] = reply[r] /\ got'[r] = got[r]
         \/ got'[r] = table[op[r].id]
  BY DEF DbSelect, Reply, TypeOK
<1>4. StampsAreUsed'
  BY <1>1, <1>3 DEF Versions, StampsAreUsed
<1>5. PendingIsNew'
  BY <1>1, <1>2, <1>3 DEF Versions, PendingIsNew, Pending
<1>6. ReadIsCurrent'
  <2>1. ASSUME NEW q \in Requests, stmt'[q] = "update"
        PROVE  SameOrMoved(table[op[q].id], cur[q])
    BY <1>2, <2>1 DEF Versions, ReadIsCurrent
  <2>2. ASSUME NEW q \in Requests, pc[q] = "reading", reply'[q] = "row"
        PROVE  SameOrMoved(table[op[q].id], got'[q])
    <3>1. CASE q = r
      BY <1>3, <2>2, <3>1 DEF Versions, ReadIsCurrent, SameOrMoved
    <3>2. CASE q # r
      BY <1>3, <2>2, <3>2 DEF Versions, ReadIsCurrent
    <3> QED
      BY <3>1, <3>2
  <2> QED
    BY <1>1, <2>1, <2>2 DEF ReadIsCurrent
<1>7. WritesAsAsked'
  BY <1>1, <1>2 DEF Versions, WritesAsAsked
<1>8. WritersBegan' /\ NoLostUpdate'
  BY <1>1, HistoryStands
<1> QED
  BY <1>4, <1>5, <1>6, <1>7, <1>8 DEF Versions

\* The server executes an INSERT or an UPDATE.  For the UPDATE, the WHERE clause
\* and ReadIsCurrent make the row it replaces the row its request read.
LEMMA WriteStep ==
  ASSUME TypeOK, Wired, Versions, NoLostUpdate, NEW r \in Requests,
         DbInsert(r) \/ DbUpdate(r)
  PROVE  Versions' /\ NoLostUpdate'
<1>1. /\ op[r].id \in TaskIds /\ new[r] \in Row /\ Pending(r) /\ pc[r] # "idle"
      /\ UNCHANGED <<pc, op, cur, new, used>>
  BY DEF DbInsert, DbUpdate, Wired, Pending
<1>2. stmt' = [stmt EXCEPT ![r] = "none"]
  BY DEF DbInsert, DbUpdate, Reply
<1>3. /\ \A q \in Requests \ {r} : reply'[q] = reply[q] /\ got'[q] = got[q]
      /\ \/ reply'[r] = reply[r] /\ got'[r] = got[r]
         \/ reply'[r] # "row" /\ got'[r] \in {NoRow, new[r]}
  BY DEF DbInsert, DbUpdate, Reply, TypeOK
<1>4. \/ UNCHANGED <<table, writes>>
      \/ Store(r, op[r].id) /\ (stmt[r] = "insert" \/ (stmt[r] = "update" /\ Matches(r)))
  BY DEF DbInsert, DbUpdate
<1>5. \A id \in TaskIds :
        table'[id] = table[id] \/ (id = op[r].id /\ table'[id] = new[r])
  BY <1>1, <1>4 DEF Store, TypeOK
<1>6. new[r] # NoRow /\ new[r].updated_at \in used
  BY <1>1, RowIsNotNoRow DEF Versions, StampsAreUsed
<1>7. StampsAreUsed'
  BY <1>1, <1>3, <1>5, <1>6 DEF Versions, StampsAreUsed
<1>8. PendingIsNew'
  <2>1. \A q \in Requests : Pending(q)' => q # r /\ Pending(q)
    BY <1>2 DEF Pending, TypeOK
  <2> QED
    BY <1>1, <1>3, <1>5, <2>1 DEF Versions, PendingIsNew, Pending
<1>9. ReadIsCurrent'
  <2>1. ASSUME NEW q \in Requests, stmt'[q] = "update"
        PROVE  SameOrMoved(table'[op[q].id], cur[q])
    <3>1. q # r /\ stmt[q] = "update" /\ op[q].id \in TaskIds
      BY <1>2, <2>1 DEF TypeOK, Wired
    <3>2. cur[q] # NoRow /\ SameOrMoved(table[op[q].id], cur[q])
      BY <3>1, RowIsNotNoRow DEF Versions, WritesAsAsked, ReadIsCurrent
    <3>3. cur[q].updated_at # new[r].updated_at
      BY <1>1, <3>2 DEF Versions, PendingIsNew
    <3> QED
      BY <1>5, <3>1, <3>2, <3>3 DEF SameOrMoved
  <2>2. ASSUME NEW q \in Requests, pc[q] = "reading", reply'[q] = "row"
        PROVE  SameOrMoved(table'[op[q].id], got'[q])
    <3>1. reply[q] = "row" /\ got'[q] = got[q] /\ op[q].id \in TaskIds
      BY <1>3, <2>2 DEF Wired
    <3>2. got[q] # NoRow /\ SameOrMoved(table[op[q].id], got[q])
      BY <2>2, <3>1, RowIsNotNoRow DEF Versions, ReadIsCurrent, Wired
    <3>3. got[q].updated_at # new[r].updated_at
      BY <1>1, <3>2 DEF Versions, PendingIsNew
    <3> QED
      BY <1>5, <3>1, <3>2, <3>3 DEF SameOrMoved
  <2> QED
    BY <1>1, <2>1, <2>2 DEF ReadIsCurrent
<1>10. WritesAsAsked'
  BY <1>1, <1>2 DEF Versions, WritesAsAsked, TypeOK
<1>11. WritersBegan' /\ NoLostUpdate'
  <2>1. CASE UNCHANGED writes
    BY <1>1, <2>1, HistoryStands
  <2>2. CASE Store(r, op[r].id) /\ (stmt[r] = "insert" \/ (stmt[r] = "update" /\ Matches(r)))
    <3> DEFINE w == [by |-> r, id |-> op[r].id, old |-> table[op[r].id], new |-> new[r]]
    <3>1. writes' = writes \cup {w}
      BY <2>2 DEF Store
    <3>2. op[r].kind = "update" =>
            /\ w.old # NoRow
            /\ w.new = Apply(w.old, op[r].patch, w.new.updated_at)
      <4> SUFFICES ASSUME op[r].kind = "update"
                   PROVE  /\ w.old # NoRow
                          /\ w.new = Apply(w.old, op[r].patch, w.new.updated_at)
        OBVIOUS
      <4>1. stmt[r] = "update" /\ Matches(r)
        BY <2>2 DEF Versions, WritesAsAsked
      <4>2. w.old = cur[r] /\ w.old # NoRow
        BY <4>1 DEF Matches, Versions, ReadIsCurrent, SameOrMoved
      <4> QED
        BY <4>1, <4>2 DEF Versions, WritesAsAsked
    <3>3. \A v \in writes : v.by \in Requests
      BY DEF TypeOK, Write
    <3> QED
      BY <1>1, <3>1, <3>2, <3>3 DEF Versions, WritersBegan, NoLostUpdate
  <2> QED
    BY <1>4, <2>1, <2>2
<1> QED
  BY <1>7, <1>8, <1>9, <1>10, <1>11 DEF Versions

\* A row removed by others invalidates no stamp.
LEMMA RemovalStep ==
  ASSUME TypeOK, Wired, Versions, NoLostUpdate, NEW id \in TaskIds, RemovedByOther(id)
  PROVE  Versions' /\ NoLostUpdate'
<1>1. /\ UNCHANGED <<pc, op, cur, new, stmt, reply, got, used, writes>>
      /\ \A i \in TaskIds : table'[i] = table[i] \/ table'[i] = NoRow
  BY DEF RemovedByOther, TypeOK
<1>2. StampsAreUsed'
  BY <1>1 DEF Versions, StampsAreUsed
<1>3. PendingIsNew'
  BY <1>1 DEF Versions, PendingIsNew, Pending
<1>4. ReadIsCurrent'
  <2>1. ASSUME NEW r \in Requests, stmt[r] = "update"
        PROVE  SameOrMoved(table'[op[r].id], cur[r])
    BY <1>1, <2>1 DEF Wired, Versions, ReadIsCurrent, SameOrMoved
  <2>2. ASSUME NEW r \in Requests, pc[r] = "reading", reply[r] = "row"
        PROVE  SameOrMoved(table'[op[r].id], got[r])
    BY <1>1, <2>2 DEF Wired, Versions, ReadIsCurrent, SameOrMoved
  <2> QED
    BY <1>1, <2>1, <2>2 DEF ReadIsCurrent
<1>5. WritesAsAsked'
  BY <1>1 DEF Versions, WritesAsAsked
<1>6. WritersBegan' /\ NoLostUpdate'
  BY <1>1, HistoryStands
<1> QED
  BY <1>2, <1>3, <1>4, <1>5, <1>6 DEF Versions

\* With stamps that never repeat every statement keeps the version invariant.
LEMMA VersionsStep ==
  ASSUME FreshStamps, TypeOK, Wired, Versions, NoLostUpdate, [Next]_vars
  PROVE  Versions' /\ NoLostUpdate'
<1>1. ASSUME NEW r \in Requests, Receive(r)
      PROVE  Versions' /\ NoLostUpdate'
  <2>1. pc[r] = "idle" /\ stmt[r] = "none"
    BY <1>1 DEF Receive, RefuseCreate, BeginCreate, RefuseUnread, BeginRead, Wired
  <2>2. ASSUME NEW title \in Titles \cup BadTitles, NEW details \in Details \cup BadDetails,
               RefuseCreate(r, title, details)
        PROVE  Versions' /\ NoLostUpdate'
    BY <2>1, <2>2, QuietStep DEF RefuseCreate, Finish, TypeOK
  <2>3. ASSUME NEW title \in Titles \cup BadTitles, NEW details \in Details \cup BadDetails,
               NEW id \in TaskIds, NEW now \in Stamps,
               BeginCreate(r, title, details, id, now)
        PROVE  Versions' /\ NoLostUpdate'
    <3>1. /\ NewRow(title, details, now) \in Row
          /\ NewRow(title, details, now).updated_at = now
          /\ now \notin used
      BY <2>3, NewRowIsRow DEF BeginCreate, MayRead, NewRow
    <3>2. op'[r].kind = "create" /\ stmt'[r] = "insert" /\ pc'[r] = "inserting"
      BY <2>3 DEF BeginCreate, Send, TypeOK, Op
    <3>3. \A q \in Requests \ {r} : op'[q] = op[q]
      BY <2>3 DEF BeginCreate, TypeOK
    <3> QED
      BY <2>1, <2>3, <3>1, <3>2, <3>3, SendingStep
         DEF BeginCreate, Send, TypeOK, Pending
  <2>4. ASSUME NEW kind \in {"get", "update"}, NEW id \in TaskIds \cup {Malformed},
               NEW p \in Patches \cup {NoPatch},
               RefuseUnread(r, kind, id, p)
        PROVE  Versions' /\ NoLostUpdate'
    <3>1. PICK how \in Answers : Finish(r, how)
      BY <2>4 DEF RefuseUnread, Answers
    <3> QED
      BY <2>1, <2>4, <3>1, QuietStep DEF RefuseUnread, Finish, TypeOK
  <2>5. ASSUME NEW kind \in {"get", "update"}, NEW id \in TaskIds \cup {Malformed},
               NEW p \in Patches \cup {NoPatch},
               BeginRead(r, kind, id, p)
        PROVE  Versions' /\ NoLostUpdate'
    BY <2>1, <2>5, QuietStep DEF BeginRead, Send, TypeOK
  <2> QED
    BY <1>1, <2>2, <2>3, <2>4, <2>5 DEF Receive
<1>2. ASSUME NEW r \in Requests, NEW how \in Answers, Finish(r, how),
             UNCHANGED <<table, op, cur, new, issued, used, writes>>
      PROVE  Versions' /\ NoLostUpdate'
  BY <1>2, QuietStep DEF Finish, TypeOK
<1>3. ASSUME NEW r \in Requests, Continue(r)
      PROVE  Versions' /\ NoLostUpdate'
  <2>1. CASE CreateAnswered(r) \/ EndAfterRead(r) \/ EndAfterWrite(r) \/ EndAfterReread(r)
    BY <1>2, <2>1
       DEF CreateAnswered, EndAfterRead, EndAfterWrite, EndAfterReread, Answers
  <2>2. CASE BeginReread(r)
    BY <2>2, QuietStep DEF BeginReread, Send, TypeOK
  <2>3. ASSUME NEW now \in Stamps, BeginWrite(r, now)
        PROVE  Versions' /\ NoLostUpdate'
    <3>1. /\ got[r] \in Row /\ op[r].patch \in Patch /\ Valid(op[r].patch)
          /\ stmt[r] = "none" /\ pc[r] = "reading" /\ reply[r] = "row"
      BY <2>3 DEF BeginWrite, Answered, Wired, TypeOK, Op
    <3>2. /\ Apply(got[r], op[r].patch, now) \in Row
          /\ Apply(got[r], op[r].patch, now).updated_at = now
          /\ now \notin used
      BY <2>3, <3>1, ApplyIsRow DEF BeginWrite, MayRead, Apply
    <3>3. SameOrMoved(table[op[r].id], got[r])
      BY <3>1 DEF Versions, ReadIsCurrent
    <3> QED
      BY <2>3, <3>1, <3>2, <3>3, SendingStep DEF BeginWrite, Send, TypeOK, Pending
  <2> QED
    BY <1>3, <2>1, <2>2, <2>3 DEF Continue
<1>4. ASSUME NEW r \in Requests, Server(r)
      PROVE  Versions' /\ NoLostUpdate'
  BY <1>4, SelectStep, WriteStep DEF Server
<1>5. ASSUME NEW r \in Requests, NEW how \in {"error_500", "dropped"}, Interrupted(r, how)
      PROVE  Versions' /\ NoLostUpdate'
  BY <1>2, <1>5 DEF Interrupted, Answers
<1>6. ASSUME UNCHANGED vars
      PROVE  Versions' /\ NoLostUpdate'
  BY <1>6 DEF vars, Versions, StampsAreUsed, PendingIsNew, Pending, ReadIsCurrent,
              WritesAsAsked, WritersBegan, NoLostUpdate
<1> QED
  BY <1>1, <1>3, <1>4, <1>5, <1>6, RemovalStep DEF Next

\* No lost update: with a clock that never repeats a stamp, every UPDATE that
\* was performed changed only the fields its client named, in the row it
\* replaced (update_task and _UPDATE_BY_ID together).
THEOREM NoUpdateIsLost ==
  ASSUME FreshStamps
  PROVE  Spec => []NoLostUpdate
<1>1. Init => TypeOK /\ Wired /\ Versions /\ NoLostUpdate
  BY TypingInit, VersionsInit
<1>2. TypeOK /\ Wired /\ Versions /\ NoLostUpdate /\ [Next]_vars
        => (TypeOK /\ Wired /\ Versions /\ NoLostUpdate)'
  BY TypingStep, VersionsStep
<1> QED
  BY <1>1, <1>2, PTL DEF Spec
-----------------------------------------------------------------------------
(* The service over separate statements implements the indivisible table   *)
(* of AtomicTasks, for any number of requests and any patches, as long as  *)
(* the clock never repeats a stamp.                                        *)

\* An INSERT on its way is a fresh task at an id nobody else has or will get:
\* uuid4 returned it once, and no row stands under it yet.
Claimed ==
  /\ \A id \in TaskIds : table[id] # NoRow => id \in issued
  /\ \A r \in Requests : stmt[r] = "insert" =>
       /\ op[r].id \in issued
       /\ table[op[r].id] = NoRow
       /\ new[r].status = DEFAULT_STATUS
       /\ new[r].created_at = new[r].updated_at
       /\ \A q \in Requests \ {r} : stmt[q] = "insert" => op[q].id # op[r].id

\* The patch of an update under way is one a client sent, names a field, and has
\* been checked before it is written.
PatchIsAsked(r) == op[r].patch \in Patches /\ ~NamesNothing(op[r].patch)

Checked ==
  \A r \in Requests :
    /\ pc[r] = "reading" /\ op[r].kind = "update" => PatchIsAsked(r)
    /\ stmt[r] = "update" => PatchIsAsked(r) /\ Valid(op[r].patch)

\* The first rows have ids of their own and nothing is on its way.
LEMMA ClaimedInit == Init => Claimed /\ Checked
BY DEF Init, Claimed, Checked

-----------------------------------------------------------------------------
\* A step of one request that sends no write and issues no id.
LEMMA QuietClaims ==
  ASSUME TypeOK, Wired, Claimed, Checked, NEW r \in Requests,
         UNCHANGED <<table, new, issued>>,
         \A q \in Requests \ {r} :
           op'[q] = op[q] /\ pc'[q] = pc[q] /\ stmt'[q] = stmt[q],
         op'[r] = op[r] \/ pc[r] = "idle",
         stmt'[r] = stmt[r] \/ stmt'[r] = "select",
         pc'[r] = "reading" /\ op'[r].kind = "update" => PatchIsAsked(r)'
  PROVE  Claimed' /\ Checked'
<1>1. pc[r] = "idle" => stmt[r] = "none"
  BY DEF Wired
<1>2. \A q \in Requests :
        /\ stmt'[q] = "insert" => stmt[q] = "insert" /\ op'[q] = op[q]
        /\ stmt'[q] = "update" => stmt[q] = "update" /\ op'[q] = op[q]
  BY <1>1
<1>3. Claimed'
  BY <1>2 DEF Claimed
<1>4. Checked'
  BY <1>2 DEF Checked, PatchIsAsked
<1> QED
  BY <1>3, <1>4

\* An id that uuid4 returns is free, so the INSERT sent with it is alone there.
LEMMA CreateClaims ==
  ASSUME TypeOK, Wired, Claimed, Checked, NEW r \in Requests,
         NEW title \in Titles, NEW details \in Details,
         NEW id \in TaskIds, NEW now \in Stamps, BeginCreate(r, title, details, id, now)
  PROVE  Claimed' /\ Checked'
<1>1. /\ id \notin issued /\ issued' = issued \cup {id}
      /\ table' = table /\ table[id] = NoRow
  BY DEF BeginCreate, Claimed
<1>2. /\ stmt'[r] = "insert" /\ pc'[r] = "inserting" /\ op'[r].id = id
      /\ new'[r] = NewRow(title, details, now)
  BY DEF BeginCreate, Send, TypeOK, Op
<1>3. \A q \in Requests \ {r} :
        op'[q] = op[q] /\ pc'[q] = pc[q] /\ stmt'[q] = stmt[q] /\ new'[q] = new[q]
  BY DEF BeginCreate, Send, TypeOK
<1>4. new'[r].status = DEFAULT_STATUS /\ new'[r].created_at = new'[r].updated_at
  BY <1>2 DEF NewRow
<1>5. \A q \in Requests \ {r} : stmt[q] = "insert" => op[q].id # id
  BY <1>1 DEF Claimed
<1>6. Claimed'
  BY <1>1, <1>2, <1>3, <1>4, <1>5 DEF Claimed
<1>7. Checked'
  BY <1>2, <1>3 DEF Checked, PatchIsAsked
<1> QED
  BY <1>6, <1>7

\* An UPDATE is sent for a patch that was asked for and passed its checks.
LEMMA WriteClaims ==
  ASSUME TypeOK, Wired, Claimed, Checked, NEW r \in Requests,
         NEW now \in Stamps, BeginWrite(r, now)
  PROVE  Claimed' /\ Checked'
<1>1. /\ stmt'[r] = "update" /\ pc'[r] = "writing" /\ UNCHANGED <<table, op, issued>>
      /\ Valid(op[r].patch) /\ PatchIsAsked(r)
  BY DEF BeginWrite, Answered, Send, TypeOK, Checked
<1>2. \A q \in Requests \ {r} :
        pc'[q] = pc[q] /\ stmt'[q] = stmt[q] /\ new'[q] = new[q]
  BY DEF BeginWrite, Send, TypeOK
<1>3. Claimed'
  BY <1>1, <1>2 DEF Claimed
<1>4. Checked'
  BY <1>1, <1>2 DEF Checked, PatchIsAsked
<1> QED
  BY <1>3, <1>4

\* The server stores a row at the id its request claimed, or at one that has a
\* row already, so it takes no id another INSERT waits for.
LEMMA ServerClaims ==
  ASSUME TypeOK, Wired, Claimed, Checked, NEW r \in Requests, Server(r)
  PROVE  Claimed' /\ Checked'
<1>1. /\ UNCHANGED <<pc, op, new, issued>>
      /\ stmt' = [stmt EXCEPT ![r] = "none"]
      /\ op[r].id \in TaskIds
  BY DEF Server, DbSelect, DbInsert, DbUpdate, Reply, Wired
<1>2. \/ UNCHANGED table
      \/ /\ table' = [table EXCEPT ![op[r].id] = new[r]]
         /\ stmt[r] = "insert" \/ table[op[r].id] # NoRow
  BY DEF Server, DbSelect, DbInsert, DbUpdate, Store, Matches
<1>3. \A q \in Requests : stmt'[q] # "none" => q # r /\ stmt'[q] = stmt[q]
  BY <1>1 DEF TypeOK
<1>4. op[r].id \in issued \/ UNCHANGED table
  BY <1>1, <1>2 DEF Claimed
<1>5. \A q \in Requests : stmt'[q] = "insert" => table'[op[q].id] = table[op[q].id]
  <2> SUFFICES ASSUME NEW q \in Requests, stmt'[q] = "insert"
               PROVE  table'[op[q].id] = table[op[q].id]
    OBVIOUS
  <2>1. q # r /\ stmt[q] = "insert" /\ op[q].id \in TaskIds
    BY <1>3 DEF Wired
  <2>2. op[q].id # op[r].id \/ UNCHANGED table
    BY <1>1, <1>2, <2>1 DEF Claimed
  <2> QED
    BY <1>1, <1>2, <2>1, <2>2 DEF TypeOK
<1>6. Claimed'
  BY <1>1, <1>2, <1>3, <1>4, <1>5 DEF Claimed, TypeOK
<1>7. Checked'
  BY <1>1, <1>3 DEF Checked, PatchIsAsked
<1> QED
  BY <1>6, <1>7

\* Every step of every request, of the server and of others keeps both.
LEMMA ClaimsStep ==
  ASSUME TypeOK, Wired, Claimed, Checked, [Next]_vars
  PROVE  Claimed' /\ Checked'
<1>1. ASSUME NEW r \in Requests, Receive(r)
      PROVE  Claimed' /\ Checked'
  <2>1. ASSUME NEW title \in Titles \cup BadTitles, NEW details \in Details \cup BadDetails,
               RefuseCreate(r, title, details)
        PROVE  Claimed' /\ Checked'
    BY <2>1, QuietClaims DEF RefuseCreate, Finish, TypeOK
  <2>2. ASSUME NEW title \in Titles \cup BadTitles, NEW details \in Details \cup BadDetails,
               NEW id \in TaskIds, NEW now \in Stamps,
               BeginCreate(r, title, details, id, now)
        PROVE  Claimed' /\ Checked'
    BY <2>2, CreateClaims DEF BeginCreate
  <2>3. ASSUME NEW kind \in {"get", "update"}, NEW id \in TaskIds \cup {Malformed},
               NEW p \in Patches \cup {NoPatch},
               RefuseUnread(r, kind, id, p)
        PROVE  Claimed' /\ Checked'
    <3>1. PICK how \in Answers : Finish(r, how)
      BY <2>3 DEF RefuseUnread, Answers
    <3> QED
      BY <2>3, <3>1, QuietClaims DEF RefuseUnread, Finish, TypeOK
  <2>4. ASSUME NEW kind \in {"get", "update"}, NEW id \in TaskIds \cup {Malformed},
               NEW p \in Patches \cup {NoPatch},
               BeginRead(r, kind, id, p)
        PROVE  Claimed' /\ Checked'
    <3>1. op'[r] = [kind |-> kind, id |-> id, patch |-> p]
      BY <2>4 DEF BeginRead, TypeOK
    <3>2. NamesNothing(NoPatch)
      BY DEF NamesNothing, NoPatch
    <3>3. kind = "update" => p \in Patches /\ ~NamesNothing(p)
      BY <2>4, <3>2 DEF BeginRead
    <3>4. op'[r].kind = "update" => PatchIsAsked(r)'
      BY <3>1, <3>3 DEF PatchIsAsked
    <3> QED
      BY <2>4, <3>4, QuietClaims DEF BeginRead, Send, TypeOK
  <2> QED
    BY <1>1, <2>1, <2>2, <2>3, <2>4 DEF Receive
<1>2. ASSUME NEW r \in Requests, NEW how \in Answers, Finish(r, how),
             UNCHANGED <<table, op, cur, new, issued, used, writes>>
      PROVE  Claimed' /\ Checked'
  BY <1>2, QuietClaims DEF Finish, TypeOK
<1>3. ASSUME NEW r \in Requests, Continue(r)
      PROVE  Claimed' /\ Checked'
  <2>1. CASE CreateAnswered(r) \/ EndAfterRead(r) \/ EndAfterWrite(r) \/ EndAfterReread(r)
    BY <1>2, <2>1
       DEF CreateAnswered, EndAfterRead, EndAfterWrite, EndAfterReread, Answers
  <2>2. CASE BeginReread(r)
    BY <2>2, QuietClaims DEF BeginReread, Send, TypeOK
  <2>3. ASSUME NEW now \in Stamps, BeginWrite(r, now)
        PROVE  Claimed' /\ Checked'
    BY <2>3, WriteClaims
  <2> QED
    BY <1>3, <2>1, <2>2, <2>3 DEF Continue
<1>4. ASSUME NEW r \in Requests, NEW how \in {"error_500", "dropped"}, Interrupted(r, how)
      PROVE  Claimed' /\ Checked'
  BY <1>2, <1>4 DEF Interrupted, Answers
<1>5. ASSUME NEW id \in TaskIds, RemovedByOther(id)
      PROVE  Claimed' /\ Checked'
  <2>1. /\ UNCHANGED <<pc, op, new, stmt, issued>>
        /\ \A i \in TaskIds : table'[i] = table[i] \/ table'[i] = NoRow
    BY <1>5 DEF RemovedByOther, TypeOK
  <2> QED
    BY <2>1 DEF Claimed, Checked, PatchIsAsked, Wired
<1>6. CASE UNCHANGED vars
  BY <1>6 DEF vars, Claimed, Checked, PatchIsAsked
<1> QED
  BY <1>1, <1>3, <1>4, <1>5, <1>6, ServerClaims DEF Next

-----------------------------------------------------------------------------
\* The abstract table is built from the same data.
LEMMA SameData ==
  /\ Atomic!Row = Row
  /\ Atomic!DEFAULT_STATUS = DEFAULT_STATUS
  /\ \A p : Atomic!Valid(p) <=> Valid(p)
  /\ \A p : Atomic!NamesNothing(p) <=> NamesNothing(p)
  /\ \A row, p, now : Atomic!Apply(row, p, now) = Apply(row, p, now)
  /\ \A tbl, id, row : Atomic!TitleTaken(tbl, id, row) <=> TitleTaken(tbl, id, row)
BY DEF Atomic!Row, Row, Atomic!ALLOWED_STATUSES, ALLOWED_STATUSES,
       Atomic!DEFAULT_STATUS, DEFAULT_STATUS, Atomic!Valid, Valid,
       Atomic!NamesNothing, NamesNothing, Atomic!Apply, Apply, Atomic!Patched, Patched,
       Atomic!TitleTaken, TitleTaken, Atomic!IsOpen, IsOpen,
       Atomic!CLOSED_STATUS, CLOSED_STATUS

\* An INSERT that is performed is a Create of the abstract table.
LEMMA InsertIsCreate ==
  ASSUME TypeOK, Wired, Claimed, NEW r \in Requests, DbInsert(r)
  PROVE  Atomic!Next \/ UNCHANGED table
<1>1. op[r].id \in TaskIds /\ new[r] \in Row
  BY DEF DbInsert, Wired
<1>2. CASE TitleTaken(table, op[r].id, new[r])
  BY <1>2 DEF DbInsert
<1>3. CASE ~TitleTaken(table, op[r].id, new[r])
  <2>1. table' = [table EXCEPT ![op[r].id] = new[r]]
    BY <1>3 DEF DbInsert, Store
  <2>2. /\ table[op[r].id] = NoRow /\ new[r].status = DEFAULT_STATUS
        /\ new[r].created_at = new[r].updated_at
    BY DEF DbInsert, Claimed
  <2>3. Atomic!Create(op[r].id, new[r])
    BY <1>3, <2>1, <2>2, SameData DEF Atomic!Create
  <2> QED
    BY <1>1, <2>3, SameData DEF Atomic!Next
<1> QED
  BY <1>2, <1>3

\* An UPDATE that is performed replaces the row its request read, so it is the
\* patch applied to the row that stands there now.
LEMMA UpdateIsPatch ==
  ASSUME TypeOK, Wired, Versions, Checked, NEW r \in Requests, DbUpdate(r)
  PROVE  Atomic!Next \/ UNCHANGED table
<1> DEFINE id == op[r].id
           now == new[r].updated_at
<1>1. id \in TaskIds /\ new[r] \in Row /\ stmt[r] = "update"
  BY DEF DbUpdate, Wired
<1>2. now \in Stamps
  BY <1>1 DEF Row
<1>3. op[r].patch \in Patches /\ ~NamesNothing(op[r].patch) /\ Valid(op[r].patch)
  BY <1>1 DEF Checked, PatchIsAsked
<1>4. CASE Matches(r) /\ ~TitleTaken(table, id, new[r])
  <2>1. table' = [table EXCEPT ![id] = new[r]]
    BY <1>4 DEF DbUpdate, Store
  <2>2. table[id] = cur[r] /\ table[id] # NoRow
    BY <1>1, <1>4 DEF Matches, Versions, ReadIsCurrent, SameOrMoved
  <2>3. new[r] = Apply(table[id], op[r].patch, now)
    BY <1>1, <2>2 DEF Versions, WritesAsAsked
  <2>4. Atomic!PatchRow(id, op[r].patch, now)
    BY <1>3, <1>4, <2>1, <2>2, <2>3, SameData DEF Atomic!PatchRow
  <2> QED
    BY <1>1, <1>2, <1>3, <2>4 DEF Atomic!Next
<1>5. CASE ~(Matches(r) /\ ~TitleTaken(table, id, new[r]))
  BY <1>5 DEF DbUpdate
<1> QED
  BY <1>4, <1>5

\* Every step of the service is a step of the abstract table or leaves it alone.
LEMMA StepIsAtomic ==
  ASSUME TypeOK, Wired, Versions, Claimed, Checked, [Next]_vars
  PROVE  [Atomic!Next]_table
<1>1. ASSUME NEW r \in Requests,
             Receive(r) \/ Continue(r) \/ DbSelect(r)
               \/ \E how \in {"error_500", "dropped"} : Interrupted(r, how)
      PROVE  UNCHANGED table
  BY <1>1 DEF Receive, RefuseCreate, BeginCreate, RefuseUnread, BeginRead, Continue,
       CreateAnswered, EndAfterRead, BeginWrite, EndAfterWrite, BeginReread,
       EndAfterReread, DbSelect, Interrupted
<1>2. ASSUME NEW id \in TaskIds, RemovedByOther(id)
      PROVE  Atomic!Next
  <2>1. Atomic!Remove(id)
    BY <1>2 DEF RemovedByOther, Atomic!Remove
  <2> QED
    BY <2>1 DEF Atomic!Next
<1>3. CASE UNCHANGED vars
  BY <1>3 DEF vars
<1> QED
  BY <1>1, <1>2, <1>3, InsertIsCreate, UpdateIsPatch DEF Next, Server

\* The read-modify-write over separate statements, by any number of requests,
\* with lost connections and rows removed by others, implements indivisible
\* creates, patches and removals (update_task with the token of ADR-007), as
\* long as no two readings of the clock agree.
THEOREM ImplementsAtomic ==
  ASSUME FreshStamps
  PROVE  Spec => AtomicUpdates
<1>1. Init => TypeOK /\ Wired /\ Versions /\ NoLostUpdate /\ Claimed /\ Checked
  BY TypingInit, VersionsInit, ClaimedInit
<1>2. TypeOK /\ Wired /\ Versions /\ NoLostUpdate /\ Claimed /\ Checked /\ [Next]_vars
        => (TypeOK /\ Wired /\ Versions /\ NoLostUpdate /\ Claimed /\ Checked)'
  BY TypingStep, VersionsStep, ClaimsStep
<1>3. Init => Atomic!Init
  BY DEF Init, Atomic!Init
<1>4. TypeOK /\ Wired /\ Versions /\ NoLostUpdate /\ Claimed /\ Checked /\ [Next]_vars
        => [Atomic!Next]_table
  BY StepIsAtomic
<1> QED
  BY <1>1, <1>2, <1>3, <1>4, PTL DEF Spec, AtomicUpdates, Atomic!Spec

-----------------------------------------------------------------------------
(* What an answer tells the client is so, for any number of requests and   *)
(* whatever the clock returns: a refusal wrote nothing, a success was      *)
(* written once, and a conflict had a cause.                               *)

Succeeded(r) ==
  answer[r] = "created_201" \/ (answer[r] = "ok_200" /\ op[r].kind = "update")

\* What a request has written, by where it is: nothing before its one write is
\* performed, and that write from then on.
Ledger(r) ==
  /\ \A v, w \in WritesOf(r) : v = w
  /\ \A w \in WritesOf(r) : w.id = op[r].id /\ w.new = new[r]
  /\ \/ stmt[r] # "none"
     \/ pc[r] \in {"idle", "reading", "rereading"}
     \/ reply[r] \in {"row", "no_row", "taken"}
     => WritesOf(r) = {}
  /\ pc[r] \in {"idle", "reading", "rereading"} => ~Pending(r)
  /\ stmt[r] = "select" => pc[r] \notin {"inserting", "writing"}
  /\ stmt[r] # "none" \/ pc[r] = "done" => reply[r] = "none"
  /\ reply[r] = "stored" => WritesOf(r) # {}
  /\ pc[r] = "inserting" => op[r].kind = "create"
  /\ answer[r] # "none" => pc[r] = "done"
  /\ answer[r] \in Refusals => WritesOf(r) = {} /\ ~Pending(r)
  /\ Succeeded(r) => WritesOf(r) # {}

Ledgers == \A r \in Requests : Ledger(r)

\* A row has stood under an id once the id was given out and written.
HasStood(id) == InitialTable[id] # NoRow \/ \E w \in writes : w.id = id

Stood ==
  /\ \A id \in TaskIds : table[id] # NoRow =>
       table[id] \in {InitialTable[id]} \cup {w.new : w \in {v \in writes : v.id = id}}
  /\ \A id \in TaskIds : HasStood(id) => id \in issued
  /\ \A r \in Requests : stmt[r] = "insert" => ~HasStood(op[r].id)

\* Another request replaced the row r read; or the row is gone for good.
Lost(r, row) == \E w \in writes : w.by # r /\ w.id = op[r].id /\ w.old = row
Moved(r, row) == Lost(r, row) \/ (table[op[r].id] = NoRow /\ HasStood(op[r].id))
Current(r, row) == (table[op[r].id] = row /\ row # NoRow) \/ Moved(r, row)

TitleHeld(r) ==
  /\ IsOpen(new[r])
  /\ \E other \in TaskIds \ {op[r].id} : \E row \in RowsSeen(other) :
       IsOpen(row) /\ Lower[row.title] = Lower[new[r].title]

\* A row that was read stands there, or has moved; a refusal to write it has
\* one of the two causes.
Cause(r) ==
  /\ pc[r] = "reading" /\ reply[r] = "row" => Current(r, got[r])
  /\ stmt[r] = "update" => Current(r, cur[r])
  /\ pc[r] = "writing" /\ reply[r] = "no_row" => Moved(r, cur[r])
  /\ pc[r] = "writing" /\ reply[r] = "taken" => TitleHeld(r)
  /\ pc[r] = "rereading" => Moved(r, cur[r])
  /\ pc[r] = "rereading" /\ reply[r] \notin {"none", "no_row"} => Lost(r, cur[r])
  /\ answer[r] = "conflict_409" /\ op[r].kind = "update" => Lost(r, cur[r]) \/ TitleHeld(r)

Causes == \A r \in Requests : Cause(r)

IInv == TypeOK /\ Wired /\ Claimed /\ Checked /\ Ledgers /\ Stood /\ Causes

\* The first rows have ids of their own, nobody has asked and nobody answered.
LEMMA AnswersInit == Init => Ledgers /\ Stood /\ Causes
<1> SUFFICES ASSUME Init PROVE Ledgers /\ Stood /\ Causes
  OBVIOUS
<1>1. Ledgers
  BY DEF Init, Ledgers, Ledger, WritesOf, Pending, Refusals, Succeeded
<1>2. Stood
  BY DEF Init, Stood, HasStood
<1>3. Causes
  BY DEF Init, Causes, Cause
<1> QED
  BY <1>1, <1>2, <1>3

-----------------------------------------------------------------------------
(* The steps of the service *)

\* The step leaves the request where it is.
Still(q) ==
  /\ op'[q] = op[q] /\ pc'[q] = pc[q] /\ stmt'[q] = stmt[q] /\ new'[q] = new[q]
  /\ cur'[q] = cur[q] /\ reply'[q] = reply[q] /\ got'[q] = got[q] /\ answer'[q] = answer[q]

\* A step of the service moves one request and writes nothing in the table.
LEMMA ServiceMovesOne ==
  ASSUME TypeOK, NEW r \in Requests,
         Receive(r) \/ Continue(r) \/ \E how \in {"error_500", "dropped"} : Interrupted(r, how)
  PROVE  UNCHANGED <<table, writes>> /\ \A q \in Requests \ {r} : Still(q)
<1> USE DEF TypeOK, Send, Finish, Still
<1>1. ASSUME NEW title, NEW details, RefuseCreate(r, title, details)
      PROVE  UNCHANGED <<table, writes>> /\ \A q \in Requests \ {r} : Still(q)
  BY <1>1 DEF RefuseCreate
<1>2. ASSUME NEW title, NEW details, NEW id, NEW now, BeginCreate(r, title, details, id, now)
      PROVE  UNCHANGED <<table, writes>> /\ \A q \in Requests \ {r} : Still(q)
  BY <1>2 DEF BeginCreate
<1>3. ASSUME NEW kind, NEW id, NEW p, RefuseUnread(r, kind, id, p)
      PROVE  UNCHANGED <<table, writes>> /\ \A q \in Requests \ {r} : Still(q)
  BY <1>3 DEF RefuseUnread
<1>4. ASSUME NEW kind, NEW id, NEW p, BeginRead(r, kind, id, p)
      PROVE  UNCHANGED <<table, writes>> /\ \A q \in Requests \ {r} : Still(q)
  BY <1>4 DEF BeginRead
<1>5. ASSUME Continue(r)
      PROVE  UNCHANGED <<table, writes>> /\ \A q \in Requests \ {r} : Still(q)
  BY <1>5 DEF Continue, CreateAnswered, EndAfterRead, BeginWrite, EndAfterWrite, BeginReread,
              EndAfterReread
<1>6. ASSUME NEW how, Interrupted(r, how)
      PROVE  UNCHANGED <<table, writes>> /\ \A q \in Requests \ {r} : Still(q)
  BY <1>6 DEF Interrupted
<1> QED
  BY <1>1, <1>2, <1>3, <1>4, <1>5, <1>6 DEF Receive

\* A request that begins has written nothing.
LEMMA ReceiveLedger ==
  ASSUME TypeOK, Wired, Ledgers, NEW r \in Requests, Receive(r)
  PROVE  Ledger(r)'
<1>1. /\ pc[r] = "idle" /\ stmt[r] = "none" /\ WritesOf(r) = {} /\ WritesOf(r)' = {}
      /\ answer[r] = "none"
  <2>1. pc[r] = "idle" /\ UNCHANGED writes
    BY DEF Receive, RefuseCreate, BeginCreate, RefuseUnread, BeginRead
  <2> QED
    BY <2>1 DEF Ledgers, Ledger, Wired, WritesOf
<1> USE DEF TypeOK, Ledger, Pending, Refusals, Succeeded
<1>2. ASSUME NEW title, NEW details, RefuseCreate(r, title, details)
      PROVE  Ledger(r)'
  BY <1>1, <1>2 DEF RefuseCreate, Finish
<1>3. ASSUME NEW title, NEW details, NEW id \in TaskIds, NEW now, BeginCreate(r, title, details, id, now)
      PROVE  Ledger(r)'
  <2>1. op'[r].kind = "create"
    BY <1>3 DEF BeginCreate, Op
  <2> QED
    BY <1>1, <1>3, <2>1 DEF BeginCreate, Send
<1>4. ASSUME NEW kind, NEW id, NEW p, RefuseUnread(r, kind, id, p)
      PROVE  Ledger(r)'
  BY <1>1, <1>4 DEF RefuseUnread, Finish
<1>5. ASSUME NEW kind, NEW id, NEW p, BeginRead(r, kind, id, p)
      PROVE  Ledger(r)'
  BY <1>1, <1>5 DEF BeginRead, Send
<1> QED
  BY <1>2, <1>3, <1>4, <1>5 DEF Receive

\* A reply is answered for what it is: a refusal by one that wrote nothing, a
\* success by the reply of the write.
LEMMA ContinueLedger ==
  ASSUME TypeOK, Wired, Ledgers, NEW r \in Requests,
         Continue(r) \/ \E how \in {"error_500", "dropped"} : Interrupted(r, how)
  PROVE  Ledger(r)'
<1>1. Ledger(r) /\ WritesOf(r)' = WritesOf(r)
  BY ServiceMovesOne DEF Ledgers, WritesOf
<1> USE <1>1 DEF TypeOK, Ledger, Pending, Refusals, Succeeded, Answered, Finish, Send
<1>2. CASE CreateAnswered(r)
  BY <1>2 DEF CreateAnswered, Replies
<1>3. CASE EndAfterRead(r)
  BY <1>3 DEF EndAfterRead
<1>4. ASSUME NEW now, BeginWrite(r, now)
      PROVE  Ledger(r)'
  BY <1>4 DEF BeginWrite
<1>5. CASE EndAfterWrite(r)
  BY <1>5 DEF EndAfterWrite
<1>6. CASE BeginReread(r)
  BY <1>6 DEF BeginReread
<1>7. CASE EndAfterReread(r)
  BY <1>7 DEF EndAfterReread
<1>8. ASSUME NEW how \in {"error_500", "dropped"}, Interrupted(r, how)
      PROVE  Ledger(r)'
  BY <1>8 DEF Interrupted
<1> QED
  BY <1>2, <1>3, <1>4, <1>5, <1>6, <1>7, <1>8 DEF Continue

\* An id that uuid4 returns has never had a row.
LEMMA ServiceStood ==
  ASSUME TypeOK, Wired, Ledgers, Stood, NEW r \in Requests,
         Receive(r) \/ Continue(r) \/ \E how \in {"error_500", "dropped"} : Interrupted(r, how)
  PROVE  Stood'
<1>1. /\ UNCHANGED <<table, writes>> /\ \A id \in TaskIds : HasStood(id)' <=> HasStood(id)
      /\ \A q \in Requests \ {r} : Still(q)
  BY ServiceMovesOne DEF HasStood
<1>2. issued \subseteq issued'
  BY DEF Receive, RefuseCreate, BeginCreate, RefuseUnread, BeginRead, Continue, CreateAnswered,
         EndAfterRead, BeginWrite, EndAfterWrite, BeginReread, EndAfterReread, Interrupted
<1>3. stmt'[r] = "insert" => op'[r].id \in TaskIds /\ ~HasStood(op'[r].id)
  <2>1. CASE Receive(r)
    <3>1. stmt[r] = "none"
      BY <2>1 DEF Wired, Receive, RefuseCreate, BeginCreate, RefuseUnread, BeginRead
    <3>2. ASSUME NEW title, NEW details, NEW id \in TaskIds, NEW now,
                 BeginCreate(r, title, details, id, now)
          PROVE  op'[r].id \in TaskIds /\ ~HasStood(op'[r].id)
      BY <3>2 DEF BeginCreate, TypeOK, Op, Stood
    <3> QED
      BY <2>1, <3>1, <3>2 DEF Receive, RefuseCreate, RefuseUnread, BeginRead, Send, Finish, TypeOK
  <2>2. CASE Continue(r) \/ \E how \in {"error_500", "dropped"} : Interrupted(r, how)
    <3>1. op'[r] = op[r] /\ (stmt'[r] = "insert" => stmt[r] = "insert")
      BY <2>2 DEF Continue, CreateAnswered, EndAfterRead, BeginWrite, EndAfterWrite, BeginReread,
                  EndAfterReread, Interrupted, Send, Finish, TypeOK
    <3> QED
      BY <3>1 DEF Stood, Wired
  <2> QED
    BY <2>1, <2>2
<1>4. \A q \in Requests : stmt'[q] = "insert" => op'[q].id \in TaskIds /\ ~HasStood(op'[q].id)
  BY <1>1, <1>3 DEF Still, Stood, Wired
<1> QED
  BY <1>1, <1>2, <1>4 DEF Stood

\* A row that was read becomes `current`; the answers pass the cause on.
LEMMA ServiceCauses ==
  ASSUME TypeOK, Wired, Ledgers, Stood, Causes, NEW r \in Requests,
         Receive(r) \/ Continue(r) \/ \E how \in {"error_500", "dropped"} : Interrupted(r, how)
  PROVE  Causes'
<1>1. /\ UNCHANGED <<table, writes>>
      /\ \A q \in Requests \ {r} : Still(q)
  BY ServiceMovesOne
<1>2. ASSUME NEW q \in Requests \ {r}
      PROVE  Cause(q)'
  BY <1>1 DEF Causes, Cause, Still, Current, Moved, Lost, HasStood, TitleHeld, RowsSeen
<1>3. CASE Receive(r)
  <2>1. /\ pc[r] = "idle" /\ stmt[r] = "none" /\ answer[r] = "none"
        /\ pc'[r] \in {"inserting", "reading", "done"} /\ reply'[r] = "none" /\ stmt'[r] # "update"
    BY <1>3 DEF Receive, RefuseCreate, BeginCreate, RefuseUnread, BeginRead, Wired, Ledgers, Ledger,
                Send, Finish, TypeOK
  <2>2. answer'[r] # "conflict_409"
    BY <1>3, <2>1 DEF Receive, RefuseCreate, BeginCreate, RefuseUnread, BeginRead, Send, Finish, TypeOK
  <2> QED
    BY <1>2, <2>1, <2>2 DEF Causes, Cause
<1>4. CASE Continue(r) \/ \E how \in {"error_500", "dropped"} : Interrupted(r, how)
  <2> SUFFICES Cause(r)'
    BY <1>2 DEF Causes
  <2>1. Cause(r) /\ Ledger(r) /\ op'[r] = op[r]
    BY <1>4 DEF Causes, Ledgers, Continue, CreateAnswered, EndAfterRead, BeginWrite, EndAfterWrite,
                BeginReread, EndAfterReread, Interrupted
  <2>2. ASSUME cur'[r] = cur[r], new'[r] = new[r], Cause(r)
        PROVE  /\ Current(r, cur[r])' <=> Current(r, cur[r])
               /\ Moved(r, cur[r])' <=> Moved(r, cur[r])
               /\ Lost(r, cur[r])' <=> Lost(r, cur[r])
               /\ TitleHeld(r)' <=> TitleHeld(r)
    BY <1>1, <2>1, <2>2 DEF Current, Moved, Lost, HasStood, TitleHeld, RowsSeen
  <2> USE <2>1 DEF Cause, Ledger, TypeOK, Answered, Finish, Send
  <2>3. CASE CreateAnswered(r)
    BY <2>2, <2>3 DEF CreateAnswered
  <2>4. CASE EndAfterRead(r)
    BY <2>2, <2>4 DEF EndAfterRead
  <2>5. ASSUME NEW now, BeginWrite(r, now)
        PROVE  Cause(r)'
    <3>1. /\ cur'[r] = got[r] /\ pc'[r] = "writing" /\ reply'[r] = "none" /\ answer'[r] = "none"
          /\ Current(r, got[r])
      BY <2>5 DEF BeginWrite
    <3>2. Current(r, cur[r])'
      BY <1>1, <2>1, <3>1 DEF Current, Moved, Lost, HasStood
    <3> QED
      BY <3>1, <3>2
  <2>6. CASE EndAfterWrite(r)
    BY <2>2, <2>6 DEF EndAfterWrite
  <2>7. CASE BeginReread(r)
    BY <2>2, <2>7 DEF BeginReread
  <2>8. CASE EndAfterReread(r)
    BY <2>2, <2>8 DEF EndAfterReread
  <2>9. ASSUME NEW how \in {"error_500", "dropped"}, Interrupted(r, how)
        PROVE  Cause(r)'
    BY <2>2, <2>9 DEF Interrupted
  <2> QED
    BY <1>4, <2>3, <2>4, <2>5, <2>6, <2>7, <2>8, <2>9 DEF Continue
<1> QED
  BY <1>3, <1>4

-----------------------------------------------------------------------------
(* The steps of the server *)

\* A SELECT writes nothing and reads the row that stands there.
LEMMA SelectAnswers ==
  ASSUME TypeOK, Wired, Ledgers, Stood, Causes, NEW r \in Requests, DbSelect(r)
  PROVE  Ledgers' /\ Stood' /\ Causes'
<1>1. /\ stmt[r] = "select" /\ op[r].id \in TaskIds
      /\ UNCHANGED <<table, pc, op, cur, new, answer, issued, writes>>
      /\ stmt' = [stmt EXCEPT ![r] = "none"]
      /\ \A q \in Requests \ {r} : reply'[q] = reply[q] /\ got'[q] = got[q]
  BY DEF DbSelect, Reply, TypeOK, Wired
<1>2. \/ pc[r] = "done" /\ reply'[r] = reply[r] /\ got'[r] = got[r]
      \/ /\ pc[r] # "done" /\ got'[r] = table[op[r].id]
         /\ reply'[r] = IF table[op[r].id] = NoRow THEN "no_row" ELSE "row"
  BY DEF DbSelect, Reply, TypeOK
<1>3. Stood'
  BY <1>1 DEF Stood, HasStood, TypeOK
<1>4. \A q \in Requests : WritesOf(q)' = WritesOf(q)
  BY <1>1 DEF WritesOf
<1>5. Ledgers'
  <2>1. ASSUME NEW q \in Requests \ {r}
        PROVE  Ledger(q)'
    BY <1>1, <1>4 DEF Ledgers, Ledger, Pending, Succeeded, TypeOK
  <2>2. Ledger(r)'
    BY <1>1, <1>2, <1>4 DEF Ledgers, Ledger, Pending, Succeeded, TypeOK
  <2> QED
    BY <2>1, <2>2 DEF Ledgers
<1>6. Causes'
  <2>1. \A q \in Requests :
          /\ Current(q, cur[q])' <=> Current(q, cur[q])
          /\ Moved(q, cur[q])' <=> Moved(q, cur[q])
          /\ Lost(q, cur[q])' <=> Lost(q, cur[q])
          /\ TitleHeld(q)' <=> TitleHeld(q)
    BY <1>1 DEF Current, Moved, Lost, HasStood, TitleHeld, RowsSeen
  <2>2. ASSUME NEW q \in Requests \ {r}
        PROVE  Cause(q)'
    <3>1. Current(q, got[q])' <=> Current(q, got[q])
      BY <1>1 DEF Current, Moved, Lost, HasStood
    <3> QED
      BY <1>1, <2>1, <3>1 DEF Causes, Cause, TypeOK
  <2>3. Cause(r)'
    <3>1. CASE pc[r] = "done"
      BY <1>1, <2>1, <3>1 DEF Causes, Cause, TypeOK
    <3>2. CASE pc[r] # "done"
      <4>1. reply'[r] = "row" => Current(r, got[r])' /\ (Moved(r, cur[r]) => Lost(r, cur[r]))
        BY <1>1, <1>2, <3>2 DEF Current, Moved
      <4>2. pc[r] # "writing" /\ reply'[r] \in {"row", "no_row"}
        BY <1>1, <1>2, <3>2 DEF Ledgers, Ledger
      <4> QED
        BY <1>1, <1>2, <2>1, <3>2, <4>1, <4>2 DEF Causes, Cause, TypeOK
    <3> QED
      BY <3>1, <3>2
  <2> QED
    BY <2>2, <2>3 DEF Causes
<1> QED
  BY <1>3, <1>5, <1>6

\* What a write adds to the history.
LEMMA WritingAdds ==
  ASSUME TypeOK, Wired, NEW r \in Requests, Pending(r), Store(r, op[r].id)
  PROVE  /\ op[r].id \in TaskIds /\ new[r] \in Row
         /\ table' = [table EXCEPT ![op[r].id] = new[r]]
         /\ \E w : /\ writes' = writes \cup {w} /\ w.by = r /\ w.id = op[r].id
                   /\ w.old = table[op[r].id] /\ w.new = new[r]
<1> DEFINE w == [by |-> r, id |-> op[r].id, old |-> table[op[r].id], new |-> new[r]]
<1>1. /\ writes' = writes \cup {w} /\ w.by = r /\ w.id = op[r].id
      /\ w.old = table[op[r].id] /\ w.new = new[r]
  BY DEF Store
<1> HIDE DEF w
<1> QED
  BY <1>1 DEF Store, Wired, Pending

\* A row that has stood under an id stays in its history.
LEMMA HistoryGrows ==
  ASSUME TypeOK, Wired, NEW r \in Requests, Pending(r), Store(r, op[r].id),
         UNCHANGED <<op, new>>, NEW q \in Requests
  PROVE  TitleHeld(q) => TitleHeld(q)'
<1>1. PICK w : /\ writes' = writes \cup {w} /\ w.by = r /\ w.id = op[r].id
               /\ w.old = table[op[r].id] /\ w.new = new[r]
  BY WritingAdds
<1>2. table' = [table EXCEPT ![op[r].id] = new[r]] /\ op[r].id \in TaskIds
  BY WritingAdds
<1>3. ASSUME NEW id \in TaskIds, NEW old, old \in RowsSeen(id)
      PROVE  old \in RowsSeen(id)'
  <2>1. table[id] \in RowsSeen(id)'
    <3>1. CASE id = op[r].id
      BY <1>1, <3>1 DEF RowsSeen
    <3>2. CASE id # op[r].id
      BY <1>2, <3>2 DEF RowsSeen, TypeOK
    <3> QED
      BY <3>1, <3>2
  <2> QED
    BY <1>1, <1>3, <2>1 DEF RowsSeen
<1> QED
  BY <1>3 DEF TitleHeld

\* What a row moves by: the write of another request, at an id where a row stands
\* or, for an INSERT, where none ever stood.
LEMMA WritingMoves ==
  ASSUME TypeOK, Wired, Claimed, Stood, NEW r \in Requests, Pending(r),
         Store(r, op[r].id), stmt[r] = "insert" \/ Matches(r),
         UNCHANGED op, NEW q \in Requests, NEW row,
         op[q].id \in TaskIds
  PROVE  /\ q # r /\ Current(q, row) => Current(q, row)'
         /\ Moved(q, row) => Moved(q, row)'
<1>1. PICK w : /\ writes' = writes \cup {w} /\ w.by = r /\ w.id = op[r].id
               /\ w.old = table[op[r].id] /\ w.new = new[r]
  BY WritingAdds
<1>2. table' = [table EXCEPT ![op[r].id] = new[r]] /\ op[r].id \in TaskIds
  BY WritingAdds
<1>3. Lost(q, row) => Lost(q, row)'
  BY <1>1 DEF Lost
<1>4. HasStood(op[q].id) => HasStood(op[q].id)'
  BY <1>1 DEF HasStood
<1>5. op[r].id # op[q].id => table'[op[q].id] = table[op[q].id]
  BY <1>2 DEF TypeOK
<1>6. op[r].id = op[q].id /\ stmt[r] = "insert" => table[op[q].id] = NoRow /\ ~HasStood(op[q].id)
  BY DEF Claimed, Stood
<1>7. op[r].id = op[q].id /\ Matches(r) => table[op[q].id] # NoRow
  BY DEF Matches
<1>8. Moved(q, row) => Moved(q, row)'
  BY <1>3, <1>4, <1>5, <1>6, <1>7 DEF Moved
<1>9. q # r /\ op[r].id = op[q].id /\ table[op[q].id] = row => Lost(q, row)'
  BY <1>1 DEF Lost
<1> QED
  BY <1>5, <1>8, <1>9 DEF Current, Moved

\* A write that is performed, or is refused by its WHERE clause or the index.
LEMMA WriteAnswers ==
  ASSUME TypeOK, Wired, Claimed, Ledgers, Stood, Causes, NEW r \in Requests,
         DbInsert(r) \/ DbUpdate(r)
  PROVE  Ledgers' /\ Stood' /\ Causes'
<1>1. /\ Pending(r) /\ op[r].id \in TaskIds /\ new[r] \in Row
      /\ UNCHANGED <<pc, op, cur, new, answer, issued>>
      /\ stmt' = [stmt EXCEPT ![r] = "none"]
      /\ \A q \in Requests \ {r} : reply'[q] = reply[q] /\ got'[q] = got[q]
  BY DEF DbInsert, DbUpdate, Reply, TypeOK, Wired, Pending
<1>2. WritesOf(r) = {} /\ pc[r] \notin {"idle", "reading", "rereading"} /\ answer[r] \notin Refusals
      /\ ~Succeeded(r)
  BY <1>1 DEF Ledgers, Ledger, Pending
<1>3. \/ /\ UNCHANGED <<table, writes>>
         /\ \/ stmt[r] = "update" /\ ~Matches(r) /\ Reply(r, "no_row", NoRow)
            \/ TitleTaken(table, op[r].id, new[r]) /\ Reply(r, "taken", NoRow)
      \/ /\ Store(r, op[r].id) /\ Reply(r, "stored", new[r])
         /\ stmt[r] = "insert" \/ Matches(r)
  BY DEF DbInsert, DbUpdate
<1>4. \A q \in Requests \ {r} : WritesOf(q)' = WritesOf(q)
  BY <1>3 DEF WritesOf, Store
<1>5. Ledgers'
  <2>1. ASSUME NEW q \in Requests \ {r}
        PROVE  Ledger(q)'
    BY <1>1, <1>4 DEF Ledgers, Ledger, Pending, Succeeded, TypeOK
  <2>2. ASSUME UNCHANGED writes, \/ stmt[r] = "update" /\ Reply(r, "no_row", NoRow)
                                \/ Reply(r, "taken", NoRow)
        PROVE  Ledger(r)'
    <3>1. WritesOf(r)' = {}
      BY <1>2, <2>2 DEF WritesOf
    <3>2. reply'[r] # "stored" /\ (pc[r] = "done" => reply'[r] = "none")
      BY <1>1, <2>2 DEF Reply, TypeOK, Ledgers, Ledger
    <3> QED
      BY <1>1, <1>2, <3>1, <3>2 DEF Ledgers, Ledger, Pending, Succeeded, TypeOK
  <2>3. ASSUME Store(r, op[r].id), Reply(r, "stored", new[r])
        PROVE  Ledger(r)'
    <3>1. PICK w : /\ writes' = writes \cup {w} /\ w.by = r /\ w.id = op[r].id
                   /\ w.old = table[op[r].id] /\ w.new = new[r]
      BY <1>1, <2>3, WritingAdds
    <3>2. WritesOf(r)' = {w}
      BY <1>2, <3>1 DEF WritesOf
    <3>3. reply'[r] = IF pc[r] = "done" THEN "none" ELSE "stored"
      BY <1>1, <2>3 DEF Reply, TypeOK, Ledgers, Ledger
    <3>4. /\ WritesOf(r)' # {} /\ \A u, v \in WritesOf(r)' : u = v
          /\ \A v \in WritesOf(r)' : v.id = op'[r].id /\ v.new = new'[r]
      BY <1>1, <3>1, <3>2
    <3>5. stmt'[r] = "none" /\ pc'[r] = pc[r] /\ answer'[r] = answer[r] /\ op'[r] = op[r]
      BY <1>1 DEF TypeOK
    <3>6. Ledger(r)
      BY DEF Ledgers
    <3> QED
      BY <1>2, <3>3, <3>4, <3>5, <3>6 DEF Ledger, Pending, Succeeded
  <2>4. Ledger(r)'
    BY <1>3, <2>2, <2>3
  <2> QED
    BY <2>1, <2>4 DEF Ledgers
<1>6. CASE UNCHANGED <<table, writes>>
  <2>1. Stood'
    BY <1>1, <1>6 DEF Stood, HasStood, TypeOK
  <2>2. \A q \in Requests :
          /\ Current(q, cur[q])' <=> Current(q, cur[q])
          /\ Moved(q, cur[q])' <=> Moved(q, cur[q])
          /\ Lost(q, cur[q])' <=> Lost(q, cur[q])
          /\ TitleHeld(q)' <=> TitleHeld(q)
    BY <1>1, <1>6 DEF Current, Moved, Lost, HasStood, TitleHeld, RowsSeen
  <2>3. ASSUME NEW q \in Requests \ {r}
        PROVE  Cause(q)'
    <3>1. Current(q, got[q])' <=> Current(q, got[q])
      BY <1>1, <1>6 DEF Current, Moved, Lost, HasStood
    <3> QED
      BY <1>1, <2>2, <3>1 DEF Causes, Cause, TypeOK
  <2>4. stmt[r] = "update" /\ ~Matches(r) => Moved(r, cur[r])
    BY DEF Causes, Cause, Current, Matches
  <2>5. TitleTaken(table, op[r].id, new[r]) => TitleHeld(r)
    BY DEF TitleTaken, TitleHeld, RowsSeen
  <2>6. pc[r] = "writing" => /\ reply'[r] = "no_row" => Moved(r, cur[r])
                             /\ reply'[r] = "taken" => TitleHeld(r)
    BY <1>3, <2>4, <2>5 DEF Reply, TypeOK
  <2>7. Cause(r)'
    BY <1>1, <1>2, <2>2, <2>6 DEF Causes, Cause, TypeOK
  <2> QED
    BY <1>5, <2>1, <2>3, <2>7 DEF Causes
<1>7. CASE /\ Store(r, op[r].id) /\ Reply(r, "stored", new[r])
           /\ stmt[r] = "insert" \/ Matches(r)
  <2>1. PICK w : /\ writes' = writes \cup {w} /\ w.by = r /\ w.id = op[r].id
                 /\ w.old = table[op[r].id] /\ w.new = new[r]
    BY <1>1, <1>7, WritingAdds
  <2>9. table' = [table EXCEPT ![op[r].id] = new[r]]
    BY <1>1, <1>7, WritingAdds
  <2>2. op[r].id \in issued
    BY <1>1, <1>7 DEF Pending, Claimed, Matches
  <2>3. \A q \in Requests : stmt'[q] = "insert" => ~HasStood(op[q].id)'
    <3> SUFFICES ASSUME NEW q \in Requests, stmt'[q] = "insert"
                 PROVE  ~HasStood(op[q].id)'
      OBVIOUS
    <3>1. q # r /\ stmt[q] = "insert" /\ op[q].id \in TaskIds
      BY <1>1 DEF TypeOK, Wired
    <3>2. op[q].id # op[r].id
      BY <1>7, <3>1 DEF Claimed, Matches
    <3> QED
      BY <1>1, <2>1, <3>1, <3>2 DEF Stood, HasStood
  <2>4. Stood'
    <3>1. \A id \in TaskIds : table'[id] # NoRow =>
            table'[id] \in {InitialTable[id]} \cup {v.new : v \in {u \in writes' : u.id = id}}
      <4> SUFFICES ASSUME NEW id \in TaskIds, table'[id] # NoRow
                   PROVE  table'[id] \in {InitialTable[id]} \cup {v.new : v \in {u \in writes' : u.id = id}}
        OBVIOUS
      <4>1. CASE id = op[r].id
        BY <1>1, <2>1, <2>9, <4>1 DEF TypeOK
      <4>2. CASE id # op[r].id
        BY <2>1, <2>9, <4>2 DEF Stood, TypeOK
      <4> QED
        BY <4>1, <4>2
    <3>2. \A id \in TaskIds : HasStood(id)' => id \in issued
      BY <2>1, <2>2 DEF Stood, HasStood
    <3> QED
      BY <1>1, <2>3, <3>1, <3>2 DEF Stood
  <2>5. UNCHANGED <<op, new, cur>> /\ Pending(r)
    BY <1>1
  <2>6. ASSUME NEW q \in Requests, op[q].id \in TaskIds, NEW row
        PROVE  /\ q # r /\ Current(q, row) => Current(q, row)'
               /\ Moved(q, row) => Moved(q, row)'
    BY <1>7, <2>5, <2>6, WritingMoves
  <2>7. ASSUME NEW q \in Requests \ {r}
        PROVE  Cause(q)'
    <3>1. pc[q] \notin {"idle", "done"} \/ stmt[q] # "none" => op[q].id \in TaskIds
      BY DEF Wired
    <3>2. Lost(q, cur[q]) => Lost(q, cur[q])'
      BY <1>1, <2>1 DEF Lost
    <3>3. TitleHeld(q) => TitleHeld(q)'
      BY <1>7, <2>5, HistoryGrows
    <3>4. /\ pc'[q] = pc[q] /\ stmt'[q] = stmt[q] /\ reply'[q] = reply[q] /\ got'[q] = got[q]
          /\ cur'[q] = cur[q] /\ answer'[q] = answer[q] /\ op'[q] = op[q]
      BY <1>1 DEF TypeOK
    <3>5. op[q].id \in TaskIds =>
            /\ Current(q, got[q]) => Current(q, got[q])'
            /\ Current(q, cur[q]) => Current(q, cur[q])'
            /\ Moved(q, cur[q]) => Moved(q, cur[q])'
      <4>1. got'[q] = got[q] /\ cur'[q] = cur[q]
        BY <3>4
      <4>2. \A row : op[q].id \in TaskIds =>
              /\ Current(q, row) => Current(q, row)'
              /\ Moved(q, row) => Moved(q, row)'
        BY <2>6
      <4> QED
        BY <4>1, <4>2 DEF Current, Moved, Lost
    <3> QED
      BY <3>1, <3>2, <3>3, <3>4, <3>5 DEF Causes, Cause
  <2>8. Cause(r)'
    <3>1. /\ pc'[r] = pc[r] /\ stmt'[r] = "none" /\ answer'[r] # "conflict_409"
          /\ pc[r] = "writing" => reply'[r] = "stored"
      BY <1>1, <1>2, <1>7 DEF Reply, TypeOK, Refusals
    <3> QED
      BY <1>2, <3>1 DEF Cause
  <2> QED
    BY <1>5, <2>4, <2>7, <2>8 DEF Causes
<1> QED
  BY <1>3, <1>5, <1>6, <1>7

\* A row removed by others is gone for good: its id is never given out again.
LEMMA RemovalAnswers ==
  ASSUME TypeOK, Wired, Ledgers, Stood, Causes, NEW id \in TaskIds, RemovedByOther(id)
  PROVE  Ledgers' /\ Stood' /\ Causes'
<1>1. /\ UNCHANGED <<pc, op, cur, new, stmt, reply, got, answer, issued, writes>>
      /\ table[id] # NoRow /\ table' = [table EXCEPT ![id] = NoRow]
  BY DEF RemovedByOther
<1>2. Ledgers'
  BY <1>1 DEF Ledgers, Ledger, WritesOf, Pending, Succeeded
<1>3. \A i \in TaskIds : table'[i] = table[i] \/ (i = id /\ table'[i] = NoRow)
  BY <1>1 DEF TypeOK
<1>4. \A i \in TaskIds : table[i] # NoRow => HasStood(i)
  BY DEF Stood, HasStood
<1>5. Stood'
  BY <1>1, <1>3 DEF Stood, HasStood
<1>6. ASSUME NEW q \in Requests
      PROVE  Cause(q)'
  <2>1. pc[q] \notin {"idle", "done"} \/ stmt[q] # "none" => op[q].id \in TaskIds
    BY DEF Wired
  <2>2. ASSUME op[q].id \in TaskIds, NEW row
        PROVE  /\ Current(q, row) => Current(q, row)'
               /\ Moved(q, row) => Moved(q, row)'
    BY <1>1, <1>3, <1>4, <2>2 DEF Current, Moved, Lost, HasStood
  <2>3. Lost(q, cur[q]) => Lost(q, cur[q])'
    BY <1>1 DEF Lost
  <2>4. TitleHeld(q) => TitleHeld(q)'
    <3>1. \A i \in TaskIds : \A old : old \in RowsSeen(i) /\ old # NoRow => old \in RowsSeen(i)'
      BY <1>1, <1>3 DEF RowsSeen, Stood
    <3> QED
      BY <1>1, <3>1 DEF TitleHeld, IsOpen
  <2>5. op[q].id \in TaskIds =>
          /\ Current(q, got[q]) => Current(q, got[q])'
          /\ Current(q, cur[q]) => Current(q, cur[q])'
          /\ Moved(q, cur[q]) => Moved(q, cur[q])'
    <3>1. \A row : op[q].id \in TaskIds =>
            /\ Current(q, row) => Current(q, row)'
            /\ Moved(q, row) => Moved(q, row)'
      BY <2>2
    <3> QED
      BY <1>1, <3>1 DEF Current, Moved, Lost
  <2> QED
    BY <1>1, <2>1, <2>3, <2>4, <2>5 DEF Causes, Cause
<1> QED
  BY <1>2, <1>5, <1>6 DEF Causes

\* Every step of the service, of the server and of others keeps the ledgers.
LEMMA AnswersStep ==
  ASSUME IInv, [Next]_vars
  PROVE  Ledgers' /\ Stood' /\ Causes'
<1> USE DEF IInv
<1>1. ASSUME NEW r \in Requests,
             Receive(r) \/ Continue(r) \/ \E how \in {"error_500", "dropped"} : Interrupted(r, how)
      PROVE  Ledgers' /\ Stood' /\ Causes'
  <2>1. \A q \in Requests \ {r} : Ledger(q)'
    BY <1>1, ServiceMovesOne DEF Still, Ledgers, Ledger, WritesOf, Pending, Succeeded
  <2>2. Ledger(r)'
    BY <1>1, ReceiveLedger, ContinueLedger
  <2> QED
    BY <1>1, <2>1, <2>2, ServiceStood, ServiceCauses DEF Ledgers
<1>2. CASE UNCHANGED vars
  BY <1>2 DEF vars, Ledgers, Ledger, WritesOf, Pending, Succeeded, Stood, HasStood, Causes, Cause,
              Current, Moved, Lost, TitleHeld, RowsSeen
<1> QED
  BY <1>1, <1>2, SelectAnswers, WriteAnswers, RemovalAnswers DEF Next, Server

\* What the invariant says of a request that was answered.
LEMMA LedgersTellTheTruth == IInv => AnswersAreTrue
<1> SUFFICES ASSUME IInv PROVE AnswersAreTrue
  OBVIOUS
<1>1. RefusedMeansUnwritten
  BY DEF IInv, Ledgers, Ledger, Pending, RefusedMeansUnwritten
<1>2. AcknowledgedMeansWritten
  BY DEF IInv, Ledgers, Ledger, Succeeded, AcknowledgedMeansWritten
<1>3. NoSpuriousConflict
  BY DEF IInv, Causes, Cause, Lost, TitleHeld, NoSpuriousConflict
<1> QED
  BY <1>1, <1>2, <1>3 DEF AnswersAreTrue

\* The answers of create_task and update_task are true, for any number of
\* requests, connections that fail and rows that others remove, whatever the
\* clock returns: the stamp of ADR-007 decides which conflicts there are, and
\* not whether the client is told of them.
THEOREM AnswersHold == Spec => []AnswersAreTrue
<1>1. Init => IInv
  BY TypingInit, ClaimedInit, AnswersInit DEF IInv
<1>2. IInv /\ [Next]_vars => IInv'
  BY TypingStep, ClaimsStep, AnswersStep DEF IInv
<1>3. IInv => AnswersAreTrue
  BY LedgersTellTheTruth
<1> QED
  BY <1>1, <1>2, <1>3, PTL DEF Spec
=============================================================================
