--------------------------- MODULE ReferenceTasks ---------------------------
(***************************************************************************)
(* The reference vertical under concurrent requests: ReferenceTaskService  *)
(* over ReferenceTaskRepository over one PostgreSQL table.  Requests of    *)
(* all worker processes interleave at every statement; each statement is   *)
(* sent, executed by the server (autocommit, so atomically) and answered   *)
(* in separate steps, a connection can fail and a worker can die with a    *)
(* statement still on its way, and a row may be removed by somebody else.  *)
(* The service stamps rows with the wall clock of its own process:         *)
(* FreshStamps says whether two readings of it are always different.       *)
(***************************************************************************)
EXTENDS TaskData

CONSTANTS
  Requests,      \* request tasks, of any worker process
  Malformed,     \* a path id normalize_task_id turns into None
  Patches,       \* the patches clients send in this instance
  InitialTable,
  FreshStamps    \* does datetime.now() never return a stamp twice?

ASSUME RequestAssumption ==
  /\ Malformed \notin TaskIds
  /\ Patches \subseteq Patch
  /\ InitialTable \in [TaskIds -> MaybeRow]
  /\ OneOpenTaskPerTitle(InitialTable)
  /\ FreshStamps \in BOOLEAN

VARIABLES
  table,    \* reference_tasks
  pc,       \* where each request is: the statement it waits on, or its end
  op,       \* the request: kind, path id and patch
  cur,      \* update_task's `current`: the row read before the write
  new,      \* the row the pending INSERT or UPDATE stores
  stmt,     \* the statement on its way to the server
  reply,    \* what the server answered to the last statement
  got,      \* the row that came with the reply
  answer,   \* the HTTP answer, by name
  issued,   \* history: ids uuid4 has returned
  used,     \* history: stamps the clock has returned
  writes    \* history: every write the server performed

vars == <<table, pc, op, cur, new, stmt, reply, got, answer, issued, used, writes>>

Kinds == {"create", "get", "update"}
PCs == {"idle", "inserting", "reading", "writing", "rereading", "done"}
Statements == {"none", "insert", "select", "update"}
Replies == {"none", "row", "no_row", "stored", "taken"}
Answers == {"none", "created_201", "ok_200", "not_found_404", "conflict_409",
            "invalid_422", "error_500", "dropped"}
Refusals == {"not_found_404", "conflict_409", "invalid_422"}

Op == [kind: Kinds, id: TaskIds \cup {Malformed}, patch: Patch]
NoPatch == [title |-> Keep, details |-> Keep, status |-> Keep]
NoOp == [kind |-> "get", id |-> Malformed, patch |-> NoPatch]
Write == [by: Requests, id: TaskIds, old: MaybeRow, new: Row]

\* One type invariant for every variable of the service, the driver and the
\* table (ReferenceTask's fields, the pending statement, the answer).
TypeOK ==
  /\ table \in [TaskIds -> MaybeRow]
  /\ pc \in [Requests -> PCs]
  /\ op \in [Requests -> Op]
  /\ cur \in [Requests -> MaybeRow]
  /\ new \in [Requests -> MaybeRow]
  /\ stmt \in [Requests -> Statements]
  /\ reply \in [Requests -> Replies]
  /\ got \in [Requests -> MaybeRow]
  /\ answer \in [Requests -> Answers]
  /\ issued \in SUBSET TaskIds
  /\ used \in SUBSET Stamps
  /\ writes \in SUBSET Write

StampsOf(tbl) ==
  {tbl[id].updated_at : id \in {i \in TaskIds : tbl[i] # NoRow}}

Init ==
  /\ table = InitialTable
  /\ pc = [r \in Requests |-> "idle"]
  /\ op = [r \in Requests |-> NoOp]
  /\ cur = [r \in Requests |-> NoRow]
  /\ new = [r \in Requests |-> NoRow]
  /\ stmt = [r \in Requests |-> "none"]
  /\ reply = [r \in Requests |-> "none"]
  /\ got = [r \in Requests |-> NoRow]
  /\ answer = [r \in Requests |-> "none"]
  /\ issued = {id \in TaskIds : InitialTable[id] # NoRow}
  /\ used = StampsOf(InitialTable)
  /\ writes = {}

-----------------------------------------------------------------------------
(* Steps of the service, shared by the actions below *)

\* A reading of the clock: any stamp, or under FreshStamps one nobody has.
MayRead(now) == FreshStamps => now \notin used

Send(r, kind, at) ==
  /\ stmt' = [stmt EXCEPT ![r] = kind]
  /\ pc' = [pc EXCEPT ![r] = at]
  /\ reply' = [reply EXCEPT ![r] = "none"]
  /\ got' = [got EXCEPT ![r] = NoRow]
  /\ UNCHANGED answer

Finish(r, how) ==
  /\ answer' = [answer EXCEPT ![r] = how]
  /\ pc' = [pc EXCEPT ![r] = "done"]
  /\ reply' = [reply EXCEPT ![r] = "none"]
  /\ got' = [got EXCEPT ![r] = NoRow]
  /\ UNCHANGED stmt

Answered(r, at) == pc[r] = at /\ stmt[r] = "none" /\ reply[r] # "none"

-----------------------------------------------------------------------------
(* POST /reference-tasks: create_task, ReferenceTaskRepository.add *)

\* The clock and uuid4 are read first, then the fields are checked.
RefuseCreate(r, title, details) ==
  /\ pc[r] = "idle"
  /\ title \in BadTitles \/ details \in BadDetails
  /\ Finish(r, "invalid_422")
  /\ op' = [op EXCEPT ![r].kind = "create"]
  /\ UNCHANGED <<table, cur, new, issued, used, writes>>

BeginCreate(r, title, details, id, now) ==
  /\ pc[r] = "idle"
  /\ title \in Titles /\ details \in Details
  /\ id \notin issued
  /\ MayRead(now)
  /\ op' = [op EXCEPT ![r].kind = "create", ![r].id = id]
  /\ new' = [new EXCEPT ![r] = NewRow(title, details, now)]
  /\ issued' = issued \cup {id}
  /\ used' = used \cup {now}
  /\ Send(r, "insert", "inserting")
  /\ UNCHANGED <<table, cur, writes>>

CreateAnswered(r) ==
  /\ Answered(r, "inserting")
  /\ Finish(r, IF reply[r] = "stored" THEN "created_201" ELSE "conflict_409")
  /\ UNCHANGED <<table, op, cur, new, issued, used, writes>>

-----------------------------------------------------------------------------
(* GET and PATCH /reference-tasks/{id}: get_task and update_task *)

\* An id that cannot be one is a miss with no query sent; a patch that names
\* nothing is refused before the read.
RefuseUnread(r, kind, id, p) ==
  /\ pc[r] = "idle"
  /\ kind = "get" => p = NoPatch
  /\ IF kind = "update" /\ NamesNothing(p)
     THEN Finish(r, "invalid_422")
     ELSE id = Malformed /\ Finish(r, "not_found_404")
  /\ op' = [op EXCEPT ![r] = [kind |-> kind, id |-> id, patch |-> p]]
  /\ UNCHANGED <<table, cur, new, issued, used, writes>>

BeginRead(r, kind, id, p) ==
  /\ pc[r] = "idle"
  /\ id \in TaskIds
  /\ (kind = "get") = NamesNothing(p)
  /\ op' = [op EXCEPT ![r] = [kind |-> kind, id |-> id, patch |-> p]]
  /\ Send(r, "select", "reading")
  /\ UNCHANGED <<table, cur, new, issued, used, writes>>

\* get_task answered, and for an update the row is missing or the patch is
\* refused: the checks run on the row read, so a bad patch of a missing task
\* is a 404.
EndAfterRead(r) ==
  /\ Answered(r, "reading")
  /\ \/ reply[r] = "no_row" /\ Finish(r, "not_found_404")
     \/ reply[r] = "row" /\ op[r].kind = "get" /\ Finish(r, "ok_200")
     \/ reply[r] = "row" /\ op[r].kind = "update" /\ ~Valid(op[r].patch)
        /\ Finish(r, "invalid_422")
  /\ UNCHANGED <<table, op, cur, new, issued, used, writes>>

\* update_task stamps the changed row and sends it on condition of the stamp
\* it read.
BeginWrite(r, now) ==
  /\ Answered(r, "reading")
  /\ reply[r] = "row" /\ op[r].kind = "update" /\ Valid(op[r].patch)
  /\ MayRead(now)
  /\ cur' = [cur EXCEPT ![r] = got[r]]
  /\ new' = [new EXCEPT ![r] = Apply(got[r], op[r].patch, now)]
  /\ used' = used \cup {now}
  /\ Send(r, "update", "writing")
  /\ UNCHANGED <<table, op, issued, writes>>

EndAfterWrite(r) ==
  /\ Answered(r, "writing")
  /\ \/ reply[r] = "stored" /\ Finish(r, "ok_200")
     \/ reply[r] = "taken" /\ Finish(r, "conflict_409")
  /\ UNCHANGED <<table, op, cur, new, issued, used, writes>>

\* Zero rows: a second read tells a moved row from one that is gone.
BeginReread(r) ==
  /\ Answered(r, "writing") /\ reply[r] = "no_row"
  /\ Send(r, "select", "rereading")
  /\ UNCHANGED <<table, op, cur, new, issued, used, writes>>

EndAfterReread(r) ==
  /\ Answered(r, "rereading")
  /\ Finish(r, IF reply[r] = "no_row" THEN "not_found_404" ELSE "conflict_409")
  /\ UNCHANGED <<table, op, cur, new, issued, used, writes>>

\* The driver raises (500, the generic handler), or the worker process dies:
\* the request ends wherever it is, its statement may still reach the server.
Interrupted(r, how) ==
  /\ pc[r] \notin {"idle", "done"}
  /\ how \in {"error_500", "dropped"}
  /\ Finish(r, how)
  /\ UNCHANGED <<table, op, cur, new, issued, used, writes>>

-----------------------------------------------------------------------------
(* The server: one statement, executed atomically under autocommit *)

Reply(r, what, row) ==
  /\ stmt' = [stmt EXCEPT ![r] = "none"]
  /\ IF pc[r] = "done"     \* nobody is listening any more
     THEN UNCHANGED <<reply, got>>
     ELSE /\ reply' = [reply EXCEPT ![r] = what]
          /\ got' = [got EXCEPT ![r] = row]

Store(r, id) ==
  /\ table' = [table EXCEPT ![id] = new[r]]
  /\ writes' = writes \cup {[by |-> r, id |-> id, old |-> table[id], new |-> new[r]]}

DbSelect(r) ==
  /\ stmt[r] = "select"
  /\ LET row == table[op[r].id]
     IN Reply(r, IF row = NoRow THEN "no_row" ELSE "row", row)
  /\ UNCHANGED <<table, pc, op, cur, new, answer, issued, used, writes>>

DbInsert(r) ==
  /\ stmt[r] = "insert"
  /\ IF TitleTaken(table, op[r].id, new[r])
     THEN Reply(r, "taken", NoRow) /\ UNCHANGED <<table, writes>>
     ELSE Reply(r, "stored", new[r]) /\ Store(r, op[r].id)
  /\ UNCHANGED <<pc, op, cur, new, answer, issued, used>>

\* Mutant: the blind UPDATE by id.
MatchesById(r) == table[op[r].id] # NoRow

\* _UPDATE_BY_ID's WHERE clause: the row is there, with the stamp that was read.
Matches(r) ==
  /\ table[op[r].id] # NoRow
  /\ table[op[r].id].updated_at = cur[r].updated_at

\* Mutant: the UPDATE without RETURNING, which fetches no row even when it wrote.
DbUpdateNoReturning(r) ==
  /\ stmt[r] = "update"
  /\ IF ~Matches(r)
     THEN Reply(r, "no_row", NoRow) /\ UNCHANGED <<table, writes>>
     ELSE IF TitleTaken(table, op[r].id, new[r])
     THEN Reply(r, "taken", NoRow) /\ UNCHANGED <<table, writes>>
     ELSE Reply(r, "no_row", NoRow) /\ Store(r, op[r].id)
  /\ UNCHANGED <<pc, op, cur, new, answer, issued, used>>

DbUpdate(r) ==
  /\ stmt[r] = "update"
  /\ IF ~Matches(r)
     THEN Reply(r, "no_row", NoRow) /\ UNCHANGED <<table, writes>>
     ELSE IF TitleTaken(table, op[r].id, new[r])
     THEN Reply(r, "taken", NoRow) /\ UNCHANGED <<table, writes>>
     ELSE Reply(r, "stored", new[r]) /\ Store(r, op[r].id)
  /\ UNCHANGED <<pc, op, cur, new, answer, issued, used>>

\* Another program, or an operator, removes a row: the API has no DELETE, but
\* update_task's second read exists for this case.
RemovedByOther(id) ==
  /\ table[id] # NoRow
  /\ table' = [table EXCEPT ![id] = NoRow]
  /\ UNCHANGED <<pc, op, cur, new, stmt, reply, got, answer, issued, used, writes>>

-----------------------------------------------------------------------------
Receive(r) ==
  \/ \E title \in Titles \cup BadTitles, details \in Details \cup BadDetails :
       \/ RefuseCreate(r, title, details)
       \/ \E id \in TaskIds, now \in Stamps : BeginCreate(r, title, details, id, now)
  \/ \E kind \in {"get", "update"}, id \in TaskIds \cup {Malformed},
        p \in Patches \cup {NoPatch} :
       RefuseUnread(r, kind, id, p) \/ BeginRead(r, kind, id, p)

Continue(r) ==
  \/ CreateAnswered(r)
  \/ EndAfterRead(r)
  \/ \E now \in Stamps : BeginWrite(r, now)
  \/ EndAfterWrite(r)
  \/ BeginReread(r)
  \/ EndAfterReread(r)

Server(r) == DbSelect(r) \/ DbInsert(r) \/ DbUpdate(r)

Next ==
  \/ \E r \in Requests :
       \/ Receive(r)
       \/ Continue(r)
       \/ Server(r)
       \/ \E how \in {"error_500", "dropped"} : Interrupted(r, how)
  \/ \E id \in TaskIds : RemovedByOther(id)

Spec == Init /\ [][Next]_vars

-----------------------------------------------------------------------------
(* Properties *)

\* uq_reference_tasks_open_title with every writer at once: no interleaving of
\* creates, renames, closings and reopenings, by however many workers, leaves
\* two open tasks under one lower(title).
TableIsConsistent == OneOpenTaskPerTitle(table)

WritesOf(r) == {w \in writes : w.by = r}

\* No lost update (update_task, ADR-007): every UPDATE that was performed
\* stored the row it replaced with only the patched fields changed, so no
\* field another request wrote is reverted by a patch that did not name it.
NoLostUpdate ==
  \A w \in writes :
    op[w.by].kind = "update"
      => /\ w.old # NoRow
         /\ w.new = Apply(w.old, op[w.by].patch, w.new.updated_at)

\* A refusal is final: a request answered 404, 409 or 422 has written nothing,
\* and no statement of it that could still write is on its way.
RefusedMeansUnwritten ==
  \A r \in Requests :
    answer[r] \in Refusals
      => WritesOf(r) = {} /\ stmt[r] \notin {"insert", "update"}

\* A success is real and happens once: 201 and the 200 of an update mean this
\* request's row was stored under its id, and however a request ended, a
\* failed connection included, it has written at most once.
AcknowledgedMeansWritten ==
  \A r \in Requests :
    /\ \A v, w \in WritesOf(r) : v = w
    /\ (answer[r] = "created_201" \/ (answer[r] = "ok_200" /\ op[r].kind = "update"))
         => \E w \in WritesOf(r) : w.id = op[r].id /\ w.new = new[r]

\* The rows that have stood under an id.
RowsSeen(id) ==
  {table[id], InitialTable[id]} \cup {w.old : w \in {v \in writes : v.id = id}}
                               \cup {w.new : w \in {v \in writes : v.id = id}}

\* A conflict is never spurious: an update answered 409 either lost the row it
\* read to another request's write, or an open task with its title has stood
\* under another id.
NoSpuriousConflict ==
  \A r \in Requests :
    (answer[r] = "conflict_409" /\ op[r].kind = "update")
      => \/ \E w \in writes : w.by # r /\ w.id = op[r].id /\ w.old = cur[r]
         \/ /\ IsOpen(new[r])
            /\ \E other \in TaskIds \ {op[r].id} : \E row \in RowsSeen(other) :
                 /\ IsOpen(row)
                 /\ Lower[row.title] = Lower[new[r].title]

\* What an answer tells the client is so: a refusal wrote nothing, a success was
\* written once, and a conflict had a cause.
AnswersAreTrue ==
  RefusedMeansUnwritten /\ AcknowledgedMeansWritten /\ NoSpuriousConflict

\* The read-modify-write over separate statements implements the indivisible
\* patch of AtomicTasks.  The mapping is the identity on the table; every other
\* variable is implementation.
Atomic == INSTANCE AtomicTasks WITH table <- table, Patches <- Patches
AtomicUpdates == Atomic!Spec
=============================================================================
