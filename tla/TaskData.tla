------------------------------ MODULE TaskData ------------------------------
(***************************************************************************)
(* The reference task as data: project/domain/reference_task.py, the       *)
(* partial unique index of the table, and the patch an update applies.     *)
(* Only what the rules tell apart is kept: a title or a details text is a  *)
(* model value, and a time stamp is a value that is only compared for      *)
(* equality, which is all the optimistic token does with it.               *)
(***************************************************************************)
CONSTANTS
  TaskIds,       \* the uuid4 values of this instance
  Titles,        \* titles check_title accepts
  BadTitles,     \* null, blank, too long, or with NUL
  Lower,         \* Lower[t]: the spelling lower(title) indexes
  Details,       \* details check_details accepts, null among them
  BadDetails,    \* too long, or with NUL
  BadStatuses,   \* null, or outside ALLOWED_STATUSES
  Stamps,        \* values datetime.now(timezone.utc) may return
  Keep,          \* the UNCHANGED sentinel: the field is not in the patch
  NoRow          \* the miss: no row with this id

ALLOWED_STATUSES == {"pending", "in_progress", "done"}
DEFAULT_STATUS == "pending"
CLOSED_STATUS == "done"

Row == [title: Titles, details: Details, status: ALLOWED_STATUSES,
        created_at: Stamps, updated_at: Stamps]

MaybeRow == Row \cup {NoRow}

Patch == [title: Titles \cup BadTitles \cup {Keep},
          details: Details \cup BadDetails \cup {Keep},
          status: ALLOWED_STATUSES \cup BadStatuses \cup {Keep}]

\* The sentinels are told apart from the values they stand beside, a value a
\* check accepts is not one it refuses, and Lower is total on titles.
ASSUME DataAssumption ==
  /\ NoRow \notin Row
  /\ Keep \notin Titles \cup BadTitles \cup Details \cup BadDetails
                 \cup ALLOWED_STATUSES \cup BadStatuses
  /\ Titles \cap BadTitles = {}
  /\ Details \cap BadDetails = {}
  /\ ALLOWED_STATUSES \cap BadStatuses = {}
  /\ DOMAIN Lower = Titles

\* check_title, check_details and check_status on the fields a patch names.
Valid(p) ==
  /\ p.title \notin BadTitles
  /\ p.details \notin BadDetails
  /\ p.status \notin BadStatuses

NamesNothing(p) == p.title = Keep /\ p.details = Keep /\ p.status = Keep

Patched(old, given) == IF given = Keep THEN old ELSE given

\* dataclasses.replace(current, ...): the fields the patch names, a new stamp,
\* and every other field as it was.
Apply(row, p, now) ==
  [title      |-> Patched(row.title, p.title),
   details    |-> Patched(row.details, p.details),
   status     |-> Patched(row.status, p.status),
   created_at |-> row.created_at,
   updated_at |-> now]

NewRow(title, details, now) ==
  [title |-> title, details |-> details, status |-> DEFAULT_STATUS,
   created_at |-> now, updated_at |-> now]

IsOpen(row) == row # NoRow /\ row.status # CLOSED_STATUS

\* Mutant: an index on title, without lower().
TitleTakenExactly(tbl, id, row) ==
  /\ IsOpen(row)
  /\ \E other \in TaskIds \ {id} : IsOpen(tbl[other]) /\ tbl[other].title = row.title

\* uq_reference_tasks_open_title: would storing row at id put two open rows
\* under one lower(title)?
TitleTaken(tbl, id, row) ==
  /\ IsOpen(row)
  /\ \E other \in TaskIds \ {id} :
        /\ IsOpen(tbl[other])
        /\ Lower[tbl[other].title] = Lower[row.title]

OneOpenTaskPerTitle(tbl) ==
  \A i, j \in TaskIds :
    (i # j /\ IsOpen(tbl[i]) /\ IsOpen(tbl[j]))
      => Lower[tbl[i].title] # Lower[tbl[j].title]
=============================================================================
