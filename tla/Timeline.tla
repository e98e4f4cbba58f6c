---------------------------- MODULE Timeline ----------------------------
(***************************************************************************)
(* The action timeline and undo: a row per reversible action, holding the  *)
(* inverse call that takes it back, and the backlog items and calendar     *)
(* events the actions and their inverses change.                           *)
(*                                                                         *)
(* Tool calls, board moves and timeline_undo run one at a time on the event*)
(* loop; the web API's undo runs in a thread of the pool beside it.        *)
(* The backlog tools read, check and write an item under the vault's lock; *)
(* board.store.write_status reads and writes it without.                   *)
(* Not here: rows that cannot be undone (mail, the undo rows themselves,   *)
(* except as logged[r]) and memory rows (see MemoryVault).                 *)
(***************************************************************************)
EXTENDS Naturals, FiniteSets

CONSTANTS
    Rows,         \* ids of the reversible rows the log may ever hold
    Items,        \* backlog items, one file each
    Events,       \* calendar events
    Users,
    Rank,         \* Rank[u]: the user's role on the project, by index in ROLES
    Loop,         \* the event loop: the one handler running on it
    Threads,      \* web undo requests in the thread pool
    Statuses,     \* item statuses (VALID_STATUSES)
    MaxVersion    \* bound: calls on the loop stop changing an item there

Collaborator == 1
Owner        == 2
Handlers     == {Loop} \union Threads
Objects      == Items \union Events

ASSUME RowsAssumption     == Rows # {}
ASSUME ObjectsAssumption  == Items # {} /\ Items \intersect Events = {}
ASSUME UsersAssumption    == Users # {}
ASSUME RankAssumption     == Rank \in [Users -> 0..Owner]
ASSUME StatusesAssumption == {"inbox", "rejected"} \subseteq Statuses
ASSUME BoundAssumption    == MaxVersion \in Nat

Kinds   == {"backlog_add", "board_move", "calendar_create"}
Steps   == {"idle", "record", "claim", "invert", "write", "fail", "log", "link",
            "done"}
Answers == {"none", "ok", "failed", "conflict", "error"}

VARIABLES
    exists,     \* the objects there are
    gone,       \* the events that were deleted; an id is never used again
    status,     \* status[i]: the item's status, in its front matter
    version,    \* version[i]: the item's version, in its front matter
    kind,       \* actions.tool, "none" before the INSERT
    object,     \* what the row's inverse is about
    back,       \* back[r]: the status a board move's inverse puts back
    state,      \* actions.status
    logged,     \* logged[r]: a row with undo_of = r has been recorded
    linked,     \* linked[r]: row r's undo_action_id is set
    inverted,   \* observer: how often row r's inverse took effect
    left,       \* observer: the item's version after the action of row r
    lock,       \* the holder of the vault's lock, a set of at most one
    act         \* act[h]: what handler h is doing

things == <<exists, gone, status, version>>
log    == <<kind, object, back, state, logged, linked, inverted, left>>
vars   == <<exists, gone, status, version, kind, object, back, state, logged, linked,
            inverted, left, lock, act>>

------------------------------------------------------------------------
(* Handler records *)

Ops == Kinds \union {"backlog_set_status", "backlog_edit", "timeline_undo"}

Call == [step : Steps, op : Ops, user : Users, obj : Objects, row : Rows,
         to : Statuses, old : Statuses, seen : Nat, answer : Answers]

ARow == CHOOSE r \in Rows : TRUE

\* A call of op by u about o, standing at step s.
Start(op, u, o, s) ==
    [step |-> s, op |-> op, user |-> u, obj |-> o, row |-> ARow, to |-> "inbox",
     old |-> "inbox", seen |-> 0, answer |-> "none"]

AUser == CHOOSE u \in Users : TRUE
AnItem == CHOOSE i \in Items : TRUE

Idle == Start("backlog_add", AUser, AnItem, "idle")

Free(h)    == act[h].step \in {"idle", "done"}
Goto(h, s) == act' = [act EXCEPT ![h].step = s]

\* Handler h answers; of an undo, the row it was about is remembered.
Finish(h, ans) ==
    act' = [act EXCEPT ![h] = [Idle EXCEPT !.step = "done", !.op = act[h].op,
                                           !.row = act[h].row, !.answer = ans]]

\* Handler h has claimed row r and is to invert it or to say that it could not.
Undoing(h, r) ==
    /\ act[h].op = "timeline_undo"
    /\ act[h].row = r
    /\ act[h].step \in {"invert", "write", "fail", "log", "link"}

Init ==
    /\ exists   = {}
    /\ gone     = {}
    /\ status   = [i \in Items |-> "inbox"]
    /\ version  = [i \in Items |-> 0]
    /\ kind     = [r \in Rows |-> "none"]
    /\ object   = [r \in Rows |-> AnItem]
    /\ back     = [r \in Rows |-> "inbox"]
    /\ state    = [r \in Rows |-> "done"]
    /\ logged   = [r \in Rows |-> FALSE]
    /\ linked   = [r \in Rows |-> FALSE]
    /\ inverted = [r \in Rows |-> 0]
    /\ left     = [r \in Rows |-> 0]
    /\ lock     = {}
    /\ act      = [h \in Handlers |-> Idle]

------------------------------------------------------------------------
(* The calls that are recorded, all on the event loop *)

\* backlog_add writes a new file under the lock, as version 1 in the inbox.
AddItem(u, i) ==
    /\ Free(Loop)
    /\ Rank[u] >= Collaborator
    /\ lock = {}
    /\ i \notin exists
    /\ exists'  = exists \union {i}
    /\ status'  = [status EXCEPT ![i] = "inbox"]
    /\ version' = [version EXCEPT ![i] = 1]
    /\ act' = [act EXCEPT ![Loop] = Start("backlog_add", u, i, "record")]
    /\ UNCHANGED <<gone, log, lock>>

\* calendar_create, not held back for review.
CreateEvent(u, e) ==
    /\ Free(Loop)
    /\ Rank[u] >= Collaborator
    /\ e \notin exists \union gone
    /\ exists' = exists \union {e}
    /\ act' = [act EXCEPT ![Loop] = Start("calendar_create", u, e, "record")]
    /\ UNCHANGED <<gone, status, version, log, lock>>

\* calendar_delete leaves no row: it has no inverse.
DeleteEvent(u, e) ==
    /\ Free(Loop)
    /\ Rank[u] >= Collaborator
    /\ e \in exists
    /\ exists' = exists \ {e}
    /\ gone' = gone \union {e}
    /\ UNCHANGED <<status, version, log, lock, act>>

\* api_item_patch: an owner moves a card; write_status reads it without a lock.
MoveItem(u, i, s) ==
    /\ Free(Loop)
    /\ Rank[u] >= Owner
    /\ i \in exists
    /\ version[i] < MaxVersion
    /\ act' = [act EXCEPT ![Loop] =
                 [Start("board_move", u, i, "write") EXCEPT
                    !.to = s, !.old = status[i], !.seen = version[i]]]
    /\ UNCHANGED <<things, log, lock>>

\* A backlog tool given the version the item has: under the lock it is read and
\* checked.  With any other version nothing changes.
Rewrite(op, u, i, s) ==
    /\ Free(Loop)
    /\ lock = {}
    /\ i \in exists
    /\ version[i] < MaxVersion
    /\ lock' = {Loop}
    /\ act' = [act EXCEPT ![Loop] =
                 [Start(op, u, i, "write") EXCEPT
                    !.to = s, !.old = status[i], !.seen = version[i]]]
    /\ UNCHANGED <<things, log>>

SetStatus(u, i, s) == Rank[u] >= Owner /\ Rewrite("backlog_set_status", u, i, s)

\* The others write the status they have read with the rest of the item.
Score(u, i)   == Rank[u] >= Collaborator /\ Rewrite("backlog_edit", u, i, status[i])
Comment(u, i) == Rank[u] >= Collaborator /\ Rewrite("backlog_edit", u, i, status[i])
Assign(u, i)  == Rank[u] >= Owner /\ Rewrite("backlog_edit", u, i, status[i])

\* The file as it was read, with the new status and the next version, replaces
\* whatever the file is by now.  The lock, if taken, is let go.
Write(h) ==
    LET c == act[h] IN
    /\ c.step = "write"
    /\ status'  = [status EXCEPT ![c.obj] = c.to]
    /\ version' = [version EXCEPT ![c.obj] = c.seen + 1]
    /\ lock' = lock \ {h}
    /\ \/ c.op = "timeline_undo" /\ Goto(h, "log")
       \/ c.op = "board_move" /\ c.old # c.to /\ Goto(h, "record")
       \/ c.op = "board_move" /\ c.old = c.to /\ Finish(h, "none")
       \/ c.op \in {"backlog_set_status", "backlog_edit"} /\ Finish(h, "none")
    /\ inverted' = IF c.op = "timeline_undo" THEN [inverted EXCEPT ![c.row] = @ + 1]
                                             ELSE inverted
    /\ UNCHANGED <<exists, gone, kind, object, back, state, logged, linked, left>>

\* ActionsStore.record after the call succeeded; a failing log is swallowed.
Record(h) ==
    LET c == act[h] IN
    /\ c.step = "record"
    /\ \/ \E r \in Rows :
            /\ kind[r] = "none"
            /\ kind'   = [kind EXCEPT ![r] = c.op]
            /\ object' = [object EXCEPT ![r] = c.obj]
            /\ back'   = [back EXCEPT ![r] = c.old]
            /\ left'   = [left EXCEPT ![r] = c.seen + 1]
       \/ UNCHANGED <<kind, object, back, left>>
    /\ Finish(h, "none")
    /\ UNCHANGED <<things, state, logged, linked, inverted, lock>>

------------------------------------------------------------------------
(* Undo *)

\* _NEED_FOR_TOOL: what the action needed, its undo needs.
NeedForTool(k) == IF k = "board_move" THEN Owner ELSE Collaborator

\* The row is read, must still be "done", and the caller's role is enforced.
BeginUndo(h, u, r) ==
    /\ Free(h)
    /\ kind[r] # "none"
    /\ state[r] = "done"
    /\ Rank[u] >= NeedForTool(kind[r])
    /\ act' = [act EXCEPT ![h] =
                 [Start("timeline_undo", u, object[r], "claim") EXCEPT !.row = r]]
    /\ UNCHANGED <<things, log, lock>>

\* trusts the row as it was read at the start
ClaimStaleMutant(h) ==
    LET r == act[h].row IN
    /\ act[h].step = "claim"
    /\ state' = [state EXCEPT ![r] = "undone"]
    /\ Goto(h, "invert")
    /\ UNCHANGED <<things, kind, object, back, logged, linked, inverted, left, lock>>

\* claim_undo: UPDATE ... SET status='undone' WHERE id=? AND status='done'.
ClaimUndo(h) ==
    LET r == act[h].row IN
    /\ act[h].step = "claim"
    /\ IF state[r] = "done"
       THEN state' = [state EXCEPT ![r] = "undone"] /\ Goto(h, "invert")
       ELSE Finish(h, "conflict") /\ UNCHANGED state
    /\ UNCHANGED <<things, kind, object, back, logged, linked, inverted, left, lock>>

\* calendar_delete: of an event that is gone it raises, and of one that is there
\* it may raise before the event is deleted or after.
InvertCreate(h) ==
    LET c == act[h] IN
    /\ c.step = "invert"
    /\ kind[c.row] = "calendar_create"
    /\ \/ Goto(h, "fail") /\ UNCHANGED <<exists, gone, inverted>>
       \/ /\ c.obj \in exists
          /\ exists'   = exists \ {c.obj}
          /\ gone'     = gone \union {c.obj}
          /\ inverted' = [inverted EXCEPT ![c.row] = @ + 1]
          /\ Goto(h, "log") \/ Goto(h, "fail")
    /\ UNCHANGED <<status, version, kind, object, back, state, logged, linked, left, lock>>

\* _board_move_undo: write_status without an expected version.  It raises when the
\* vault or the file is gone, or when the status the card had, written by hand
\* into its file, is none a card may be given.
InvertMove(h) ==
    LET c == act[h] IN
    /\ c.step = "invert"
    /\ kind[c.row] = "board_move"
    /\ \/ Goto(h, "fail")
       \/ act' = [act EXCEPT ![h].step = "write", ![h].to = back[c.row],
                             ![h].old = status[c.obj], ![h].seen = version[c.obj]]
    /\ UNCHANGED <<things, log, lock>>

\* backlog_set_status(rejected, expected_version=1): it wants an owner, whoever
\* may undo, and then refuses an item that has changed.
InvertAdd(h) ==
    LET c == act[h] IN
    /\ c.step = "invert"
    /\ kind[c.row] = "backlog_add"
    /\ \/ Rank[c.user] < Owner /\ Goto(h, "fail") /\ UNCHANGED lock
       \/ /\ Rank[c.user] >= Owner
          /\ lock = {}
          /\ IF version[c.obj] # 1
             THEN Goto(h, "fail") /\ UNCHANGED lock
             ELSE /\ lock' = {h}
                  /\ act' = [act EXCEPT ![h].step = "write", ![h].to = "rejected",
                                        ![h].old = status[c.obj], ![h].seen = 1]
    /\ UNCHANGED <<things, log>>

\* reports the error and leaves the row as the claim left it
MarkFailedMutant(h) ==
    /\ act[h].step = "fail"
    /\ Finish(h, "failed")
    /\ UNCHANGED <<things, log, lock>>

\* mark_undo_failed, on a refusal, a conflict or an exception.
MarkFailed(h) ==
    /\ act[h].step = "fail"
    /\ state' = [state EXCEPT ![act[h].row] = "undo_failed"]
    /\ Finish(h, "failed")
    /\ UNCHANGED <<things, kind, object, back, logged, linked, inverted, left, lock>>

\* The undo is itself recorded, with undo_of and no inverse ...
LogUndo(h) ==
    /\ act[h].step = "log"
    /\ logged' = [logged EXCEPT ![act[h].row] = TRUE]
    /\ Goto(h, "link")
    /\ UNCHANGED <<things, kind, object, back, state, linked, inverted, left, lock>>

\* ... and then the row it undid is linked to it.
LinkUndo(h) ==
    /\ act[h].step = "link"
    /\ linked' = [linked EXCEPT ![act[h].row] = TRUE]
    /\ Finish(h, "ok")
    /\ UNCHANGED <<things, kind, object, back, state, logged, inverted, left, lock>>

\* The process dies, or SQLite raises: the call ends where it is and nothing
\* picks it up again.  Its lock is free.
Fail(h) ==
    /\ ~Free(h)
    /\ lock' = lock \ {h}
    /\ Finish(h, "error")
    /\ UNCHANGED <<things, log>>

Work(h) == \/ Write(h) \/ Record(h) \/ ClaimUndo(h)
           \/ InvertCreate(h) \/ InvertMove(h) \/ InvertAdd(h)
           \/ MarkFailed(h) \/ LogUndo(h) \/ LinkUndo(h)

Next ==
    \/ \E u \in Users, i \in Items : AddItem(u, i)
    \/ \E u \in Users, e \in Events : CreateEvent(u, e) \/ DeleteEvent(u, e)
    \/ \E u \in Users, i \in Items, s \in Statuses : MoveItem(u, i, s) \/ SetStatus(u, i, s)
    \/ \E u \in Users, i \in Items : Score(u, i) \/ Comment(u, i) \/ Assign(u, i)
    \/ \E h \in Handlers, u \in Users, r \in Rows : BeginUndo(h, u, r)
    \/ \E h \in Handlers : Work(h) \/ Fail(h)

Spec == Init /\ [][Next]_vars

\* A call is straight-line code, and one that waits for the vault's lock gets it.
FairSpec == Spec /\ \A h \in Handlers : WF_vars(Work(h)) /\ SF_vars(InvertAdd(h))

------------------------------------------------------------------------
(* What must hold *)

\* Every variable keeps to its type.
TypeOK ==
    /\ exists   \subseteq Objects
    /\ gone     \subseteq Events
    /\ status   \in [Items -> Statuses]
    /\ version  \in [Items -> Nat]
    /\ kind     \in [Rows -> Kinds \union {"none"}]
    /\ object   \in [Rows -> Objects]
    /\ back     \in [Rows -> Statuses]
    /\ state    \in [Rows -> {"done", "undone", "undo_failed"}]
    /\ logged   \in [Rows -> BOOLEAN]
    /\ linked   \in [Rows -> BOOLEAN]
    /\ inverted \in [Rows -> Nat]
    /\ left     \in [Rows -> Nat]
    /\ lock     \subseteq Handlers
    /\ act      \in [Handlers -> Call]

\* A double click, from the chat and from the browser at once, undoes once; a row
\* that still says "done" has not been taken back, one that is linked to its undo
\* has, and an item whose undo failed was left alone by it.
UndoneAtMostOnce ==
    \A r \in Rows :
        /\ inverted[r] <= 1
        /\ state[r] = "done" => inverted[r] = 0
        /\ logged[r] => state[r] = "undone" /\ inverted[r] = 1
        /\ linked[r] => logged[r]
        /\ state[r] = "undo_failed" /\ kind[r] # "calendar_create" => inverted[r] = 0

\* What the caller of timeline_undo is told stays true of the row.
AnswersStayTrue ==
    \A h \in Handlers :
        act[h].op = "timeline_undo" =>
            /\ act[h].answer = "ok"       => linked[act[h].row] /\ inverted[act[h].row] = 1
            /\ act[h].answer = "failed"   => state[act[h].row] = "undo_failed"
            /\ act[h].answer = "conflict" => state[act[h].row] # "done"

\* Whoever writes item i with handler h may move it, or writes back the status it had
\* when they read it.
MayWrite(h, i) ==
    /\ act[h].step = "write"
    /\ act[h].obj = i
    /\ Rank[act[h].user] >= Owner \/ (act[h].op = "backlog_edit" /\ act[h].to = act[h].old)

\* Undo is no way around the board: an item gets a new status from an owner only, by a
\* move, by a tool call or by taking another's action back; what a collaborator's edit
\* can do to it is to bring back the one it was read with.
OnlyOwnersMove ==
    [][\A i \in Items :
         i \in exists /\ status'[i] # status[i] => \E h \in Handlers : MayWrite(h, i)]_vars

\* A row someone has claimed is undone and linked, or marked as failed, unless
\* the undo dies on the way (then the row says "undone", whatever happened).
ClaimedUndoResolves ==
    \A r \in Rows :
        (\E h \in Handlers : Undoing(h, r)) ~>
            \/ linked[r]
            \/ state[r] = "undo_failed"
            \/ \E h \in Handlers : act[h].row = r /\ act[h].answer = "error"

\* An inverse call is promised what an outbox action is: taken on by one caller,
\* happening at most once, and with a recorded outcome that is final.
Phase(r) ==
    IF kind[r] = "none" THEN "absent"
    ELSE IF state[r] = "done" THEN "pending"
    ELSE IF state[r] = "undo_failed" THEN "failed"
    ELSE IF linked[r] THEN "executed"
    ELSE "approved"

Promise == INSTANCE OutboxPromise WITH
               Actions <- Rows, status <- [r \in Rows |-> Phase(r)], happened <- inverted
KeepsThePromise == Promise!Spec

------------------------------------------------------------------------
(* Why it holds: what a row says of itself, what a call at each of its steps *)
(* may rely on, and that two calls never invert the same row                 *)

IsAbout(k, o) == IF k = "calendar_create" THEN o \in Events ELSE o \in Items

RowInv(r) ==
    /\ kind[r] = "none" => state[r] = "done"
    /\ kind[r] # "none" => IsAbout(kind[r], object[r])
    /\ inverted[r] <= 1
    /\ state[r] = "done" => inverted[r] = 0
    /\ logged[r] => state[r] = "undone" /\ inverted[r] = 1
    /\ linked[r] => logged[r]
    /\ state[r] = "undo_failed" /\ kind[r] # "calendar_create" => inverted[r] = 0

CallInv(h, r) ==
    /\ act[h].step \in {"claim", "invert", "fail", "log", "link"} => act[h].op = "timeline_undo"
    /\ act[h].step = "record" =>
         act[h].op \in Kinds /\ IsAbout(act[h].op, act[h].obj)
    /\ act[h].step = "write" => MayWrite(h, act[h].obj) /\ act[h].obj \in Items
    /\ act[h].op = "timeline_undo" =>
         /\ act[h].step # "record"
         /\ act[h].step \in {"claim", "invert"} =>
              /\ kind[r] # "none" /\ Rank[act[h].user] >= NeedForTool(kind[r])
              /\ act[h].obj = object[r]
         /\ Undoing(h, r) => kind[r] # "none" /\ state[r] = "undone" /\ ~linked[r]
         /\ act[h].step \in {"invert", "write"} => inverted[r] = 0
         /\ act[h].step = "fail" => ~logged[r] /\ (kind[r] = "calendar_create" \/ inverted[r] = 0)
         /\ act[h].step = "log"  => inverted[r] = 1
         /\ act[h].step = "link" => logged[r]
         /\ act[h].answer = "ok"       => linked[r]
         /\ act[h].answer = "failed"   => state[r] = "undo_failed"
         /\ act[h].answer = "conflict" => state[r] # "done"

UndoerIsAlone ==
    \A r \in Rows, g, h \in Handlers : Undoing(g, r) /\ Undoing(h, r) => g = h

IInv ==
    /\ TypeOK
    /\ \A r \in Rows : RowInv(r)
    /\ \A h \in Handlers : CallInv(h, act[h].row)
    /\ UndoerIsAlone

------------------------------------------------------------------------
(* What a document and a comment say and the code does not do *)

\* docs/FEATURE-UNDO-TIMELINE.md: when the item has changed since the action, an
\* undo says so and does not overwrite it.
UndoRefusesLaterChange ==
    [][\A r \in Rows :
         inverted'[r] # inverted[r] /\ object[r] \in Items =>
             version[object[r]] = left[r]]_vars

\* tools/backlog.py: a call whose expected_version is no longer the file's makes
\* no changes.
CheckedWriteIsCurrent ==
    [][\A h \in Handlers :
         h \in lock /\ act[h].step = "write" /\ act'[h].step # "write"
            /\ <<status, version>>' # <<status, version>> =>
             version[act[h].obj] = act[h].seen]_vars
=============================================================================
