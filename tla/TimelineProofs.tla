------------------------ MODULE TimelineProofs ------------------------
(***************************************************************************)
(* Proofs about the timeline and undo, for any number of rows, items,      *)
(* events, users and threads, and whatever the bound on versions; and,     *)
(* from the task graph on, about the planning engine, for any projects,    *)
(* tasks, dependencies, people, leaves, changes and processes: its graph,  *)
(* the slack its critical path says, the plans its allocation makes, and   *)
(* what is stored of them.                                                 *)
(***************************************************************************)
EXTENDS Timeline, Planning, FiniteSetTheorems, WellFoundedInduction, TLAPS

LEMMA ConstantsExist ==
  /\ ARow \in Rows /\ AUser \in Users /\ AnItem \in Items /\ AnItem \in Objects
  /\ {"inbox", "rejected"} \subseteq Statuses
  BY RowsAssumption, UsersAssumption, ObjectsAssumption, StatusesAssumption
  DEF ARow, AUser, AnItem, Objects

LEMMA StartIsCall ==
  ASSUME NEW op \in Ops, NEW u \in Users, NEW o \in Objects, NEW s \in Steps
  PROVE  Start(op, u, o, s) \in Call
  BY ConstantsExist, Zenon DEF Start, Call, Answers

\* The fields of a new call.
LEMMA StartFields ==
  ASSUME NEW op, NEW u, NEW o, NEW s
  PROVE  /\ Start(op, u, o, s).op = op /\ Start(op, u, o, s).user = u
         /\ Start(op, u, o, s).obj = o /\ Start(op, u, o, s).step = s
         /\ Start(op, u, o, s).row = ARow /\ Start(op, u, o, s).answer = "none"
  BY DEF Start

LEMMA IdleIsCall == Idle \in Call
  BY ConstantsExist, StartIsCall DEF Idle, Ops, Kinds, Steps

\* What Finish leaves of a call.
LEMMA FinishCall ==
  ASSUME TypeOK, NEW h \in Handlers, NEW ans \in Answers, Finish(h, ans)
  PROVE  \E c \in Call :
           /\ act' = [act EXCEPT ![h] = c]
           /\ c.step = "done" /\ c.op = act[h].op /\ c.row = act[h].row
           /\ c.answer = ans
  <1> DEFINE c == [Idle EXCEPT !.step = "done", !.op = act[h].op, !.row = act[h].row,
                               !.answer = ans]
  <1>1. act[h].op \in Ops /\ act[h].row \in Rows /\ "done" \in Steps
    BY DEF TypeOK, Call, Steps
  <1>2. c \in Call
    BY <1>1, IdleIsCall DEF Call
  <1>3. c.step = "done" /\ c.op = act[h].op /\ c.row = act[h].row /\ c.answer = ans
    BY <1>1, IdleIsCall DEF Call
  <1> QED
    BY <1>2, <1>3 DEF Finish

\* What Goto leaves of a call.
LEMMA GotoCall ==
  ASSUME TypeOK, NEW h \in Handlers, NEW s \in Steps, Goto(h, s)
  PROVE  \E c \in Call :
           /\ act' = [act EXCEPT ![h] = c]
           /\ c.step = s /\ c.op = act[h].op /\ c.row = act[h].row
           /\ c.user = act[h].user /\ c.obj = act[h].obj /\ c.answer = act[h].answer
           /\ c.seen = act[h].seen /\ c.old = act[h].old
  <1> DEFINE c == [act[h] EXCEPT !.step = s]
  <1>1. act[h] \in Call
    BY DEF TypeOK
  <1>2. c \in Call /\ c.step = s /\ c.op = act[h].op /\ c.row = act[h].row
        /\ c.user = act[h].user /\ c.obj = act[h].obj /\ c.answer = act[h].answer
        /\ c.seen = act[h].seen /\ c.old = act[h].old
    BY <1>1 DEF Call
  <1>3. act' = [act EXCEPT ![h] = c]
    BY DEF Goto
  <1> QED
    BY <1>2, <1>3

------------------------------------------------------------------------
(* The inductive invariant.  A step touches at most one row and one call;  *)
(* the others keep their part by the frame lemmas.                         *)

LEMMA RowFrame ==
  ASSUME NEW r \in Rows, RowInv(r),
         UNCHANGED <<kind[r], object[r], state[r], logged[r], linked[r], inverted[r]>>
  PROVE  RowInv(r)'
  BY DEF RowInv

LEMMA CallFrame ==
  ASSUME NEW h \in Handlers, CallInv(h, act[h].row), UNCHANGED act[h],
         UNCHANGED <<kind[act[h].row], object[act[h].row], state[act[h].row],
                     logged[act[h].row], linked[act[h].row], inverted[act[h].row]>>
  PROVE  CallInv(h, act[h].row)'
  BY DEF CallInv, MayWrite, Undoing, NeedForTool

\* A call that is inverting nothing changes and no row does.
LEMMA CallOnly ==
  ASSUME IInv, NEW h \in Handlers, NEW c \in Call, act' = [act EXCEPT ![h] = c],
         UNCHANGED <<kind, object, state, logged, linked, inverted>>,
         Undoing(h, c.row)' => Undoing(h, c.row)
  PROVE  /\ \A r \in Rows : RowInv(r)'
         /\ \A g \in Handlers : g # h => CallInv(g, act[g].row)'
         /\ UndoerIsAlone'
  <1>0. act'[h] = c /\ \A g \in Handlers : g # h => act'[g] = act[g]
    BY DEF IInv, TypeOK
  <1>1. \A r \in Rows : RowInv(r)'
    BY RowFrame DEF IInv
  <1>2. \A g \in Handlers : g # h => CallInv(g, act[g].row)'
    BY <1>0, CallFrame DEF IInv
  <1>3. \A r \in Rows, g \in Handlers : Undoing(g, r)' => Undoing(g, r)
    BY <1>0 DEF Undoing
  <1>4. UndoerIsAlone'
    BY <1>3 DEF IInv, UndoerIsAlone
  <1> QED
    BY <1>1, <1>2, <1>4

\* The call that holds row b changes it: nobody else holds it or has been told
\* anything of it.
LEMMA UndoerKeeps ==
  ASSUME IInv, NEW h \in Handlers, NEW c \in Call, act' = [act EXCEPT ![h] = c],
         NEW b \in Rows, Undoing(h, b), c.row = b,
         UNCHANGED <<kind, object>>, state'[b] # "done",
         \A r \in Rows : r # b => UNCHANGED <<state[r], logged[r], linked[r], inverted[r]>>
  PROVE  /\ \A r \in Rows : r # b => RowInv(r)'
         /\ \A g \in Handlers : g # h => CallInv(g, act[g].row)'
         /\ UndoerIsAlone'
  <1>0. act'[h] = c /\ (\A g \in Handlers : g # h => act'[g] = act[g])
        /\ \A g \in Handlers : act[g].row \in Rows
    BY DEF IInv, TypeOK, Call
  <1>1. \A r \in Rows : r # b => RowInv(r)'
    BY RowFrame DEF IInv
  <1>2. ASSUME NEW g \in Handlers, g # h
        PROVE  CallInv(g, act[g].row)'
    <2>1. CASE act[g].row # b
      BY <1>0, <1>2, <2>1, CallFrame DEF IInv
    <2>2. CASE act[g].row = b
      <3>1. CallInv(g, b) /\ ~Undoing(g, b) /\ act'[g] = act[g]
        BY <1>0, <1>2, <2>2 DEF IInv, UndoerIsAlone
      <3>2. state[b] = "undone" /\ ~linked[b]
        BY <1>0 DEF IInv, CallInv, Undoing
      <3>3. CASE act[g].op = "timeline_undo"
        <4>1. act[g].step \notin {"invert", "write", "fail", "log", "link"}
          BY <2>2, <3>1, <3>3 DEF Undoing
        <4>2. act[g].answer \notin {"ok", "failed"}
          BY <3>1, <3>2, <3>3 DEF CallInv
        <4> QED
          BY <2>2, <3>1, <3>3, <4>1, <4>2 DEF CallInv, Undoing, NeedForTool
      <3>4. CASE act[g].op # "timeline_undo"
        BY <2>2, <3>1, <3>4 DEF CallInv, MayWrite
      <3> QED
        BY <3>3, <3>4
    <2> QED
      BY <2>1, <2>2
  <1>3. \A r \in Rows, g \in Handlers : Undoing(g, r)' => Undoing(g, r)
    BY <1>0 DEF Undoing
  <1>4. UndoerIsAlone'
    BY <1>3 DEF IInv, UndoerIsAlone
  <1> QED
    BY <1>1, <1>2, <1>4

------------------------------------------------------------------------
(* Types *)

LEMMA TypeInit == Init => TypeOK
  BY ConstantsExist, IdleIsCall DEF Init, TypeOK, Objects

\* The kind of a row says what its object is, which a write relies on.
LEMMA TypeStep == IInv /\ [Next]_vars => TypeOK'
  <1> SUFFICES ASSUME IInv, [Next]_vars
               PROVE  TypeOK'
    OBVIOUS
  <1>0. TypeOK /\ (\A h \in Handlers : act[h] \in Call) /\ Loop \in Handlers
    BY DEF IInv, TypeOK, Handlers
  <1> USE DEF TypeOK
  <1>1. ASSUME NEW u \in Users, NEW i \in Items, AddItem(u, i)
        PROVE  TypeOK'
    <2>1. Start("backlog_add", u, i, "record") \in Call
      BY StartIsCall DEF Ops, Kinds, Steps, Objects
    <2> QED
      BY <1>0, <1>1, <2>1, ConstantsExist DEF AddItem, log, Objects
  <1>2. ASSUME NEW u \in Users, NEW e \in Events, CreateEvent(u, e)
        PROVE  TypeOK'
    <2>1. Start("calendar_create", u, e, "record") \in Call
      BY StartIsCall DEF Ops, Kinds, Steps, Objects
    <2> QED
      BY <1>0, <1>2, <2>1 DEF CreateEvent, log, Objects
  <1>3. ASSUME NEW u \in Users, NEW e \in Events, DeleteEvent(u, e)
        PROVE  TypeOK'
    BY <1>0, <1>3 DEF DeleteEvent, log
  <1>4. ASSUME NEW u \in Users, NEW i \in Items, NEW s \in Statuses,
               NEW op \in {"board_move", "backlog_set_status", "backlog_edit"}
        PROVE  [Start(op, u, i, "write") EXCEPT
                  !.to = s, !.old = status[i], !.seen = version[i]] \in Call
    <2>1. Start(op, u, i, "write") \in Call
      BY StartIsCall DEF Ops, Kinds, Steps, Objects
    <2>2. status[i] \in Statuses /\ version[i] \in Nat
      BY <1>0
    <2> QED
      BY <2>1, <2>2 DEF Call
  <1>5. ASSUME NEW u \in Users, NEW i \in Items, NEW s \in Statuses,
               MoveItem(u, i, s) \/ SetStatus(u, i, s)
        PROVE  TypeOK'
    <2>1. \E c \in Call : act' = [act EXCEPT ![Loop] = c]
      BY <1>4, <1>5, Zenon DEF MoveItem, SetStatus, Rewrite
    <2>2. lock' \subseteq Handlers /\ UNCHANGED <<things, log>>
      BY <1>0, <1>5 DEF MoveItem, SetStatus, Rewrite
    <2> QED
      BY <1>0, <2>1, <2>2 DEF things, log
  <1>17. ASSUME NEW u \in Users, NEW i \in Items, Score(u, i) \/ Comment(u, i) \/ Assign(u, i)
         PROVE  TypeOK'
    <2>1. status[i] \in Statuses /\ Rewrite("backlog_edit", u, i, status[i])
      BY <1>0, <1>17 DEF Score, Comment, Assign
    <2>2. \E c \in Call : act' = [act EXCEPT ![Loop] = c]
      BY <1>4, <2>1, Zenon DEF Rewrite
    <2>3. lock' \subseteq Handlers /\ UNCHANGED <<things, log>>
      BY <1>0, <2>1 DEF Rewrite
    <2> QED
      BY <1>0, <2>2, <2>3 DEF things, log
  <1>6. ASSUME NEW h \in Handlers, NEW s \in Steps, Goto(h, s)
        PROVE  act' \in [Handlers -> Call]
    BY <1>0, <1>6, GotoCall
  <1>7. ASSUME NEW h \in Handlers, NEW ans \in Answers, Finish(h, ans)
        PROVE  act' \in [Handlers -> Call]
    BY <1>0, <1>7, FinishCall
  <1>8. ASSUME NEW h \in Handlers, Write(h)
        PROVE  TypeOK'
    <2>1. /\ act[h].to \in Statuses /\ act[h].seen + 1 \in Nat /\ act[h].row \in Rows
          /\ act[h].obj \in Items
      BY <1>0, <1>8 DEF IInv, CallInv, Write, Call
    <2>2. act' \in [Handlers -> Call]
      BY <1>6, <1>7, <1>8 DEF Write, Steps, Answers
    <2>3. inverted[act[h].row] + 1 \in Nat
      BY <1>0, <2>1
    <2>4. inverted' \in [Rows -> Nat]
      BY <1>0, <1>8, <2>1, <2>3 DEF Write
    <2>5. status' \in [Items -> Statuses] /\ version' \in [Items -> Nat]
      BY <1>0, <1>8, <2>1 DEF Write
    <2> QED
      BY <1>0, <1>8, <2>2, <2>4, <2>5 DEF Write
  <1>9. ASSUME NEW h \in Handlers, Record(h)
        PROVE  TypeOK'
    <2>1. /\ act[h].op \in Kinds /\ act[h].obj \in Objects /\ act[h].old \in Statuses
          /\ act[h].seen + 1 \in Nat
      BY <1>0, <1>9 DEF IInv, CallInv, Record, Call
    <2> QED
      BY <1>0, <1>7, <1>9, <2>1 DEF Record, Answers, things
  <1>10. ASSUME NEW h \in Handlers, NEW u \in Users, NEW r \in Rows, BeginUndo(h, u, r)
         PROVE  TypeOK'
    <2>1. Start("timeline_undo", u, object[r], "claim") \in Call
      BY <1>0, StartIsCall DEF Ops, Steps
    <2>2. [Start("timeline_undo", u, object[r], "claim") EXCEPT !.row = r] \in Call
      BY <2>1 DEF Call
    <2> QED
      BY <1>0, <1>10, <2>2 DEF BeginUndo, things, log
  <1>11. ASSUME NEW h \in Handlers, ClaimUndo(h)
         PROVE  TypeOK'
    BY <1>0, <1>6, <1>7, <1>11 DEF ClaimUndo, things, Steps, Answers
  <1>12. ASSUME NEW h \in Handlers, InvertCreate(h)
         PROVE  TypeOK'
    <2>1. act' \in [Handlers -> Call]
      BY <1>6, <1>12 DEF InvertCreate, Steps
    <2>2. inverted[act[h].row] + 1 \in Nat /\ act[h].row \in Rows
      BY <1>0 DEF Call
    <2>3. inverted' \in [Rows -> Nat]
      BY <1>0, <1>12, <2>2 DEF InvertCreate
    <2>4. act[h].obj \in Events
      BY <1>0, <1>12, <2>2 DEF IInv, InvertCreate, CallInv, RowInv, IsAbout
    <2> QED
      BY <1>0, <1>12, <2>1, <2>3, <2>4 DEF InvertCreate
  <1>13. ASSUME NEW h \in Handlers, InvertMove(h)
         PROVE  TypeOK'
    <2> DEFINE c == [act[h] EXCEPT !.step = "write", !.to = back[act[h].row],
                                   !.old = status[act[h].obj],
                                   !.seen = version[act[h].obj]]
    <2>1. act[h].obj \in Items /\ act[h].row \in Rows
      BY <1>0, <1>13 DEF IInv, InvertMove, CallInv, RowInv, IsAbout, Call
    <2>2. /\ back[act[h].row] \in Statuses /\ status[act[h].obj] \in Statuses
          /\ version[act[h].obj] \in Nat /\ "write" \in Steps
      BY <1>0, <2>1 DEF Steps
    <2>3. c \in Call
      BY <1>0, <2>2 DEF Call
    <2>4. CASE act' = [act EXCEPT ![h] = c]
      BY <1>0, <1>13, <2>3, <2>4 DEF InvertMove, things, log
    <2>5. CASE Goto(h, "fail")
      BY <1>0, <1>6, <1>13, <2>5 DEF InvertMove, things, log, Steps
    <2> QED
      BY <1>13, <2>4, <2>5, Zenon DEF InvertMove
  <1>14. ASSUME NEW h \in Handlers, InvertAdd(h)
         PROVE  TypeOK'
    <2> DEFINE c == [act[h] EXCEPT !.step = "write", !.to = "rejected",
                                   !.old = status[act[h].obj], !.seen = 1]
    <2>1. CASE Goto(h, "fail") /\ UNCHANGED lock
      BY <1>0, <1>6, <1>14, <2>1 DEF InvertAdd, things, log, Steps
    <2>2. CASE act' = [act EXCEPT ![h] = c] /\ lock' = {h}
      <3>1. act[h].obj \in Items
        BY <1>0, <1>14 DEF IInv, InvertAdd, CallInv, RowInv, IsAbout, Call
      <3>2. status[act[h].obj] \in Statuses /\ "write" \in Steps
        BY <1>0, <3>1 DEF Steps
      <3>3. c \in Call
        BY <1>0, <3>2, ConstantsExist DEF Call
      <3> QED
        BY <1>0, <1>14, <2>2, <3>3 DEF InvertAdd, things, log
    <2> QED
      BY <1>14, <2>1, <2>2, Zenon DEF InvertAdd
  <1>15. ASSUME NEW h \in Handlers,
                MarkFailed(h) \/ LogUndo(h) \/ LinkUndo(h) \/ Fail(h)
         PROVE  TypeOK'
    <2>1. act' \in [Handlers -> Call]
      BY <1>6, <1>7, <1>15 DEF MarkFailed, LogUndo, LinkUndo, Fail, Steps, Answers
    <2> QED
      BY <1>0, <1>15, <2>1 DEF MarkFailed, LogUndo, LinkUndo, Fail, things, log
  <1>16. CASE UNCHANGED vars
    BY <1>0, <1>16 DEF vars
  <1> QED
    BY <1>1, <1>2, <1>3, <1>5, <1>8, <1>9, <1>10, <1>11, <1>12, <1>13, <1>14, <1>15,
       <1>16, <1>17 DEF Next, Work

------------------------------------------------------------------------
(* Every action keeps the invariant *)

LEMMA InvInit == Init => IInv
  <1> SUFFICES ASSUME Init PROVE IInv
    OBVIOUS
  <1>1. TypeOK
    BY TypeInit
  <1>2. \A r \in Rows : RowInv(r)
    BY DEF Init, RowInv
  <1>3. \A h \in Handlers : /\ act[h].step = "idle" /\ act[h].op = "backlog_add"
                            /\ act[h].answer = "none"
    BY StartFields DEF Init, Idle
  <1>4. (\A h \in Handlers : CallInv(h, act[h].row)) /\ UndoerIsAlone
    BY <1>3 DEF CallInv, UndoerIsAlone, Undoing
  <1> QED
    BY <1>1, <1>2, <1>4 DEF IInv

\* A call that is no undo starts, goes on or ends, and no row is touched.
LEMMA OtherCallKeeps ==
  ASSUME IInv, TypeOK', NEW h \in Handlers, NEW c \in Call, act' = [act EXCEPT ![h] = c],
         UNCHANGED <<kind, object, state, logged, linked, inverted>>,
         c.op # "timeline_undo",
         c.step \in {"write", "record", "done"},
         c.step = "record" => c.op \in Kinds /\ IsAbout(c.op, c.obj),
         c.step = "write"  =>
           /\ c.obj \in Items
           /\ Rank[c.user] >= Owner \/ (c.op = "backlog_edit" /\ c.to = c.old)
  PROVE  IInv'
  <1>1. act'[h] = c
    BY DEF IInv, TypeOK
  <1>2. CallInv(h, act[h].row)'
    BY <1>1 DEF CallInv, MayWrite
  <1>3. Undoing(h, c.row)' => Undoing(h, c.row)
    BY <1>1 DEF Undoing
  <1> QED
    BY <1>2, <1>3, CallOnly DEF IInv

LEMMA NewCallKeeps ==
  ASSUME IInv, TypeOK', NEW u \in Users,
         \/ \E i \in Items : AddItem(u, i)
         \/ \E e \in Events : CreateEvent(u, e)
         \/ \E i \in Items, s \in Statuses : MoveItem(u, i, s) \/ SetStatus(u, i, s)
         \/ \E i \in Items : Score(u, i) \/ Comment(u, i) \/ Assign(u, i)
  PROVE  IInv'
  <1>0. Loop \in Handlers /\ act'[Loop] \in Call
    BY DEF TypeOK, Handlers
  <1> DEFINE c == act'[Loop]
  <1>1. /\ act' = [act EXCEPT ![Loop] = c]
        /\ UNCHANGED <<kind, object, state, logged, linked, inverted>>
    BY <1>0 DEF IInv, TypeOK, AddItem, CreateEvent, MoveItem, SetStatus, Score, Comment,
           Assign, Rewrite, things, log
  <1>2. ASSUME NEW i \in Items, AddItem(u, i)
        PROVE  IInv'
    <2>1. c = Start("backlog_add", u, i, "record")
      BY <1>0, <1>2 DEF AddItem, IInv, TypeOK
    <2>2. c.op = "backlog_add" /\ c.step = "record" /\ c.obj = i
      BY <2>1, StartFields
    <2> QED
      BY <1>0, <1>1, <2>2, OtherCallKeeps DEF Kinds, IsAbout
  <1>3. ASSUME NEW e \in Events, CreateEvent(u, e)
        PROVE  IInv'
    <2>1. c = Start("calendar_create", u, e, "record")
      BY <1>0, <1>3 DEF CreateEvent, IInv, TypeOK
    <2>2. c.op = "calendar_create" /\ c.step = "record" /\ c.obj = e
      BY <2>1, StartFields
    <2> QED
      BY <1>0, <1>1, <2>2, OtherCallKeeps DEF Kinds, IsAbout
  <1>4. ASSUME NEW i \in Items, NEW s \in Statuses,
               NEW op \in {"board_move", "backlog_set_status", "backlog_edit"},
               c = [Start(op, u, i, "write") EXCEPT
                      !.to = s, !.old = status[i], !.seen = version[i]],
               Rank[u] >= Owner \/ (op = "backlog_edit" /\ s = status[i])
        PROVE  IInv'
    <2>1. Start(op, u, i, "write") \in Call
      BY StartIsCall DEF Ops, Kinds, Steps, Objects
    <2>2. /\ c.op = op /\ c.step = "write" /\ c.user = u /\ c.obj = i
          /\ c.to = s /\ c.old = status[i]
      BY <1>4, <2>1, StartFields DEF Call
    <2> QED
      BY <1>0, <1>1, <1>4, <2>2, OtherCallKeeps
  <1>5. ASSUME NEW i \in Items, NEW s \in Statuses, MoveItem(u, i, s)
        PROVE  IInv'
    BY <1>0, <1>4, <1>5 DEF MoveItem, IInv, TypeOK
  <1>6. ASSUME NEW i \in Items, NEW s \in Statuses, SetStatus(u, i, s)
        PROVE  IInv'
    BY <1>0, <1>4, <1>6 DEF SetStatus, Rewrite, IInv, TypeOK
  <1>7. ASSUME NEW i \in Items, Score(u, i) \/ Comment(u, i) \/ Assign(u, i)
        PROVE  IInv'
    <2>1. status[i] \in Statuses /\ Rewrite("backlog_edit", u, i, status[i])
      BY <1>7 DEF Score, Comment, Assign, IInv, TypeOK
    <2> QED
      BY <1>0, <1>4, <2>1 DEF Rewrite, IInv, TypeOK
  <1> QED
    BY <1>2, <1>3, <1>5, <1>6, <1>7

\* The row is only read.
LEMMA BeginUndoKeeps ==
  ASSUME IInv, TypeOK', NEW h \in Handlers, NEW u \in Users, NEW r \in Rows,
         BeginUndo(h, u, r)
  PROVE  IInv'
  <1> DEFINE c == [Start("timeline_undo", u, object[r], "claim") EXCEPT !.row = r]
  <1>1. Start("timeline_undo", u, object[r], "claim") \in Call
    BY StartIsCall DEF IInv, TypeOK, Ops, Steps
  <1>2. /\ c \in Call /\ c.op = "timeline_undo" /\ c.step = "claim" /\ c.row = r
        /\ c.user = u /\ c.obj = object[r] /\ c.answer = "none"
    BY <1>1, StartFields DEF Call
  <1>3. /\ act' = [act EXCEPT ![h] = c] /\ act'[h] = c
        /\ UNCHANGED <<kind, object, state, logged, linked, inverted>>
    BY DEF BeginUndo, IInv, TypeOK, things, log
  <1>4. CallInv(h, act[h].row)'
    BY <1>2, <1>3 DEF BeginUndo, CallInv, Undoing, NeedForTool
  <1>5. ~Undoing(h, c.row)'
    BY <1>2, <1>3 DEF Undoing
  <1> QED
    BY <1>2, <1>3, <1>4, <1>5, CallOnly DEF IInv

\* A call that ends in an error says nothing of its row.
LEMMA FailKeeps ==
  ASSUME IInv, TypeOK', NEW h \in Handlers, Fail(h)
  PROVE  IInv'
  <1>1. PICK c \in Call : /\ act' = [act EXCEPT ![h] = c]
                          /\ c.step = "done" /\ c.row = act[h].row /\ c.answer = "error"
    BY FinishCall DEF Fail, IInv, Answers
  <1>2. act'[h] = c /\ UNCHANGED <<kind, object, state, logged, linked, inverted>>
    BY <1>1 DEF Fail, IInv, TypeOK, log
  <1>3. CallInv(h, act[h].row)' /\ ~Undoing(h, c.row)'
    BY <1>1, <1>2 DEF CallInv, Undoing
  <1> QED
    BY <1>1, <1>2, <1>3, CallOnly DEF IInv

\* The INSERT takes a row nobody has heard of.
LEMMA RecordKeeps ==
  ASSUME IInv, TypeOK', NEW h \in Handlers, Record(h)
  PROVE  IInv'
  <1>0. /\ act[h].step = "record" /\ act[h].op # "timeline_undo" /\ act[h].op \in Kinds
        /\ IsAbout(act[h].op, act[h].obj)
    BY DEF IInv, Record, CallInv
  <1>1. PICK c \in Call : /\ act' = [act EXCEPT ![h] = c]
                          /\ c.step = "done" /\ c.op = act[h].op
    BY FinishCall DEF Record, IInv, Answers
  <1>2. /\ act'[h] = c /\ (\A g \in Handlers : g # h => act'[g] = act[g])
        /\ UNCHANGED <<state, logged, linked, inverted>>
    BY <1>1 DEF IInv, TypeOK, Record
  <1>3. CASE UNCHANGED <<kind, object>>
    BY <1>0, <1>1, <1>2, <1>3, OtherCallKeeps
  <1>4. CASE \E r \in Rows : /\ kind[r] = "none"
                             /\ kind'   = [kind EXCEPT ![r] = act[h].op]
                             /\ object' = [object EXCEPT ![r] = act[h].obj]
    <2>1. PICK r \in Rows : /\ kind[r] = "none"
                            /\ kind'   = [kind EXCEPT ![r] = act[h].op]
                            /\ object' = [object EXCEPT ![r] = act[h].obj]
      BY <1>4
    <2>2. /\ kind'[r] = act[h].op /\ object'[r] = act[h].obj
          /\ \A q \in Rows : q # r => kind'[q] = kind[q] /\ object'[q] = object[q]
      BY <2>1 DEF IInv, TypeOK
    <2>3. \A q \in Rows : RowInv(q)'
      <3>1. RowInv(r)'
        BY <1>0, <1>2, <2>1, <2>2 DEF IInv, RowInv
      <3> QED
        BY <1>2, <2>2, <3>1, RowFrame DEF IInv
    <2>4. \A g \in Handlers : CallInv(g, act[g].row)'
      <3> TAKE g \in Handlers
      <3>1. CASE g = h
        BY <1>0, <1>1, <1>2, <3>1 DEF CallInv
      <3>2. CASE g # h /\ act[g].row # r
        <4>1. act[g].row \in Rows
          BY DEF IInv, TypeOK, Call
        <4> QED
          BY <1>2, <2>2, <3>2, <4>1, CallFrame DEF IInv
      <3>3. CASE g # h /\ act[g].row = r
        <4>1. CallInv(g, r) /\ act'[g] = act[g]
          BY <1>2, <3>3 DEF IInv
        <4> QED
          BY <1>2, <2>1, <3>3, <4>1 DEF CallInv, MayWrite, Undoing
      <3> QED
        BY <3>1, <3>2, <3>3
    <2>5. UndoerIsAlone'
      BY <1>0, <1>1, <1>2 DEF IInv, UndoerIsAlone, Undoing
    <2> QED
      BY <2>3, <2>4, <2>5 DEF IInv
  <1> QED
    BY <1>3, <1>4 DEF Record

\* The claim: the row was "done", so no call held it.
LEMMA ClaimKeeps ==
  ASSUME IInv, TypeOK', NEW h \in Handlers, ClaimUndo(h)
  PROVE  IInv'
  <1> DEFINE b == act[h].row
  <1>0. /\ b \in Rows /\ act[h].step = "claim" /\ act[h].op = "timeline_undo"
        /\ CallInv(h, b) /\ RowInv(b)
    BY DEF ClaimUndo, IInv, TypeOK, Call, CallInv
  <1>1. CASE state[b] # "done"
    <2>1. PICK c \in Call : /\ act' = [act EXCEPT ![h] = c] /\ c.step = "done"
                            /\ c.row = b /\ c.answer = "conflict"
      BY <1>1, FinishCall DEF ClaimUndo, IInv, Answers
    <2>2. act'[h] = c /\ UNCHANGED <<kind, object, state, logged, linked, inverted>>
      BY <1>1, <2>1 DEF ClaimUndo, IInv, TypeOK
    <2>3. CallInv(h, act[h].row)' /\ ~Undoing(h, c.row)'
      BY <1>1, <2>1, <2>2 DEF CallInv, Undoing
    <2> QED
      BY <2>1, <2>2, <2>3, CallOnly DEF IInv
  <1>2. CASE state[b] = "done"
    <2>1. PICK c \in Call :
            /\ act' = [act EXCEPT ![h] = c]
            /\ c.step = "invert" /\ c.op = act[h].op /\ c.row = b
            /\ c.user = act[h].user /\ c.obj = act[h].obj /\ c.answer = act[h].answer
      BY <1>2, GotoCall DEF ClaimUndo, IInv, Steps
    <2>2. /\ act'[h] = c /\ (\A g \in Handlers : g # h => act'[g] = act[g])
          /\ state'[b] = "undone" /\ (\A r \in Rows : r # b => state'[r] = state[r])
          /\ UNCHANGED <<kind, object, logged, linked, inverted>>
      BY <1>0, <1>2, <2>1 DEF ClaimUndo, IInv, TypeOK
    <2>3. ~logged[b] /\ ~linked[b] /\ inverted[b] = 0
      BY <1>0, <1>2 DEF RowInv
    <2>4. \A r \in Rows : RowInv(r)'
      <3> TAKE r \in Rows
      <3>1. CASE r = b
        BY <1>0, <2>2, <2>3, <3>1 DEF RowInv, CallInv
      <3>2. CASE r # b
        BY <2>2, <3>2, RowFrame DEF IInv
      <3> QED
        BY <3>1, <3>2
    <2>5. \A g \in Handlers : ~Undoing(g, b)
      BY <1>2 DEF IInv, CallInv, Undoing
    <2>6. \A g \in Handlers : CallInv(g, act[g].row)'
      <3> TAKE g \in Handlers
      <3>1. CASE g = h
        <4>1. /\ kind[b] # "none" /\ Rank[c.user] >= NeedForTool(kind[b])
              /\ c.obj = object[b] /\ c.answer = act[h].answer
              /\ act[h].answer = "ok" => linked[b]
              /\ act[h].answer = "failed" => state[b] = "undo_failed"
          BY <1>0, <2>1 DEF CallInv
        <4>2. act'[h].step = "invert" /\ act'[h].op = "timeline_undo" /\ act'[h].row = b
          BY <1>0, <2>1, <2>2
        <4> QED
          BY <1>2, <2>2, <2>3, <3>1, <4>1, <4>2 DEF CallInv, Undoing, NeedForTool
      <3>2. CASE g # h /\ act[g].row # b
        <4>1. act[g].row \in Rows
          BY DEF IInv, TypeOK, Call
        <4> QED
          BY <2>2, <3>2, <4>1, CallFrame DEF IInv
      <3>3. CASE g # h /\ act[g].row = b
        <4>1. CallInv(g, b) /\ act'[g] = act[g] /\ ~Undoing(g, b)
          BY <2>2, <2>5, <3>3 DEF IInv
        <4> QED
          BY <1>2, <2>2, <2>3, <3>3, <4>1 DEF CallInv, MayWrite, Undoing, NeedForTool
      <3> QED
        BY <3>1, <3>2, <3>3
    <2>7. UndoerIsAlone'
      <3>1. \A r \in Rows, g \in Handlers :
              Undoing(g, r)' => (g = h /\ r = b) \/ (g # h /\ r # b /\ Undoing(g, r))
        BY <2>1, <2>2, <2>5 DEF Undoing
      <3> QED
        BY <3>1 DEF IInv, UndoerIsAlone
    <2> QED
      BY <2>4, <2>6, <2>7 DEF IInv
  <1> QED
    BY <1>1, <1>2

\* The inverse call is chosen, refused or sent on to write; no row changes.
LEMMA InvertStepKeeps ==
  ASSUME IInv, TypeOK', NEW h \in Handlers,
         act[h].step = "invert", act'[h].step \in {"fail", "write"},
         act' = [act EXCEPT ![h] = act'[h]],
         act'[h].op = act[h].op, act'[h].row = act[h].row, act'[h].user = act[h].user,
         act'[h].obj = act[h].obj, act'[h].answer = act[h].answer,
         act'[h].step = "write" => Rank[act[h].user] >= Owner /\ act[h].obj \in Items,
         UNCHANGED <<kind, object, state, logged, linked, inverted>>
  PROVE  IInv'
  <1> DEFINE b == act[h].row
  <1>0. /\ act[h].op = "timeline_undo" /\ CallInv(h, b) /\ RowInv(b) /\ Undoing(h, b)
        /\ act'[h] \in Call /\ b \in Rows
    BY DEF IInv, TypeOK, CallInv, Undoing, Call
  <1>1. CallInv(h, act[h].row)'
    <2>1. inverted[b] = 0 /\ ~logged[b]
      BY <1>0 DEF CallInv, RowInv
    <2> QED
      BY <1>0, <2>1 DEF CallInv, MayWrite, Undoing
  <1> QED
    BY <1>0, <1>1, CallOnly DEF IInv

LEMMA InvertMoveKeeps ==
  ASSUME IInv, TypeOK', NEW h \in Handlers, InvertMove(h)
  PROVE  IInv'
  <1>0. /\ act[h] \in Call /\ act[h].step = "invert" /\ CallInv(h, act[h].row)
        /\ act[h].row \in Rows /\ RowInv(act[h].row)
        /\ kind[act[h].row] = "board_move" /\ act[h].op = "timeline_undo"
    BY DEF IInv, TypeOK, CallInv, InvertMove, Call
  <1>1. Rank[act[h].user] >= Owner /\ act[h].obj \in Items
    BY <1>0 DEF CallInv, NeedForTool, RowInv, IsAbout
  <1> DEFINE w == [act[h] EXCEPT !.step = "write", !.to = back[act[h].row],
                                 !.old = status[act[h].obj], !.seen = version[act[h].obj]]
  <1>2. act' = [act EXCEPT ![h] = w] \/ act' = [act EXCEPT ![h].step = "fail"]
    BY DEF InvertMove, Goto
  <1>3. /\ act'[h].step \in {"fail", "write"} /\ act'[h].op = act[h].op
        /\ act' = [act EXCEPT ![h] = act'[h]]
        /\ act'[h].row = act[h].row /\ act'[h].user = act[h].user
        /\ act'[h].obj = act[h].obj /\ act'[h].answer = act[h].answer
    <2> DEFINE f == [act[h] EXCEPT !.step = "fail"]
    <2>1. act' = [act EXCEPT ![h] = w] \/ act' = [act EXCEPT ![h] = f]
      BY <1>2
    <2>2. /\ w.step = "write" /\ w.op = act[h].op /\ w.row = act[h].row
          /\ w.user = act[h].user /\ w.obj = act[h].obj /\ w.answer = act[h].answer
      BY <1>0 DEF Call
    <2>3. /\ f.step = "fail" /\ f.op = act[h].op /\ f.row = act[h].row
          /\ f.user = act[h].user /\ f.obj = act[h].obj /\ f.answer = act[h].answer
      BY <1>0 DEF Call
    <2> HIDE DEF w, f
    <2>4. act' = [act EXCEPT ![h] = act'[h]] /\ (act'[h] = w \/ act'[h] = f)
      BY <2>1 DEF IInv, TypeOK
    <2> QED
      BY <2>2, <2>3, <2>4
  <1>4. UNCHANGED <<kind, object, state, logged, linked, inverted>>
    BY DEF InvertMove, log
  <1> HIDE DEF w
  <1> QED
    BY <1>0, <1>1, <1>3, <1>4, InvertStepKeeps

LEMMA InvertAddKeeps ==
  ASSUME IInv, TypeOK', NEW h \in Handlers, InvertAdd(h)
  PROVE  IInv'
  <1>0. /\ act[h] \in Call /\ act[h].step = "invert" /\ CallInv(h, act[h].row)
        /\ act[h].row \in Rows /\ RowInv(act[h].row)
        /\ kind[act[h].row] = "backlog_add" /\ act[h].op = "timeline_undo"
        /\ UNCHANGED <<kind, object, state, logged, linked, inverted>>
    BY DEF IInv, TypeOK, CallInv, InvertAdd, Call, log
  <1>1. act[h].obj \in Items
    BY <1>0 DEF CallInv, RowInv, IsAbout
  <1>2. CASE Goto(h, "fail")
    <2>1. PICK c \in Call :
            /\ act' = [act EXCEPT ![h] = c]
            /\ c.step = "fail" /\ c.op = act[h].op /\ c.row = act[h].row
            /\ c.user = act[h].user /\ c.obj = act[h].obj /\ c.answer = act[h].answer
      BY <1>2, GotoCall DEF IInv, Steps
    <2>2. act'[h] = c
      BY <2>1 DEF IInv, TypeOK
    <2> QED
      BY <1>0, <2>1, <2>2, InvertStepKeeps
  <1>3. CASE /\ Rank[act[h].user] >= Owner
             /\ act' = [act EXCEPT ![h].step = "write", ![h].to = "rejected",
                                   ![h].old = status[act[h].obj], ![h].seen = 1]
    <2>1. act'[h] = [act[h] EXCEPT !.step = "write", !.to = "rejected",
                                   !.old = status[act[h].obj], !.seen = 1]
          /\ act' = [act EXCEPT ![h] = act'[h]]
      BY <1>3 DEF IInv, TypeOK
    <2>2. /\ act'[h].step = "write" /\ act'[h].op = act[h].op
          /\ act'[h].row = act[h].row /\ act'[h].user = act[h].user
          /\ act'[h].obj = act[h].obj /\ act'[h].answer = act[h].answer
      BY <1>0, <2>1 DEF Call
    <2> QED
      BY <1>0, <1>1, <1>3, <2>1, <2>2, InvertStepKeeps
  <1> QED
    BY <1>2, <1>3, Zenon DEF InvertAdd

\* The facts a step of the call that holds a row starts from.
LEMMA HeldRow ==
  ASSUME IInv, NEW h \in Handlers,
         \/ act[h].step \in {"invert", "fail", "log", "link"}
         \/ act[h].step = "write" /\ act[h].op = "timeline_undo"
  PROVE  /\ act[h].row \in Rows /\ act[h].op = "timeline_undo"
         /\ Undoing(h, act[h].row)
         /\ RowInv(act[h].row) /\ CallInv(h, act[h].row)
         /\ kind[act[h].row] # "none" /\ state[act[h].row] = "undone"
         /\ ~linked[act[h].row]
  BY DEF IInv, TypeOK, CallInv, Undoing, Call

\* The inverse has taken effect, for the first time, and the call goes on to say
\* so, or to say that it failed.
LEMMA TakesEffectKeeps ==
  ASSUME IInv, TypeOK', NEW h \in Handlers,
         \/ act[h].step = "invert"
         \/ act[h].step = "write" /\ act[h].op = "timeline_undo",
         NEW s \in {"log", "fail"}, Goto(h, s),
         s = "fail" => kind[act[h].row] = "calendar_create",
         inverted' = [inverted EXCEPT ![act[h].row] = @ + 1],
         UNCHANGED <<kind, object, state, logged, linked>>
  PROVE  IInv'
  <1> DEFINE b == act[h].row
  <1>0. /\ b \in Rows /\ act[h].op = "timeline_undo" /\ Undoing(h, b) /\ RowInv(b)
        /\ kind[b] # "none" /\ state[b] = "undone" /\ ~linked[b]
        /\ inverted[b] = 0 /\ ~logged[b] /\ act[h].answer \notin {"ok", "failed"}
    BY HeldRow DEF CallInv, RowInv
  <1>1. PICK c \in Call :
          /\ act' = [act EXCEPT ![h] = c]
          /\ c.step = s /\ c.op = act[h].op /\ c.row = b /\ c.answer = act[h].answer
    BY GotoCall DEF IInv, Steps
  <1>2. /\ act'[h] = c /\ inverted'[b] = 1
        /\ \A r \in Rows : r # b => inverted'[r] = inverted[r]
    BY <1>0, <1>1 DEF IInv, TypeOK
  <1>3. /\ \A r \in Rows : r # b => RowInv(r)'
        /\ \A g \in Handlers : g # h => CallInv(g, act[g].row)'
        /\ UndoerIsAlone'
    BY <1>0, <1>1, <1>2, UndoerKeeps
  <1>4. \A r \in Rows : RowInv(r)'
    <2> TAKE r \in Rows
    <2>1. CASE r = b
      BY <1>0, <1>2, <2>1 DEF RowInv
    <2> QED
      BY <1>3, <2>1
  <1>5. CallInv(h, act[h].row)'
    BY <1>0, <1>1, <1>2 DEF CallInv, Undoing
  <1> QED
    BY <1>3, <1>4, <1>5 DEF IInv

LEMMA WriteKeeps ==
  ASSUME IInv, TypeOK', NEW h \in Handlers, Write(h)
  PROVE  IInv'
  <1>0. /\ act[h].step = "write" /\ act[h].obj \in Items
        /\ UNCHANGED <<kind, object, state, logged, linked>>
    BY DEF Write, IInv, CallInv
  <1>1. CASE act[h].op = "timeline_undo"
    <2>1. /\ Goto(h, "log")
          /\ inverted' = [inverted EXCEPT ![act[h].row] = @ + 1]
      BY <1>1, Zenon DEF Write
    <2> QED
      BY <1>0, <1>1, <2>1, TakesEffectKeeps
  <1>2. CASE act[h].op = "board_move" /\ Goto(h, "record")
    <2>1. PICK c \in Call :
            /\ act' = [act EXCEPT ![h] = c]
            /\ c.step = "record" /\ c.op = act[h].op /\ c.obj = act[h].obj
      BY <1>2, GotoCall DEF IInv, Steps
    <2> QED
      BY <1>0, <1>2, <2>1, OtherCallKeeps DEF Write, Kinds, IsAbout
  <1>3. CASE act[h].op # "timeline_undo" /\ Finish(h, "none")
    <2>1. PICK c \in Call : /\ act' = [act EXCEPT ![h] = c]
                            /\ c.step = "done" /\ c.op = act[h].op
      BY <1>3, FinishCall DEF IInv, Answers
    <2> QED
      BY <1>0, <1>3, <2>1, OtherCallKeeps DEF Write
  <1> QED
    BY <1>1, <1>2, <1>3, Zenon DEF Write

LEMMA InvertCreateKeeps ==
  ASSUME IInv, TypeOK', NEW h \in Handlers, InvertCreate(h)
  PROVE  IInv'
  <1>0. /\ act[h].step = "invert" /\ kind[act[h].row] = "calendar_create"
        /\ UNCHANGED <<kind, object, state, logged, linked>>
    BY DEF InvertCreate
  <1>1. CASE Goto(h, "fail") /\ UNCHANGED inverted
    <2>1. PICK c \in Call :
            /\ act' = [act EXCEPT ![h] = c]
            /\ c.step = "fail" /\ c.op = act[h].op /\ c.row = act[h].row
            /\ c.user = act[h].user /\ c.obj = act[h].obj /\ c.answer = act[h].answer
      BY <1>1, GotoCall DEF IInv, Steps
    <2>2. act'[h] = c
      BY <2>1 DEF IInv, TypeOK
    <2> QED
      BY <1>0, <1>1, <2>1, <2>2, InvertStepKeeps
  <1>2. CASE /\ inverted' = [inverted EXCEPT ![act[h].row] = @ + 1]
             /\ Goto(h, "log") \/ Goto(h, "fail")
    BY <1>0, <1>2, TakesEffectKeeps
  <1> QED
    BY <1>1, <1>2, Zenon DEF InvertCreate

\* The row's holder says how it went.
LEMMA OutcomeKeeps ==
  ASSUME IInv, TypeOK', NEW h \in Handlers, MarkFailed(h) \/ LogUndo(h) \/ LinkUndo(h)
  PROVE  IInv'
  <1> DEFINE b == act[h].row
  <1>0. /\ b \in Rows /\ act[h].op = "timeline_undo" /\ Undoing(h, b)
        /\ RowInv(b) /\ CallInv(h, b)
        /\ kind[b] # "none" /\ state[b] = "undone" /\ ~linked[b]
        /\ act[h].answer \notin {"ok", "failed"}
    BY HeldRow DEF MarkFailed, LogUndo, LinkUndo, CallInv
  <1> DEFINE new == IF act[h].step = "fail" THEN "undo_failed" ELSE "undone"
  <1>1. PICK c \in Call :
          /\ act' = [act EXCEPT ![h] = c]
          /\ c.op = act[h].op /\ c.row = b
          /\ act[h].step = "fail" => c.step = "done" /\ c.answer = "failed"
          /\ act[h].step = "log"  => c.step = "link" /\ c.answer = act[h].answer
          /\ act[h].step = "link" => c.step = "done" /\ c.answer = "ok"
    <2>1. CASE MarkFailed(h)
      BY <2>1, FinishCall DEF MarkFailed, IInv, Answers
    <2>2. CASE LogUndo(h)
      BY <2>2, GotoCall DEF LogUndo, IInv, Steps
    <2>3. CASE LinkUndo(h)
      BY <2>3, FinishCall DEF LinkUndo, IInv, Answers
    <2> QED
      BY <2>1, <2>2, <2>3
  <1>2. /\ act'[h] = c /\ UNCHANGED <<kind, object, inverted>>
        /\ act[h].step \in {"fail", "log", "link"}
        /\ state'[b] = new
        /\ logged'[b] = (logged[b] \/ act[h].step = "log")
        /\ linked'[b] = (act[h].step = "link")
        /\ \A r \in Rows : r # b => UNCHANGED <<state[r], logged[r], linked[r]>>
    BY <1>0, <1>1 DEF MarkFailed, LogUndo, LinkUndo, IInv, TypeOK
  <1>3. /\ \A r \in Rows : r # b => RowInv(r)'
        /\ \A g \in Handlers : g # h => CallInv(g, act[g].row)'
        /\ UndoerIsAlone'
    BY <1>0, <1>1, <1>2, UndoerKeeps
  <1>4. /\ act[h].step = "fail" => ~logged[b] /\ (kind[b] = "calendar_create" \/ inverted[b] = 0)
        /\ act[h].step = "log"  => inverted[b] = 1
        /\ act[h].step = "link" => logged[b]
        /\ logged[b] => inverted[b] = 1
    BY <1>0 DEF CallInv, RowInv
  <1>5. \A r \in Rows : RowInv(r)'
    <2> TAKE r \in Rows
    <2>1. CASE r = b
      BY <1>0, <1>2, <1>4, <2>1 DEF RowInv
    <2> QED
      BY <1>3, <2>1
  <1>6. CallInv(h, act[h].row)'
    <2> DEFINE d == act'[h]
    <2>1. d.op = "timeline_undo" /\ d.row = b /\ d.step \in {"link", "done"}
      BY <1>0, <1>1, <1>2
    <2>2. d.step = "link" => /\ kind'[b] # "none" /\ state'[b] = "undone" /\ ~linked'[b] /\ logged'[b]
                             /\ d.answer \notin {"ok", "failed"}
      BY <1>0, <1>1, <1>2
    <2>3. /\ d.answer = "ok" => linked'[b]
          /\ d.answer = "failed" => state'[b] = "undo_failed"
          /\ state'[b] # "done"
      BY <1>0, <1>1, <1>2
    <2> HIDE DEF d
    <2> QED
      BY <2>1, <2>2, <2>3 DEF CallInv, Undoing, d
  <1> QED
    BY <1>3, <1>5, <1>6 DEF IInv

LEMMA InvStep == IInv /\ [Next]_vars => IInv'
  <1> SUFFICES ASSUME IInv, [Next]_vars
               PROVE  IInv'
    OBVIOUS
  <1>0. TypeOK'
    BY TypeStep
  <1>1. ASSUME NEW u \in Users,
               \/ \E i \in Items : AddItem(u, i)
               \/ \E e \in Events : CreateEvent(u, e)
               \/ \E i \in Items, s \in Statuses : MoveItem(u, i, s) \/ SetStatus(u, i, s)
               \/ \E i \in Items : Score(u, i) \/ Comment(u, i) \/ Assign(u, i)
        PROVE  IInv'
    BY <1>0, <1>1, NewCallKeeps
  <1>2. ASSUME NEW u \in Users, NEW e \in Events, DeleteEvent(u, e)
        PROVE  IInv'
    BY <1>0, <1>2, RowFrame, CallFrame
    DEF DeleteEvent, IInv, TypeOK, Call, UndoerIsAlone, Undoing, log
  <1>3. ASSUME NEW h \in Handlers, NEW u \in Users, NEW r \in Rows, BeginUndo(h, u, r)
        PROVE  IInv'
    BY <1>0, <1>3, BeginUndoKeeps
  <1>4. ASSUME NEW h \in Handlers, Work(h) \/ Fail(h)
        PROVE  IInv'
    BY <1>0, <1>4, WriteKeeps, RecordKeeps, ClaimKeeps, InvertCreateKeeps, InvertMoveKeeps,
       InvertAddKeeps, OutcomeKeeps, FailKeeps
    DEF Work
  <1>5. CASE UNCHANGED vars
    BY <1>0, <1>5, RowFrame, CallFrame
    DEF vars, IInv, TypeOK, Call, UndoerIsAlone, Undoing
  <1> QED
    BY <1>1, <1>2, <1>3, <1>4, <1>5 DEF Next

LEMMA InvAlways == Spec => []IInv
  <1> QED
    BY InvInit, InvStep, PTL DEF Spec

------------------------------------------------------------------------
(* What follows *)

\* Every variable keeps its type; that a write has an item to write to, and not
\* an event, needs the invariant.
THEOREM TypeCorrect == Spec => []TypeOK
  <1>1. IInv => TypeOK
    BY DEF IInv
  <1> QED
    BY <1>1, InvAlways, PTL

\* However many callers undo a row at once, and whoever fails on the way, its
\* inverse takes effect at most once and the row does not claim otherwise.
THEOREM UndoneOnce == Spec => []UndoneAtMostOnce
  <1>1. IInv => UndoneAtMostOnce
    BY DEF IInv, RowInv, UndoneAtMostOnce
  <1> QED
    BY <1>1, InvAlways, PTL

\* No caller of timeline_undo is told something the row does not bear out, then
\* or later.
THEOREM AnswersAreTrue == Spec => []AnswersStayTrue
  <1>1. IInv => AnswersStayTrue
    <2> SUFFICES ASSUME IInv, NEW h \in Handlers, act[h].op = "timeline_undo"
                 PROVE  LET r == act[h].row IN
                        /\ act[h].answer = "ok"       => linked[r] /\ inverted[r] = 1
                        /\ act[h].answer = "failed"   => state[r] = "undo_failed"
                        /\ act[h].answer = "conflict" => state[r] # "done"
      BY DEF AnswersStayTrue
    <2>1. CallInv(h, act[h].row) /\ RowInv(act[h].row)
      BY DEF IInv, TypeOK, Call
    <2> QED
      BY <2>1 DEF CallInv, RowInv
  <1> QED
    BY <1>1, InvAlways, PTL

\* Only a write changes the status of an item there is, and every write, an
\* undo's included, is an owner's or keeps the status that it read.
THEOREM OwnersMoveItems == Spec => OnlyOwnersMove
  <1>1. IInv /\ [Next]_vars =>
          [\A i \in Items :
             i \in exists /\ status'[i] # status[i] => \E h \in Handlers : MayWrite(h, i)]_vars
    <2> SUFFICES ASSUME IInv, [Next]_vars, NEW i \in Items,
                        i \in exists, status'[i] # status[i]
                 PROVE  \E h \in Handlers : MayWrite(h, i)
      OBVIOUS
    <2>1. \/ \E h \in Handlers : Write(h)
          \/ \E u \in Users, j \in Items : AddItem(u, j)
      BY DEF Next, vars, CreateEvent, DeleteEvent, MoveItem, SetStatus, Score, Comment, Assign,
             Rewrite, BeginUndo, Work, Record, ClaimUndo, InvertCreate, InvertMove, InvertAdd,
             MarkFailed, LogUndo, LinkUndo, Fail, things
    <2>2. ASSUME NEW u \in Users, NEW j \in Items, AddItem(u, j)
          PROVE  FALSE
      BY <2>2 DEF AddItem, IInv, TypeOK
    <2>3. ASSUME NEW h \in Handlers, Write(h)
          PROVE  MayWrite(h, i)
      <3>1. act[h].step = "write" /\ MayWrite(h, act[h].obj)
        BY <2>3 DEF Write, IInv, CallInv
      <3>2. act[h].obj = i
        BY <2>3 DEF Write, IInv, TypeOK
      <3> QED
        BY <3>1, <3>2
    <2> QED
      BY <2>1, <2>2, <2>3
  <1> QED
    BY <1>1, InvAlways, PTL DEF Spec, OnlyOwnersMove

\* What one step can do to a row: nothing; be recorded, be claimed; or, once
\* claimed, be taken back, be linked to its undo or be given up.
LEMMA RowStep ==
  ASSUME IInv, [Next]_vars
  PROVE  \/ UNCHANGED <<kind, state, linked, inverted>>
         \/ \E r \in Rows :
              /\ kind[r] = "none" /\ state[r] = "done"
              /\ \E k \in Kinds : kind' = [kind EXCEPT ![r] = k]
              /\ UNCHANGED <<state, linked, inverted>>
         \/ \E r \in Rows :
              /\ kind[r] # "none" /\ state[r] = "done" /\ ~linked[r]
              /\ state' = [state EXCEPT ![r] = "undone"]
              /\ UNCHANGED <<kind, linked, inverted>>
         \/ \E r \in Rows :
              /\ kind[r] # "none" /\ state[r] = "undone" /\ ~linked[r] /\ inverted[r] = 0
              /\ inverted' = [inverted EXCEPT ![r] = 1]
              /\ UNCHANGED <<kind, state, linked>>
         \/ \E r \in Rows :
              /\ kind[r] # "none" /\ state[r] = "undone" /\ ~linked[r]
              /\ \/ /\ state' = [state EXCEPT ![r] = "undo_failed"]
                    /\ UNCHANGED linked
                 \/ /\ linked' = [linked EXCEPT ![r] = TRUE] /\ inverted[r] = 1
                    /\ UNCHANGED state
              /\ UNCHANGED <<kind, inverted>>
  <1>0. TypeOK /\ (\A h \in Handlers : act[h].row \in Rows /\ CallInv(h, act[h].row))
        /\ \A r \in Rows : RowInv(r)
    BY DEF IInv, TypeOK, Call
  <1>1. ASSUME NEW h \in Handlers, Record(h)
        PROVE  \/ UNCHANGED <<kind, state, linked, inverted>>
               \/ \E r \in Rows :
                    /\ kind[r] = "none" /\ state[r] = "done"
                    /\ \E k \in Kinds : kind' = [kind EXCEPT ![r] = k]
                    /\ UNCHANGED <<state, linked, inverted>>
    BY <1>0, <1>1 DEF Record, CallInv, RowInv
  <1>2. ASSUME NEW h \in Handlers, ClaimUndo(h)
        PROVE  \/ UNCHANGED <<kind, state, linked, inverted>>
               \/ \E r \in Rows :
                    /\ kind[r] # "none" /\ state[r] = "done" /\ ~linked[r]
                    /\ state' = [state EXCEPT ![r] = "undone"]
                    /\ UNCHANGED <<kind, linked, inverted>>
    BY <1>0, <1>2 DEF ClaimUndo, CallInv, RowInv
  <1>3. ASSUME NEW h \in Handlers, Write(h) \/ InvertCreate(h)
        PROVE  \/ UNCHANGED <<kind, state, linked, inverted>>
               \/ \E r \in Rows :
                    /\ kind[r] # "none" /\ state[r] = "undone" /\ ~linked[r]
                    /\ inverted[r] = 0
                    /\ inverted' = [inverted EXCEPT ![r] = 1]
                    /\ UNCHANGED <<kind, state, linked>>
    <2>1. CASE inverted' = inverted
      BY <1>3, <2>1 DEF Write, InvertCreate
    <2>2. CASE inverted' # inverted
      <3>1. /\ inverted' = [inverted EXCEPT ![act[h].row] = @ + 1]
            /\ \/ act[h].step = "invert"
               \/ act[h].step = "write" /\ act[h].op = "timeline_undo"
            /\ UNCHANGED <<kind, state, linked>>
        BY <1>3, <2>2 DEF Write, InvertCreate
      <3>2. /\ act[h].row \in Rows /\ inverted[act[h].row] = 0
            /\ kind[act[h].row] # "none" /\ state[act[h].row] = "undone"
            /\ ~linked[act[h].row]
        BY <3>1, HeldRow DEF CallInv
      <3>3. inverted' = [inverted EXCEPT ![act[h].row] = 1]
        BY <1>0, <3>1, <3>2 DEF TypeOK
      <3> QED
        BY <3>1, <3>2, <3>3
    <2> QED
      BY <2>1, <2>2
  <1>4. ASSUME NEW h \in Handlers, MarkFailed(h) \/ LinkUndo(h)
        PROVE  \E r \in Rows :
                 /\ kind[r] # "none" /\ state[r] = "undone" /\ ~linked[r]
                 /\ \/ /\ state' = [state EXCEPT ![r] = "undo_failed"]
                       /\ UNCHANGED linked
                    \/ /\ linked' = [linked EXCEPT ![r] = TRUE] /\ inverted[r] = 1
                       /\ UNCHANGED state
                 /\ UNCHANGED <<kind, inverted>>
    <2>1. /\ act[h].row \in Rows /\ kind[act[h].row] # "none"
          /\ state[act[h].row] = "undone" /\ ~linked[act[h].row]
          /\ act[h].step = "link" => logged[act[h].row]
          /\ logged[act[h].row] => inverted[act[h].row] = 1
      BY <1>4, HeldRow DEF MarkFailed, LinkUndo, CallInv, RowInv
    <2> QED
      BY <1>4, <2>1 DEF MarkFailed, LinkUndo
  <1>5. CASE ~ \E h \in Handlers : \/ Record(h) \/ ClaimUndo(h) \/ Write(h)
                                   \/ InvertCreate(h) \/ MarkFailed(h) \/ LinkUndo(h)
    <2>1. ASSUME NEW u \in Users
          PROVE  /\ \A i \in Items : AddItem(u, i) \/ Score(u, i) \/ Comment(u, i) \/ Assign(u, i)
                       => UNCHANGED <<kind, state, linked, inverted>>
                 /\ \A i \in Items, t \in Statuses : MoveItem(u, i, t) \/ SetStatus(u, i, t)
                       => UNCHANGED <<kind, state, linked, inverted>>
                 /\ \A e \in Events : CreateEvent(u, e) \/ DeleteEvent(u, e)
                       => UNCHANGED <<kind, state, linked, inverted>>
      BY DEF AddItem, CreateEvent, DeleteEvent, MoveItem, SetStatus, Score, Comment, Assign, Rewrite, log
    <2>2. ASSUME NEW h \in Handlers, NEW u \in Users, NEW r \in Rows, BeginUndo(h, u, r)
          PROVE  UNCHANGED <<kind, state, linked, inverted>>
      BY <2>2 DEF BeginUndo, log
    <2>3. ASSUME NEW h \in Handlers, Work(h) \/ Fail(h)
          PROVE  UNCHANGED <<kind, state, linked, inverted>>
      BY <1>5, <2>3 DEF Work, InvertMove, InvertAdd, LogUndo, Fail, log
    <2> QED
      BY <2>1, <2>2, <2>3 DEF Next, vars
  <1> QED
    BY <1>1, <1>2, <1>3, <1>4, <1>5

\* An inverse call keeps what OutboxPromise promises of an approved action: the
\* claim is the approval, the link to the undo is the success.
THEOREM Implements == Spec => KeepsThePromise
  <1> DEFINE phase == [r \in Rows |-> Phase(r)]
  <1>1. Init => Promise!Init
    BY DEF Init, Promise!Init, Phase
  <1>2. IInv /\ [Next]_vars => [Promise!Next]_(Promise!vars)
    <2> SUFFICES ASSUME IInv, [Next]_vars
                 PROVE  Promise!Next \/ UNCHANGED <<phase, inverted>>
      BY DEF Promise!vars
    <2>0. TypeOK /\ \A r \in Rows : RowInv(r)
      BY DEF IInv
    <2>1. CASE UNCHANGED <<kind, state, linked, inverted>>
      BY <2>1 DEF Phase
    <2>2. ASSUME NEW r \in Rows, kind[r] = "none", state[r] = "done",
                 NEW k \in Kinds, kind' = [kind EXCEPT ![r] = k],
                 UNCHANGED <<state, linked, inverted>>
          PROVE  Promise!Submit(r)
      <3>1. Phase(r) = "absent" /\ phase' = [phase EXCEPT ![r] = "pending"]
        BY <2>0, <2>2 DEF Phase, TypeOK, Kinds
      <3> QED
        BY <2>2, <3>1 DEF Promise!Submit, Promise!Move
    <2>3. ASSUME NEW r \in Rows, kind[r] # "none", state[r] = "done", ~linked[r],
                 state' = [state EXCEPT ![r] = "undone"],
                 UNCHANGED <<kind, linked, inverted>>
          PROVE  Promise!Approve(r)
      <3>1. Phase(r) = "pending" /\ phase' = [phase EXCEPT ![r] = "approved"]
        BY <2>0, <2>3 DEF Phase, TypeOK
      <3> QED
        BY <2>3, <3>1 DEF Promise!Approve, Promise!Move
    <2>4. ASSUME NEW r \in Rows, kind[r] # "none", state[r] = "undone", ~linked[r],
                 inverted[r] = 0, inverted' = [inverted EXCEPT ![r] = 1],
                 UNCHANGED <<kind, state, linked>>
          PROVE  Promise!Happen(r)
      <3>1. Phase(r) = "approved" /\ phase' = phase
        BY <2>4 DEF Phase
      <3> QED
        BY <2>4, <3>1 DEF Promise!Happen
    <2>5. ASSUME NEW r \in Rows, kind[r] # "none", state[r] = "undone", ~linked[r],
                 state' = [state EXCEPT ![r] = "undo_failed"],
                 UNCHANGED <<kind, linked, inverted>>
          PROVE  Promise!GiveUp(r)
      <3>1. Phase(r) = "approved" /\ phase' = [phase EXCEPT ![r] = "failed"]
        BY <2>0, <2>5 DEF Phase, TypeOK
      <3> QED
        BY <2>5, <3>1 DEF Promise!GiveUp, Promise!Move
    <2>6. ASSUME NEW r \in Rows, kind[r] # "none", state[r] = "undone", ~linked[r],
                 linked' = [linked EXCEPT ![r] = TRUE], inverted[r] = 1,
                 UNCHANGED <<kind, state, inverted>>
          PROVE  Promise!Succeed(r)
      <3>1. Phase(r) = "approved" /\ phase' = [phase EXCEPT ![r] = "executed"]
        BY <2>0, <2>6 DEF Phase, TypeOK
      <3> QED
        BY <2>6, <3>1 DEF Promise!Succeed, Promise!Move
    <2> QED
      BY <2>1, <2>2, <2>3, <2>4, <2>5, <2>6, RowStep DEF Promise!Next
  <1> QED
    BY <1>1, <1>2, InvAlways, PTL DEF Spec, Promise!Spec, KeepsThePromise

(***************************************************************************)
(* The task graph of the planning engine.                                  *)
(***************************************************************************)

\* A dependency that closes no cycle: some set of tasks has its successor, not its
\* predecessor, and no edge that leaves it.
LEMMA AWall ==
  ASSUME NEW edges, NEW pred, NEW succ, ~CreatesCycle(edges, pred, succ)
  PROVE  \E wall : succ \in wall /\ pred \notin wall /\ \A e \in edges : e[1] \in wall => e[2] \in wall
  <1> DEFINE nodes == {succ} \union {e[2] : e \in edges}
             closed == {s \in SUBSET nodes : succ \in s /\ \A e \in edges : e[1] \in s => e[2] \in s}
  <1>1. CASE pred \in nodes
    <2>1. PICK wall \in closed : pred \notin wall
      BY <1>1 DEF CreatesCycle, Reachable
    <2> QED
      BY <2>1
  <1>2. CASE pred \notin nodes
    BY <1>2
  <1> QED
    BY <1>1, <1>2

\* One dependency more keeps the graph one that can be scheduled when it closes no cycle.
LEMMA AddingKeepsAcyclic ==
  ASSUME NEW f, NEW g, NEW d, Acyclic(f), g.tasks = f.tasks,
         \A x \in g.deps : x \in f.deps \/ x = d,
         ~CreatesCycle(Edges(f.deps), d.pred, d.succ)
  PROVE  Acyclic(g)
  <1>1. PICK wall : /\ d.succ \in wall /\ d.pred \notin wall
                    /\ \A e \in Edges(f.deps) : e[1] \in wall => e[2] \in wall
    BY AWall
  <1>2. \A x \in f.deps : x.pred \in wall => x.succ \in wall
    <2>1. TAKE x \in f.deps
    <2>2. <<x.pred, x.succ>> \in Edges(f.deps)
      BY DEF Edges
    <2> QED
      BY <1>1, <2>2
  <1>3. SUFFICES ASSUME NEW s \in SUBSET DOMAIN f.tasks, s # {}
                 PROVE  \E t \in s : \A x \in g.deps : x.succ = t => x.pred \notin s
    BY DEF Acyclic
  <1>4. CASE s \ wall # {}
    <2>1. PICK t \in s \ wall : \A x \in f.deps : x.succ = t => x.pred \notin s \ wall
      BY <1>4 DEF Acyclic
    <2>2. \A x \in g.deps : x.succ = t => x.pred \notin s
      BY <1>1, <1>2, <2>1
    <2> QED
      BY <2>1, <2>2
  <1>5. CASE s \subseteq wall
    <2>1. PICK t \in s : \A x \in f.deps : x.succ = t => x.pred \notin s
      BY <1>3 DEF Acyclic
    <2>2. \A x \in g.deps : x.succ = t => x.pred \notin s
      BY <1>1, <1>5, <2>1
    <2> QED
      BY <2>1, <2>2
  <1> QED
    BY <1>4, <1>5

\* A task that no dependency names can be scheduled first or last.
LEMMA GrowingKeepsAcyclic ==
  ASSUME NEW f, NEW g, NEW new, Acyclic(f), g.deps = f.deps,
         DOMAIN g.tasks \subseteq DOMAIN f.tasks \union {new},
         \A x \in f.deps : x.pred # new /\ x.succ # new
  PROVE  Acyclic(g)
  <1>1. SUFFICES ASSUME NEW s \in SUBSET DOMAIN g.tasks, s # {}
                 PROVE  \E t \in s : \A x \in g.deps : x.succ = t => x.pred \notin s
    BY DEF Acyclic
  <1>2. CASE s \ {new} # {}
    <2>1. s \ {new} \in SUBSET DOMAIN f.tasks
      OBVIOUS
    <2>2. PICK t \in s \ {new} : \A x \in f.deps : x.succ = t => x.pred \notin s \ {new}
      BY <1>2, <2>1 DEF Acyclic
    <2> QED
      BY <2>2
  <1>3. CASE s = {new}
    BY <1>3
  <1> QED
    BY <1>1, <1>2, <1>3

\* What may become of the facts in one call, as far as the graph is concerned: the same
\* tasks and dependencies, one task more, or one dependency more.
SameGraph(f, g)  == DOMAIN g.tasks = DOMAIN f.tasks /\ g.deps = f.deps
OneTaskMore(f, g) == DOMAIN g.tasks = 1..(Len(f.tasks) + 1) /\ g.deps = f.deps
OneLinkMore(f, g, d) == g.tasks = f.tasks /\ g.deps \subseteq f.deps \union {d}

\* A new task, which nothing depends on yet, keeps the facts a project.
LEMMA InsertTaskIsProject ==
  ASSUME NEW f, NEW t \in Shapes, IsProject(f)
  PROVE  IsProject(InsertTask(f, t)) /\ OneTaskMore(f, InsertTask(f, t))
  <1> DEFINE g == InsertTask(f, t)
  <1>1. /\ DOMAIN g = DOMAIN f /\ g.tasks = Append(f.tasks, t)
        /\ g.deps = f.deps /\ g.people = f.people /\ g.leaves = f.leaves
    BY DEF InsertTask, IsProject
  <1>2. t \in TaskInput /\ f.tasks \in Seq(TaskInput)
    BY ShapesAssumption DEF IsProject
  <1>3. /\ Append(f.tasks, t) \in Seq(TaskInput)
        /\ DOMAIN Append(f.tasks, t) = 1..(Len(f.tasks) + 1)
        /\ DOMAIN f.tasks \subseteq DOMAIN Append(f.tasks, t)
    BY <1>2
  <1>4. IsProject(g)
    BY <1>1, <1>3 DEF IsProject
  <1> QED
    BY <1>1, <1>3, <1>4 DEF OneTaskMore

\* So does an updated task,
LEMMA UpdateTaskIsProject ==
  ASSUME NEW f, NEW t, NEW est \in Int, IsProject(f), t \in DOMAIN f.tasks
  PROVE  IsProject(UpdateTask(f, t, est)) /\ SameGraph(f, UpdateTask(f, t, est))
  <1> DEFINE g == UpdateTask(f, t, est)
             q == [f.tasks EXCEPT ![t] = [@ EXCEPT !.est = est]]
  <1>1. /\ DOMAIN g = DOMAIN f /\ g.tasks = q
        /\ g.deps = f.deps /\ g.people = f.people /\ g.leaves = f.leaves
    BY DEF UpdateTask, IsProject
  <1>2. f.tasks \in Seq(TaskInput) /\ f.tasks[t] \in TaskInput
    BY DEF IsProject
  <1>3. [f.tasks[t] EXCEPT !.est = est] \in TaskInput
    BY <1>2 DEF TaskInput
  <1>4. q \in Seq(TaskInput) /\ DOMAIN q = DOMAIN f.tasks
    BY <1>2, <1>3
  <1> HIDE DEF g, q
  <1>5. IsProject(g)
    BY <1>1, <1>4 DEF IsProject
  <1> QED
    BY <1>1, <1>4, <1>5 DEF SameGraph, g

\* People and their leaves are not of the graph.
LEMMA InsertResourceIsProject ==
  ASSUME NEW f, NEW r \in Persons, IsProject(f)
  PROVE  IsProject(InsertResource(f, r)) /\ SameGraph(f, InsertResource(f, r))
  <1> DEFINE g == InsertResource(f, r)
  <1>1. /\ DOMAIN g = DOMAIN f /\ g.people = Append(f.people, r)
        /\ g.tasks = f.tasks /\ g.deps = f.deps /\ g.leaves = f.leaves
    BY DEF InsertResource, IsProject
  <1>2. r \in ResourceInput /\ f.people \in Seq(ResourceInput)
    BY PeopleAssumption DEF IsProject
  <1>3. Append(f.people, r) \in Seq(ResourceInput)
    BY <1>2
  <1> HIDE DEF g
  <1>4. IsProject(g)
    BY <1>1, <1>3 DEF IsProject
  <1> QED
    BY <1>1, <1>4 DEF SameGraph, g

\* a skill given,
LEMMA GiveSkillIsProject ==
  ASSUME NEW f, NEW r, NEW skill \in STRING, IsProject(f), r \in DOMAIN f.people
  PROVE  IsProject(GiveSkill(f, r, skill)) /\ SameGraph(f, GiveSkill(f, r, skill))
  <1> DEFINE g == GiveSkill(f, r, skill)
             person == [f.people[r] EXCEPT !.skills = f.people[r].skills \union {skill}]
             q == [f.people EXCEPT ![r] = person]
  <1>1. /\ DOMAIN g = DOMAIN f /\ g.people = q
        /\ g.tasks = f.tasks /\ g.deps = f.deps /\ g.leaves = f.leaves
    BY DEF GiveSkill, IsProject
  <1>2. f.people \in Seq(ResourceInput) /\ f.people[r] \in ResourceInput
    BY DEF IsProject
  <1>3. person \in ResourceInput
    BY <1>2 DEF ResourceInput
  <1> HIDE DEF person
  <1>4. q \in Seq(ResourceInput)
    BY <1>2, <1>3
  <1> HIDE DEF g, q
  <1>5. IsProject(g)
    BY <1>1, <1>4 DEF IsProject
  <1> QED
    BY <1>1, <1>5 DEF SameGraph, g

\* a leave entered
LEMMA InsertAvailabilityIsProject ==
  ASSUME NEW f, NEW l \in Leaves, IsProject(f)
  PROVE  IsProject(InsertAvailability(f, l)) /\ SameGraph(f, InsertAvailability(f, l))
  <1> DEFINE g == InsertAvailability(f, l)
  <1>1. /\ DOMAIN g = DOMAIN f /\ g.leaves = Append(f.leaves, l)
        /\ g.tasks = f.tasks /\ g.deps = f.deps /\ g.people = f.people
    BY DEF InsertAvailability, IsProject
  <1>2. l \in AvailabilityInput /\ f.leaves \in Seq(AvailabilityInput)
    BY PeopleAssumption DEF IsProject
  <1>3. Append(f.leaves, l) \in Seq(AvailabilityInput)
    BY <1>2
  <1> HIDE DEF g
  <1>4. IsProject(g)
    BY <1>1, <1>3 DEF IsProject
  <1> QED
    BY <1>1, <1>4 DEF SameGraph, g

\* and a dependency entered between two tasks of the project.
LEMMA UpsertIsProject ==
  ASSUME NEW f, NEW d \in DependencyInput, IsProject(f), {d.pred, d.succ} \subseteq DOMAIN f.tasks
  PROVE  IsProject(UpsertDependency(f, d)) /\ OneLinkMore(f, UpsertDependency(f, d), d)
  <1> DEFINE g == UpsertDependency(f, d)
             old == {x \in f.deps : <<x.pred, x.succ>> # <<d.pred, d.succ>>}
  <1>1. /\ DOMAIN g = DOMAIN f /\ g.deps = old \union {d}
        /\ g.tasks = f.tasks /\ g.people = f.people /\ g.leaves = f.leaves
    BY DEF UpsertDependency, IsProject
  <1>2. f.deps \subseteq DependencyInput /\ IsFiniteSet(f.deps) /\ old \subseteq f.deps
    BY DEF IsProject
  <1> HIDE DEF old
  <1>3. IsFiniteSet(old \union {d})
    BY <1>2, FS_Subset, FS_AddElement
  <1> HIDE DEF g
  <1>4. IsProject(g)
    BY <1>1, <1>2, <1>3 DEF IsProject
  <1> QED
    BY <1>1, <1>2, <1>4 DEF OneLinkMore, g

\* The invariant: the tables are those of a project, the graph can be scheduled unless a
\* dependency raced, and a dependency that waits to be inserted is between tasks that are
\* there and closes no cycle in the edges it was checked against.
JobFields == DOMAIN IdleProcess

Waiting(j, tasks) ==
    /\ j.link[1] \in Links
    /\ {j.link[1].pred, j.link[1].succ} \subseteq tasks
    /\ ~CreatesCycle(j.link[2], j.link[1].pred, j.link[1].succ)

JobsWait ==
    /\ DOMAIN job = Processes
    /\ \A p \in Processes :
          /\ DOMAIN job[p] = JobFields
          /\ job[p].step = "insert" => Waiting(job[p], DOMAIN facts.tasks)

GraphInv == IsProject(facts) /\ GraphStaysAcyclic /\ JobsWait

\* What a job may become while its link waits: it goes on waiting, or waits no more.
JobGoesOn(j, k) ==
    DOMAIN k = JobFields /\ (k.step = "insert" => j.step = "insert" /\ k.link = j.link)

JobsGoOn == DOMAIN job' = Processes /\ \A q \in Processes : JobGoesOn(job[q], job'[q])

\* What an entered fact leaves of the job of another process.
NotAlone(j) == [j EXCEPT !.alone = FALSE]

\* The jobs of the other processes are as they were, but for whether they are alone.
LEMMA OtherJobs ==
  ASSUME NEW j, DOMAIN j = JobFields
  PROVE  JobGoesOn(j, IdleProcess) /\ JobGoesOn(j, j) /\ JobGoesOn(j, NotAlone(j))
  BY DEF JobGoesOn, JobFields, IdleProcess, NotAlone

\* A call that enters no fact and checks no dependency keeps the invariant.
LEMMA QuietCall ==
  ASSUME GraphInv, facts' = facts, raced' = raced, JobsGoOn
  PROVE  GraphInv'
  <1>1. Acyclic(facts)' <=> Acyclic(facts)
    BY DEF Acyclic
  <1>2. IsProject(facts)' /\ GraphStaysAcyclic'
    BY <1>1 DEF GraphInv, IsProject, GraphStaysAcyclic
  <1>3. JobsWait'
    BY DEF GraphInv, JobsWait, JobsGoOn, JobGoesOn, Waiting
  <1> QED
    BY <1>2, <1>3 DEF GraphInv

\* Entering facts lets the links that wait wait on, as long as no task goes.
LEMMA EnterKeepsJobs ==
  ASSUME JobsWait, NEW p \in Processes, NEW new, Enter(p, new),
         DOMAIN facts.tasks \subseteq DOMAIN new.tasks
  PROVE  JobsWait' /\ facts' = new
  <1>1. facts' = new /\ DOMAIN job' = Processes
    BY DEF Enter
  <1>2. ASSUME NEW q \in Processes
        PROVE  JobGoesOn(job[q], job'[q])
    <2>1. DOMAIN job[q] = JobFields
      BY DEF JobsWait
    <2>2. job'[q] = IdleProcess \/ job'[q] = NotAlone(job[q])
      BY DEF Enter, NotAlone
    <2> QED
      BY <2>1, <2>2, OtherJobs
  <1> QED
    BY <1>1, <1>2 DEF JobsWait, JobGoesOn, Waiting

\* A fact that leaves the graph as it is, or adds a task to it.
LEMMA EnterFact ==
  ASSUME GraphInv, NEW p \in Processes, NEW new, Enter(p, new), raced' = raced, IsProject(new),
         SameGraph(facts, new) \/ OneTaskMore(facts, new)
  PROVE  GraphInv'
  <1>1. facts.tasks \in Seq(TaskInput) /\ \A d \in facts.deps : {d.pred, d.succ} \subseteq DOMAIN facts.tasks
    BY DEF GraphInv, IsProject
  <1>2. DOMAIN facts.tasks = 1..Len(facts.tasks) /\ Len(facts.tasks) \in Nat
    BY <1>1
  <1>3. DOMAIN facts.tasks \subseteq DOMAIN new.tasks
    BY <1>2 DEF SameGraph, OneTaskMore
  <1>4. JobsWait' /\ facts' = new
    BY <1>3, EnterKeepsJobs DEF GraphInv
  <1>5. Acyclic(facts) => Acyclic(new)
    <2> SUFFICES ASSUME Acyclic(facts) PROVE Acyclic(new)
      OBVIOUS
    <2> DEFINE more == Len(facts.tasks) + 1
    <2>1. new.deps = facts.deps /\ DOMAIN new.tasks \subseteq DOMAIN facts.tasks \union {more}
      BY <1>2 DEF SameGraph, OneTaskMore
    <2>2. \A x \in facts.deps : x.pred # more /\ x.succ # more
      BY <1>1, <1>2
    <2> HIDE DEF more
    <2> QED
      BY <2>1, <2>2, GrowingKeepsAcyclic
  <1>6. GraphStaysAcyclic'
    BY <1>4, <1>5 DEF GraphInv, GraphStaysAcyclic
  <1> QED
    BY <1>4, <1>6 DEF GraphInv

\* A dependency is inserted over the edges it was checked against, or raced.
LEMMA InsertLink ==
  ASSUME GraphInv, NEW p \in Processes, AddDependency(p)
  PROVE  GraphInv'
  <1> DEFINE d == job[p].link[1]
             new == UpsertDependency(facts, d)
  <1>1. Waiting(job[p], DOMAIN facts.tasks)
    BY DEF GraphInv, JobsWait, AddDependency, At
  <1>2. d \in DependencyInput /\ {d.pred, d.succ} \subseteq DOMAIN facts.tasks
    BY <1>1, LinksAssumption DEF Waiting
  <1>3. IsProject(new) /\ OneLinkMore(facts, new, d)
    BY <1>2, UpsertIsProject DEF GraphInv
  <1>4. Enter(p, new)
    BY DEF AddDependency
  <1>5. JobsWait' /\ facts' = new
    BY <1>3, <1>4, EnterKeepsJobs DEF GraphInv, OneLinkMore
  <1>6. GraphStaysAcyclic'
    <2>1. CASE raced'
      BY <2>1 DEF GraphStaysAcyclic
    <2>2. CASE ~raced'
      <3>1. ~raced /\ job[p].link[2] = Edges(facts.deps)
        BY <2>2 DEF AddDependency
      <3>2. ~CreatesCycle(Edges(facts.deps), d.pred, d.succ) /\ Acyclic(facts)
        BY <1>1, <3>1 DEF Waiting, GraphInv, GraphStaysAcyclic
      <3>3. new.tasks = facts.tasks /\ \A x \in new.deps : x \in facts.deps \/ x = d
        BY <1>3 DEF OneLinkMore
      <3> HIDE DEF new, d
      <3>4. Acyclic(new)
        BY <3>2, <3>3, AddingKeepsAcyclic
      <3> QED
        BY <1>5, <3>4 DEF GraphStaysAcyclic
    <2> QED
      BY <2>1, <2>2
  <1> QED
    BY <1>3, <1>5, <1>6 DEF GraphInv

\* A dependency that was checked waits.
LEMMA CheckLink ==
  ASSUME GraphInv, NEW p \in Processes, CheckDependency(p)
  PROVE  GraphInv'
  <1>1. PICK d \in Links :
          /\ OwnedTask(d.pred) /\ OwnedTask(d.succ)
          /\ ~CreatesCycle(Edges(facts.deps), d.pred, d.succ)
          /\ job' = [job EXCEPT ![p] = [IdleProcess EXCEPT !.step = "insert", !.link = <<d, Edges(facts.deps)>>]]
    BY DEF CheckDependency
  <1> DEFINE j == [IdleProcess EXCEPT !.step = "insert", !.link = <<d, Edges(facts.deps)>>]
  <1>2. DOMAIN j = JobFields /\ j.link = <<d, Edges(facts.deps)>>
    BY DEF JobFields, IdleProcess
  <1>3. Waiting(j, DOMAIN facts.tasks)
    BY <1>1, <1>2 DEF Waiting, OwnedTask
  <1> HIDE DEF j
  <1>4. facts' = facts /\ raced' = raced /\ job' = [job EXCEPT ![p] = j]
    BY <1>1 DEF CheckDependency, j
  <1>5. JobsWait'
    BY <1>2, <1>3, <1>4 DEF GraphInv, JobsWait
  <1>6. Acyclic(facts)' <=> Acyclic(facts)
    BY <1>4 DEF Acyclic
  <1> QED
    BY <1>4, <1>5, <1>6 DEF GraphInv, GraphStaysAcyclic, IsProject

\* A plan that is computed keeps every link that waits.
LEMMA ComputedGoesOn ==
  ASSUME JobsWait, NEW p \in Processes, NEW s, Computed(p, s)
  PROVE  JobsGoOn
  <1>1. DOMAIN job' = Processes
    BY DEF Computed
  <1>2. PICK rows, sched, alone :
          job'[p] = [IdleProcess EXCEPT !.step = "clear", !.scenario = s, !.rows = rows, !.sched = sched, !.alone = alone]
    BY DEF Computed
  <1>3. JobGoesOn(job[p], job'[p])
    BY <1>2 DEF JobGoesOn, JobFields, IdleProcess
  <1>4. ASSUME NEW q \in Processes, q # p
        PROVE  JobGoesOn(job[q], job'[q])
    <2>1. DOMAIN job[q] = JobFields
      BY DEF JobsWait
    <2>2. job'[q] = job[q] \/ job'[q] = NotAlone(job[q])
      BY <1>4 DEF Computed, NotAlone
    <2> QED
      BY <2>1, <2>2, OtherJobs
  <1> QED
    BY <1>1, <1>3, <1>4 DEF JobsGoOn

\* A call of one process that changes its own job alone.
LEMMA OwnJob ==
  ASSUME JobsWait, NEW p \in Processes, NEW k, job' = [job EXCEPT ![p] = k], JobGoesOn(job[p], k)
  PROVE  JobsGoOn
  <1>1. DOMAIN job' = Processes /\ job'[p] = k /\ \A q \in Processes \ {p} : job'[q] = job[q]
    BY DEF JobsWait
  <1>2. \A q \in Processes \ {p} : JobGoesOn(job[q], job'[q])
    BY <1>1 DEF JobsWait, JobGoesOn
  <1> QED
    BY <1>1, <1>2 DEF JobsGoOn

\* Storing, and writing changes, leave the waiting jobs where they were.
LEMMA StoringGoesOn ==
  ASSUME JobsWait, NEW p \in Processes,
         \/ ClearAllocation(p) \/ ClearSchedule(p) \/ AddAllocation(p) \/ SetScheduleRow(p)
         \/ AskWhatIf(p) \/ AddChange(p) \/ Crash(p)
  PROVE  JobsGoOn
  <1>1. DOMAIN job[p] = JobFields
    BY DEF JobsWait
  <1>2. CASE ClearAllocation(p)
    <2>1. JobGoesOn(job[p], [job[p] EXCEPT !.step = "clear schedule"])
      BY <1>1 DEF JobGoesOn, JobFields, IdleProcess
    <2>2. job' = [job EXCEPT ![p] = [job[p] EXCEPT !.step = "clear schedule"]]
      BY <1>2 DEF ClearAllocation
    <2> QED
      BY <2>1, <2>2, OwnJob
  <1>3. CASE ClearSchedule(p)
    <2>1. JobGoesOn(job[p], [job[p] EXCEPT !.step = "rows"])
      BY <1>1 DEF JobGoesOn, JobFields, IdleProcess
    <2>2. job' = [job EXCEPT ![p] = [job[p] EXCEPT !.step = "rows"]]
      BY <1>3 DEF ClearSchedule
    <2> QED
      BY <2>1, <2>2, OwnJob
  <1>4. CASE AddAllocation(p)
    <2>1. PICK rows : job' = [job EXCEPT ![p] = [job[p] EXCEPT !.rows = rows]]
      BY <1>4 DEF AddAllocation
    <2>2. JobGoesOn(job[p], [job[p] EXCEPT !.rows = rows])
      BY <1>1 DEF JobGoesOn, JobFields, IdleProcess
    <2> QED
      BY <2>1, <2>2, OwnJob
  <1>5. CASE SetScheduleRow(p)
    <2>1. CASE job' = [job EXCEPT ![p] = IdleProcess]
      BY <2>1, <1>1, OtherJobs, OwnJob
    <2>2. CASE job' # [job EXCEPT ![p] = IdleProcess]
      <3>1. PICK sched : job' = [job EXCEPT ![p] = [job[p] EXCEPT !.sched = sched]]
        BY <1>5, <2>2 DEF SetScheduleRow
      <3>2. JobGoesOn(job[p], [job[p] EXCEPT !.sched = sched])
        BY <1>1 DEF JobGoesOn, JobFields, IdleProcess
      <3> QED
        BY <3>1, <3>2, OwnJob
    <2> QED
      BY <2>1, <2>2
  <1>6. CASE AskWhatIf(p)
    <2>1. PICK n, ch : job' = [job EXCEPT ![p] = [IdleProcess EXCEPT !.step = "change", !.scenario = n, !.change = ch]]
      BY <1>6 DEF AskWhatIf
    <2>2. JobGoesOn(job[p], [IdleProcess EXCEPT !.step = "change", !.scenario = n, !.change = ch])
      BY DEF JobGoesOn, JobFields, IdleProcess
    <2> QED
      BY <2>1, <2>2, OwnJob
  <1>7. CASE AddChange(p)
    <2>1. PICK ch : job' = [job EXCEPT ![p] = [job[p] EXCEPT !.step = "whatif", !.change = ch]]
      BY <1>7 DEF AddChange
    <2>2. JobGoesOn(job[p], [job[p] EXCEPT !.step = "whatif", !.change = ch])
      BY <1>1 DEF JobGoesOn, JobFields, IdleProcess
    <2> QED
      BY <2>1, <2>2, OwnJob
  <1>8. CASE Crash(p)
    <2>1. job' = [job EXCEPT ![p] = IdleProcess]
      BY <1>8 DEF Crash
    <2> QED
      BY <2>1, <1>1, OtherJobs, OwnJob
  <1> QED
    BY <1>2, <1>3, <1>4, <1>5, <1>6, <1>7, <1>8

\* Every call keeps the invariant.
LEMMA EnteringKeepsGraph ==
  ASSUME GraphInv, NEW p \in Processes,
         AddTask(p) \/ EstimateTask(p) \/ AddResource(p) \/ SetSkill(p) \/ AddAvailability(p)
  PROVE  GraphInv'
  <1>1. IsProject(facts)
    BY DEF GraphInv
  <1>2. CASE AddTask(p)
    <2>1. PICK t \in Shapes : Enter(p, InsertTask(facts, t)) /\ raced' = raced
      BY <1>2 DEF AddTask
    <2> QED
      BY <1>1, <2>1, InsertTaskIsProject, EnterFact
  <1>3. CASE EstimateTask(p)
    <2>1. PICK t \in DOMAIN facts.tasks, shape \in Shapes : Enter(p, UpdateTask(facts, t, shape.est)) /\ raced' = raced
      BY <1>3 DEF EstimateTask
    <2>2. shape.est \in Int
      BY ShapesAssumption DEF TaskInput
    <2>3. IsProject(UpdateTask(facts, t, shape.est)) /\ SameGraph(facts, UpdateTask(facts, t, shape.est))
      BY <1>1, <2>2, UpdateTaskIsProject
    <2> QED
      BY <2>1, <2>3, EnterFact
  <1>4. CASE AddResource(p)
    <2>1. PICK r \in Persons : Enter(p, InsertResource(facts, r)) /\ raced' = raced
      BY <1>4 DEF AddResource
    <2> QED
      BY <1>1, <2>1, InsertResourceIsProject, EnterFact
  <1>5. CASE SetSkill(p)
    <2>1. PICK r \in DOMAIN facts.people, t \in Shapes : Enter(p, GiveSkill(facts, r, t.skill)) /\ raced' = raced
      BY <1>5 DEF SetSkill
    <2>2. t.skill \in STRING
      BY ShapesAssumption DEF TaskInput
    <2>3. IsProject(GiveSkill(facts, r, t.skill)) /\ SameGraph(facts, GiveSkill(facts, r, t.skill))
      BY <1>1, <2>2, GiveSkillIsProject
    <2> QED
      BY <2>1, <2>3, EnterFact
  <1>6. CASE AddAvailability(p)
    <2>1. PICK l \in Leaves : Enter(p, InsertAvailability(facts, l)) /\ raced' = raced
      BY <1>6 DEF AddAvailability
    <2> QED
      BY <1>1, <2>1, InsertAvailabilityIsProject, EnterFact
  <1> QED
    BY <1>2, <1>3, <1>4, <1>5, <1>6

\* Every step keeps the graph free of cycles, and the checks true while nobody writes.
LEMMA PlanningKeepsGraph ==
  ASSUME GraphInv, NEW p \in Processes,
         \/ AddScenario(p) \/ CommitScenario(p) \/ Allocate(p)
         \/ ClearAllocation(p) \/ ClearSchedule(p) \/ AddAllocation(p) \/ SetScheduleRow(p)
         \/ AskWhatIf(p) \/ AddChange(p) \/ WhatIf(p) \/ Crash(p)
  PROVE  GraphInv'
  <1>1. JobsWait
    BY DEF GraphInv
  <1>2. CASE AddScenario(p) \/ CommitScenario(p)
    <2>1. facts' = facts /\ raced' = raced /\ job' = job
      BY <1>2 DEF AddScenario, CommitScenario
    <2>2. JobsGoOn
      BY <1>1, <2>1 DEF JobsWait, JobsGoOn, JobGoesOn
    <2> QED
      BY <2>1, <2>2, QuietCall
  <1>3. CASE Allocate(p)
    <2>1. PICK s : Computed(p, s)
      BY <1>3 DEF Allocate
    <2>2. facts' = facts /\ raced' = raced
      BY <2>1 DEF Computed
    <2> QED
      BY <1>1, <2>1, <2>2, ComputedGoesOn, QuietCall
  <1>4. CASE WhatIf(p)
    <2>1. CASE Computed(p, job[p].scenario)
      <3>1. facts' = facts /\ raced' = raced
        BY <2>1 DEF Computed
      <3>2. JobsGoOn
        BY <1>1, <2>1, ComputedGoesOn
      <3> QED
        BY <3>1, <3>2, QuietCall
    <2>2. CASE ~Computed(p, job[p].scenario)
      <3>1. facts' = facts /\ raced' = raced /\ job' = [job EXCEPT ![p] = IdleProcess]
        BY <1>4, <2>2 DEF WhatIf
      <3>2. JobGoesOn(job[p], IdleProcess)
        BY <1>1, OtherJobs DEF JobsWait
      <3> QED
        BY <1>1, <3>1, <3>2, OwnJob, QuietCall
    <2> QED
      BY <2>1, <2>2
  <1>5. CASE \/ ClearAllocation(p) \/ ClearSchedule(p) \/ AddAllocation(p) \/ SetScheduleRow(p)
             \/ AskWhatIf(p) \/ AddChange(p) \/ Crash(p)
    <2>1. facts' = facts /\ raced' = raced
      BY <1>5 DEF ClearAllocation, ClearSchedule, AddAllocation, SetScheduleRow, AskWhatIf, AddChange, Crash
    <2> QED
      BY <1>1, <1>5, <2>1, StoringGoesOn, QuietCall
  <1> QED
    BY <1>2, <1>3, <1>4, <1>5

\* They hold at the start
LEMMA GraphHoldsAtStart ==
  ASSUME PlanningInit
  PROVE  GraphInv
  <1>1. PICK n \in DOMAIN Installations : facts \in Installations[n]
    BY DEF PlanningInit
  <1>2. IsProject(facts) /\ Acyclic(facts)
    BY <1>1, InstallationsAssumption
  <1>3. \A p \in Processes : job[p] = IdleProcess /\ DOMAIN job[p] = JobFields
    BY DEF PlanningInit, JobFields
  <1>4. IdleProcess.step # "insert"
    BY DEF IdleProcess
  <1>5. JobsWait
    BY <1>3, <1>4 DEF JobsWait, PlanningInit
  <1> QED
    BY <1>2, <1>5 DEF GraphInv, GraphStaysAcyclic

\* and from then on.
LEMMA GraphHoldsOn ==
  ASSUME GraphInv, [PlanningNext]_planningVars
  PROVE  GraphInv'
  <1>1. CASE UNCHANGED planningVars
    <2>1. facts' = facts /\ raced' = raced /\ job' = job
      BY <1>1 DEF planningVars
    <2>2. JobsGoOn
      BY <2>1 DEF GraphInv, JobsWait, JobsGoOn, JobGoesOn
    <2> QED
      BY <2>1, <2>2, QuietCall
  <1>2. CASE PlanningNext
    <2>1. PICK p \in Processes :
            \/ AddTask(p) \/ EstimateTask(p) \/ AddResource(p) \/ SetSkill(p) \/ AddAvailability(p)
            \/ CheckDependency(p) \/ AddDependency(p)
            \/ AddScenario(p) \/ CommitScenario(p) \/ Allocate(p)
            \/ ClearAllocation(p) \/ ClearSchedule(p) \/ AddAllocation(p) \/ SetScheduleRow(p)
            \/ AskWhatIf(p) \/ AddChange(p) \/ WhatIf(p) \/ Crash(p)
      BY <1>2 DEF PlanningNext
    <2> QED
      BY <2>1, EnteringKeepsGraph, PlanningKeepsGraph, InsertLink, CheckLink
  <1> QED
    BY <1>1, <1>2

\* Whatever the tasks and dependencies and however many processes enter them, the task
\* graph stays one that can be scheduled, unless a dependency raced another: the check
\* before the insert (pm/store.py:346) is enough when it sees what the insert is made over.
THEOREM PlansCanBeMade == PlanningSpec => []GraphStaysAcyclic
  <1>1. GraphInv => GraphStaysAcyclic
    BY DEF GraphInv
  <1> QED
    BY <1>1, GraphHoldsAtStart, GraphHoldsOn, PTL DEF PlanningSpec

(***************************************************************************)
(* Least and largest members, and functions defined by recursion.          *)
(***************************************************************************)

\* A finite set of integers has a smallest member: the one that the fewest are below.
LEMMA SmallestOf ==
  ASSUME NEW S \in SUBSET Int, IsFiniteSet(S), S # {}
  PROVE  Min(S) \in S /\ \A y \in S : Min(S) <= y
  <1> DEFINE Below(x) == {y \in S : y < x}
             All == {Below(x) : x \in S}
  <1>1. All \subseteq FiniteSubsetsOf(S) /\ All # {} /\ All \subseteq SUBSET S
    <2>1. All # {} /\ All \subseteq SUBSET S
      OBVIOUS
    <2> HIDE DEF All
    <2> QED
      BY <2>1, FS_FiniteSubsetsOfFinite
  <1>2. PICK B \in All : \A C \in All : <<C, B>> \notin StrictSubsetOrdering(S)
    <2> HIDE DEF All
    <2> QED
      BY <1>1, FS_StrictSubsetOrderingWellFounded, WFMin
  <1>3. PICK x \in S : B = Below(x)
    OBVIOUS
  <1>4. \A y \in S : x <= y
    <2> SUFFICES ASSUME NEW y \in S, y < x PROVE FALSE
      OBVIOUS
    <2>1. Below(y) \in All
      OBVIOUS
    <2>2. \A z \in S : z < y => z < x
      OBVIOUS
    <2>3. Below(y) \subseteq B
      BY <1>3, <2>2
    <2>4. y \in B /\ y \notin Below(y)
      BY <1>3
    <2>5. <<Below(y), B>> \in StrictSubsetOrdering(S)
      BY <1>1, <2>1, <2>3, <2>4 DEF StrictSubsetOrdering
    <2> QED
      BY <1>2, <2>1, <2>5
  <1> QED
    BY <1>4 DEF Min

\* The image of a finite set is finite.
LEMMA ImageIsFinite ==
  ASSUME NEW S, IsFiniteSet(S), NEW g
  PROVE  IsFiniteSet({g[x] : x \in S})
  <1> DEFINE T == {g[x] : x \in S}
             h == [x \in S |-> g[x]]
  <1>1. h \in Surjection(S, T)
    BY DEF Surjection
  <1> QED
    BY <1>1, FS_Surjection

\* Max of a finite set of integers, not an empty one, is its largest.
LEMMA LargestOf ==
  ASSUME NEW S \in SUBSET Int, IsFiniteSet(S), S # {}
  PROVE  Max(S) \in S /\ \A y \in S : Max(S) >= y
  <1> DEFINE neg == [x \in S |-> -x]
             N   == {neg[x] : x \in S}
  <1>1. N \in SUBSET Int /\ N # {}
    <2>1. \A x \in S : neg[x] \in Int
      OBVIOUS
    <2> HIDE DEF neg
    <2> QED
      BY <2>1
  <1>2. IsFiniteSet(N)
    BY ImageIsFinite
  <1> HIDE DEF N
  <1>3. PICK x \in S : Min(N) = -x
    BY <1>1, <1>2, SmallestOf DEF N
  <1>4. \A y \in S : -y \in N
    BY DEF N
  <1>5. \A y \in S : x >= y
    BY <1>1, <1>2, <1>3, <1>4, SmallestOf
  <1> QED
    BY <1>5 DEF Max

\* A definition by recursion along a relation under which every set has a minimal member
\* defines a function: F[x] makes of a function the value at x, by what is below x only.
Agree(S, R, x, g, h) == \A y \in S : <<y, x>> \in R => g[y] = h[y]

Defines(S, R, V, F) ==
    /\ \A x \in S : \A g \in [S -> V] : F[x][g] \in V
    /\ \A x \in S : \A g, h \in [S -> V] : Agree(S, R, x, g, h) => F[x][g] = F[x][h]
    /\ \A T \in SUBSET S : T # {} => \E x \in T : \A y \in T : <<y, x>> \notin R
    /\ V # {}

\* A definition by recursion along a relation without an endless descent has a solution.
LEMMA Recursion ==
  ASSUME NEW S, NEW R, NEW V, NEW F, Defines(S, R, V, F)
  PROVE  \E g \in [S -> V] : \A x \in S : g[x] = F[x][g]
  <1> DEFINE Closed(D) == \A x \in D : \A y \in S : <<y, x>> \in R => y \in D
             Good(D, g) == D \in SUBSET S /\ Closed(D) /\ g \in [S -> V] /\ \A x \in D : g[x] = F[x][g]
             Reached == {x \in S : \E D, g : Good(D, g) /\ x \in D}
             Value(x) == CHOOSE v : \E D, g : Good(D, g) /\ x \in D /\ v = g[x]
  <1>0. /\ \A x \in S : \A g \in [S -> V] : F[x][g] \in V
        /\ \A x \in S : \A g, h \in [S -> V] : Agree(S, R, x, g, h) => F[x][g] = F[x][h]
        /\ \A T \in SUBSET S : T # {} => \E x \in T : \A y \in T : <<y, x>> \notin R
        /\ V # {}
    BY DEF Defines
  <1>1. ASSUME NEW D, NEW g, NEW E, NEW h, Good(D, g), Good(E, h)
        PROVE  \A x \in D \cap E : g[x] = h[x]
    <2> DEFINE T == {x \in D \cap E : g[x] # h[x]}
    <2> SUFFICES ASSUME T # {} PROVE FALSE
      OBVIOUS
    <2>1. PICK x \in T : \A y \in T : <<y, x>> \notin R
      BY <1>0, <1>1
    <2>2. Agree(S, R, x, g, h)
      BY <1>1, <2>1 DEF Agree
    <2> QED
      BY <1>0, <1>1, <2>1, <2>2
  <1>2. ASSUME NEW D, NEW g, Good(D, g), NEW x \in D
        PROVE  Value(x) = g[x] /\ x \in Reached
    <2>1. \E v : \E E, h : Good(E, h) /\ x \in E /\ v = h[x]
      BY <1>2
    <2>2. PICK E, h : Good(E, h) /\ x \in E /\ Value(x) = h[x]
      BY <2>1
    <2> HIDE DEF Good, Value
    <2>3. g[x] = h[x]
      BY <1>1, <1>2, <2>2
    <2>4. x \in S
      BY <1>2 DEF Good
    <2> QED
      BY <1>2, <2>2, <2>3, <2>4
  <1>3. PICK v0 : v0 \in V
    BY <1>0
  <1> DEFINE u == [x \in S |-> IF x \in Reached THEN Value(x) ELSE v0]
  <1>4. \A x \in Reached : \E D, g : Good(D, g) /\ x \in D
    OBVIOUS
  <1>5. Reached \subseteq S
    OBVIOUS
  <1> HIDE DEF Reached, Value
  <1>6. u \in [S -> V]
    <2>1. ASSUME NEW x \in Reached
          PROVE  Value(x) \in V
      <3>1. PICK D, g : Good(D, g) /\ x \in D
        BY <1>4
      <3>2. g \in [S -> V] /\ x \in S
        BY <3>1
      <3> QED
        BY <1>2, <3>1, <3>2
    <2> QED
      BY <1>3, <2>1
  <1>7. \A D, g : Good(D, g) => \A x \in D : u[x] = g[x]
    BY <1>2, <1>5
  <1> HIDE DEF u
  <1>8. Closed(Reached)
    BY <1>2, <1>4
  <1>9. ASSUME NEW x \in Reached
        PROVE  u[x] = F[x][u]
    <2>1. PICK D, g : Good(D, g) /\ x \in D
      BY <1>4
    <2>2. Agree(S, R, x, u, g)
      <3>1. \A y \in S : <<y, x>> \in R => y \in D
        BY <2>1
      <3>2. \A y \in D : u[y] = g[y]
        BY <1>7, <2>1
      <3> QED
        BY <3>1, <3>2 DEF Agree
    <2>3. x \in S /\ g \in [S -> V] /\ g[x] = F[x][g]
      BY <2>1
    <2>4. F[x][u] = F[x][g]
      BY <1>0, <1>6, <2>2, <2>3
    <2> QED
      BY <1>7, <2>1, <2>3, <2>4
  <1>10. Reached = S
    <2> SUFFICES ASSUME S \ Reached # {} PROVE FALSE
      BY <1>5
    <2>1. PICK x \in S \ Reached : \A y \in S \ Reached : <<y, x>> \notin R
      BY <1>0
    <2> DEFINE w == [u EXCEPT ![x] = F[x][u]]
               D == Reached \union {x}
    <2>2. w \in [S -> V] /\ w[x] = F[x][u] /\ \A y \in Reached : w[y] = u[y]
      BY <1>0, <1>5, <1>6
    <2> HIDE DEF w
    <2>3. D \in SUBSET S /\ Closed(D)
      BY <1>5, <1>8, <2>1
    <2>4. ASSUME NEW y \in D
          PROVE  w[y] = F[y][w]
      <3>1. Agree(S, R, y, u, w)
        BY <1>8, <2>1, <2>2 DEF Agree
      <3>2. F[y][u] = F[y][w] /\ y \in S
        BY <1>0, <1>5, <1>6, <2>2, <3>1
      <3> QED
        BY <1>9, <2>2, <3>2
    <2>5. Good(D, w)
      BY <2>2, <2>3, <2>4
    <2> QED
      BY <1>2, <2>1, <2>5
  <1> QED
    BY <1>6, <1>9, <1>10

(***************************************************************************)
(* The critical path.                                                      *)
(***************************************************************************)

(***************************************************************************)
(* The critical path.                                                      *)
(***************************************************************************)

\* What a dependency makes of the start of its predecessor, for its successor, and of the
\* finish of its successor, for its predecessor.
Push(f, d, start)  == SuccessorFloor(d, start, start + Duration(f, d.pred), Duration(f, d.succ))
Pull(f, d, finish) == PredecessorCeiling(d, finish - Duration(f, d.succ), finish, Duration(f, d.pred))

\* What a project is made of: finitely many tasks, each some hours long, and finitely
\* many dependencies between them.
LEMMA ProjectFacts ==
  ASSUME NEW f, IsProject(f)
  PROVE  /\ \A t \in DOMAIN f.tasks : Duration(f, t) \in Nat
         /\ IsFiniteSet(f.deps) /\ IsFiniteSet(DOMAIN f.tasks)
         /\ DOMAIN f.tasks = 1..Len(f.tasks) /\ Len(f.tasks) \in Nat
         /\ \A d \in f.deps : /\ d.pred \in DOMAIN f.tasks /\ d.succ \in DOMAIN f.tasks
                              /\ d.lag \in Int /\ d.type \in DependencyType
  <1>1. f.tasks \in Seq(TaskInput)
    BY DEF IsProject
  <1>2. \A t \in DOMAIN f.tasks : f.tasks[t].est \in Int
    <2> TAKE t \in DOMAIN f.tasks
    <2>1. f.tasks[t] \in TaskInput
      BY <1>1
    <2> QED
      BY <2>1 DEF TaskInput
  <1>3. DOMAIN f.tasks = 1..Len(f.tasks) /\ Len(f.tasks) \in Nat
    BY <1>1
  <1>4. IsFiniteSet(1..Len(f.tasks))
    BY <1>3, FS_Interval
  <1> QED
    BY <1>2, <1>3, <1>4 DEF IsProject, Duration, DependencyInput

\* The two are each other's converse: a start that pushes the successor no further than it
\* may go is one that finishes before the successor pulls.
LEMMA PushAndPull ==
  ASSUME NEW f, IsProject(f), NEW d \in f.deps
  PROVE  /\ \A x \in Int : Push(f, d, x) \in Int /\ Pull(f, d, x) \in Int
         /\ \A x, y \in Int : x <= y <=> Push(f, d, x) <= Push(f, d, y)
         /\ \A x, y \in Int : Push(f, d, x) + Duration(f, d.succ) <= y <=> x + Duration(f, d.pred) <= Pull(f, d, y)
  <1>1. /\ Duration(f, d.pred) \in Nat /\ Duration(f, d.succ) \in Nat
        /\ d.lag \in Int /\ d.type \in {"FS", "SS", "FF", "SF"}
    BY ProjectFacts DEF DependencyType
  <1>2. CASE d.type = "FS"
    BY <1>1, <1>2 DEF Push, Pull, SuccessorFloor, PredecessorCeiling
  <1>3. CASE d.type = "SS"
    BY <1>1, <1>3 DEF Push, Pull, SuccessorFloor, PredecessorCeiling
  <1>4. CASE d.type = "FF"
    BY <1>1, <1>4 DEF Push, Pull, SuccessorFloor, PredecessorCeiling
  <1>5. CASE d.type = "SF"
    BY <1>1, <1>5 DEF Push, Pull, SuccessorFloor, PredecessorCeiling
  <1> QED
    BY <1>1, <1>2, <1>3, <1>4, <1>5

\* Among any tasks there is one that none of the others waits for: take a smallest set that
\* has none; without the task that waits for none of them it is a smaller one.
LEMMA Sinks ==
  ASSUME NEW f, IsProject(f), Acyclic(f), NEW s \in SUBSET DOMAIN f.tasks, s # {}
  PROVE  \E t \in s : \A d \in f.deps : d.pred = t => d.succ \notin s
  <1> DEFINE T == DOMAIN f.tasks
             Bad(x) == x # {} /\ \A t \in x : \E d \in f.deps : d.pred = t /\ d.succ \in x
             All == {x \in SUBSET T : Bad(x)}
  <1> SUFFICES ASSUME Bad(s) PROVE FALSE
    OBVIOUS
  <1>1. IsFiniteSet(T)
    BY ProjectFacts
  <1>2. All \subseteq SUBSET T /\ s \in All
    OBVIOUS
  <1>3. All \subseteq FiniteSubsetsOf(T)
    <2> HIDE DEF All
    <2> QED
      BY <1>1, <1>2, FS_FiniteSubsetsOfFinite
  <1>4. PICK x \in All : \A y \in All : <<y, x>> \notin StrictSubsetOrdering(T)
    <2> HIDE DEF All
    <2> QED
      BY <1>2, <1>3, FS_StrictSubsetOrderingWellFounded, WFMin
  <1>5. PICK t \in x : \A d \in f.deps : d.succ = t => d.pred \notin x
    BY DEF Acyclic
  <1>6. Bad(x \ {t})
    <2>1. \A u \in x : \E d \in f.deps : d.pred = u /\ d.succ \in x \ {t}
      BY <1>5
    <2>2. x \ {t} # {}
      BY <2>1
    <2> QED
      BY <2>1, <2>2
  <1>7. x \ {t} \in All /\ <<x \ {t}, x>> \in StrictSubsetOrdering(T)
    BY <1>2, <1>6 DEF StrictSubsetOrdering
  <1> QED
    BY <1>4, <1>7

\* What the forward pass finds: the earliest starts that dependencies and notBefore allow.
Forward(f, nb, es) ==
    /\ es \in [DOMAIN f.tasks -> Int]
    /\ \A t \in DOMAIN f.tasks : nb[t] <= es[t]
    /\ \A d \in f.deps : Push(f, d, es[d.pred]) <= es[d.succ]
    /\ \A t \in DOMAIN f.tasks :
          es[t] = nb[t] \/ \E d \in f.deps : d.succ = t /\ es[t] = Push(f, d, es[d.pred])

\* The forward pass: every early date is the largest of what the predecessors ask for.
LEMMA ForwardPass ==
  ASSUME NEW f, IsProject(f), Acyclic(f), NEW nb \in [DOMAIN f.tasks -> Int]
  PROVE  Forward(f, nb, EarliestStart(f, nb))
  <1> DEFINE T == DOMAIN f.tasks
             into(t) == {d \in f.deps : d.succ = t}
             pushed(t, g) == {SuccessorFloor(d, g[d.pred], g[d.pred] + Duration(f, d.pred), Duration(f, t)) : d \in into(t)}
             R == {<<d.pred, d.succ>> : d \in f.deps}
             F == [t \in T |-> [g \in [T -> Int] |-> Max({nb[t]} \union pushed(t, g))]]
  <1>1. ASSUME NEW t \in T, NEW g, \A d \in into(t) : g[d.pred] \in Int
        PROVE  /\ pushed(t, g) = {Push(f, d, g[d.pred]) : d \in into(t)}
               /\ Max({nb[t]} \union pushed(t, g)) \in {nb[t]} \union pushed(t, g)
               /\ \A x \in {nb[t]} \union pushed(t, g) : x \in Int /\ Max({nb[t]} \union pushed(t, g)) >= x
    <2>1. pushed(t, g) = {Push(f, d, g[d.pred]) : d \in into(t)}
      BY DEF Push
    <2>2. \A d \in into(t) : Push(f, d, g[d.pred]) \in Int
      <3> TAKE d \in into(t)
      <3>1. g[d.pred] \in Int
        BY <1>1
      <3> QED
        BY <3>1, PushAndPull
    <2>3. IsFiniteSet(pushed(t, g))
      <3> DEFINE h == [d \in into(t) |-> Push(f, d, g[d.pred])]
      <3>1. IsFiniteSet(into(t))
        BY ProjectFacts, FS_Subset
      <3>2. pushed(t, g) = {h[d] : d \in into(t)}
        BY <2>1
      <3> HIDE DEF pushed, into, h
      <3> QED
        BY <3>1, <3>2, ImageIsFinite
    <2>4. pushed(t, g) \subseteq Int
      BY <2>1, <2>2
    <2> HIDE DEF pushed
    <2>5. IsFiniteSet(pushed(t, g) \union {nb[t]})
      BY <2>3, FS_AddElement
    <2>6. {nb[t]} \union pushed(t, g) = pushed(t, g) \union {nb[t]} /\ nb[t] \in Int
      OBVIOUS
    <2>7. {nb[t]} \union pushed(t, g) \in SUBSET Int /\ {nb[t]} \union pushed(t, g) # {}
      BY <2>4, <2>6
    <2> QED
      BY <2>1, <2>5, <2>6, <2>7, LargestOf
  <1>2. \A t \in T : \A g \in [T -> Int] : F[t][g] \in Int
    <2> TAKE t \in T
    <2> TAKE g \in [T -> Int]
    <2>1. F[t][g] = Max({nb[t]} \union pushed(t, g))
      OBVIOUS
    <2>2. \A d \in into(t) : g[d.pred] \in Int
      BY ProjectFacts
    <2> HIDE DEF F, pushed
    <2>3. \A x \in {nb[t]} \union pushed(t, g) : x \in Int
      BY <1>1, <2>2
    <2> QED
      BY <1>1, <2>1, <2>2, <2>3
  <1>3. \A t \in T : \A g, h \in [T -> Int] : Agree(T, R, t, g, h) => F[t][g] = F[t][h]
    <2> SUFFICES ASSUME NEW t \in T, NEW g \in [T -> Int], NEW h \in [T -> Int], Agree(T, R, t, g, h)
                 PROVE  F[t][g] = F[t][h]
      OBVIOUS
    <2>1. \A d \in into(t) : g[d.pred] = h[d.pred]
      BY ProjectFacts DEF Agree
    <2>2. pushed(t, g) = pushed(t, h)
      BY <2>1
    <2>3. F[t][g] = Max({nb[t]} \union pushed(t, g)) /\ F[t][h] = Max({nb[t]} \union pushed(t, h))
      OBVIOUS
    <2> HIDE DEF F, pushed
    <2> QED
      BY <2>2, <2>3
  <1>4. \A s \in SUBSET T : s # {} => \E x \in s : \A y \in s : <<y, x>> \notin R
    <2> SUFFICES ASSUME NEW s \in SUBSET T, s # {}
                 PROVE  \E x \in s : \A y \in s : <<y, x>> \notin R
      OBVIOUS
    <2>1. PICK x \in s : \A d \in f.deps : d.succ = x => d.pred \notin s
      BY DEF Acyclic
    <2>2. \A y \in s : <<y, x>> \notin R
      BY <2>1
    <2> QED
      BY <2>2
  <1>5. PICK g \in [T -> Int] : \A t \in T : g[t] = F[t][g]
    <2> HIDE DEF F, R
    <2>1. Defines(T, R, Int, F)
      BY <1>2, <1>3, <1>4 DEF Defines
    <2> QED
      BY <2>1, Recursion
  <1>6. g = [t \in T |-> Max({nb[t]} \union pushed(t, g))]
    <2>1. \A t \in T : g[t] = Max({nb[t]} \union pushed(t, g))
      <3> HIDE DEF pushed
      <3> QED
        BY <1>5
    <2> HIDE DEF pushed
    <2> QED
      BY <2>1
  <1> DEFINE es == EarliestStart(f, nb)
  <1>7. es = [t \in T |-> Max({nb[t]} \union pushed(t, es))]
    BY <1>6 DEF EarliestStart
  <1> HIDE DEF es, F
  <1>8. \A t \in T : es[t] \in Int
    <2> DEFINE s == {t \in T : es[t] \notin Int}
    <2> SUFFICES ASSUME s # {} PROVE FALSE
      OBVIOUS
    <2>1. PICK t \in s : \A d \in f.deps : d.succ = t => d.pred \notin s
      BY DEF Acyclic
    <2>2. \A d \in into(t) : es[d.pred] \in Int
      BY <2>1, ProjectFacts
    <2>3. es[t] = Max({nb[t]} \union pushed(t, es))
      <3> HIDE DEF pushed
      <3> QED
        BY <1>7, <2>1
    <2> HIDE DEF pushed
    <2>4. es[t] \in {nb[t]} \union pushed(t, es) /\ \A x \in {nb[t]} \union pushed(t, es) : x \in Int
      BY <1>1, <2>1, <2>2, <2>3
    <2> QED
      BY <2>1, <2>4
  <1>9. \A t \in T : /\ es[t] \in {nb[t]} \union {Push(f, d, es[d.pred]) : d \in into(t)}
                    /\ \A x \in {nb[t]} \union {Push(f, d, es[d.pred]) : d \in into(t)} : es[t] >= x
    <2> TAKE t \in T
    <2>1. es[t] = Max({nb[t]} \union pushed(t, es))
      <3> HIDE DEF pushed
      <3> QED
        BY <1>7
    <2>2. \A d \in into(t) : es[d.pred] \in Int
      BY <1>8, ProjectFacts
    <2> HIDE DEF pushed
    <2>3. pushed(t, es) = {Push(f, d, es[d.pred]) : d \in into(t)}
      BY <1>1, <2>2
    <2>4. /\ es[t] \in {nb[t]} \union pushed(t, es)
          /\ \A x \in {nb[t]} \union pushed(t, es) : es[t] >= x
      BY <1>1, <2>1, <2>2
    <2> QED
      BY ONLY <2>3, <2>4
  <1>10. es \in [T -> Int]
    <2>1. DOMAIN es = T /\ es = [t \in DOMAIN es |-> es[t]]
      <3> HIDE DEF pushed
      <3> QED
        BY <1>7
    <2> QED
      BY <1>8, <2>1
  <1>11. \A t \in T : nb[t] <= es[t]
    BY <1>8, <1>9
  <1>12. \A d \in f.deps : Push(f, d, es[d.pred]) <= es[d.succ]
    <2> TAKE d \in f.deps
    <2>1. d.succ \in T /\ d.pred \in T /\ d \in into(d.succ)
      BY ProjectFacts
    <2>2. Push(f, d, es[d.pred]) \in Int
      BY <1>8, <2>1, PushAndPull
    <2>3. es[d.succ] >= Push(f, d, es[d.pred])
      BY <1>9, <2>1
    <2> QED
      BY <1>8, <2>1, <2>2, <2>3
  <1>13. \A t \in T : es[t] = nb[t] \/ \E d \in f.deps : d.succ = t /\ es[t] = Push(f, d, es[d.pred])
    BY <1>9
  <1> QED
    BY <1>10, <1>11, <1>12, <1>13 DEF Forward, es

\* What the backward pass finds: the latest finishes that dependencies and the end allow.
Backward(f, end, lf) ==
    /\ lf \in [DOMAIN f.tasks -> Int]
    /\ \A t \in DOMAIN f.tasks : lf[t] <= end
    /\ \A d \in f.deps : lf[d.pred] <= Pull(f, d, lf[d.succ])
    /\ \A t \in DOMAIN f.tasks :
          lf[t] = end \/ \E d \in f.deps : d.pred = t /\ lf[t] = Pull(f, d, lf[d.succ])

\* The backward pass: every late date is the least of what the successors allow.
LEMMA BackwardPass ==
  ASSUME NEW f, IsProject(f), Acyclic(f), NEW end \in Int
  PROVE  Backward(f, end, LatestFinish(f, end))
  <1> DEFINE T == DOMAIN f.tasks
             from(t) == {d \in f.deps : d.pred = t}
             pulled(t, g) == {PredecessorCeiling(d, g[d.succ] - Duration(f, d.succ), g[d.succ], Duration(f, t)) : d \in from(t)}
             R == {<<d.succ, d.pred>> : d \in f.deps}
             F == [t \in T |-> [g \in [T -> Int] |-> Min({end} \union pulled(t, g))]]
  <1>1. ASSUME NEW t \in T, NEW g, \A d \in from(t) : g[d.succ] \in Int
        PROVE  /\ pulled(t, g) = {Pull(f, d, g[d.succ]) : d \in from(t)}
               /\ Min({end} \union pulled(t, g)) \in {end} \union pulled(t, g)
               /\ \A x \in {end} \union pulled(t, g) : x \in Int /\ Min({end} \union pulled(t, g)) <= x
    <2>1. pulled(t, g) = {Pull(f, d, g[d.succ]) : d \in from(t)}
      BY DEF Pull
    <2>2. \A d \in from(t) : Pull(f, d, g[d.succ]) \in Int
      <3> TAKE d \in from(t)
      <3>1. g[d.succ] \in Int
        BY <1>1
      <3> QED
        BY <3>1, PushAndPull
    <2>3. IsFiniteSet(pulled(t, g))
      <3> DEFINE h == [d \in from(t) |-> Pull(f, d, g[d.succ])]
      <3>1. IsFiniteSet(from(t))
        BY ProjectFacts, FS_Subset
      <3>2. pulled(t, g) = {h[d] : d \in from(t)}
        BY <2>1
      <3> HIDE DEF pulled, from, h
      <3> QED
        BY <3>1, <3>2, ImageIsFinite
    <2>4. pulled(t, g) \subseteq Int
      BY <2>1, <2>2
    <2> HIDE DEF pulled
    <2>5. IsFiniteSet(pulled(t, g) \union {end})
      BY <2>3, FS_AddElement
    <2>6. {end} \union pulled(t, g) = pulled(t, g) \union {end}
      OBVIOUS
    <2>7. {end} \union pulled(t, g) \in SUBSET Int /\ {end} \union pulled(t, g) # {}
      BY <2>4, <2>6
    <2> QED
      BY <2>1, <2>5, <2>6, <2>7, SmallestOf
  <1>2. \A t \in T : \A g \in [T -> Int] : F[t][g] \in Int
    <2> TAKE t \in T
    <2> TAKE g \in [T -> Int]
    <2>1. F[t][g] = Min({end} \union pulled(t, g))
      OBVIOUS
    <2>2. \A d \in from(t) : g[d.succ] \in Int
      BY ProjectFacts
    <2> HIDE DEF F, pulled
    <2>3. \A x \in {end} \union pulled(t, g) : x \in Int
      BY <1>1, <2>2
    <2> QED
      BY <1>1, <2>1, <2>2, <2>3
  <1>3. \A t \in T : \A g, h \in [T -> Int] : Agree(T, R, t, g, h) => F[t][g] = F[t][h]
    <2> SUFFICES ASSUME NEW t \in T, NEW g \in [T -> Int], NEW h \in [T -> Int], Agree(T, R, t, g, h)
                 PROVE  F[t][g] = F[t][h]
      OBVIOUS
    <2>1. \A d \in from(t) : g[d.succ] = h[d.succ]
      BY ProjectFacts DEF Agree
    <2>2. pulled(t, g) = pulled(t, h)
      BY <2>1
    <2>3. F[t][g] = Min({end} \union pulled(t, g)) /\ F[t][h] = Min({end} \union pulled(t, h))
      OBVIOUS
    <2> HIDE DEF F, pulled
    <2> QED
      BY <2>2, <2>3
  <1>4. \A s \in SUBSET T : s # {} => \E x \in s : \A y \in s : <<y, x>> \notin R
    <2> SUFFICES ASSUME NEW s \in SUBSET T, s # {}
                 PROVE  \E x \in s : \A y \in s : <<y, x>> \notin R
      OBVIOUS
    <2>1. PICK x \in s : \A d \in f.deps : d.pred = x => d.succ \notin s
      BY Sinks
    <2>2. \A y \in s : <<y, x>> \notin R
      BY <2>1
    <2> QED
      BY <2>2
  <1>5. PICK g \in [T -> Int] : \A t \in T : g[t] = F[t][g]
    <2> HIDE DEF F, R
    <2>1. Defines(T, R, Int, F)
      BY <1>2, <1>3, <1>4 DEF Defines
    <2> QED
      BY <2>1, Recursion
  <1>6. g = [t \in T |-> Min({end} \union pulled(t, g))]
    <2>1. \A t \in T : g[t] = Min({end} \union pulled(t, g))
      <3> HIDE DEF pulled
      <3> QED
        BY <1>5
    <2> HIDE DEF pulled
    <2> QED
      BY <2>1
  <1> DEFINE lf == LatestFinish(f, end)
  <1>7. lf = [t \in T |-> Min({end} \union pulled(t, lf))]
    BY <1>6 DEF LatestFinish
  <1> HIDE DEF lf, F
  <1>8. \A t \in T : lf[t] \in Int
    <2> DEFINE s == {t \in T : lf[t] \notin Int}
    <2> SUFFICES ASSUME s # {} PROVE FALSE
      OBVIOUS
    <2>0. s \in SUBSET T
      OBVIOUS
    <2>1. PICK t \in s : \A d \in f.deps : d.pred = t => d.succ \notin s
      <3> HIDE DEF s
      <3> QED
        BY <2>0, Sinks
    <2>2. \A d \in from(t) : lf[d.succ] \in Int
      BY <2>1, ProjectFacts
    <2>3. lf[t] = Min({end} \union pulled(t, lf))
      <3> HIDE DEF pulled
      <3> QED
        BY <1>7, <2>1
    <2> HIDE DEF pulled
    <2>4. lf[t] \in {end} \union pulled(t, lf) /\ \A x \in {end} \union pulled(t, lf) : x \in Int
      BY <1>1, <2>1, <2>2, <2>3
    <2> QED
      BY <2>1, <2>4
  <1>9. \A t \in T : /\ lf[t] \in {end} \union {Pull(f, d, lf[d.succ]) : d \in from(t)}
                    /\ \A x \in {end} \union {Pull(f, d, lf[d.succ]) : d \in from(t)} : lf[t] <= x
    <2> TAKE t \in T
    <2>1. lf[t] = Min({end} \union pulled(t, lf))
      <3> HIDE DEF pulled
      <3> QED
        BY <1>7
    <2>2. \A d \in from(t) : lf[d.succ] \in Int
      BY <1>8, ProjectFacts
    <2> HIDE DEF pulled
    <2>3. pulled(t, lf) = {Pull(f, d, lf[d.succ]) : d \in from(t)}
      BY <1>1, <2>2
    <2>4. /\ lf[t] \in {end} \union pulled(t, lf)
          /\ \A x \in {end} \union pulled(t, lf) : lf[t] <= x
      BY <1>1, <2>1, <2>2
    <2> QED
      BY ONLY <2>3, <2>4
  <1>10. lf \in [T -> Int]
    <2>1. DOMAIN lf = T /\ lf = [t \in DOMAIN lf |-> lf[t]]
      <3> HIDE DEF pulled
      <3> QED
        BY <1>7
    <2> QED
      BY <1>8, <2>1
  <1>11. \A t \in T : lf[t] <= end
    BY <1>8, <1>9
  <1>12. \A d \in f.deps : lf[d.pred] <= Pull(f, d, lf[d.succ])
    <2> TAKE d \in f.deps
    <2>1. d.succ \in T /\ d.pred \in T /\ d \in from(d.pred)
      BY ProjectFacts
    <2>2. Pull(f, d, lf[d.succ]) \in {end} \union {Pull(f, x, lf[x.succ]) : x \in from(d.pred)}
      BY <2>1
    <2> HIDE DEF from
    <2> QED
      BY <1>9, <2>1, <2>2
  <1>13. \A t \in T : lf[t] = end \/ \E d \in f.deps : d.pred = t /\ lf[t] = Pull(f, d, lf[d.succ])
    BY <1>9
  <1> QED
    BY <1>10, <1>11, <1>12, <1>13 DEF Backward, lf

\* The end of the project: the last finish, if there is one.
LEMMA LastFinish ==
  ASSUME NEW f, IsProject(f), NEW es \in [DOMAIN f.tasks -> Int]
  PROVE  /\ ProjectDuration(f, es) \in Nat
         /\ \A t \in DOMAIN f.tasks : es[t] + Duration(f, t) <= ProjectDuration(f, es)
         /\ ProjectDuration(f, es) = 0 \/ \E t \in DOMAIN f.tasks : ProjectDuration(f, es) = es[t] + Duration(f, t)
  <1> DEFINE T == DOMAIN f.tasks
             fin == [t \in T |-> es[t] + Duration(f, t)]
             all == {fin[t] : t \in T}
  <1>1. IsFiniteSet(T) /\ \A t \in T : fin[t] \in Int
    BY ProjectFacts
  <1>2. all \subseteq Int
    BY <1>1
  <1>3. IsFiniteSet(all)
    <2> HIDE DEF fin
    <2> QED
      BY <1>1, ImageIsFinite
  <1>4. ProjectDuration(f, es) = Max(all \union {0})
    <2>1. {es[t] + Duration(f, t) : t \in T} = all
      OBVIOUS
    <2>2. {0} \union all = all \union {0}
      OBVIOUS
    <2> QED
      BY <2>1, <2>2 DEF ProjectDuration
  <1> HIDE DEF all
  <1>5. IsFiniteSet(all \union {0}) /\ all \union {0} \in SUBSET Int /\ all \union {0} # {}
    BY <1>2, <1>3, FS_AddElement
  <1>6. Max(all \union {0}) \in all \union {0} /\ \A y \in all \union {0} : Max(all \union {0}) >= y
    BY <1>5, LargestOf
  <1>7. \A t \in T : fin[t] = es[t] + Duration(f, t) /\ fin[t] \in all
    BY DEF all
  <1>8. \A x \in all : \E t \in T : x = es[t] + Duration(f, t)
    BY DEF all
  <1>9. \A t \in T : es[t] + Duration(f, t) <= ProjectDuration(f, es)
    <2> TAKE t \in T
    <2>1. fin[t] \in Int /\ fin[t] \in all \union {0} /\ fin[t] = es[t] + Duration(f, t)
      BY <1>1, <1>7
    <2> HIDE DEF fin
    <2>2. Max(all \union {0}) \in Int
      BY <1>5, <1>6
    <2> QED
      BY <1>4, <1>6, <2>1, <2>2
  <1>10. ProjectDuration(f, es) \in Nat
    <2>1. Max(all \union {0}) \in Int /\ Max(all \union {0}) >= 0
      BY <1>5, <1>6
    <2> QED
      BY <1>4, <2>1
  <1> HIDE DEF fin
  <1> QED
    BY <1>4, <1>6, <1>8, <1>9, <1>10

\* What ends by the end of the project also ends before it holds up what waits for it.
LEMMA EndsInTime ==
  ASSUME NEW f, IsProject(f), Acyclic(f), NEW nb, NEW es, Forward(f, nb, es),
         NEW end \in Int, NEW lf, Backward(f, end, lf),
         \A t \in DOMAIN f.tasks : es[t] + Duration(f, t) <= end
  PROVE  \A t \in DOMAIN f.tasks : es[t] + Duration(f, t) <= lf[t]
  <1> DEFINE late == {t \in DOMAIN f.tasks : es[t] + Duration(f, t) > lf[t]}
  <1>1. \A t \in DOMAIN f.tasks : es[t] \in Int /\ lf[t] \in Int /\ Duration(f, t) \in Int
    BY ProjectFacts DEF Forward, Backward
  <1> SUFFICES ASSUME late # {} PROVE FALSE
    BY <1>1
  <1>2. PICK t \in late : \A d \in f.deps : d.pred = t => d.succ \notin late
    <2>1. late \in SUBSET DOMAIN f.tasks
      OBVIOUS
    <2> HIDE DEF late
    <2> QED
      BY <2>1, Sinks
  <1>3. lf[t] # end
    BY <1>1
  <1>4. PICK d \in f.deps : d.pred = t /\ lf[t] = Pull(f, d, lf[d.succ])
    BY <1>3 DEF Backward
  <1>5. d.succ \in DOMAIN f.tasks /\ d.succ \notin late
    BY <1>2, <1>4, ProjectFacts
  <1>6. es[d.succ] + Duration(f, d.succ) <= lf[d.succ]
    BY <1>1, <1>5
  <1>7. Push(f, d, es[t]) <= es[d.succ] /\ Push(f, d, es[t]) \in Int
    BY <1>1, <1>4, PushAndPull DEF Forward
  <1>8. Push(f, d, es[t]) + Duration(f, d.succ) <= lf[d.succ]
    BY <1>1, <1>5, <1>6, <1>7
  <1>9. es[t] + Duration(f, t) <= lf[t]
    <2>1. es[t] \in Int /\ lf[d.succ] \in Int
      BY <1>1, <1>5
    <2>2. Push(f, d, es[t]) + Duration(f, d.succ) <= lf[d.succ] <=> es[t] + Duration(f, d.pred) <= Pull(f, d, lf[d.succ])
      BY <2>1, PushAndPull
    <2> QED
      BY <1>4, <1>8, <2>2
  <1> QED
    BY <1>1, <1>9

\* What may not start before a time that is early enough does not end too late.
LEMMA StartsInTime ==
  ASSUME NEW f, IsProject(f), Acyclic(f), NEW nb \in [DOMAIN f.tasks -> Int], NEW es, Forward(f, nb, es),
         NEW end \in Int, NEW lf, Backward(f, end, lf),
         \A t \in DOMAIN f.tasks : nb[t] + Duration(f, t) <= lf[t]
  PROVE  \A t \in DOMAIN f.tasks : es[t] + Duration(f, t) <= lf[t]
  <1> DEFINE late == {t \in DOMAIN f.tasks : es[t] + Duration(f, t) > lf[t]}
  <1>1. \A t \in DOMAIN f.tasks : es[t] \in Int /\ lf[t] \in Int /\ Duration(f, t) \in Int /\ nb[t] \in Int
    BY ProjectFacts DEF Forward, Backward
  <1> SUFFICES ASSUME late # {} PROVE FALSE
    BY <1>1
  <1>2. PICK t \in late : \A d \in f.deps : d.succ = t => d.pred \notin late
    BY DEF Acyclic
  <1>3. es[t] # nb[t]
    BY <1>1
  <1>4. PICK d \in f.deps : d.succ = t /\ es[t] = Push(f, d, es[d.pred])
    BY <1>3 DEF Forward
  <1>5. d.pred \in DOMAIN f.tasks /\ d.pred \notin late
    BY <1>2, <1>4, ProjectFacts
  <1>6. es[d.pred] + Duration(f, d.pred) <= lf[d.pred]
    BY <1>1, <1>5
  <1>7. lf[d.pred] <= Pull(f, d, lf[t]) /\ Pull(f, d, lf[t]) \in Int
    BY <1>1, <1>4, PushAndPull DEF Backward
  <1>8. es[d.pred] + Duration(f, d.pred) <= Pull(f, d, lf[t])
    BY <1>1, <1>5, <1>6, <1>7
  <1>9. es[t] + Duration(f, t) <= lf[t]
    BY <1>1, <1>4, <1>5, <1>8, PushAndPull
  <1> QED
    BY <1>1, <1>9

\* Of two forward passes the one that may start earlier starts everything no later.
LEMMA EarlierStartsEarlier ==
  ASSUME NEW f, IsProject(f), Acyclic(f),
         NEW nb \in [DOMAIN f.tasks -> Int], NEW es, Forward(f, nb, es),
         NEW nb2 \in [DOMAIN f.tasks -> Int], NEW es2, Forward(f, nb2, es2),
         \A t \in DOMAIN f.tasks : nb[t] <= nb2[t]
  PROVE  \A t \in DOMAIN f.tasks : es[t] <= es2[t]
  <1> DEFINE later == {t \in DOMAIN f.tasks : es[t] > es2[t]}
  <1>1. \A t \in DOMAIN f.tasks : es[t] \in Int /\ es2[t] \in Int /\ nb[t] \in Int /\ nb2[t] \in Int /\ nb2[t] <= es2[t]
    BY DEF Forward
  <1> SUFFICES ASSUME later # {} PROVE FALSE
    BY <1>1
  <1>2. PICK t \in later : \A d \in f.deps : d.succ = t => d.pred \notin later
    BY DEF Acyclic
  <1>3. es[t] # nb[t]
    BY <1>1
  <1>4. PICK d \in f.deps : d.succ = t /\ es[t] = Push(f, d, es[d.pred])
    BY <1>3 DEF Forward
  <1>5. d.pred \in DOMAIN f.tasks /\ d.pred \notin later
    BY <1>2, <1>4, ProjectFacts
  <1>6. es[d.pred] <= es2[d.pred]
    BY <1>1, <1>5
  <1>7. Push(f, d, es[d.pred]) <= Push(f, d, es2[d.pred]) /\ Push(f, d, es2[d.pred]) \in Int
    BY <1>1, <1>5, <1>6, PushAndPull
  <1>8. Push(f, d, es2[d.pred]) <= es2[t]
    BY <1>4 DEF Forward
  <1> QED
    BY <1>1, <1>4, <1>7, <1>8

\* A task that may start only after its latest start delays the end: of the tasks that
\* finish late the last one finishes after it.
LEMMA LateStartEndsLate ==
  ASSUME NEW f, IsProject(f), Acyclic(f), NEW nb \in [DOMAIN f.tasks -> Int], NEW es, Forward(f, nb, es),
         NEW end \in Int, NEW lf, Backward(f, end, lf),
         NEW t0 \in DOMAIN f.tasks, nb[t0] + Duration(f, t0) > lf[t0]
  PROVE  \E t \in DOMAIN f.tasks : es[t] + Duration(f, t) > end
  <1> DEFINE late == {t \in DOMAIN f.tasks : es[t] + Duration(f, t) > lf[t]}
  <1>1. \A t \in DOMAIN f.tasks : /\ es[t] \in Int /\ lf[t] \in Int /\ Duration(f, t) \in Int
                                  /\ nb[t] \in Int /\ nb[t] <= es[t]
    BY ProjectFacts DEF Forward, Backward
  <1>2. t0 \in late
    BY <1>1
  <1>3. PICK t \in late : \A d \in f.deps : d.pred = t => d.succ \notin late
    <2>1. late \in SUBSET DOMAIN f.tasks
      OBVIOUS
    <2> HIDE DEF late
    <2> QED
      BY <1>2, <2>1, Sinks
  <1>4. CASE lf[t] = end
    BY <1>4
  <1>5. ASSUME NEW d \in f.deps, d.pred = t, lf[t] = Pull(f, d, lf[d.succ])
        PROVE  FALSE
    <2>1. d.succ \in DOMAIN f.tasks /\ d.succ \notin late
      BY <1>3, <1>5, ProjectFacts
    <2>2. ~(Push(f, d, es[t]) + Duration(f, d.succ) <= lf[d.succ])
      <3>1. es[t] \in Int /\ lf[d.succ] \in Int
        BY <1>1, <2>1
      <3>2. Push(f, d, es[t]) + Duration(f, d.succ) <= lf[d.succ] <=> es[t] + Duration(f, d.pred) <= Pull(f, d, lf[d.succ])
        BY <3>1, PushAndPull
      <3>3. ~(es[t] + Duration(f, t) <= lf[t])
        BY <1>1
      <3> QED
        BY <1>5, <3>2, <3>3
    <2>3. Push(f, d, es[t]) <= es[d.succ] /\ Push(f, d, es[t]) \in Int
      BY <1>1, <1>5, PushAndPull DEF Forward
    <2> QED
      BY <1>1, <2>1, <2>2, <2>3
  <1> QED
    BY <1>4, <1>5 DEF Backward

\* The end of the project when a task starts no earlier than a given time.
EndWith(f, t, start) == ProjectDuration(f, EarliestStart(f, [Anytime(f) EXCEPT ![t] = start]))

\* Slack is what one task can be late by: that much leaves the end of the project
\* where it is, an hour more moves it.
LEMMA SlackIsWhatATaskCanBeLateBy ==
  ASSUME NEW f, IsProject(f), Acyclic(f), NEW t \in DOMAIN f.tasks, NEW late,
         late = LatestFinish(f, ProjectDuration(f, EarliestStart(f, Anytime(f))))[t] - Duration(f, t)
  PROVE  /\ EndWith(f, t, late) = EndWith(f, t, 0)
         /\ EndWith(f, t, late + 1) > EndWith(f, t, 0)
  <1> DEFINE T   == DOMAIN f.tasks
             nb(start) == [Anytime(f) EXCEPT ![t] = start]
             any == Anytime(f)
             es0 == EarliestStart(f, any)
             end == ProjectDuration(f, es0)
             lf  == LatestFinish(f, end)
             es1 == EarliestStart(f, nb(late))
             es2 == EarliestStart(f, nb(late + 1))
  <1>1. any \in [T -> Int] /\ (\A u \in T : any[u] = 0) /\ nb(0) = any
    BY DEF Anytime
  <1>2. Forward(f, any, es0)
    BY <1>1, ForwardPass
  <1>3. es0 \in [T -> Int]
    BY <1>2 DEF Forward
  <1>4. /\ end \in Nat /\ \A u \in T : es0[u] + Duration(f, u) <= end
        /\ end = 0 \/ \E u \in T : end = es0[u] + Duration(f, u)
    BY <1>3, LastFinish
  <1>5. Backward(f, end, lf)
    BY <1>4, BackwardPass
  <1>6. lf[t] \in Int /\ Duration(f, t) \in Nat /\ late \in Int /\ late = lf[t] - Duration(f, t)
    BY <1>5, ProjectFacts DEF Backward
  <1>7. \A u \in T : es0[u] + Duration(f, u) <= lf[u]
    <2> HIDE DEF any, es0, end, lf
    <2> QED
      BY <1>2, <1>4, <1>5, EndsInTime
  <1>8. nb(late) \in [T -> Int] /\ nb(late)[t] = late /\ \A u \in T \ {t} : nb(late)[u] = 0
    BY <1>1, <1>6
  <1>9. nb(late + 1) \in [T -> Int] /\ nb(late + 1)[t] = late + 1
    BY <1>1, <1>6
  <1>10. Forward(f, nb(late), es1)
    BY <1>8, ForwardPass
  <1>11. Forward(f, nb(late + 1), es2)
    BY <1>9, ForwardPass
  <1>12. EndWith(f, t, 0) = end /\ EndWith(f, t, late) = ProjectDuration(f, es1)
         /\ EndWith(f, t, late + 1) = ProjectDuration(f, es2)
    BY <1>1 DEF EndWith
  <1> DEFINE nb1 == nb(late)
             nb2 == nb(late + 1)
  <1>13. /\ nb1 \in [T -> Int] /\ nb1[t] = late /\ \A u \in T \ {t} : nb1[u] = 0
         /\ Forward(f, nb1, es1)
         /\ nb2 \in [T -> Int] /\ nb2[t] = late + 1
         /\ Forward(f, nb2, es2)
    BY <1>8, <1>9, <1>10, <1>11
  <1> HIDE DEF any, es0, end, lf, es1, es2, nb, nb1, nb2
  <1>14. \A u \in T : es0[u] \in Int /\ lf[u] \in Int /\ Duration(f, u) \in Nat /\ any[u] <= es0[u]
    BY <1>2, <1>5, ProjectFacts DEF Forward, Backward
  <1>15. \A u \in T : nb1[u] + Duration(f, u) <= lf[u] /\ any[u] <= nb1[u]
    <2> TAKE u \in T
    <2>1. CASE u = t
      BY <1>1, <1>6, <1>7, <1>13, <1>14, <2>1
    <2>2. CASE u # t
      BY <1>1, <1>7, <1>13, <1>14, <2>2
    <2> QED
      BY <2>1, <2>2
  <1>16. es1 \in [T -> Int] /\ es2 \in [T -> Int]
    BY <1>13 DEF Forward
  <1>17. \A u \in T : es1[u] + Duration(f, u) <= lf[u]
    BY <1>4, <1>5, <1>13, <1>15, StartsInTime
  <1>18. \A u \in T : es0[u] <= es1[u]
    BY <1>1, <1>2, <1>13, <1>15, EarlierStartsEarlier
  <1>19. \A u \in T : lf[u] <= end
    BY <1>5 DEF Backward
  <1>20. /\ ProjectDuration(f, es1) \in Nat
         /\ \A u \in T : es1[u] + Duration(f, u) <= ProjectDuration(f, es1)
         /\ ProjectDuration(f, es1) = 0 \/ \E u \in T : ProjectDuration(f, es1) = es1[u] + Duration(f, u)
    BY <1>16, LastFinish
  <1>21. ProjectDuration(f, es1) <= end
    <2>1. \A u \in T : es1[u] + Duration(f, u) <= end
      BY <1>4, <1>14, <1>16, <1>17, <1>19
    <2> QED
      BY <1>4, <1>20, <2>1
  <1>22. end <= ProjectDuration(f, es1)
    <2>1. ASSUME NEW u \in T, end = es0[u] + Duration(f, u)
          PROVE  end <= ProjectDuration(f, es1)
      <3>1. es0[u] <= es1[u] /\ es1[u] + Duration(f, u) <= ProjectDuration(f, es1)
        BY <1>18, <1>20
      <3> QED
        BY <1>4, <1>14, <1>16, <1>20, <2>1, <3>1
    <2> QED
      BY <1>4, <1>20, <2>1
  <1>23. PICK u \in T : es2[u] + Duration(f, u) > end
    <2>1. nb2[t] + Duration(f, t) > lf[t]
      BY <1>6, <1>13
    <2> QED
      BY <1>4, <1>5, <1>13, <2>1, LateStartEndsLate
  <1>24. es2[u] + Duration(f, u) <= ProjectDuration(f, es2) /\ ProjectDuration(f, es2) \in Nat
    BY <1>16, LastFinish
  <1>25. ProjectDuration(f, es2) > end
    BY <1>4, <1>14, <1>16, <1>23, <1>24
  <1>26. ProjectDuration(f, es1) = end
    BY <1>4, <1>20, <1>21, <1>22
  <1> QED
    BY <1>12, <1>25, <1>26

(***************************************************************************)
(* Sums.                                                                   *)
(***************************************************************************)

\* Of some subsets of a finite set one has no other of them in it.
LEMMA LeastSubset ==
  ASSUME NEW S, IsFiniteSet(S), NEW B \in SUBSET SUBSET S, B # {}
  PROVE  \E s \in B : \A u \in B : u \subseteq s => u = s
  <1>1. B \subseteq FiniteSubsetsOf(S)
    BY FS_FiniteSubsetsOfFinite
  <1>2. PICK s \in B : \A u \in B : <<u, s>> \notin StrictSubsetOrdering(S)
    BY <1>1, FS_StrictSubsetOrderingWellFounded, WFMin
  <1> QED
    BY <1>2 DEF StrictSubsetOrdering

\* The sum of h over a set.
SumOver(S, h) == Total([x \in S |-> h[x]])

AnyOf(s) == CHOOSE x \in s : TRUE

\* What the library's fold computes: it takes the members one after the other.
AddsUp(S, h, it) ==
    /\ it \in [SUBSET S -> Int]
    /\ \A s \in SUBSET S : it[s] = IF s = {} THEN 0 ELSE h[AnyOf(s)] + it[s \ {AnyOf(s)}]

\* A sum over finitely many is the sum with one taken out and that one.
LEMMA SumIsAddedUp ==
  ASSUME NEW S, IsFiniteSet(S), NEW h, \A x \in S : h[x] \in Int
  PROVE  \E it : AddsUp(S, h, it) /\ SumOver(S, h) = it[S]
  <1> DEFINE k == [x \in S |-> h[x]]
             add(s, it) == IF s = {} THEN 0 ELSE k[AnyOf(s)] + it[s \ {AnyOf(s)}]
             F == [s \in SUBSET S |-> [it \in [SUBSET S -> Int] |-> add(s, it)]]
             R == {<<u \ {AnyOf(u)}, u>> : u \in (SUBSET S) \ {{}}}
  <1>1. \A s \in SUBSET S : s # {} => AnyOf(s) \in s /\ s \ {AnyOf(s)} \in SUBSET S
    BY DEF AnyOf
  <1>2. \A s \in SUBSET S : \A it \in [SUBSET S -> Int] : F[s][it] \in Int
    <2> TAKE s \in SUBSET S
    <2> TAKE it \in [SUBSET S -> Int]
    <2>1. F[s][it] = add(s, it)
      OBVIOUS
    <2>2. s # {} => k[AnyOf(s)] \in Int /\ it[s \ {AnyOf(s)}] \in Int
      BY <1>1
    <2> HIDE DEF F, k
    <2> QED
      BY <2>1, <2>2
  <1>3. \A s \in SUBSET S : \A g, it \in [SUBSET S -> Int] : Agree(SUBSET S, R, s, g, it) => F[s][g] = F[s][it]
    <2> SUFFICES ASSUME NEW s \in SUBSET S, NEW g \in [SUBSET S -> Int], NEW it \in [SUBSET S -> Int],
                        Agree(SUBSET S, R, s, g, it)
                 PROVE  F[s][g] = F[s][it]
      OBVIOUS
    <2>1. F[s][g] = add(s, g) /\ F[s][it] = add(s, it)
      OBVIOUS
    <2>2. s # {} => <<s \ {AnyOf(s)}, s>> \in R
      BY <1>1
    <2>3. s # {} => g[s \ {AnyOf(s)}] = it[s \ {AnyOf(s)}]
      BY <1>1, <2>2 DEF Agree
    <2> HIDE DEF F, k
    <2> QED
      BY <2>1, <2>3
  <1>4. \A B \in SUBSET SUBSET S : B # {} => \E s \in B : \A u \in B : <<u, s>> \notin R
    <2> TAKE B \in SUBSET SUBSET S
    <2> HAVE B # {}
    <2>1. PICK s \in B : \A u \in B : u \subseteq s => u = s
      BY LeastSubset
    <2>2. \A u \in B : <<u, s>> \notin R
      BY <1>1, <2>1
    <2> QED
      BY <2>2
  <1>5. PICK g \in [SUBSET S -> Int] : \A s \in SUBSET S : g[s] = F[s][g]
    <2> DEFINE all == SUBSET S
    <2>1. /\ \A s \in all : \A it \in [all -> Int] : F[s][it] \in Int
          /\ \A s \in all : \A g, it \in [all -> Int] : Agree(all, R, s, g, it) => F[s][g] = F[s][it]
          /\ \A B \in SUBSET all : B # {} => \E s \in B : \A u \in B : <<u, s>> \notin R
      BY <1>2, <1>3, <1>4
    <2> HIDE DEF F, R, all
    <2>2. Defines(all, R, Int, F)
      BY <2>1 DEF Defines
    <2>3. \E g \in [all -> Int] : \A s \in all : g[s] = F[s][g]
      BY <2>2, Recursion
    <2> QED
      BY <2>3 DEF all
  <1>6. g = [s \in SUBSET S |-> add(s, g)]
    <2>1. \A s \in SUBSET S : g[s] = add(s, g)
      BY <1>5
    <2> QED
      BY <2>1
  <1> DEFINE it == CHOOSE it : it = [s \in SUBSET S |-> add(s, it)]
  <1>7. it = [s \in SUBSET S |-> add(s, it)]
    <2> HIDE DEF k
    <2> QED
      BY <1>6
  <1>8. SumOver(S, h) = it[S]
    <2> HIDE DEF F
    <2>1. DOMAIN k = S
      OBVIOUS
    <2>2. SumOver(S, h) = Total(k)
      BY DEF SumOver
    <2> HIDE DEF k
    <2> QED
      BY <2>1, <2>2 DEF Total, MapThenSumSet, MapThenFoldSet, AnyOf
  <1> HIDE DEF it, F
  <1>9. \A s \in SUBSET S : it[s] \in Int
    <2> DEFINE B == {s \in SUBSET S : it[s] \notin Int}
    <2> SUFFICES ASSUME B # {} PROVE FALSE
      OBVIOUS
    <2>1. PICK s \in B : \A u \in B : u \subseteq s => u = s
      <3>1. B \in SUBSET SUBSET S
        OBVIOUS
      <3> HIDE DEF B
      <3> QED
        BY <3>1, LeastSubset
    <2>2. s # {} => s \ {AnyOf(s)} \notin B
      BY <1>1, <2>1
    <2>3. s # {} => it[s \ {AnyOf(s)}] \in Int /\ h[AnyOf(s)] \in Int
      BY <1>1, <2>2
    <2>4. it[s] = IF s = {} THEN 0 ELSE h[AnyOf(s)] + it[s \ {AnyOf(s)}]
      BY <1>1, <1>7
    <2> QED
      BY <2>3, <2>4
  <1>10. \A s \in SUBSET S : it[s] = IF s = {} THEN 0 ELSE h[AnyOf(s)] + it[s \ {AnyOf(s)}]
    BY <1>1, <1>7
  <1>11. it \in [SUBSET S -> Int]
    <2>1. DOMAIN it = SUBSET S /\ it = [s \in DOMAIN it |-> it[s]]
      <3> HIDE DEF k
      <3> QED
        BY <1>7
    <2> QED
      BY <1>9, <2>1
  <1> QED
    BY <1>8, <1>10, <1>11 DEF AddsUp

\* The order does not matter.
LEMMA AddInAnyOrder ==
  ASSUME NEW S, IsFiniteSet(S), NEW h, \A x \in S : h[x] \in Int, NEW it, AddsUp(S, h, it)
  PROVE  \A s \in SUBSET S : \A x \in s : it[s] = h[x] + it[s \ {x}]
  <1> DEFINE B == {s \in SUBSET S : ~\A x \in s : it[s] = h[x] + it[s \ {x}]}
  <1> SUFFICES ASSUME B # {} PROVE FALSE
    OBVIOUS
  <1>1. PICK s \in B : \A u \in B : u \subseteq s => u = s
    <2>1. B \in SUBSET SUBSET S
      OBVIOUS
    <2> HIDE DEF B
    <2> QED
      BY <2>1, LeastSubset
  <1>2. PICK x \in s : ~(it[s] = h[x] + it[s \ {x}])
    OBVIOUS
  <1> DEFINE c == AnyOf(s)
  <1>3. c \in s
    BY <1>2 DEF AnyOf
  <1>4. it[s] = h[c] + it[s \ {c}]
    BY <1>2 DEF AddsUp
  <1>5. c # x
    BY <1>2, <1>4
  <1> HIDE DEF c
  <1>6. s \ {c} \notin B /\ s \ {x} \notin B
    BY <1>1, <1>2, <1>3
  <1>7. it[s \ {c}] = h[x] + it[(s \ {c}) \ {x}]
    BY <1>2, <1>5, <1>6
  <1>8. it[s \ {x}] = h[c] + it[(s \ {x}) \ {c}]
    BY <1>3, <1>5, <1>6
  <1>9. (s \ {c}) \ {x} = (s \ {x}) \ {c}
    OBVIOUS
  <1>10. it[(s \ {x}) \ {c}] \in Int /\ h[c] \in Int /\ h[x] \in Int
    BY <1>2, <1>3 DEF AddsUp
  <1>11. it[s] = h[x] + it[s \ {x}]
    <2> DEFINE a == h[c]
               b == h[x]
               r == it[(s \ {x}) \ {c}]
    <2>1. it[s] = a + (b + r) /\ it[s \ {x}] = a + r
      BY <1>4, <1>7, <1>8, <1>9
    <2>2. a \in Int /\ b \in Int /\ r \in Int
      BY <1>10
    <2> HIDE DEF a, r
    <2>3. a + (b + r) = b + (a + r)
      BY <2>2
    <2> QED
      BY <2>1, <2>3
  <1> QED
    BY <1>2, <1>11

\* The sum over a subset is the same whether one starts from the set or from the subset.
LEMMA AddPartOf ==
  ASSUME NEW S, IsFiniteSet(S), NEW h, NEW it, AddsUp(S, h, it), NEW P \in SUBSET S, NEW jt, AddsUp(P, h, jt)
  PROVE  jt[P] = it[P]
  <1> DEFINE B == {s \in SUBSET P : jt[s] # it[s]}
  <1> SUFFICES ASSUME B # {} PROVE FALSE
    OBVIOUS
  <1>1. PICK s \in B : \A u \in B : u \subseteq s => u = s
    <2>1. B \in SUBSET SUBSET P /\ IsFiniteSet(P)
      BY FS_Subset
    <2> HIDE DEF B
    <2> QED
      BY <2>1, LeastSubset
  <1>2. s # {} => s \ {AnyOf(s)} \notin B
    BY <1>1 DEF AnyOf
  <1> QED
    BY <1>2 DEF AddsUp

\* A sum, one member at a time.
LEMMA SumOneByOne ==
  ASSUME NEW S, IsFiniteSet(S), NEW h, \A x \in S : h[x] \in Int
  PROVE  /\ SumOver(S, h) \in Int
         /\ S = {} => SumOver(S, h) = 0
         /\ \A x \in S : SumOver(S, h) = h[x] + SumOver(S \ {x}, h)
  <1>1. PICK it : AddsUp(S, h, it) /\ SumOver(S, h) = it[S]
    BY SumIsAddedUp
  <1>2. ASSUME NEW x \in S
        PROVE  SumOver(S, h) = h[x] + SumOver(S \ {x}, h)
    <2>1. IsFiniteSet(S \ {x}) /\ \A y \in S \ {x} : h[y] \in Int
      BY FS_Subset
    <2>2. PICK jt : AddsUp(S \ {x}, h, jt) /\ SumOver(S \ {x}, h) = jt[S \ {x}]
      BY <2>1, SumIsAddedUp
    <2>3. jt[S \ {x}] = it[S \ {x}]
      BY <1>1, <2>2, AddPartOf
    <2>4. it[S] = h[x] + it[S \ {x}]
      BY <1>1, AddInAnyOrder
    <2> QED
      BY <1>1, <2>2, <2>3, <2>4
  <1>3. it[S] \in Int /\ (S = {} => it[S] = 0)
    BY <1>1 DEF AddsUp
  <1> QED
    BY <1>1, <1>2, <1>3

\* A sum of smaller numbers is smaller.
LEMMA SumIsMonotone ==
  ASSUME NEW S, IsFiniteSet(S), NEW h, NEW k,
         \A x \in S : h[x] \in Int /\ k[x] \in Int /\ h[x] <= k[x]
  PROVE  SumOver(S, h) <= SumOver(S, k)
  <1> DEFINE B == {s \in SUBSET S : ~(SumOver(s, h) <= SumOver(s, k))}
  <1> SUFFICES ASSUME B # {} PROVE FALSE
    OBVIOUS
  <1>1. PICK s \in B : \A u \in B : u \subseteq s => u = s
    <2>1. B \in SUBSET SUBSET S
      OBVIOUS
    <2> HIDE DEF B
    <2> QED
      BY <2>1, LeastSubset
  <1>2. IsFiniteSet(s) /\ \A x \in s : h[x] \in Int /\ k[x] \in Int /\ h[x] <= k[x]
    BY FS_Subset
  <1>3. s # {}
    <2> SUFFICES ASSUME s = {} PROVE FALSE
      OBVIOUS
    <2>1. SumOver(s, h) = 0 /\ SumOver(s, k) = 0
      BY <1>2, SumOneByOne
    <2> QED
      BY <2>1
  <1>4. PICK x \in s : TRUE
    BY <1>3
  <1>5. s \ {x} \notin B
    BY <1>1
  <1>6. SumOver(s \ {x}, h) <= SumOver(s \ {x}, k)
    BY <1>5
  <1>7. SumOver(s, h) = h[x] + SumOver(s \ {x}, h) /\ SumOver(s, k) = k[x] + SumOver(s \ {x}, k)
    BY <1>2, SumOneByOne
  <1>8. IsFiniteSet(s \ {x})
    BY <1>2, FS_Subset
  <1>9. SumOver(s \ {x}, h) \in Int /\ SumOver(s \ {x}, k) \in Int
    BY <1>2, <1>8, SumOneByOne
  <1>10. SumOver(s, h) <= SumOver(s, k)
    BY <1>2, <1>6, <1>7, <1>9
  <1> QED
    BY <1>10

\* The sum over two disjoint sets is the two sums.
LEMMA SumOfUnion ==
  ASSUME NEW S, IsFiniteSet(S), NEW P, IsFiniteSet(P), P \cap S = {},
         NEW h, \A x \in S \union P : h[x] \in Int
  PROVE  SumOver(S \union P, h) = SumOver(S, h) + SumOver(P, h)
  <1> DEFINE B == {s \in SUBSET S : ~(SumOver(s \union P, h) = SumOver(s, h) + SumOver(P, h))}
  <1> SUFFICES ASSUME B # {} PROVE FALSE
    OBVIOUS
  <1>1. PICK s \in B : \A u \in B : u \subseteq s => u = s
    <2>1. B \in SUBSET SUBSET S
      OBVIOUS
    <2> HIDE DEF B
    <2> QED
      BY <2>1, LeastSubset
  <1>2. IsFiniteSet(s) /\ IsFiniteSet(s \union P) /\ \A x \in s \union P : h[x] \in Int
    BY FS_Subset, FS_Union
  <1>3. SumOver(P, h) \in Int
    BY SumOneByOne
  <1>4. s # {}
    <2> SUFFICES ASSUME s = {} PROVE FALSE
      OBVIOUS
    <2>1. SumOver(s, h) = 0 /\ s \union P = P
      BY <1>2, SumOneByOne
    <2>2. SumOver(s \union P, h) = SumOver(P, h)
      BY <2>1
    <2> QED
      BY <1>3, <2>1, <2>2
  <1>5. PICK x \in s : TRUE
    BY <1>4
  <1>6. s \ {x} \notin B
    BY <1>1
  <1>7. SumOver((s \ {x}) \union P, h) = SumOver(s \ {x}, h) + SumOver(P, h)
    BY <1>6
  <1>8. x \notin P /\ h[x] \in Int
    BY <1>5
  <1>9. (s \union P) \ {x} = (s \ {x}) \union P
    BY <1>8
  <1>10. SumOver(s, h) = h[x] + SumOver(s \ {x}, h) /\ SumOver(s \union P, h) = h[x] + SumOver((s \union P) \ {x}, h)
    BY <1>2, SumOneByOne
  <1>11. IsFiniteSet(s \ {x}) /\ \A y \in s \ {x} : h[y] \in Int
    BY <1>2, FS_Subset
  <1>12. SumOver(s \ {x}, h) \in Int
    BY <1>11, SumOneByOne
  <1>13. SumOver(s \union P, h) = h[x] + (SumOver(s \ {x}, h) + SumOver(P, h))
    BY <1>7, <1>9, <1>10
  <1>14. SumOver(s \union P, h) = SumOver(s, h) + SumOver(P, h)
    BY <1>3, <1>8, <1>10, <1>12, <1>13
  <1> QED
    BY <1>14

\* A sum of naturals is one.
LEMMA SumIsNat ==
  ASSUME NEW S, IsFiniteSet(S), NEW h, \A x \in S : h[x] \in Nat
  PROVE  SumOver(S, h) \in Nat
  <1> DEFINE z == [x \in S |-> 0]
             B == {s \in SUBSET S : SumOver(s, h) \notin Nat}
  <1> SUFFICES ASSUME B # {} PROVE FALSE
    OBVIOUS
  <1>1. PICK s \in B : \A u \in B : u \subseteq s => u = s
    <2>1. B \in SUBSET SUBSET S
      OBVIOUS
    <2> HIDE DEF B
    <2> QED
      BY <2>1, LeastSubset
  <1>2. IsFiniteSet(s) /\ \A x \in s : h[x] \in Int
    BY FS_Subset
  <1>3. s # {}
    <2> SUFFICES ASSUME s = {} PROVE FALSE
      OBVIOUS
    <2>1. SumOver(s, h) = 0
      BY <1>2, SumOneByOne
    <2> QED
      BY <2>1
  <1>4. PICK x \in s : TRUE
    BY <1>3
  <1>5. s \ {x} \notin B
    BY <1>1
  <1>6. SumOver(s, h) = h[x] + SumOver(s \ {x}, h)
    BY <1>2, SumOneByOne
  <1>7. SumOver(s \ {x}, h) \in Nat /\ h[x] \in Nat
    BY <1>5
  <1> QED
    BY <1>6, <1>7

\* A sum of naturals over a part is no larger.
LEMMA SumOfPart ==
  ASSUME NEW S, IsFiniteSet(S), NEW P \in SUBSET S, NEW h, \A x \in S : h[x] \in Nat
  PROVE  SumOver(P, h) <= SumOver(S, h)
  <1>1. IsFiniteSet(P) /\ IsFiniteSet(S \ P)
    BY FS_Subset
  <1>2. (S \ P) \union P = S /\ P \cap (S \ P) = {} /\ \A x \in (S \ P) \union P : h[x] \in Int
    OBVIOUS
  <1>3. SumOver((S \ P) \union P, h) = SumOver(S \ P, h) + SumOver(P, h)
    BY <1>1, <1>2, SumOfUnion
  <1>4. SumOver(S \ P, h) \in Nat /\ SumOver(P, h) \in Nat
    BY <1>1, SumIsNat
  <1>5. SumOver(S, h) = SumOver(S \ P, h) + SumOver(P, h)
    BY <1>2, <1>3
  <1> QED
    BY <1>4, <1>5

\* A sum can be made by what key the members have: first of those with one key, then of
\* the keys.
Part(S, key, k) == {x \in S : key[x] = k}

\* A sum can be taken key by key.
LEMMA SumByKey ==
  ASSUME NEW S, IsFiniteSet(S), NEW h, \A x \in S : h[x] \in Int, NEW key, NEW K, IsFiniteSet(K)
  PROVE  SumOver({x \in S : key[x] \in K}, h) = SumOver(K, [k \in K |-> SumOver(Part(S, key, k), h)])
  <1> DEFINE of(J) == {x \in S : key[x] \in J}
             part == [k \in K |-> SumOver(Part(S, key, k), h)]
             B == {J \in SUBSET K : ~(SumOver(of(J), h) = SumOver(J, part))}
  <1> SUFFICES ASSUME B # {} PROVE FALSE
    OBVIOUS
  <1>1. PICK J \in B : \A u \in B : u \subseteq J => u = J
    <2>1. B \in SUBSET SUBSET K
      OBVIOUS
    <2> HIDE DEF B
    <2> QED
      BY <2>1, LeastSubset
  <1>2. IsFiniteSet(J) /\ J \subseteq K
    BY FS_Subset
  <1>3. \A k \in K : SumOver(Part(S, key, k), h) \in Int
    <2> TAKE k \in K
    <2>1. IsFiniteSet(Part(S, key, k)) /\ \A x \in Part(S, key, k) : h[x] \in Int
      BY FS_Subset DEF Part
    <2> QED
      BY <2>1, SumOneByOne
  <1>4. \A k \in K : part[k] = SumOver(Part(S, key, k), h) /\ part[k] \in Int
    BY <1>3
  <1>5. J # {}
    <2> SUFFICES ASSUME J = {} PROVE FALSE
      OBVIOUS
    <2>1. of(J) = {} /\ IsFiniteSet({}) /\ \A x \in {} : h[x] \in Int /\ part[x] \in Int
      BY FS_EmptySet
    <2> HIDE DEF part
    <2>2. SumOver({}, h) = 0 /\ SumOver({}, part) = 0
      BY <2>1, SumOneByOne
    <2>3. SumOver(of(J), h) = SumOver(J, part)
      BY <2>1, <2>2
    <2> QED
      BY <2>3 DEF part
  <1>6. PICK k \in J : TRUE
    BY <1>5
  <1>7. J \ {k} \notin B
    BY <1>1
  <1>8. SumOver(of(J \ {k}), h) = SumOver(J \ {k}, part)
    BY <1>2, <1>7
  <1>9. SumOver(J, part) = part[k] + SumOver(J \ {k}, part)
    <2> HIDE DEF part
    <2> QED
      BY <1>2, <1>4, SumOneByOne
  <1>10. of(J) = of(J \ {k}) \union Part(S, key, k) /\ Part(S, key, k) \cap of(J \ {k}) = {}
    BY DEF Part
  <1>11. /\ IsFiniteSet(of(J \ {k})) /\ IsFiniteSet(Part(S, key, k))
         /\ \A x \in of(J \ {k}) \union Part(S, key, k) : h[x] \in Int
    BY FS_Subset DEF Part
  <1>12. SumOver(of(J), h) = SumOver(of(J \ {k}), h) + SumOver(Part(S, key, k), h)
    <2> DEFINE rest == of(J \ {k})
               one  == Part(S, key, k)
    <2>1. /\ of(J) = rest \union one /\ one \cap rest = {} /\ IsFiniteSet(rest) /\ IsFiniteSet(one)
          /\ \A x \in rest \union one : h[x] \in Int
      BY <1>10, <1>11
    <2> HIDE DEF of, rest, one
    <2>2. SumOver(rest \union one, h) = SumOver(rest, h) + SumOver(one, h)
      BY <2>1, SumOfUnion
    <2> QED
      BY <2>1, <2>2 DEF rest, one
  <1>13. SumOver(of(J \ {k}), h) \in Int /\ SumOver(Part(S, key, k), h) \in Int /\ part[k] = SumOver(Part(S, key, k), h)
    <2>1. \A x \in of(J \ {k}) : h[x] \in Int
      OBVIOUS
    <2> HIDE DEF of, part
    <2> QED
      BY <1>2, <1>4, <1>6, <1>11, <2>1, SumOneByOne
  <1>14. SumOver(of(J), h) = SumOver(J, part)
    <2> HIDE DEF of, part
    <2> QED
      BY <1>8, <1>9, <1>12, <1>13
  <1> QED
    BY <1>14

\* One of a finite set comes first, by two numbers.
LEMMA FirstByTwo ==
  ASSUME NEW S, IsFiniteSet(S), S # {}, NEW a, NEW b, \A x \in S : a[x] \in Int /\ b[x] \in Int
  PROVE  \E x \in S : \A y \in S : a[x] < a[y] \/ (a[x] = a[y] /\ b[x] <= b[y])
  <1> DEFINE A == {a[x] : x \in S}
             S1 == {x \in S : a[x] = Min(A)}
             B == {b[x] : x \in S1}
  <1>1. A \in SUBSET Int /\ A # {} /\ IsFiniteSet(A)
    BY ImageIsFinite
  <1>2. Min(A) \in A /\ \A y \in A : Min(A) <= y
    <2> HIDE DEF A
    <2> QED
      BY <1>1, SmallestOf
  <1>3. S1 # {} /\ IsFiniteSet(S1) /\ S1 \subseteq S
    <2>1. S1 # {} /\ S1 \subseteq S
      BY <1>2
    <2> QED
      BY <2>1, FS_Subset
  <1>4. B \in SUBSET Int /\ B # {} /\ IsFiniteSet(B)
    <2>1. B \in SUBSET Int /\ B # {}
      BY <1>3
    <2> HIDE DEF S1
    <2>2. IsFiniteSet(B)
      BY <1>3, ImageIsFinite
    <2> QED
      BY <2>1, <2>2
  <1>5. Min(B) \in B /\ \A y \in B : Min(B) <= y
    <2> HIDE DEF B
    <2> QED
      BY <1>4, SmallestOf
  <1>6. PICK x \in S1 : b[x] = Min(B)
    BY <1>5
  <1>7. \A y \in S : a[x] <= a[y]
    BY <1>2
  <1>8. \A y \in S : a[y] = a[x] => b[x] <= b[y]
    BY <1>5, <1>6
  <1>9. x \in S
    OBVIOUS
  <1> HIDE DEF S1
  <1> QED
    BY <1>7, <1>8, <1>9

(***************************************************************************)
(* The hours people have, and what the ledger leaves of them.              *)
(***************************************************************************)

\* A natural number that has a property: there is a first one.
LEMMA LeastNumber ==
  ASSUME NEW N \in SUBSET Nat, N # {}
  PROVE  \E n \in N : \A k \in N : n <= k
  <1>1. PICK n0 \in N : TRUE
    OBVIOUS
  <1> DEFINE below == {k \in N : k <= n0}
  <1>2. below \subseteq 0..n0 /\ IsFiniteSet(0..n0)
    <2>1. n0 \in Nat /\ \A k \in N : k \in Nat
      OBVIOUS
    <2>2. IsFiniteSet(0..n0)
      BY <2>1, FS_Interval
    <2>3. below \subseteq 0..n0
      <3> SUFFICES ASSUME NEW k \in below PROVE k \in 0..n0
        OBVIOUS
      <3>1. k \in N /\ k <= n0
        OBVIOUS
      <3>2. k \in Nat
        BY <2>1, <3>1
      <3> HIDE DEF below
      <3> QED
        BY ONLY <2>1, <3>1, <3>2
    <2> QED
      BY <2>2, <2>3
  <1>3. IsFiniteSet(below) /\ below \in SUBSET Int /\ below # {}
    BY <1>1, <1>2, FS_Subset
  <1>4. Min(below) \in below /\ \A y \in below : Min(below) <= y
    <2> HIDE DEF below
    <2> QED
      BY <1>3, SmallestOf
  <1> DEFINE n == Min(below)
  <1>5. n \in N /\ n <= n0 /\ \A k \in N : k <= n0 => n <= k
    BY <1>1, <1>4
  <1> HIDE DEF n
  <1>6. \A k \in N : n <= k
    BY <1>1, <1>5
  <1> QED
    BY <1>5, <1>6

\* What is taken of somebody's day for a task.
Taken == [task : Nat, resource : Nat, day : Nat, hours : Nat]
Hours == [x \in Taken |-> x.hours]
UsedOn(ledger, r, day) == SumOver({x \in ledger : x.resource = r /\ x.day = day}, Hours)

IsLedger(ledger) == ledger \in SUBSET Taken /\ IsFiniteSet(ledger)

\* What is known of people and of their leaves.
LEMMA PeopleFacts ==
  ASSUME NEW f, IsProject(f)
  PROVE  /\ \A r \in DOMAIN f.people : f.people[r].cap \in Nat \ {0} /\ f.people[r].active \in BOOLEAN
         /\ DOMAIN f.people = 1..Len(f.people) /\ Len(f.people) \in Nat /\ IsFiniteSet(DOMAIN f.people)
         /\ \A i \in DOMAIN f.leaves : /\ f.leaves[i].from \in Nat /\ f.leaves[i].to \in Nat
                                       /\ f.leaves[i].hours \in Nat
         /\ DOMAIN f.leaves = 1..Len(f.leaves) /\ Len(f.leaves) \in Nat /\ IsFiniteSet(DOMAIN f.leaves)
  <1>1. f.people \in Seq(ResourceInput) /\ f.leaves \in Seq(AvailabilityInput)
    BY DEF IsProject
  <1>2. /\ DOMAIN f.people = 1..Len(f.people) /\ Len(f.people) \in Nat
        /\ DOMAIN f.leaves = 1..Len(f.leaves) /\ Len(f.leaves) \in Nat
    BY <1>1
  <1>3. \A r \in DOMAIN f.people : f.people[r].cap \in Nat \ {0} /\ f.people[r].active \in BOOLEAN
    <2> TAKE r \in DOMAIN f.people
    <2>1. f.people[r] \in ResourceInput
      BY <1>1
    <2> QED
      BY <2>1 DEF ResourceInput
  <1>4. \A i \in DOMAIN f.leaves : /\ f.leaves[i].from \in Nat /\ f.leaves[i].to \in Nat
                                   /\ f.leaves[i].hours \in Nat
    <2> TAKE i \in DOMAIN f.leaves
    <2>1. f.leaves[i] \in AvailabilityInput
      BY <1>1
    <2> QED
      BY <2>1 DEF AvailabilityInput
  <1>5. IsFiniteSet(1..Len(f.people)) /\ IsFiniteSet(1..Len(f.leaves))
    BY <1>2, FS_Interval
  <1> QED
    BY <1>2, <1>3, <1>4, <1>5

\* Nobody's day has less than no hours, and after the last exception every day has some.
LEMMA CapacityFacts ==
  ASSUME NEW f, IsProject(f), NEW r \in DOMAIN f.people
  PROVE  /\ \A day \in Nat : DailyCapacity(f, r, day) \in Nat
         /\ \E last \in Nat : \A day \in Nat : day > last => DailyCapacity(f, r, day) >= 1
  <1> DEFINE covering(day) == {i \in DOMAIN f.leaves :
                 f.leaves[i].who = r /\ f.leaves[i].from <= day /\ day <= f.leaves[i].to}
             least(day, i) == i \in covering(day) /\ \A k \in covering(day) :
                    f.leaves[i].from < f.leaves[k].from \/ (f.leaves[i].from = f.leaves[k].from /\ i <= k)
  <1>1. ASSUME NEW day \in Nat, covering(day) # {}
        PROVE  \E i : least(day, i)
    <2> DEFINE S == covering(day)
               a == [i \in S |-> f.leaves[i].from]
               b == [i \in S |-> i]
    <2>1. IsFiniteSet(S)
      BY PeopleFacts, FS_Subset
    <2>2. \A i \in S : a[i] \in Int /\ b[i] \in Int
      BY PeopleFacts
    <2>3. \E i \in S : \A k \in S : a[i] < a[k] \/ (a[i] = a[k] /\ b[i] <= b[k])
      <3> HIDE DEF a, b, covering
      <3> QED
        BY <1>1, <2>1, <2>2, FirstByTwo
    <2>4. PICK i \in S : \A k \in S : a[i] < a[k] \/ (a[i] = a[k] /\ b[i] <= b[k])
      BY <2>3
    <2>5. \A k \in S : a[k] = f.leaves[k].from /\ b[k] = k
      OBVIOUS
    <2> HIDE DEF a, b, covering
    <2> QED
      BY <2>4, <2>5
  <1>2. ASSUME NEW day \in Nat, covering(day) # {}
        PROVE  \E i \in DOMAIN f.leaves : DailyCapacity(f, r, day) = f.leaves[i].hours
    <2> DEFINE i == CHOOSE i \in covering(day) : \A k \in covering(day) :
                    f.leaves[i].from < f.leaves[k].from \/ (f.leaves[i].from = f.leaves[k].from /\ i <= k)
    <2>1. i \in covering(day)
      <3> HIDE DEF covering
      <3> QED
        BY <1>1, <1>2
    <2>2. DailyCapacity(f, r, day) = f.leaves[i].hours
      BY <1>2 DEF DailyCapacity
    <2> QED
      BY <2>1, <2>2
  <1>3. ASSUME NEW day \in Nat, covering(day) = {}
        PROVE  DailyCapacity(f, r, day) = f.people[r].cap
    BY <1>3 DEF DailyCapacity
  <1>4. \A day \in Nat : DailyCapacity(f, r, day) \in Nat
    <2> TAKE day \in Nat
    <2>1. CASE covering(day) = {}
      BY <1>3, <2>1, PeopleFacts
    <2>2. CASE covering(day) # {}
      BY <1>2, <2>2, PeopleFacts
    <2> QED
      BY <2>1, <2>2
  <1> DEFINE to == [i \in DOMAIN f.leaves |-> f.leaves[i].to]
             ends == {to[i] : i \in DOMAIN f.leaves}
  <1>5. ends \subseteq Nat /\ \A i \in DOMAIN f.leaves : f.leaves[i].to \in ends
    BY PeopleFacts
  <1>6. IsFiniteSet(ends)
    <2> HIDE DEF to
    <2> QED
      BY PeopleFacts, ImageIsFinite
  <1>7. IsFiniteSet(ends \union {0}) /\ ends \union {0} \in SUBSET Int /\ ends \union {0} # {}
    <2> HIDE DEF ends
    <2> QED
      BY <1>5, <1>6, FS_AddElement
  <1> DEFINE last == Max(ends \union {0})
  <1>8. last \in Nat /\ \A i \in DOMAIN f.leaves : f.leaves[i].to <= last
    <2>1. last \in ends \union {0} /\ \A y \in ends \union {0} : last >= y
      <3> HIDE DEF ends
      <3> QED
        BY <1>7, LargestOf
    <2> HIDE DEF ends, last
    <2>2. last \in Nat
      BY <1>5, <2>1
    <2>3. \A i \in DOMAIN f.leaves : last >= f.leaves[i].to /\ f.leaves[i].to \in Nat
      BY <1>5, <2>1
    <2> QED
      BY <2>2, <2>3
  <1>9. \A day \in Nat : day > last => DailyCapacity(f, r, day) >= 1
    <2> HIDE DEF last
    <2> TAKE day \in Nat
    <2> HAVE day > last
    <2>1. covering(day) = {}
      BY <1>8, PeopleFacts
    <2>2. DailyCapacity(f, r, day) = f.people[r].cap
      BY <1>3, <2>1
    <2> QED
      BY <2>2, PeopleFacts
  <1> QED
    BY <1>4, <1>8, <1>9

\* A ledger holds natural numbers of hours, and none after some day.
LEMMA LedgerFacts ==
  ASSUME NEW ledger, IsLedger(ledger)
  PROVE  /\ \A x \in ledger : Hours[x] = x.hours /\ Hours[x] \in Nat /\ x.day \in Nat
         /\ \A r, day : UsedOn(ledger, r, day) \in Nat
         /\ \A r, day : UsedOn(ledger, r, day) = Total([x \in {y \in ledger : y.resource = r /\ y.day = day} |-> x.hours])
         /\ \E last \in Nat : \A x \in ledger : x.day <= last
  <1>1. \A x \in ledger : Hours[x] = x.hours /\ Hours[x] \in Nat /\ x.day \in Nat
    BY DEF IsLedger, Taken, Hours
  <1>2. ASSUME NEW r, NEW day
        PROVE  UsedOn(ledger, r, day) \in Nat
    <2> DEFINE used == {x \in ledger : x.resource = r /\ x.day = day}
    <2>1. IsFiniteSet(used) /\ \A x \in used : Hours[x] \in Nat
      BY <1>1, FS_Subset DEF IsLedger
    <2> HIDE DEF used
    <2>2. SumOver(used, Hours) \in Nat
      BY <2>1, SumIsNat
    <2> QED
      BY <2>2 DEF UsedOn, used
  <1>3. ASSUME NEW r, NEW day
        PROVE  UsedOn(ledger, r, day) = Total([x \in {y \in ledger : y.resource = r /\ y.day = day} |-> x.hours])
    <2> DEFINE used == {y \in ledger : y.resource = r /\ y.day = day}
    <2>1. [x \in used |-> Hours[x]] = [x \in used |-> x.hours]
      BY <1>1
    <2>2. UsedOn(ledger, r, day) = Total([x \in used |-> Hours[x]])
      BY DEF UsedOn, SumOver
    <2> QED
      BY <2>1, <2>2
  <1>4. \E last \in Nat : \A x \in ledger : x.day <= last
    <2> DEFINE day == [x \in ledger |-> x.day]
               days == {day[x] : x \in ledger}
    <2>1. days \subseteq Nat /\ \A x \in ledger : x.day \in days
      BY <1>1
    <2>2. IsFiniteSet(days)
      <3> HIDE DEF day
      <3> QED
        BY ImageIsFinite DEF IsLedger
    <2> HIDE DEF days
    <2>3. IsFiniteSet(days \union {0}) /\ days \union {0} \in SUBSET Int /\ days \union {0} # {}
      BY <2>1, <2>2, FS_AddElement
    <2>4. Max(days \union {0}) \in days \union {0} /\ \A y \in days \union {0} : Max(days \union {0}) >= y
      BY <2>3, LargestOf
    <2> DEFINE last == Max(days \union {0})
    <2>5. last \in days \union {0} /\ \A y \in days \union {0} : last >= y
      BY <2>4
    <2>6. last \in Nat /\ \A x \in ledger : last >= x.day /\ x.day \in Nat
      <3> HIDE DEF last, day
      <3>1. last \in Nat
        BY ONLY <2>1, <2>5
      <3>2. \A x \in ledger : last >= x.day /\ x.day \in Nat
        BY <1>1, <2>1, <2>5
      <3> QED
        BY <3>1, <3>2
    <2> HIDE DEF last
    <2>7. \A x \in ledger : x.day <= last
      BY <2>6
    <2> QED
      BY <2>6, <2>7
  <1> QED
    BY <1>1, <1>2, <1>3, <1>4

\* What is free of a day is what the ledger leaves of it, and a day late enough has some.
LEMMA FreeFacts ==
  ASSUME NEW f, IsProject(f), NEW ledger, IsLedger(ledger), NEW r \in DOMAIN f.people
  PROVE  /\ \A day \in Nat : FreeOn(f, ledger, r, day) \in Nat
         /\ \A day \in Nat : UsedOn(ledger, r, day) <= DailyCapacity(f, r, day) =>
                FreeOn(f, ledger, r, day) = DailyCapacity(f, r, day) - UsedOn(ledger, r, day)
         /\ \E last \in Nat : \A day \in Nat : day > last => FreeOn(f, ledger, r, day) >= 1
  <1> DEFINE free(day) == FreeOn(f, ledger, r, day)
             owed(day) == DailyCapacity(f, r, day) - UsedOn(ledger, r, day)
  <1>1. \A day \in Nat : DailyCapacity(f, r, day) \in Nat /\ UsedOn(ledger, r, day) \in Nat
    BY CapacityFacts, LedgerFacts
  <1>2. ASSUME NEW day \in Nat
        PROVE  free(day) \in {owed(day), 0} /\ free(day) >= owed(day) /\ free(day) >= 0 /\ owed(day) \in Int
    <2>1. free(day) = Max({owed(day), 0})
      <3>1. UsedOn(ledger, r, day) = Total([x \in {y \in ledger : y.resource = r /\ y.day = day} |-> x.hours])
        BY LedgerFacts
      <3> QED
        BY <3>1, Zenon DEF FreeOn
    <2>2. owed(day) \in Int
      BY <1>1
    <2> HIDE DEF owed, free
    <2>3. IsFiniteSet({owed(day), 0}) /\ {owed(day), 0} \in SUBSET Int /\ {owed(day), 0} # {}
      <3>1. IsFiniteSet({owed(day)} \union {0})
        BY FS_Singleton, FS_AddElement
      <3>2. {owed(day)} \union {0} = {owed(day), 0}
        OBVIOUS
      <3> QED
        BY <2>2, <3>1, <3>2
    <2> QED
      BY <2>1, <2>2, <2>3, LargestOf
  <1>3. \A day \in Nat : free(day) \in Nat
    <2> TAKE day \in Nat
    <2> HIDE DEF owed, free
    <2> QED
      BY <1>2
  <1>4. \A day \in Nat : UsedOn(ledger, r, day) <= DailyCapacity(f, r, day) => free(day) = owed(day)
    <2> TAKE day \in Nat
    <2> HAVE UsedOn(ledger, r, day) <= DailyCapacity(f, r, day)
    <2>1. owed(day) >= 0
      BY <1>1
    <2> HIDE DEF owed, free
    <2> QED
      BY <1>2, <2>1
  <1>5. PICK last1 \in Nat : \A day \in Nat : day > last1 => DailyCapacity(f, r, day) >= 1
    BY CapacityFacts
  <1>6. PICK last2 \in Nat : \A x \in ledger : x.day <= last2
    BY LedgerFacts
  <1> DEFINE last == last1 + last2
  <1>7. \A day \in Nat : day > last => free(day) >= 1
    <2> TAKE day \in Nat
    <2> HAVE day > last
    <2>1. DailyCapacity(f, r, day) >= 1
      BY <1>5
    <2>2. {x \in ledger : x.resource = r /\ x.day = day} = {}
      BY <1>6, LedgerFacts
    <2>3. UsedOn(ledger, r, day) = 0
      <3>1. IsFiniteSet({}) /\ \A x \in {} : Hours[x] \in Int
        BY FS_EmptySet
      <3>2. SumOver({}, Hours) = 0
        BY <3>1, SumOneByOne
      <3> QED
        BY <2>2, <3>2 DEF UsedOn
    <2>4. owed(day) >= 1
      BY <1>1, <2>1, <2>3
    <2> HIDE DEF owed, free
    <2> QED
      BY <1>2, <2>4
  <1>8. last \in Nat
    OBVIOUS
  <1> HIDE DEF last
  <1> QED
    BY <1>3, <1>4, <1>7, <1>8

\* What a task takes of a day, and when there is how much left to do the day after.
TakeOf(f, ledger, r, at) == Min({FreeOn(f, ledger, r, at[1]), at[2]})
DayAfter(f, ledger, r, at) == <<at[1] + 1, at[2] - TakeOf(f, ledger, r, at)>>
TakenOf(f, ledger, t, r, at) ==
    IF TakeOf(f, ledger, r, at) = 0 THEN {}
    ELSE {[task |-> t, resource |-> r, day |-> at[1], hours |-> TakeOf(f, ledger, r, at)]}

\* What a task takes of a day, and what it owes the day after.
LEMMA TakeFacts ==
  ASSUME NEW f, IsProject(f), NEW ledger, IsLedger(ledger), NEW r \in DOMAIN f.people, NEW at \in Nat \X Nat
  PROVE  /\ TakeOf(f, ledger, r, at) \in Nat
         /\ TakeOf(f, ledger, r, at) <= at[2] /\ TakeOf(f, ledger, r, at) <= FreeOn(f, ledger, r, at[1])
         /\ TakeOf(f, ledger, r, at) = at[2] \/ TakeOf(f, ledger, r, at) = FreeOn(f, ledger, r, at[1])
         /\ DayAfter(f, ledger, r, at) \in Nat \X Nat
  <1> DEFINE free == FreeOn(f, ledger, r, at[1])
             owed == at[2]
  <1>1. free \in Nat /\ owed \in Nat /\ at[1] \in Nat
    BY FreeFacts
  <1>2. TakeOf(f, ledger, r, at) = Min({free, owed})
    BY DEF TakeOf
  <1> HIDE DEF free, owed
  <1>3. IsFiniteSet({free, owed}) /\ {free, owed} \in SUBSET Int /\ {free, owed} # {}
    <2>1. IsFiniteSet({free} \union {owed})
      BY FS_Singleton, FS_AddElement
    <2>2. {free} \union {owed} = {free, owed}
      OBVIOUS
    <2> QED
      BY <1>1, <2>1, <2>2
  <1>4. Min({free, owed}) \in {free, owed} /\ Min({free, owed}) <= free /\ Min({free, owed}) <= owed
    BY <1>3, SmallestOf
  <1>5. TakeOf(f, ledger, r, at) \in {free, owed} /\ TakeOf(f, ledger, r, at) <= free /\ TakeOf(f, ledger, r, at) <= owed
    BY <1>2, <1>4
  <1> DEFINE take == TakeOf(f, ledger, r, at)
  <1>6. take \in {free, owed} /\ take <= free /\ take <= owed
    BY <1>5
  <1> HIDE DEF take
  <1>7. take \in Nat /\ owed - take \in Nat
    BY <1>1, <1>6
  <1>8. <<at[1] + 1, owed - take>> \in Nat \X Nat
    BY <1>1, <1>7
  <1> QED
    BY <1>6, <1>7, <1>8 DEF DayAfter, take, owed, free

\* The walk ends: whatever days and hours are left, some of them do not lead to another.
LEMMA WalkEnds ==
  ASSUME NEW f, IsProject(f), NEW ledger, IsLedger(ledger), NEW r \in DOMAIN f.people,
         NEW B \in SUBSET (Nat \X Nat), B # {}
  PROVE  \E at \in B : at[2] = 0 \/ DayAfter(f, ledger, r, at) \notin B
  <1>1. PICK last \in Nat : \A day \in Nat : day > last => FreeOn(f, ledger, r, day) >= 1
    BY FreeFacts
  <1> DEFINE toGo(at) == at[2] + (IF at[1] <= last THEN last + 1 - at[1] ELSE 0)
             N == {toGo(at) : at \in B}
  <1>2. \A at \in Nat \X Nat : toGo(at) \in Nat
    OBVIOUS
  <1>3. N \in SUBSET Nat /\ N # {}
    BY <1>2
  <1>4. PICK n \in N : \A k \in N : n <= k
    <2> HIDE DEF N
    <2> QED
      BY <1>3, LeastNumber
  <1>5. PICK at \in B : n = toGo(at)
    OBVIOUS
  <1> DEFINE then == DayAfter(f, ledger, r, at)
             take == TakeOf(f, ledger, r, at)
  <1>6. at \in Nat \X Nat /\ at[1] \in Nat /\ at[2] \in Nat
    OBVIOUS
  <1>7. /\ take \in Nat /\ take <= at[2] /\ take <= FreeOn(f, ledger, r, at[1])
        /\ take = at[2] \/ take = FreeOn(f, ledger, r, at[1])
        /\ then \in Nat \X Nat
    BY <1>6, TakeFacts
  <1>8. then[1] = at[1] + 1 /\ then[2] = at[2] - take
    BY DEF DayAfter
  <1>9. ASSUME at[2] # 0, then \in B
        PROVE  FALSE
    <2>1. toGo(at) <= toGo(then)
      BY <1>4, <1>5, <1>9
    <2>2. CASE at[1] <= last
      <3> HIDE DEF take, then
      <3> QED
        BY <1>6, <1>7, <1>8, <2>1, <2>2
    <2>3. CASE ~(at[1] <= last)
      <3>1. FreeOn(f, ledger, r, at[1]) >= 1
        BY <1>1, <1>6, <2>3
      <3>2. take >= 1
        BY <1>6, <1>7, <1>9, <3>1
      <3> HIDE DEF take, then
      <3> QED
        BY <1>6, <1>7, <1>8, <2>1, <2>3, <3>2
    <2> QED
      BY <2>2, <2>3
  <1> QED
    BY <1>9

Walks(f, ledger, t, r, w) ==
    \A at \in Nat \X Nat :
        w[at] = IF at[2] = 0 THEN {} ELSE TakenOf(f, ledger, t, r, at) \union w[DayAfter(f, ledger, r, at)]

\* What a task takes from a day on is what it takes of that day and what it takes
\* from the next on.
LEMMA Walk ==
  ASSUME NEW f, IsProject(f), NEW ledger, IsLedger(ledger), NEW r \in DOMAIN f.people, NEW t \in Nat
  PROVE  Walks(f, ledger, t, r, Takes(f, ledger, t, r))
  <1> DEFINE S == Nat \X Nat
             step(at, w) == IF at[2] = 0 THEN {} ELSE TakenOf(f, ledger, t, r, at) \union w[DayAfter(f, ledger, r, at)]
             F == [at \in S |-> [w \in [S -> SUBSET Taken] |-> step(at, w)]]
             R == {<<DayAfter(f, ledger, r, at), at>> : at \in {x \in S : x[2] # 0}}
  <1>1. \A at \in S : DayAfter(f, ledger, r, at) \in S
    BY TakeFacts
  <1>2. \A at \in S : TakenOf(f, ledger, t, r, at) \in SUBSET Taken
    <2> TAKE at \in S
    <2>1. TakeOf(f, ledger, r, at) \in Nat /\ at[1] \in Nat /\ r \in Nat
      BY TakeFacts, PeopleFacts
    <2> QED
      BY <2>1 DEF TakenOf, Taken
  <1>3. \A at \in S : \A w \in [S -> SUBSET Taken] : F[at][w] \in SUBSET Taken
    <2> TAKE at \in S
    <2> TAKE w \in [S -> SUBSET Taken]
    <2>1. F[at][w] = step(at, w)
      OBVIOUS
    <2>2. w[DayAfter(f, ledger, r, at)] \in SUBSET Taken
      BY <1>1
    <2> HIDE DEF F, S
    <2> QED
      BY <1>2, <2>1, <2>2
  <1>4. \A at \in S : \A w, v \in [S -> SUBSET Taken] : Agree(S, R, at, w, v) => F[at][w] = F[at][v]
    <2> SUFFICES ASSUME NEW at \in S, NEW w \in [S -> SUBSET Taken], NEW v \in [S -> SUBSET Taken],
                        Agree(S, R, at, w, v)
                 PROVE  F[at][w] = F[at][v]
      OBVIOUS
    <2>1. F[at][w] = step(at, w) /\ F[at][v] = step(at, v)
      OBVIOUS
    <2>2. at[2] # 0 => <<DayAfter(f, ledger, r, at), at>> \in R
      OBVIOUS
    <2> HIDE DEF R, S, F
    <2>3. at[2] # 0 => w[DayAfter(f, ledger, r, at)] = v[DayAfter(f, ledger, r, at)]
      BY <1>1, <2>2 DEF Agree
    <2> QED
      BY <2>1, <2>3
  <1>5. \A B \in SUBSET S : B # {} => \E at \in B : \A x \in B : <<x, at>> \notin R
    <2> TAKE B \in SUBSET S
    <2> HAVE B # {}
    <2>1. PICK at \in B : at[2] = 0 \/ DayAfter(f, ledger, r, at) \notin B
      BY WalkEnds
    <2>2. \A x \in B : <<x, at>> \notin R
      BY <2>1
    <2> QED
      BY <2>2
  <1>6. PICK g \in [S -> SUBSET Taken] : \A at \in S : g[at] = F[at][g]
    <2> HIDE DEF F, R, S
    <2>1. Defines(S, R, SUBSET Taken, F)
      BY <1>3, <1>4, <1>5 DEF Defines
    <2> QED
      BY <2>1, Recursion
  <1> DEFINE Step(w) == [at \in Nat \X Nat |->
               LET day  == at[1]
                   owed == at[2]
                   take == Min({FreeOn(f, ledger, r, day), owed})
               IN  IF owed = 0 THEN {}
                   ELSE (IF take = 0 THEN {} ELSE {[task |-> t, resource |-> r, day |-> day, hours |-> take]})
                        \union w[<<day + 1, owed - take>>]]
  <1>7. \A w : Step(w) = [at \in S |-> step(at, w)]
    BY DEF TakenOf, TakeOf, DayAfter
  <1>8. g = [at \in S |-> step(at, g)]
    <2>1. \A at \in S : g[at] = step(at, g)
      <3> HIDE DEF S
      <3> QED
        BY <1>6
    <2> HIDE DEF S
    <2> QED
      BY <2>1
  <1>9. g = Step(g)
    BY <1>7, <1>8
  <1> DEFINE walk == Takes(f, ledger, t, r)
  <1>10. walk = Step(walk)
    <2>1. walk = CHOOSE w : w = Step(w)
      BY DEF Takes
    <2> HIDE DEF Step, walk
    <2> QED
      BY <1>9, <2>1
  <1>11. walk = [at \in S |-> step(at, walk)]
    <2> HIDE DEF Step, walk
    <2> QED
      BY <1>7, <1>10
  <1>12. \A at \in S : walk[at] = step(at, walk)
    <2> HIDE DEF S, walk
    <2> QED
      BY <1>11
  <1> QED
    BY <1>12 DEF Walks

\* What it takes: part of the free hours of days from the first on, once a day, and as
\* much as there is to do.
Serves(f, ledger, t, r, at, takes) ==
    /\ IsLedger(takes)
    /\ \A x \in takes : /\ x.task = t /\ x.resource = r /\ x.day >= at[1]
                        /\ x.hours <= FreeOn(f, ledger, r, x.day)
    /\ \A x, y \in takes : x.day = y.day => x = y
    /\ SumOver(takes, Hours) = at[2]

\* What it takes adds up to the hours it is given, a day once at most and no more than
\* is free.
LEMMA TakesServe ==
  ASSUME NEW f, IsProject(f), NEW ledger, IsLedger(ledger), NEW r \in DOMAIN f.people, NEW t \in Nat
  PROVE  \A at \in Nat \X Nat : Serves(f, ledger, t, r, at, Takes(f, ledger, t, r)[at])
  <1> DEFINE w == Takes(f, ledger, t, r)
             good(at) == Serves(f, ledger, t, r, at, w[at])
             B == {at \in Nat \X Nat : ~good(at)}
  <1> SUFFICES ASSUME B # {} PROVE FALSE
    OBVIOUS
  <1>1. PICK at \in B : at[2] = 0 \/ DayAfter(f, ledger, r, at) \notin B
    <2>1. B \in SUBSET (Nat \X Nat)
      OBVIOUS
    <2> HIDE DEF B
    <2> QED
      BY <2>1, WalkEnds
  <1>2. at \in Nat \X Nat /\ ~good(at) /\ at[1] \in Nat /\ at[2] \in Nat
    OBVIOUS
  <1>3. w[at] = IF at[2] = 0 THEN {} ELSE TakenOf(f, ledger, t, r, at) \union w[DayAfter(f, ledger, r, at)]
    <2>1. Walks(f, ledger, t, r, w)
      BY Walk
    <2> HIDE DEF w, good, B
    <2> QED
      BY <1>2, <2>1 DEF Walks
  <1> DEFINE then == DayAfter(f, ledger, r, at)
             take == TakeOf(f, ledger, r, at)
             rest == w[then]
             taken == TakenOf(f, ledger, t, r, at)
  <1>4. /\ take \in Nat /\ take <= at[2] /\ take <= FreeOn(f, ledger, r, at[1])
        /\ then \in Nat \X Nat /\ then[1] = at[1] + 1 /\ then[2] = at[2] - take
    BY <1>2, TakeFacts DEF DayAfter
  <1>5. CASE at[2] = 0
    <2>1. w[at] = {}
      BY <1>3, <1>5
    <2>2. IsLedger({}) /\ \A x \in {} : Hours[x] \in Int
      BY FS_EmptySet DEF IsLedger
    <2>3. SumOver({}, Hours) = 0
      BY <2>2, SumOneByOne DEF IsLedger
    <2>4. good(at)
      <3> HIDE DEF w
      <3> QED
        BY <1>5, <2>1, <2>2, <2>3 DEF Serves
    <2> QED
      BY <1>2, <2>4
  <1>6. CASE at[2] # 0
    <2>1. Serves(f, ledger, t, r, then, rest)
      BY <1>1, <1>4, <1>6
    <2> HIDE DEF w, B
    <2>2. w[at] = taken \union rest
      BY <1>3, <1>6
    <2> HIDE DEF good, then, rest, take
    <2>3. /\ IsLedger(rest) /\ (\A x \in rest : /\ x.task = t /\ x.resource = r /\ x.day >= at[1] + 1
                                              /\ x.hours <= FreeOn(f, ledger, r, x.day))
          /\ (\A x, y \in rest : x.day = y.day => x = y)
          /\ SumOver(rest, Hours) = at[2] - take
      BY <1>4, <2>1 DEF Serves
    <2>4. \A x \in rest : x.day \in Nat /\ Hours[x] \in Int
      BY <2>3, LedgerFacts
    <2>5. CASE take = 0
      <3>1. w[at] = rest
        BY <2>2, <2>5 DEF TakenOf, take
      <3>2. (\A x \in rest : x.day >= at[1]) /\ SumOver(rest, Hours) = at[2]
        BY <1>2, <2>3, <2>4, <2>5
      <3>3. good(at)
        BY <2>3, <3>1, <3>2 DEF Serves, good
      <3> QED
        BY <1>2, <3>3
    <2>6. CASE take # 0
      <3> DEFINE x0 == [task |-> t, resource |-> r, day |-> at[1], hours |-> take]
      <3>1. taken = {x0}
        BY <2>6 DEF TakenOf, take
      <3>2. x0 \in Taken /\ Hours[x0] = take
        <4>1. r \in Nat
          BY PeopleFacts
        <4>2. x0 \in Taken
          BY <1>2, <1>4, <4>1 DEF Taken
        <4> QED
          BY <4>2 DEF Hours
      <3>3. x0.task = t /\ x0.resource = r /\ x0.day = at[1] /\ x0.hours = take
        OBVIOUS
      <3> HIDE DEF x0, taken
      <3>4. x0 \notin rest
        BY <1>2, <2>3, <2>4, <3>3
      <3> DEFINE all == rest \union {x0}
      <3>5. w[at] = all /\ IsLedger(all)
        BY <2>2, <2>3, <3>1, <3>2, FS_AddElement DEF IsLedger
      <3>6. all \ {x0} = rest
        BY <3>4
      <3>7. SumOver(all, Hours) = at[2]
        <4>1. IsFiniteSet(all) /\ (\A x \in all : Hours[x] \in Int) /\ x0 \in all
          BY <1>4, <2>4, <3>2, <3>5 DEF IsLedger
        <4> HIDE DEF all
        <4>2. SumOver(all, Hours) = Hours[x0] + SumOver(all \ {x0}, Hours)
          BY <4>1, SumOneByOne
        <4>3. SumOver(all, Hours) = take + (at[2] - take)
          BY <2>3, <3>2, <3>6, <4>2
        <4> QED
          BY <1>2, <1>4, <4>3
      <3>8. \A x \in all : /\ x.task = t /\ x.resource = r /\ x.day >= at[1]
                           /\ x.hours <= FreeOn(f, ledger, r, x.day)
        BY <1>2, <1>4, <2>3, <2>4, <3>3
      <3>9. \A x, y \in all : x.day = y.day => x = y
        BY <1>2, <2>3, <2>4, <3>3
      <3> HIDE DEF all
      <3>10. good(at)
        BY <3>5, <3>7, <3>8, <3>9 DEF Serves, good
      <3> QED
        BY <1>2, <3>10
    <2> QED
      BY <2>5, <2>6
  <1> QED
    BY <1>5, <1>6

(***************************************************************************)
(* List scheduling.                                                        *)
(***************************************************************************)

\* What a placement of a task is: by somebody, from a day on, hours of the days from its
\* start to its end that the ledger leaves free, and as many as there is to do.
IsPlacement(f, ledger, t, ready, p) ==
    /\ p.resource \in DOMAIN f.people
    /\ p.start \in Nat /\ p.end \in Nat /\ ready <= p.start /\ p.start <= p.end
    /\ IsLedger(p.takes)
    /\ \A x \in p.takes : /\ x.task = t /\ x.resource = p.resource
                          /\ p.start <= x.day /\ x.day <= p.end
                          /\ x.hours <= FreeOn(f, ledger, p.resource, x.day)
    /\ \A x, y \in p.takes : x.day = y.day => x = y
    /\ f.tasks[t].est <= SumOver(p.takes, Hours)

\* What is known of a task.
LEMMA TaskFacts ==
  ASSUME NEW f, IsProject(f), NEW t \in DOMAIN f.tasks
  PROVE  f.tasks[t].est \in Int /\ f.tasks[t].prio \in Int /\ t \in Nat /\ f.tasks[t] \in TaskInput
  <1>1. f.tasks \in Seq(TaskInput)
    BY DEF IsProject
  <1>2. f.tasks[t] \in TaskInput
    BY <1>1
  <1>3. t \in Nat
    BY ProjectFacts
  <1> QED
    BY <1>2, <1>3 DEF TaskInput

\* What is simulated for one person is a placement: the hours fit in what is free,
\* and add up to the estimate.
LEMMA SimulatedIsPlacement ==
  ASSUME NEW f, IsProject(f), NEW ledger, IsLedger(ledger), NEW r \in DOMAIN f.people,
         NEW t \in DOMAIN f.tasks, NEW ready \in Nat
  PROVE  IsPlacement(f, ledger, t, ready, SimulatePlacement(f, ledger, t, r, ready))
         /\ SimulatePlacement(f, ledger, t, r, ready).resource = r
  <1> DEFINE est   == f.tasks[t].est
             takes == IF est <= 0 THEN {} ELSE Takes(f, ledger, t, r)[<<ready, est>>]
             day   == [x \in takes |-> x.day]
             days  == IF takes = {} THEN {ready} ELSE {x.day : x \in takes}
             p     == [resource |-> r, start |-> Min(days), end |-> Max(days), takes |-> takes]
  <1>1. est \in Int /\ t \in Nat
    BY TaskFacts
  <1>2. /\ IsLedger(takes)
        /\ \A x \in takes : /\ x.task = t /\ x.resource = r /\ ready <= x.day
                            /\ x.hours <= FreeOn(f, ledger, r, x.day)
        /\ \A x, y \in takes : x.day = y.day => x = y
        /\ est <= SumOver(takes, Hours)
    <2>1. CASE est <= 0
      <3>1. takes = {}
        BY <2>1
      <3>2. IsLedger({}) /\ \A x \in {} : Hours[x] \in Int
        BY FS_EmptySet DEF IsLedger
      <3>3. SumOver({}, Hours) = 0
        BY <3>2, SumOneByOne DEF IsLedger
      <3> HIDE DEF est, takes
      <3>4. est <= SumOver(takes, Hours)
        BY <2>1, <3>1, <3>3
      <3> QED
        BY <3>1, <3>2, <3>4
    <2>2. CASE ~(est <= 0)
      <3>1. est \in Nat
        BY <1>1, <2>2
      <3> DEFINE at == <<ready, est>>
      <3>2. at \in Nat \X Nat /\ at[1] = ready /\ at[2] = est
        BY <3>1
      <3>3. takes = Takes(f, ledger, t, r)[at]
        BY <2>2
      <3> HIDE DEF at, est, takes
      <3>4. Serves(f, ledger, t, r, at, takes)
        BY <1>1, <3>2, <3>3, TakesServe
      <3>5. /\ IsLedger(takes) /\ SumOver(takes, Hours) = est
            /\ \A x \in takes : /\ x.task = t /\ x.resource = r /\ x.day >= ready
                                /\ x.hours <= FreeOn(f, ledger, r, x.day)
            /\ \A x, y \in takes : x.day = y.day => x = y
        BY <3>2, <3>4 DEF Serves
      <3>6. \A x \in takes : ready <= x.day
        BY <3>5, LedgerFacts
      <3>7. est <= SumOver(takes, Hours)
        BY <3>1, <3>5
      <3> QED
        BY <3>5, <3>6, <3>7
    <2> QED
      BY <2>1, <2>2
  <1>3. SimulatePlacement(f, ledger, t, r, ready) = p
    BY DEF SimulatePlacement
  <1> HIDE DEF takes, est
  <1>4. /\ \A x \in takes : x.day \in days /\ x.day \in Nat
        /\ days \subseteq Nat /\ days # {} /\ \A y \in days : ready <= y
    BY <1>2, LedgerFacts
  <1>5. IsFiniteSet(days)
    <2>1. CASE takes = {}
      BY <2>1, FS_Singleton
    <2>2. CASE takes # {}
      <3>1. days = {day[x] : x \in takes}
        BY <2>2
      <3> HIDE DEF days, day
      <3> QED
        BY <1>2, <3>1, ImageIsFinite DEF IsLedger
    <2> QED
      BY <2>1, <2>2
  <1> DEFINE first == Min(days)
             last  == Max(days)
  <1>6. /\ first \in days /\ \A y \in days : first <= y
        /\ last \in days /\ \A y \in days : last >= y
    <2>1. days \in SUBSET Int /\ days # {}
      BY <1>4
    <2> HIDE DEF days
    <2> QED
      BY <1>5, <2>1, SmallestOf, LargestOf
  <1>7. p.resource = r /\ p.start = first /\ p.end = last /\ p.takes = takes
    OBVIOUS
  <1> HIDE DEF first, last, days, p
  <1>8. first \in Nat /\ last \in Nat /\ ready <= first /\ first <= last
    BY <1>4, <1>6
  <1>9. \A x \in takes : first <= x.day /\ x.day <= last
    BY <1>4, <1>6, <1>8
  <1>10. IsPlacement(f, ledger, t, ready, p)
    BY <1>2, <1>7, <1>8, <1>9 DEF IsPlacement, est
  <1> QED
    BY <1>3, <1>7, <1>10

\* The schedule of the critical path has a start and a slack for each task.
IsSchedule(f, sched) ==
    /\ DOMAIN sched = DOMAIN f.tasks
    /\ \A t \in DOMAIN f.tasks : sched[t].start \in Nat /\ sched[t].slack \in Int

\* Ends of tasks, with those of all they wait for.
AreEnds(f, ends) ==
    /\ DOMAIN ends \subseteq DOMAIN f.tasks
    /\ \A t \in DOMAIN ends : ends[t] \in Nat
    /\ \A d \in f.deps : d.succ \in DOMAIN ends => d.pred \in DOMAIN ends

CanFollow(f, ends, t) ==
    /\ t \in DOMAIN f.tasks \ DOMAIN ends
    /\ \A d \in f.deps : d.succ = t => d.pred \in DOMAIN ends

\* The day a task is ready is after the end of whatever it waits for.
LEMMA ReadyFacts ==
  ASSUME NEW f, IsProject(f), NEW sched, IsSchedule(f, sched), NEW ends, AreEnds(f, ends),
         NEW t, CanFollow(f, ends, t)
  PROVE  /\ ReadyDateFor(f, sched, ends, t) \in Nat
         /\ \A d \in f.deps : d.succ = t /\ d.type = "FS" => ends[d.pred] < ReadyDateFor(f, sched, ends, t)
  <1> DEFINE D == {x \in f.deps : x.succ = t /\ x.type = "FS"}
             after == [d \in D |-> ends[d.pred] + 1]
             S == {after[d] : d \in D}
             all == S \union {sched[t].start}
             ready == Max(all)
  <1>1. \A d \in D : ends[d.pred] \in Nat
    BY DEF AreEnds, CanFollow
  <1>2. \A d \in D : after[d] \in Nat /\ after[d] \in S /\ after[d] = ends[d.pred] + 1
    BY <1>1
  <1>3. IsFiniteSet(S) /\ S \subseteq Nat
    <2>1. IsFiniteSet(D)
      BY ProjectFacts, FS_Subset
    <2>2. S \subseteq Nat
      BY <1>2
    <2> HIDE DEF D, after
    <2> QED
      BY <2>1, <2>2, ImageIsFinite
  <1>4. sched[t].start \in Nat
    BY DEF IsSchedule, CanFollow
  <1>5. ReadyDateFor(f, sched, ends, t) = ready
    <2>1. {ends[d.pred] + 1 : d \in D} = S
      OBVIOUS
    <2>2. {sched[t].start} \union S = all
      OBVIOUS
    <2>3. ReadyDateFor(f, sched, ends, t) = Max({sched[t].start} \union {ends[d.pred] + 1 : d \in D})
      BY DEF ReadyDateFor
    <2> HIDE DEF S, D, all
    <2> QED
      BY <2>1, <2>2, <2>3
  <1> HIDE DEF S
  <1>6. IsFiniteSet(all) /\ all \in SUBSET Int /\ all # {} /\ all \subseteq Nat
    <2>1. IsFiniteSet(all)
      BY <1>3, FS_AddElement
    <2>2. all \subseteq Nat /\ all # {}
      BY <1>3, <1>4
    <2> HIDE DEF all
    <2> QED
      BY <2>1, <2>2
  <1>7. ready \in all /\ \A y \in all : ready >= y
    <2> HIDE DEF all
    <2> QED
      BY <1>6, LargestOf
  <1> HIDE DEF ready
  <1>8. ready \in Nat
    BY <1>6, <1>7
  <1>9. \A d \in D : ends[d.pred] < ready
    <2> TAKE d \in D
    <2>1. after[d] \in all
      BY <1>2
    <2>2. ready >= ends[d.pred] + 1
      BY <1>2, <1>7, <2>1
    <2> QED
      BY <1>1, <1>8, <2>2
  <1> QED
    BY <1>5, <1>8, <1>9

\* The one who is given the task has it placed.
Best(f, sched, sofar, t) ==
    LET ready  == ReadyDateFor(f, sched, sofar.ends, t)
        trials == {SimulatePlacement(f, sofar.ledger, t, r, ready) : r \in Eligible(f, t)}
    IN  CHOOSE x \in trials : \A y \in trials : x.end < y.end \/ (x.end = y.end /\ x.resource <= y.resource)

\* The best of the trials is a placement.
LEMMA BestIsPlacement ==
  ASSUME NEW f, IsProject(f), NEW sched, IsSchedule(f, sched), NEW sofar, AreEnds(f, sofar.ends),
         IsLedger(sofar.ledger), NEW t, CanFollow(f, sofar.ends, t), Eligible(f, t) # {}
  PROVE  /\ IsPlacement(f, sofar.ledger, t, ReadyDateFor(f, sched, sofar.ends, t), Best(f, sched, sofar, t))
         /\ Best(f, sched, sofar, t).resource \in Eligible(f, t)
  <1> DEFINE ready == ReadyDateFor(f, sched, sofar.ends, t)
             E == Eligible(f, t)
             sim == [r \in E |-> SimulatePlacement(f, sofar.ledger, t, r, ready)]
             trials == {sim[r] : r \in E}
             a == [x \in trials |-> x.end]
             b == [x \in trials |-> x.resource]
             best == CHOOSE x \in trials : \A y \in trials : x.end < y.end \/ (x.end = y.end /\ x.resource <= y.resource)
  <1>1. ready \in Nat
    BY ReadyFacts
  <1>2. E \subseteq DOMAIN f.people /\ E # {} /\ IsFiniteSet(E)
    BY PeopleFacts, FS_Subset DEF Eligible
  <1>3. t \in DOMAIN f.tasks
    BY DEF CanFollow
  <1>4. \A r \in E : IsPlacement(f, sofar.ledger, t, ready, sim[r]) /\ sim[r].resource = r
    <2> TAKE r \in E
    <2>1. r \in DOMAIN f.people /\ sim[r] = SimulatePlacement(f, sofar.ledger, t, r, ready)
      BY <1>2
    <2> HIDE DEF ready, E, sim
    <2> QED
      BY <1>1, <1>3, <2>1, SimulatedIsPlacement
  <1>5. Best(f, sched, sofar, t) = best
    <2>1. trials = {SimulatePlacement(f, sofar.ledger, t, r, ready) : r \in E}
      OBVIOUS
    <2>2. \A T : T = trials =>
             (CHOOSE x \in T : \A y \in T : x.end < y.end \/ (x.end = y.end /\ x.resource <= y.resource)) = best
      OBVIOUS
    <2> HIDE DEF trials, best
    <2> QED
      BY <2>1, <2>2 DEF Best
  <1> HIDE DEF sim, E, ready
  <1>6. trials # {} /\ \A x \in trials : x.end \in Int /\ x.resource \in Int
    <2>1. \A r \in E : sim[r].end \in Int /\ sim[r].resource \in Int
      BY <1>2, <1>4, PeopleFacts DEF IsPlacement
    <2> QED
      BY <1>2, <2>1
  <1>7. IsFiniteSet(trials)
    BY <1>2, ImageIsFinite
  <1>8. \E x \in trials : \A y \in trials : a[x] < a[y] \/ (a[x] = a[y] /\ b[x] <= b[y])
    <2>1. \A x \in trials : a[x] \in Int /\ b[x] \in Int
      BY <1>6
    <2> HIDE DEF trials, a, b
    <2> QED
      BY <1>6, <1>7, <2>1, FirstByTwo
  <1>9. \A x \in trials : a[x] = x.end /\ b[x] = x.resource
    OBVIOUS
  <1>10. best \in trials
    <2>1. \E x \in trials : \A y \in trials : x.end < y.end \/ (x.end = y.end /\ x.resource <= y.resource)
      <3> HIDE DEF trials, a, b
      <3> QED
        BY <1>8, <1>9
    <2> HIDE DEF trials
    <2> QED
      BY <2>1
  <1>11. PICK r \in E : best = sim[r]
    <2> HIDE DEF best
    <2> QED
      BY <1>10
  <1> HIDE DEF best, trials
  <1> QED
    BY <1>4, <1>5, <1>11 DEF ready, E

Row == [task : Nat, resource : Nat, start : Nat, end : Nat, hours : Int]

TakesFor(ledger, t) == {x \in ledger : x.task = t}

\* A row gives the task to somebody who may do it, for all its hours, from a day after
\* what it waits for; and the hours are in the ledger, on days of the row.
RowFits(f, ends, ledger, row) ==
    /\ row.task \in DOMAIN ends /\ row.end = ends[row.task] /\ row.start <= row.end
    /\ f.tasks[row.task].est # NoEstimate /\ row.hours = f.tasks[row.task].est
    /\ row.resource \in Eligible(f, row.task)
    /\ \A d \in f.deps : d.succ = row.task /\ d.type = "FS" => ends[d.pred] < row.start
    /\ \A x \in TakesFor(ledger, row.task) : /\ x.resource = row.resource
                                             /\ row.start <= x.day /\ x.day <= row.end
    /\ row.hours <= SumOver(TakesFor(ledger, row.task), Hours)

NeedsRow(f, t) == f.tasks[t].est # NoEstimate /\ Eligible(f, t) # {}

NobodyOverworked(f, ledger) ==
    \A r \in DOMAIN f.people, day \in Nat : UsedOn(ledger, r, day) <= DailyCapacity(f, r, day)

\* What has been placed of a project is a plan for part of it.
SomePlan(f) == [ends : UNION {[D -> Nat] : D \in SUBSET DOMAIN f.tasks}, rows : Seq(Row), ledger : SUBSET Taken]

PlanSoFar(f, n, s) ==
    /\ s \in SomePlan(f)
    /\ AreEnds(f, s.ends) /\ Cardinality(DOMAIN s.ends) = n
    /\ s.rows \in Seq(Row)
    /\ \A i, j \in DOMAIN s.rows : s.rows[i].task = s.rows[j].task => i = j
    /\ \A i \in DOMAIN s.rows : RowFits(f, s.ends, s.ledger, s.rows[i])
    /\ \A t \in DOMAIN s.ends : NeedsRow(f, t) => \E i \in DOMAIN s.rows : s.rows[i].task = t
    /\ IsLedger(s.ledger)
    /\ \A x \in s.ledger : \E i \in DOMAIN s.rows : s.rows[i].task = x.task
    /\ NobodyOverworked(f, s.ledger)

\* One end more, and the ledger with the hours of one task more.
EndsGrow(f, ends, t, v, more) ==
    /\ AreEnds(f, more)
    /\ DOMAIN more = DOMAIN ends \union {t}
    /\ more[t] = v
    /\ \A u \in DOMAIN ends : u # t /\ more[u] = ends[u]
    /\ \A n \in Nat : Cardinality(DOMAIN ends) = n => Cardinality(DOMAIN more) = n + 1

LedgerGrows(f, ledger, t, takes, more) ==
    /\ IsLedger(more) /\ NobodyOverworked(f, more)
    /\ TakesFor(more, t) = takes
    /\ \A u : u # t => TakesFor(more, u) = TakesFor(ledger, u)

\* The ends with one more task placed.
LEMMA OneMoreEnd ==
  ASSUME NEW f, IsProject(f), NEW ends, AreEnds(f, ends), NEW t, CanFollow(f, ends, t), NEW v \in Nat
  PROVE  EndsGrow(f, ends, t, v, With(ends, t, v))
  <1> DEFINE more == With(ends, t, v)
  <1>1. t \notin DOMAIN ends /\ t \in DOMAIN f.tasks
    BY DEF CanFollow
  <1>2. DOMAIN more = DOMAIN ends \union {t} /\ more[t] = v /\ \A u \in DOMAIN ends : u # t /\ more[u] = ends[u]
    BY <1>1 DEF With
  <1>3. IsFiniteSet(DOMAIN ends)
    BY ProjectFacts, FS_Subset DEF AreEnds
  <1> HIDE DEF more
  <1>4. \A n \in Nat : Cardinality(DOMAIN ends) = n => Cardinality(DOMAIN more) = n + 1
    BY <1>1, <1>2, <1>3, FS_AddElement
  <1>5. AreEnds(f, more)
    BY <1>1, <1>2 DEF AreEnds, CanFollow
  <1> QED
    BY <1>2, <1>4, <1>5 DEF more, EndsGrow

\* The ledger with one more placement entered still holds no more than people have.
LEMMA OneMorePlacement ==
  ASSUME NEW f, IsProject(f), NEW ledger, IsLedger(ledger), NobodyOverworked(f, ledger),
         NEW t, TakesFor(ledger, t) = {}, NEW ready, NEW p, IsPlacement(f, ledger, t, ready, p)
  PROVE  LedgerGrows(f, ledger, t, p.takes, ledger \union p.takes)
  <1> DEFINE takes == p.takes
             more  == ledger \union takes
  <1>1. IsLedger(takes) /\ \A x \in takes : x.task = t /\ x.resource = p.resource
    BY DEF IsPlacement
  <1>2. IsLedger(more)
    BY <1>1, FS_Union DEF IsLedger
  <1>3. TakesFor(more, t) = takes /\ \A u : u # t => TakesFor(more, u) = TakesFor(ledger, u)
    BY <1>1 DEF TakesFor
  <1>4. ASSUME NEW r \in DOMAIN f.people, NEW day \in Nat
        PROVE  UsedOn(more, r, day) <= DailyCapacity(f, r, day)
    <2> DEFINE old == {x \in ledger : x.resource = r /\ x.day = day}
               new == {x \in takes : x.resource = r /\ x.day = day}
               cap == DailyCapacity(f, r, day)
    <2>1. UsedOn(ledger, r, day) <= cap /\ UsedOn(ledger, r, day) \in Nat /\ cap \in Nat
      BY LedgerFacts, CapacityFacts DEF NobodyOverworked
    <2>2. UsedOn(ledger, r, day) = SumOver(old, Hours) /\ UsedOn(more, r, day) = SumOver(old \union new, Hours)
      <3>1. {x \in more : x.resource = r /\ x.day = day} = old \union new
        OBVIOUS
      <3> HIDE DEF more
      <3> QED
        BY <3>1 DEF UsedOn
    <2>3. /\ IsFiniteSet(old) /\ IsFiniteSet(new) /\ new \cap old = {}
          /\ \A x \in old \union new : Hours[x] \in Int
      <3>1. IsFiniteSet(old) /\ IsFiniteSet(new)
        BY <1>1, FS_Subset DEF IsLedger
      <3>2. new \cap old = {}
        BY <1>1 DEF TakesFor
      <3>3. \A x \in old \union new : Hours[x] \in Int
        BY <1>1, LedgerFacts
      <3> QED
        BY <3>1, <3>2, <3>3
    <2>4. SumOver(old \union new, Hours) = SumOver(old, Hours) + SumOver(new, Hours)
      <3> HIDE DEF old, new
      <3> QED
        BY <2>3, SumOfUnion
    <2>5. CASE new = {}
      <3>1. old \union new = old
        BY <2>5
      <3> QED
        BY <2>1, <2>2, <3>1
    <2>6. CASE new # {}
      <3>1. PICK x \in new : TRUE
        BY <2>6
      <3>2. x \in takes /\ x.resource = r /\ x.day = day /\ p.resource = r
        BY <1>1, <3>1
      <3>3. new = {x}
        BY <3>1, <3>2 DEF IsPlacement
      <3>4. SumOver(new, Hours) = x.hours /\ x.hours \in Nat
        <4>1. Hours[x] = x.hours /\ x.hours \in Nat
          BY <1>1, <3>2, LedgerFacts
        <4>2. IsFiniteSet({x}) /\ \A y \in {x} : Hours[y] \in Int
          BY <4>1, FS_Singleton
        <4>3. SumOver({x}, Hours) = Hours[x] + SumOver({x} \ {x}, Hours)
          BY <4>2, SumOneByOne
        <4>4. {x} \ {x} = {} /\ IsFiniteSet({}) /\ \A y \in {} : Hours[y] \in Int
          BY FS_EmptySet
        <4>5. SumOver({x} \ {x}, Hours) = 0
          BY <4>4, SumOneByOne
        <4>6. SumOver({x}, Hours) = x.hours
          BY <4>1, <4>3, <4>5
        <4> QED
          BY <3>3, <4>1, <4>6
      <3>5. x.hours <= FreeOn(f, ledger, r, day)
        BY <3>2 DEF IsPlacement
      <3>6. FreeOn(f, ledger, r, day) = cap - UsedOn(ledger, r, day)
        BY <2>1, FreeFacts
      <3>7. UsedOn(more, r, day) = UsedOn(ledger, r, day) + x.hours
        BY <2>2, <2>4, <3>4
      <3> HIDE DEF more
      <3> QED
        BY <2>1, <3>4, <3>5, <3>6, <3>7
    <2>7. new = {} \/ new # {}
      OBVIOUS
    <2> HIDE DEF old, new, more
    <2> QED
      BY ONLY <2>5, <2>6, <2>7
  <1> QED
    BY <1>2, <1>3, <1>4 DEF NobodyOverworked, LedgerGrows

\* A row that fits a placement still does when another task is placed.
LEMMA RowGoesOnFitting ==
  ASSUME NEW f, IsProject(f), NEW ends, AreEnds(f, ends), NEW t, CanFollow(f, ends, t), NEW v \in Nat,
         NEW ledger, NEW more, NEW row, RowFits(f, ends, ledger, row),
         TakesFor(more, row.task) = TakesFor(ledger, row.task)
  PROVE  RowFits(f, With(ends, t, v), more, row)
  <1>1. /\ DOMAIN With(ends, t, v) = DOMAIN ends \union {t}
        /\ \A u \in DOMAIN ends : u # t /\ With(ends, t, v)[u] = ends[u]
    <2>1. EndsGrow(f, ends, t, v, With(ends, t, v))
      BY OneMoreEnd
    <2> QED
      BY <2>1 DEF EndsGrow
  <1>2. \A d \in f.deps : d.succ = row.task => d.pred \in DOMAIN ends
    BY DEF AreEnds, RowFits
  <1> QED
    BY <1>1, <1>2 DEF RowFits

\* Ends, rows and a ledger make some plan.
LEMMA IsSomePlan ==
  ASSUME NEW f, NEW ends, AreEnds(f, ends), NEW rows \in Seq(Row), NEW ledger, IsLedger(ledger),
         ends = [u \in DOMAIN ends |-> ends[u]]
  PROVE  [ends |-> ends, rows |-> rows, ledger |-> ledger] \in SomePlan(f)
  <1>1. ends \in [DOMAIN ends -> Nat] /\ DOMAIN ends \in SUBSET DOMAIN f.tasks
    BY DEF AreEnds
  <1>2. ends \in UNION {[D -> Nat] : D \in SUBSET DOMAIN f.tasks}
    BY <1>1
  <1>3. ledger \in SUBSET Taken
    BY DEF IsLedger
  <1> QED
    BY <1>2, <1>3 DEF SomePlan

\* Placing one more task makes a plan so far of a plan so far.
LEMMA PlacedOneMore ==
  ASSUME NEW f, IsProject(f), NEW sched, IsSchedule(f, sched), NEW n \in Nat, NEW s, PlanSoFar(f, n, s),
         NEW t, CanFollow(f, s.ends, t)
  PROVE  PlanSoFar(f, n + 1, PlaceTask(f, sched, s, t))
  <1> DEFINE ready == ReadyDateFor(f, sched, s.ends, t)
             best  == Best(f, sched, s, t)
             est   == f.tasks[t].est
             row   == [task |-> t, resource |-> best.resource, start |-> best.start, end |-> best.end, hours |-> est]
             new   == PlaceTask(f, sched, s, t)
  <1>1. /\ DOMAIN s = {"ends", "rows", "ledger"} /\ AreEnds(f, s.ends) /\ Cardinality(DOMAIN s.ends) = n
        /\ s.rows \in Seq(Row) /\ IsLedger(s.ledger) /\ NobodyOverworked(f, s.ledger)
        /\ \A i, j \in DOMAIN s.rows : s.rows[i].task = s.rows[j].task => i = j
        /\ \A i \in DOMAIN s.rows : RowFits(f, s.ends, s.ledger, s.rows[i])
        /\ \A u \in DOMAIN s.ends : NeedsRow(f, u) => \E i \in DOMAIN s.rows : s.rows[i].task = u
        /\ \A x \in s.ledger : \E i \in DOMAIN s.rows : s.rows[i].task = x.task
    BY DEF PlanSoFar, SomePlan
  <1>2. t \in DOMAIN f.tasks /\ t \notin DOMAIN s.ends /\ est \in Int /\ t \in Nat
    <2>1. t \in DOMAIN f.tasks /\ t \notin DOMAIN s.ends
      BY DEF CanFollow
    <2> QED
      BY <2>1, TaskFacts
  <1>3. ready \in Nat /\ \A d \in f.deps : d.succ = t /\ d.type = "FS" => s.ends[d.pred] < ready
    BY <1>1, ReadyFacts
  <1>4. /\ \A i \in DOMAIN s.rows : s.rows[i].task \in DOMAIN s.ends /\ s.rows[i].task # t
        /\ \A x \in s.ledger : x.task # t
    <2>1. \A i \in DOMAIN s.rows : s.rows[i].task \in DOMAIN s.ends
      BY <1>1 DEF RowFits
    <2> QED
      BY <1>1, <1>2, <2>1
  <1>5. ASSUME NEW v \in Nat
        PROVE  /\ AreEnds(f, With(s.ends, t, v)) /\ Cardinality(DOMAIN With(s.ends, t, v)) = n + 1
               /\ DOMAIN With(s.ends, t, v) = DOMAIN s.ends \union {t} /\ With(s.ends, t, v)[t] = v
               /\ \A u \in DOMAIN s.ends : u # t /\ With(s.ends, t, v)[u] = s.ends[u]
    <2>1. EndsGrow(f, s.ends, t, v, With(s.ends, t, v))
      BY <1>1, OneMoreEnd
    <2> QED
      BY <1>1, <2>1 DEF EndsGrow
  <1>6. CASE ~NeedsRow(f, t)
    <2>1. new = [s EXCEPT !.ends = With(s.ends, t, ready)]
      BY <1>6 DEF PlaceTask, NeedsRow
    <2> DEFINE ends == With(s.ends, t, ready)
    <2>2. /\ DOMAIN new = {"ends", "rows", "ledger"} /\ new.ends = ends /\ new.rows = s.rows /\ new.ledger = s.ledger
      BY <1>1, <2>1
    <2> HIDE DEF ready
    <2>3. \A i \in DOMAIN s.rows : RowFits(f, ends, s.ledger, s.rows[i])
      BY <1>1, <1>3, RowGoesOnFitting
    <2>4. \A u \in DOMAIN ends : NeedsRow(f, u) => \E i \in DOMAIN s.rows : s.rows[i].task = u
      <3>1. DOMAIN ends = DOMAIN s.ends \union {t}
        BY <1>3, <1>5
      <3> HIDE DEF ends
      <3> QED
        BY <1>1, <1>6, <3>1
    <2>5. AreEnds(f, ends) /\ Cardinality(DOMAIN ends) = n + 1
      BY <1>3, <1>5
    <2>6. new = [ends |-> ends, rows |-> s.rows, ledger |-> s.ledger]
      BY <2>1, <1>1 DEF PlanSoFar, SomePlan, ends
    <2> HIDE DEF new
    <2>7. ends = [u \in DOMAIN ends |-> ends[u]]
      BY DEF With, ends
    <2> HIDE DEF ends
    <2>8. new \in SomePlan(f)
      BY <1>1, <2>5, <2>6, <2>7, IsSomePlan
    <2>9. PlanSoFar(f, n + 1, new)
      BY <1>1, <2>8, <2>2, <2>3, <2>4, <2>5 DEF PlanSoFar
    <2> QED
      BY <2>9 DEF new
  <1>7. CASE NeedsRow(f, t)
    <2> DEFINE ends == With(s.ends, t, best.end)
               rows == Append(s.rows, row)
               ledger == s.ledger \union best.takes
    <2>1. new = [ends |-> ends, rows |-> rows, ledger |-> ledger]
      BY <1>7, Zenon DEF PlaceTask, NeedsRow, Best
    <2>2. IsPlacement(f, s.ledger, t, ready, best) /\ best.resource \in Eligible(f, t)
      BY <1>1, <1>7, BestIsPlacement DEF NeedsRow
    <2> DEFINE last == best.end
    <2>3. /\ best.resource \in Nat /\ best.start \in Nat /\ last \in Nat /\ ready <= best.start /\ best.start <= last
          /\ IsLedger(best.takes)
          /\ \A x \in best.takes : /\ x.task = t /\ x.resource = best.resource
                                   /\ best.start <= x.day /\ x.day <= last
          /\ est <= SumOver(best.takes, Hours)
      BY <2>2, PeopleFacts DEF IsPlacement
    <2>4. /\ AreEnds(f, ends) /\ Cardinality(DOMAIN ends) = n + 1
          /\ DOMAIN ends = DOMAIN s.ends \union {t} /\ ends[t] = last
          /\ \A u \in DOMAIN s.ends : u # t /\ ends[u] = s.ends[u]
      BY <1>5, <2>3
    <2>5. TakesFor(s.ledger, t) = {}
      BY <1>4 DEF TakesFor
    <2>6. /\ IsLedger(ledger) /\ NobodyOverworked(f, ledger) /\ TakesFor(ledger, t) = best.takes
          /\ \A u : u # t => TakesFor(ledger, u) = TakesFor(s.ledger, u)
      <3> HIDE DEF best, ready
      <3>1. LedgerGrows(f, s.ledger, t, best.takes, s.ledger \union best.takes)
        BY <1>1, <2>2, <2>5, OneMorePlacement
      <3> QED
        BY <3>1 DEF LedgerGrows
    <2>7. \A i \in DOMAIN s.rows : RowFits(f, ends, ledger, s.rows[i])
      <3> TAKE i \in DOMAIN s.rows
      <3>1. TakesFor(ledger, s.rows[i].task) = TakesFor(s.ledger, s.rows[i].task)
        BY <1>4, <2>6
      <3>2. RowFits(f, s.ends, s.ledger, s.rows[i])
        BY <1>1
      <3> HIDE DEF ledger, best
      <3> QED
        BY <1>1, <2>3, <3>1, <3>2, RowGoesOnFitting
    <2>8. RowFits(f, ends, ledger, row)
      <3>1. /\ row.task = t /\ row.resource = best.resource /\ row.start = best.start
            /\ row.end = last /\ row.hours = est
        OBVIOUS
      <3>2. \A d \in f.deps : d.succ = t => d.pred \in DOMAIN s.ends /\ s.ends[d.pred] \in Nat
        BY <1>1 DEF CanFollow, AreEnds
      <3> HIDE DEF row, ends, ledger, best, last
      <3>3. \A d \in f.deps : d.succ = t /\ d.type = "FS" => ends[d.pred] < row.start
        <4> TAKE d \in f.deps
        <4> HAVE d.succ = t /\ d.type = "FS"
        <4>1. ends[d.pred] = s.ends[d.pred] /\ s.ends[d.pred] < ready /\ s.ends[d.pred] \in Nat
          BY <1>3, <2>4, <3>2
        <4> HIDE DEF ready
        <4> QED
          BY <1>3, <2>3, <3>1, <4>1
      <3>4. est # NoEstimate
        BY <1>7 DEF NeedsRow
      <3> HIDE DEF est
      <3> QED
        BY <2>2, <2>3, <2>4, <2>6, <3>1, <3>3, <3>4 DEF RowFits, est
    <2>9. row \in Row
      BY <1>2, <2>3 DEF Row
    <2>10. row.task = t
      OBVIOUS
    <2> HIDE DEF row, ends, ledger, new, best
    <2>11. /\ rows \in Seq(Row) /\ DOMAIN rows = DOMAIN s.rows \union {Len(s.rows) + 1}
           /\ rows[Len(s.rows) + 1] = row /\ Len(s.rows) + 1 \notin DOMAIN s.rows
           /\ \A i \in DOMAIN s.rows : rows[i] = s.rows[i]
      BY <1>1, <2>9
    <2> HIDE DEF rows
    <2>12. \A i, j \in DOMAIN rows : rows[i].task = rows[j].task => i = j
      BY <1>1, <1>4, <2>10, <2>11
    <2>13. \A i \in DOMAIN rows : RowFits(f, ends, ledger, rows[i])
      BY <2>7, <2>8, <2>11
    <2>14. \A u \in DOMAIN ends : NeedsRow(f, u) => \E i \in DOMAIN rows : rows[i].task = u
      BY <1>1, <2>4, <2>10, <2>11
    <2>15. \A x \in ledger : \E i \in DOMAIN rows : rows[i].task = x.task
      BY <1>1, <2>3, <2>10, <2>11 DEF ledger
    <2>16. new \in SomePlan(f) /\ new.ends = ends /\ new.rows = rows /\ new.ledger = ledger
      <3>1. ends = [u \in DOMAIN ends |-> ends[u]]
        BY DEF With, ends
      <3>2. [ends |-> ends, rows |-> rows, ledger |-> ledger] \in SomePlan(f)
        BY <2>4, <2>6, <2>11, <3>1, IsSomePlan
      <3> QED
        BY <2>1, <3>2
    <2>17. PlanSoFar(f, n + 1, new)
      BY <2>4, <2>6, <2>11, <2>12, <2>13, <2>14, <2>15, <2>16 DEF PlanSoFar
    <2> QED
      BY <2>17 DEF new
  <1> QED
    BY <1>6, <1>7

\* While tasks are left one of them can follow, and one of those comes first.
LEMMA SomethingFollows ==
  ASSUME NEW f, IsProject(f), Acyclic(f), NEW sched, IsSchedule(f, sched), NEW ends, AreEnds(f, ends),
         DOMAIN ends # DOMAIN f.tasks,
         NEW ready, ready = {t \in DOMAIN f.tasks \ DOMAIN ends :
                                \A d \in f.deps : d.succ = t => d.pred \in DOMAIN ends}
  PROVE  \E t \in ready : \A u \in ready : GoesBefore(f, sched, t, u)
  <1> DEFINE unplaced == DOMAIN f.tasks \ DOMAIN ends
             urgent == {t \in ready : IsCritical(sched, t)}
             some == IF urgent = {} THEN ready ELSE urgent
             a == [t \in some |-> f.tasks[t].prio]
             b == [t \in some |-> t]
  <1>1. unplaced # {} /\ unplaced \in SUBSET DOMAIN f.tasks
    BY DEF AreEnds
  <1>2. PICK t \in unplaced : \A d \in f.deps : d.succ = t => d.pred \notin unplaced
    <2> HIDE DEF unplaced
    <2> QED
      BY <1>1 DEF Acyclic
  <1>3. t \in ready
    BY <1>2, ProjectFacts
  <1>4. some # {} /\ some \subseteq DOMAIN f.tasks /\ some \subseteq ready
    BY <1>3
  <1>5. IsFiniteSet(some)
    BY <1>4, ProjectFacts, FS_Subset
  <1>6. \A x \in some : a[x] \in Int /\ b[x] \in Int /\ a[x] = f.tasks[x].prio /\ b[x] = x
    <2> TAKE x \in some
    <2>1. x \in DOMAIN f.tasks
      BY <1>4
    <2>2. f.tasks[x].prio \in Int /\ x \in Nat
      BY <2>1, TaskFacts
    <2> QED
      BY <2>2
  <1>7. PICK x \in some : \A y \in some : a[x] < a[y] \/ (a[x] = a[y] /\ b[x] <= b[y])
    <2> HIDE DEF a, b, some
    <2> QED
      BY <1>4, <1>5, <1>6, FirstByTwo
  <1>8. \A y \in some : f.tasks[x].prio < f.tasks[y].prio \/ (f.tasks[x].prio = f.tasks[y].prio /\ x <= y)
    <2> HIDE DEF a, b, some
    <2> QED
      BY <1>6, <1>7
  <1>9. ASSUME NEW y \in ready
        PROVE  GoesBefore(f, sched, x, y)
    <2>1. CASE urgent = {}
      <3>1. y \in some /\ ~IsCritical(sched, x) /\ ~IsCritical(sched, y)
        BY <2>1, <1>4
      <3> QED
        BY <1>8, <3>1 DEF GoesBefore
    <2>2. CASE urgent # {}
      <3>1. IsCritical(sched, x)
        BY <2>2
      <3>2. IsCritical(sched, y) => y \in some
        BY <2>2
      <3> QED
        BY <1>8, <3>1, <3>2 DEF GoesBefore
    <2> QED
      BY <2>1, <2>2
  <1>10. x \in ready
    BY <1>4
  <1> QED
    BY <1>9, <1>10

\* The plan grows by the task that comes first of those that can follow.
LEMMA PlacesNext ==
  ASSUME NEW f, IsProject(f), Acyclic(f), NEW sched, IsSchedule(f, sched), NEW n \in Nat, n < Len(f.tasks),
         NEW s, PlanSoFar(f, n, s)
  PROVE  PlanSoFar(f, n + 1, PlaceNext(f, sched, s))
  <1> DEFINE ready == {t \in DOMAIN f.tasks \ DOMAIN s.ends :
                          \A d \in f.deps : d.succ = t => d.pred \in DOMAIN s.ends}
             next == CHOOSE t \in ready : \A u \in ready : GoesBefore(f, sched, t, u)
  <1>1. AreEnds(f, s.ends) /\ Cardinality(DOMAIN s.ends) = n
    BY DEF PlanSoFar
  <1>2. DOMAIN s.ends # DOMAIN f.tasks
    <2>1. DOMAIN f.tasks = 1..Len(f.tasks) /\ Len(f.tasks) \in Nat
      BY ProjectFacts
    <2>2. Cardinality(1..Len(f.tasks)) = Len(f.tasks)
      BY <2>1, FS_Interval
    <2> QED
      BY <1>1, <2>1, <2>2
  <1>3. \E t \in ready : \A u \in ready : GoesBefore(f, sched, t, u)
    <2> HIDE DEF ready
    <2>1. ready = {t \in DOMAIN f.tasks \ DOMAIN s.ends :
                          \A d \in f.deps : d.succ = t => d.pred \in DOMAIN s.ends}
      BY DEF ready
    <2> QED
      BY <1>1, <1>2, <2>1, SomethingFollows
  <1>4. next \in ready
    <2> HIDE DEF ready
    <2> QED
      BY <1>3
  <1>5. CanFollow(f, s.ends, next)
    <2> HIDE DEF next
    <2> QED
      BY <1>4 DEF CanFollow
  <1>6. PlaceNext(f, sched, s) = PlaceTask(f, sched, s, next)
    BY DEF PlaceNext
  <1> HIDE DEF next
  <1> QED
    BY <1>5, <1>6, PlacedOneMore

Nothing == [ends |-> <<>>, rows |-> <<>>, ledger |-> {}]

\* Before anything is placed there is a plan so far.
LEMMA NothingIsPlaced ==
  ASSUME NEW f, IsProject(f)
  PROVE  PlanSoFar(f, 0, Nothing)
  <1>1. AreEnds(f, <<>>) /\ Cardinality(DOMAIN <<>>) = 0
    BY FS_EmptySet DEF AreEnds
  <1>2. IsLedger({})
    BY FS_EmptySet DEF IsLedger
  <1>3. NobodyOverworked(f, {})
    <2> SUFFICES ASSUME NEW r \in DOMAIN f.people, NEW day \in Nat
                 PROVE  UsedOn({}, r, day) <= DailyCapacity(f, r, day)
      BY DEF NobodyOverworked
    <2>1. {x \in {} : x.resource = r /\ x.day = day} = {}
      OBVIOUS
    <2>2. UsedOn({}, r, day) = 0
      BY <2>1, FS_EmptySet, SumOneByOne DEF UsedOn
    <2> QED
      BY <2>2, CapacityFacts
  <1>4. <<>> \in Seq(Row) /\ <<>> = [u \in DOMAIN <<>> |-> <<>>[u]]
    OBVIOUS
  <1>5. Nothing \in SomePlan(f)
    BY <1>1, <1>2, <1>4, IsSomePlan DEF Nothing
  <1>6. Nothing.ends = <<>> /\ Nothing.rows = <<>> /\ Nothing.ledger = {}
    BY DEF Nothing
  <1> QED
    BY <1>1, <1>2, <1>3, <1>5, <1>6 DEF PlanSoFar

\* Placing task after task, as far as what is placed is a plan.
LEMMA PlacingGoesOn ==
  ASSUME NEW f, IsProject(f), Acyclic(f), NEW sched, IsSchedule(f, sched), NEW g, g[0] = Nothing,
         \A n \in 1..Len(f.tasks) : PlanSoFar(f, n - 1, g[n - 1]) => g[n] = PlaceNext(f, sched, g[n - 1])
  PROVE  \A n \in 0..Len(f.tasks) : PlanSoFar(f, n, g[n])
  <1> DEFINE B == {n \in 0..Len(f.tasks) : ~PlanSoFar(f, n, g[n])}
  <1> SUFFICES ASSUME B # {} PROVE FALSE
    OBVIOUS
  <1>1. Len(f.tasks) \in Nat
    BY ProjectFacts
  <1>2. PICK n \in B : \A k \in B : n <= k
    <2>1. B \in SUBSET Nat
      BY <1>1
    <2> HIDE DEF B
    <2> QED
      BY <2>1, LeastNumber
  <1>3. n \in 0..Len(f.tasks) /\ ~PlanSoFar(f, n, g[n])
    OBVIOUS
  <1>4. n # 0
    BY <1>3, NothingIsPlaced
  <1>5. n - 1 \in Nat /\ n - 1 < Len(f.tasks) /\ n \in 1..Len(f.tasks) /\ (n - 1) + 1 = n /\ n - 1 \in 0..Len(f.tasks)
    BY <1>1, <1>3, <1>4
  <1>6. PlanSoFar(f, n - 1, g[n - 1])
    <2>1. n - 1 \notin B
      <3> HIDE DEF B
      <3> QED
        BY <1>2, <1>3, <1>5
    <2> QED
      BY <1>5, <2>1
  <1>7. PlanSoFar(f, (n - 1) + 1, PlaceNext(f, sched, g[n - 1]))
    <2> DEFINE m == n - 1
    <2>1. m \in Nat /\ m < Len(f.tasks) /\ PlanSoFar(f, m, g[m])
      BY <1>5, <1>6
    <2> HIDE DEF m
    <2>2. PlanSoFar(f, m + 1, PlaceNext(f, sched, g[m]))
      BY <2>1, PlacesNext
    <2> QED
      BY <2>2 DEF m
  <1> QED
    BY <1>3, <1>5, <1>6, <1>7

\* All tasks placed make a plan of the project.
LEMMA AllPlaced ==
  ASSUME NEW f, IsProject(f), Acyclic(f), NEW sched, IsSchedule(f, sched)
  PROVE  \E s : PlanSoFar(f, Len(f.tasks), s) /\ Allocations(f, sched) = s.rows
  <1> DEFINE N == 0..Len(f.tasks)
             V == SomePlan(f)
             after(s) == IF PlaceNext(f, sched, s) \in V THEN PlaceNext(f, sched, s) ELSE Nothing
             F == [n \in N |-> [g \in [N -> V] |-> IF n = 0 THEN Nothing ELSE after(g[n - 1])]]
             R == {<<n - 1, n>> : n \in N \ {0}}
  <1>1. Len(f.tasks) \in Nat /\ Nothing \in V
    BY ProjectFacts, NothingIsPlaced DEF PlanSoFar
  <1>2. \A n \in N \ {0} : n - 1 \in N /\ n \in 1..Len(f.tasks)
    BY <1>1
  <1>3. \A n \in 1..Len(f.tasks) : n \in N \ {0}
    BY <1>1
  <1>4. PICK g \in [N -> V] : \A n \in N : g[n] = F[n][g]
    <2>1. \A n \in N : \A g \in [N -> V] : F[n][g] \in V
      BY <1>1
    <2>2. \A n \in N : \A g, h \in [N -> V] : Agree(N, R, n, g, h) => F[n][g] = F[n][h]
      <3> SUFFICES ASSUME NEW n \in N, NEW g \in [N -> V], NEW h \in [N -> V], Agree(N, R, n, g, h)
                   PROVE  F[n][g] = F[n][h]
        OBVIOUS
      <3>1. CASE n = 0
        BY <3>1
      <3>2. CASE n # 0
        <4>1. n - 1 \in N /\ <<n - 1, n>> \in R
          BY <1>2, <3>2
        <4>2. g[n - 1] = h[n - 1]
          BY <4>1 DEF Agree
        <4> QED
          BY <3>2, <4>2
      <3> QED
        BY <3>1, <3>2
    <2>3. \A T \in SUBSET N : T # {} => \E x \in T : \A y \in T : <<y, x>> \notin R
      <3> SUFFICES ASSUME NEW T \in SUBSET N, T # {}
                   PROVE  \E x \in T : \A y \in T : <<y, x>> \notin R
        OBVIOUS
      <3>1. T \in SUBSET Nat
        BY <1>1
      <3>2. PICK x \in T : \A y \in T : x <= y
        BY <3>1, LeastNumber
      <3>3. \A y \in T : <<y, x>> \notin R
        <4> SUFFICES ASSUME NEW y \in T, <<y, x>> \in R PROVE FALSE
          OBVIOUS
        <4>1. y = x - 1
          OBVIOUS
        <4> QED
          BY <3>1, <3>2, <4>1
      <3> QED
        BY <3>3
    <2> HIDE DEF F, R, N, V
    <2>4. Defines(N, R, V, F)
      BY <1>1, <2>1, <2>2, <2>3 DEF Defines
    <2> QED
      BY <2>4, Recursion
  <1>5. g[0] = Nothing /\ \A n \in N \ {0} : g[n] = after(g[n - 1])
    <2> HIDE DEF V, after
    <2>1. \A n \in N : g[n] = IF n = 0 THEN Nothing ELSE after(g[n - 1])
      BY <1>4
    <2> QED
      BY <1>1, <2>1
  <1>6. \A n \in 1..Len(f.tasks) : PlanSoFar(f, n - 1, g[n - 1]) => g[n] = PlaceNext(f, sched, g[n - 1])
    <2> TAKE n \in 1..Len(f.tasks)
    <2> HAVE PlanSoFar(f, n - 1, g[n - 1])
    <2> DEFINE m == n - 1
    <2>1. m \in Nat /\ m < Len(f.tasks) /\ PlanSoFar(f, m, g[m])
      BY <1>1
    <2>2. g[n] = after(g[m])
      BY <1>3, <1>5
    <2> HIDE DEF m
    <2>3. PlanSoFar(f, m + 1, PlaceNext(f, sched, g[m]))
      BY <2>1, PlacesNext
    <2>4. PlaceNext(f, sched, g[m]) \in V
      BY <2>3 DEF PlanSoFar
    <2> QED
      BY <2>2, <2>4 DEF m
  <1>7. \A n \in N : PlanSoFar(f, n, g[n])
    <2> HIDE DEF F
    <2> QED
      BY <1>5, <1>6, PlacingGoesOn
  <1> DEFINE step(n, h) == IF n = 0 THEN Nothing ELSE PlaceNext(f, sched, h[n - 1])
             placed == CHOOSE h : h = [n \in N |-> step(n, h)]
  <1>8. g = [n \in N |-> step(n, g)]
    <2>1. \A n \in N : g[n] = step(n, g)
      <3> TAKE n \in N
      <3>1. CASE n = 0
        BY <1>5, <3>1
      <3>2. CASE n # 0
        <4>1. n \in 1..Len(f.tasks) /\ n - 1 \in N
          BY <1>2, <3>2
        <4> HIDE DEF F
        <4> QED
          BY <1>6, <1>7, <3>2, <4>1
      <3> QED
        BY <3>1, <3>2
    <2> HIDE DEF F, step, V
    <2> QED
      BY <2>1
  <1> HIDE DEF F, R
  <1>9. placed = [n \in N |-> step(n, placed)]
    <2> HIDE DEF step
    <2> QED
      BY <1>8
  <1>10. Allocations(f, sched) = placed[Len(f.tasks)].rows
    BY Zenon DEF Allocations, Nothing
  <1> HIDE DEF placed
  <1>11. placed[0] = Nothing /\ \A n \in 1..Len(f.tasks) : placed[n] = PlaceNext(f, sched, placed[n - 1])
    <2>1. \A n \in N : placed[n] = step(n, placed)
      <3> HIDE DEF step
      <3> QED
        BY <1>9
    <2> QED
      BY <1>1, <1>3, <2>1
  <1>12. PlanSoFar(f, Len(f.tasks), placed[Len(f.tasks)])
    <2>1. \A n \in N : PlanSoFar(f, n, placed[n])
      BY <1>11, PlacingGoesOn
    <2> QED
      BY <1>1, <2>1
  <1> QED
    BY <1>10, <1>12

\* The critical path is computed of a graph without cycles.
LEMMA ComputedIsSchedule ==
  ASSUME NEW f, IsProject(f), Acyclic(f)
  PROVE  IsSchedule(f, ComputeSchedule(f))
  <1> DEFINE T == DOMAIN f.tasks
             any == Anytime(f)
             es == EarliestStart(f, any)
             end == ProjectDuration(f, es)
             lf == LatestFinish(f, end)
             sched == ComputeSchedule(f)
  <1>1. any \in [T -> Int] /\ \A t \in T : any[t] = 0
    BY DEF Anytime
  <1>2. es \in [T -> Int] /\ \A t \in T : any[t] <= es[t]
    BY <1>1, ForwardPass DEF Forward
  <1> HIDE DEF es, any
  <1>3. end \in Nat
    BY <1>2, LastFinish
  <1> HIDE DEF end
  <1>4. lf \in [T -> Int]
    BY <1>3, BackwardPass DEF Backward
  <1> HIDE DEF lf
  <1>5. sched = [t \in T |-> [start |-> ToDate(es[t]), finish |-> ToDate(es[t] + Duration(f, t)),
                              slack |-> lf[t] - Duration(f, t) - es[t]]]
    BY DEF ComputeSchedule, lf, end, es, any
  <1>6. ASSUME NEW t \in T
        PROVE  sched[t].start \in Nat /\ sched[t].slack \in Int
    <2>1. es[t] \in Nat /\ lf[t] \in Int /\ Duration(f, t) \in Int
      BY <1>1, <1>2, <1>4, ProjectFacts
    <2>2. sched[t].start = ToDate(es[t]) /\ sched[t].slack = lf[t] - Duration(f, t) - es[t]
      BY <1>5
    <2>3. ToDate(es[t]) \in Nat
      BY <2>1 DEF ToDate
    <2> QED
      BY <2>1, <2>2, <2>3
  <1>7. DOMAIN sched = T
    BY <1>5
  <1> HIDE DEF sched
  <1> QED
    BY <1>6, <1>7 DEF IsSchedule, sched

RowsOf(all) == {all[i] : i \in DOMAIN all}

\* The rows of a plan are as many as its tasks, and are typed.
LEMMA RowFacts ==
  ASSUME NEW f, NEW n, NEW s, PlanSoFar(f, n, s)
  PROVE  /\ RowsOf(s.rows) \subseteq Row /\ IsFiniteSet(RowsOf(s.rows))
         /\ \A x, y \in RowsOf(s.rows) : x.task = y.task => x = y
         /\ \A x \in RowsOf(s.rows) : RowFits(f, s.ends, s.ledger, x)
         /\ \A x \in s.ledger : \E y \in RowsOf(s.rows) : y.task = x.task
         /\ \A i, j \in DOMAIN s.rows : s.rows[i] = s.rows[j] => i = j
  <1>1. /\ s.rows \in Seq(Row)
        /\ \A i, j \in DOMAIN s.rows : s.rows[i].task = s.rows[j].task => i = j
        /\ \A i \in DOMAIN s.rows : RowFits(f, s.ends, s.ledger, s.rows[i])
        /\ \A x \in s.ledger : \E i \in DOMAIN s.rows : s.rows[i].task = x.task
    BY DEF PlanSoFar
  <1>2. IsFiniteSet(DOMAIN s.rows)
    <2>1. DOMAIN s.rows = 1..Len(s.rows) /\ Len(s.rows) \in Nat
      BY <1>1
    <2> QED
      BY <2>1, FS_Interval
  <1>3. IsFiniteSet(RowsOf(s.rows))
    BY <1>2, ImageIsFinite DEF RowsOf
  <1>4. RowsOf(s.rows) \subseteq Row
    BY <1>1 DEF RowsOf
  <1> QED
    BY <1>1, <1>3, <1>4 DEF RowsOf

\* Between two days nobody gets more to do than the days hold: the rows that lie between
\* them have their hours in the ledger, on days between them, and of no day does the ledger
\* hold more than the day.
LEMMA HoursFit ==
  ASSUME NEW f, IsProject(f), NEW n, NEW s, PlanSoFar(f, n, s), NEW r \in DOMAIN f.people,
         NEW from \in Nat, NEW to \in Nat
  PROVE  HoursIn(RowsOf(s.rows), r, from, to) <= CapacityIn(f, r, from, to)
  <1> DEFINE rows == RowsOf(s.rows)
             ledger == s.ledger
             inside == {x \in rows : x.resource = r /\ from <= x.start /\ x.end <= to}
             h == [x \in inside |-> x.hours]
             k == [x \in inside |-> SumOver(TakesFor(ledger, x.task), Hours)]
             key == [y \in ledger |-> CHOOSE x \in rows : x.task = y.task]
             P == {y \in ledger : key[y] \in inside}
             day == [y \in P |-> y.day]
             D == from..to
             used == [d \in D |-> SumOver(Part(P, day, d), Hours)]
             cap == [d \in D |-> DailyCapacity(f, r, d)]
  <1>1. /\ rows \subseteq Row /\ IsFiniteSet(rows) /\ IsLedger(ledger) /\ NobodyOverworked(f, ledger)
        /\ \A x, y \in rows : x.task = y.task => x = y
        /\ \A x \in rows : RowFits(f, s.ends, ledger, x)
        /\ \A y \in ledger : \E x \in rows : x.task = y.task
    <2> HIDE DEF rows, ledger
    <2> QED
      BY RowFacts DEF PlanSoFar, rows, ledger
  <1>2. IsFiniteSet(ledger) /\ (\A y \in ledger : Hours[y] \in Nat /\ y.day \in Nat)
    BY <1>1, LedgerFacts DEF IsLedger
  <1>3. \A y \in ledger : key[y] \in rows /\ key[y].task = y.task
    <2> HIDE DEF rows, ledger
    <2> QED
      BY <1>1
  <1> HIDE DEF key
  <1>4. inside \subseteq rows /\ IsFiniteSet(inside)
    BY <1>1, FS_Subset
  <1>5. \A x \in inside : Part(ledger, key, x) = TakesFor(ledger, x.task)
    <2> TAKE x \in inside
    <2>1. \A y \in ledger : key[y] = x <=> y.task = x.task
      BY <1>1, <1>3, <1>4
    <2> QED
      BY <2>1 DEF Part, TakesFor
  <1>6. \A x \in inside : h[x] = x.hours /\ h[x] \in Int /\ k[x] \in Int /\ h[x] <= k[x]
    <2> TAKE x \in inside
    <2>1. IsFiniteSet(TakesFor(ledger, x.task)) /\ \A y \in TakesFor(ledger, x.task) : Hours[y] \in Nat
      BY <1>2, FS_Subset DEF TakesFor
    <2>2. SumOver(TakesFor(ledger, x.task), Hours) \in Nat
      BY <2>1, SumIsNat
    <2>3. x.hours \in Int
      BY <1>1, <1>4 DEF Row
    <2>4. x.hours <= SumOver(TakesFor(ledger, x.task), Hours)
      BY <1>1, <1>4 DEF RowFits
    <2> QED
      BY <2>2, <2>3, <2>4
  <1>7. SumOver(inside, h) <= SumOver(inside, k)
    <2> HIDE DEF inside, h, k
    <2> QED
      BY <1>4, <1>6, SumIsMonotone
  <1>8. SumOver(P, Hours) = SumOver(inside, k)
    <2> DEFINE k2 == [x \in inside |-> SumOver(Part(ledger, key, x), Hours)]
    <2>1. k2 = k
      BY <1>5
    <2> HIDE DEF k2, k, inside, ledger
    <2>2. \A y \in ledger : Hours[y] \in Int
      BY <1>2
    <2>3. SumOver({y \in ledger : key[y] \in inside}, Hours)
            = SumOver(inside, [x \in inside |-> SumOver(Part(ledger, key, x), Hours)])
      BY <1>2, <1>4, <2>2, SumByKey
    <2> QED
      BY <2>1, <2>3 DEF k2
  <1>9. IsFiniteSet(P) /\ P \subseteq ledger
    BY <1>2, FS_Subset
  <1>10. \A y \in P : y.resource = r /\ y.day \in D /\ y.day \in Nat
    <2> TAKE y \in P
    <2>1. y \in ledger /\ key[y] \in inside
      OBVIOUS
    <2> DEFINE x == key[y]
    <2>2. x \in inside /\ x \in rows /\ x.task = y.task /\ RowFits(f, s.ends, ledger, x) /\ y \in TakesFor(ledger, x.task)
      BY <1>1, <1>3, <2>1 DEF TakesFor
    <2>3. x.start \in Nat /\ x.end \in Nat /\ y.day \in Nat
      BY <1>1, <1>2, <2>1, <2>2 DEF Row
    <2> HIDE DEF x
    <2>4. y.resource = x.resource /\ x.start <= y.day /\ y.day <= x.end
      BY <2>2 DEF RowFits
    <2>5. x.resource = r /\ from <= x.start /\ x.end <= to
      BY <2>2
    <2> QED
      BY <2>3, <2>4, <2>5
  <1>11. \A d \in D : d \in Nat
    OBVIOUS
  <1>12. \A d \in D : used[d] \in Int /\ cap[d] \in Int /\ used[d] <= cap[d]
    <2> TAKE d \in D
    <2> DEFINE on == {y \in ledger : y.resource = r /\ y.day = d}
    <2>1. Part(P, day, d) \in SUBSET on
      BY <1>9, <1>10 DEF Part
    <2>2. IsFiniteSet(on) /\ \A y \in on : Hours[y] \in Nat
      BY <1>2, FS_Subset
    <2>3. UsedOn(ledger, r, d) = SumOver(on, Hours)
      BY DEF UsedOn
    <2>4. IsFiniteSet(Part(P, day, d)) /\ \A y \in Part(P, day, d) : Hours[y] \in Nat
      BY <2>1, <2>2, FS_Subset
    <2> HIDE DEF on, day, P
    <2>5. SumOver(Part(P, day, d), Hours) <= SumOver(on, Hours)
      BY <2>1, <2>2, SumOfPart
    <2>6. SumOver(Part(P, day, d), Hours) \in Nat /\ SumOver(on, Hours) \in Nat
      BY <2>2, <2>4, SumIsNat
    <2>7. SumOver(on, Hours) <= DailyCapacity(f, r, d) /\ DailyCapacity(f, r, d) \in Nat
      BY <1>1, <1>11, <2>3, CapacityFacts DEF NobodyOverworked
    <2>8. used[d] = SumOver(Part(P, day, d), Hours) /\ cap[d] = DailyCapacity(f, r, d)
      OBVIOUS
    <2> QED
      BY <2>5, <2>6, <2>7, <2>8
  <1>13. IsFiniteSet(D)
    BY FS_Interval
  <1>14. SumOver(P, Hours) = SumOver(D, used)
    <2>1. P = {y \in P : day[y] \in D}
      BY <1>10
    <2>2. \A y \in P : Hours[y] \in Int
      BY <1>2, <1>9
    <2> HIDE DEF P, day, D
    <2>3. SumOver({y \in P : day[y] \in D}, Hours) = SumOver(D, [d \in D |-> SumOver(Part(P, day, d), Hours)])
      BY <1>9, <1>13, <2>2, SumByKey
    <2> QED
      BY <2>1, <2>3
  <1>15. SumOver(D, used) <= SumOver(D, cap)
    <2> HIDE DEF D, used, cap
    <2> QED
      BY <1>12, <1>13, SumIsMonotone
  <1>16. CapacityIn(f, r, from, to) = SumOver(D, cap)
    <2>1. [d \in D |-> cap[d]] = [d \in from..to |-> DailyCapacity(f, r, d)]
      OBVIOUS
    <2> QED
      BY <2>1 DEF CapacityIn, SumOver
  <1>17. HoursIn(rows, r, from, to) = SumOver(inside, h)
    <2>1. [x \in inside |-> h[x]] = [x \in inside |-> x.hours]
      OBVIOUS
    <2> QED
      BY <2>1 DEF HoursIn, SumOver
  <1> DEFINE a == SumOver(inside, h)
             b == SumOver(P, Hours)
             c == SumOver(D, cap)
  <1>18. a \in Int /\ b \in Int /\ c \in Int
    <2> HIDE DEF inside, h, P, D, cap
    <2>1. \A y \in P : Hours[y] \in Int
      BY <1>2, <1>9
    <2> QED
      BY <1>4, <1>6, <1>9, <1>12, <1>13, <2>1, SumOneByOne
  <1>19. a <= b /\ b <= c
    BY <1>7, <1>8, <1>14, <1>15
  <1> HIDE DEF a, b, c
  <1>20. a <= c
    BY <1>18, <1>19
  <1> QED
    BY <1>16, <1>17, <1>20 DEF a, c, rows

\* What makes rows a plan that can be carried out.
CanBeCarriedOut(f, rows) ==
    /\ \A t \in DOMAIN f.tasks :
          IF NeedsRow(f, t)
          THEN \E x \in rows : {y \in rows : y.task = t} = {x} /\ x.hours = f.tasks[t].est /\ x.resource \in Eligible(f, t)
          ELSE {y \in rows : y.task = t} = {}
    /\ \A r \in DOMAIN f.people, from \in {x.start : x \in rows}, to \in {x.end : x \in rows} :
          HoursIn(rows, r, from, to) <= CapacityIn(f, r, from, to)
    /\ \A d \in f.deps : d.type = "FS" =>
          \A x, y \in rows : x.task = d.pred /\ y.task = d.succ => x.end < y.start

PlanOf(f) == Allocations(f, ComputeSchedule(f))

\* What the allocation computes can be carried out.
LEMMA ComputedCanBeCarriedOut ==
  ASSUME NEW f, IsProject(f), Acyclic(f)
  PROVE  /\ CanBeCarriedOut(f, RowsOf(PlanOf(f)))
         /\ PlanOf(f) \in Seq(Row)
         /\ \A i, j \in DOMAIN PlanOf(f) : PlanOf(f)[i] = PlanOf(f)[j] => i = j
  <1>1. IsSchedule(f, ComputeSchedule(f))
    BY ComputedIsSchedule
  <1>2. PICK s : PlanSoFar(f, Len(f.tasks), s) /\ PlanOf(f) = s.rows
    BY <1>1, AllPlaced DEF PlanOf
  <1> DEFINE rows == RowsOf(s.rows)
  <1>3. /\ rows \subseteq Row
        /\ \A x, y \in rows : x.task = y.task => x = y
        /\ \A x \in rows : RowFits(f, s.ends, s.ledger, x)
        /\ \A i, j \in DOMAIN s.rows : s.rows[i] = s.rows[j] => i = j
    BY <1>2, RowFacts
  <1>4. DOMAIN s.ends = DOMAIN f.tasks
    <2>1. DOMAIN s.ends \subseteq DOMAIN f.tasks /\ Cardinality(DOMAIN s.ends) = Len(f.tasks)
      BY <1>2 DEF PlanSoFar, AreEnds
    <2>2. DOMAIN f.tasks = 1..Len(f.tasks) /\ Len(f.tasks) \in Nat /\ IsFiniteSet(DOMAIN f.tasks)
      BY ProjectFacts
    <2>3. Cardinality(DOMAIN f.tasks) = Len(f.tasks)
      BY <2>2, FS_Interval
    <2> QED
      BY <2>1, <2>2, <2>3, FS_Subset
  <1>5. ASSUME NEW t \in DOMAIN f.tasks, NeedsRow(f, t)
        PROVE  \E x \in rows : {y \in rows : y.task = t} = {x} /\ x.hours = f.tasks[t].est /\ x.resource \in Eligible(f, t)
    <2>1. PICK i \in DOMAIN s.rows : s.rows[i].task = t
      BY <1>2, <1>4, <1>5 DEF PlanSoFar
    <2>2. s.rows[i] \in rows
      BY DEF RowsOf
    <2>3. {y \in rows : y.task = t} = {s.rows[i]}
      <3> HIDE DEF rows
      <3> QED
        BY <1>3, <2>1, <2>2
    <2>4. RowFits(f, s.ends, s.ledger, s.rows[i])
      BY <1>3, <2>2
    <2>5. s.rows[i].hours = f.tasks[t].est /\ s.rows[i].resource \in Eligible(f, t)
      BY <2>1, <2>4 DEF RowFits
    <2> HIDE DEF rows
    <2> QED
      BY <2>2, <2>3, <2>5
  <1>6. ASSUME NEW t \in DOMAIN f.tasks, ~NeedsRow(f, t)
        PROVE  {y \in rows : y.task = t} = {}
    <2>1. \A y \in rows : y.task = t => NeedsRow(f, t)
      BY <1>3 DEF RowFits, NeedsRow
    <2> QED
      BY <1>6, <2>1
  <1>7. ASSUME NEW r \in DOMAIN f.people, NEW from \in {x.start : x \in rows}, NEW to \in {x.end : x \in rows}
        PROVE  HoursIn(rows, r, from, to) <= CapacityIn(f, r, from, to)
    <2>1. from \in Nat /\ to \in Nat
      BY <1>3 DEF Row
    <2> QED
      BY <1>2, <2>1, HoursFit
  <1>8. ASSUME NEW d \in f.deps, d.type = "FS", NEW x \in rows, NEW y \in rows, x.task = d.pred, y.task = d.succ
        PROVE  x.end < y.start
    <2>1. RowFits(f, s.ends, s.ledger, x) /\ RowFits(f, s.ends, s.ledger, y)
      BY <1>3
    <2>2. x.end = s.ends[d.pred] /\ s.ends[d.pred] < y.start
      BY <1>8, <2>1 DEF RowFits
    <2> QED
      BY <2>2
  <1>9. CanBeCarriedOut(f, rows)
    <2> HIDE DEF rows
    <2> QED
      BY <1>5, <1>6, <1>7, <1>8 DEF CanBeCarriedOut
  <1> QED
    BY <1>2, <1>3, <1>9 DEF PlanSoFar

(***************************************************************************)
(* What changes lie over, and what a plan says of slack.                   *)
(***************************************************************************)

\* What lies on top is what was there, or what a change of that field says.
LEMMA OnTopIs ==
  ASSUME NEW changes \in Seq(Changes), NEW entity, NEW id, NEW field, NEW old
  PROVE  \/ OnTop(changes, entity, id, field, old) = old
         \/ \E c : /\ IsChange(c) /\ c.entity = entity /\ c.field = field
                   /\ OnTop(changes, entity, id, field, old) = c.value
  <1> DEFINE to == {i \in DOMAIN changes :
                       changes[i].entity = entity /\ changes[i].id = id /\ changes[i].field = field}
  <1>1. CASE to = {}
    BY <1>1 DEF OnTop
  <1>2. CASE to # {}
    <2>1. DOMAIN changes = 1..Len(changes) /\ Len(changes) \in Nat
      OBVIOUS
    <2>2. IsFiniteSet(DOMAIN changes)
      BY <2>1, FS_Interval
    <2>3. IsFiniteSet(to) /\ to \in SUBSET Int
      BY <2>1, <2>2, FS_Subset
    <2>4. OnTop(changes, entity, id, field, old) = changes[Max(to)].value
      BY <1>2 DEF OnTop
    <2>5. Max(to) \in to
      <3> HIDE DEF to
      <3> QED
        BY <1>2, <2>3, LargestOf
    <2> DEFINE c == changes[Max(to)]
    <2>6. c \in Changes /\ c.entity = entity /\ c.field = field
      BY <2>5
    <2>7. IsChange(c)
      BY <2>6, ChangesAssumption
    <2> HIDE DEF c
    <2> QED
      BY <2>4, <2>6, <2>7 DEF c
  <1> QED
    BY <1>1, <1>2

\* Changes leave a project a project, and its graph as it was.
LEMMA OverlaidIsProject ==
  ASSUME NEW f, IsProject(f), NEW changes \in Seq(Changes)
  PROVE  /\ IsProject(Overlaid(f, changes))
         /\ Overlaid(f, changes).deps = f.deps
         /\ DOMAIN Overlaid(f, changes).tasks = DOMAIN f.tasks
  <1> DEFINE g == Overlaid(f, changes)
             task == [t \in DOMAIN f.tasks |->
                         [est   |-> OnTop(changes, "task", t, "est", f.tasks[t].est),
                          skill |-> OnTop(changes, "task", t, "skill", f.tasks[t].skill),
                          prio  |-> OnTop(changes, "task", t, "prio", f.tasks[t].prio)]]
             person == [r \in DOMAIN f.people |->
                           [f.people[r] EXCEPT !.active = OnTop(changes, "resource", r, "active", f.people[r].active)]]
  <1>1. DOMAIN f = {"tasks", "deps", "people", "leaves"} /\ f.tasks \in Seq(TaskInput) /\ f.people \in Seq(ResourceInput)
    BY DEF IsProject
  <1>2. /\ DOMAIN g = DOMAIN f /\ g.deps = f.deps /\ g.leaves = f.leaves
        /\ g.tasks = task /\ g.people = person
    <2>1. g = [f EXCEPT !.tasks = task, !.people = person]
      BY DEF Overlaid
    <2> HIDE DEF g, task, person
    <2> QED
      BY <1>1, <2>1
  <1>3. ASSUME NEW t \in DOMAIN f.tasks
        PROVE  task[t] \in TaskInput
    <2>1. f.tasks[t].est \in Int /\ f.tasks[t].prio \in Int /\ f.tasks[t].skill \in STRING
      BY TaskFacts DEF TaskInput
    <2>2. OnTop(changes, "task", t, "est", f.tasks[t].est) \in Int
      <3>1. \A c : IsChange(c) /\ c.entity = "task" /\ c.field = "est" => c.value \in Int
        BY DEF IsChange
      <3> QED
        BY <2>1, <3>1, OnTopIs
    <2>3. OnTop(changes, "task", t, "prio", f.tasks[t].prio) \in Int
      <3>1. \A c : IsChange(c) /\ c.entity = "task" /\ c.field = "prio" => c.value \in Int
        BY DEF IsChange
      <3> QED
        BY <2>1, <3>1, OnTopIs
    <2>4. OnTop(changes, "task", t, "skill", f.tasks[t].skill) \in STRING
      <3>1. \A c : IsChange(c) /\ c.entity = "task" /\ c.field = "skill" => c.value \in STRING
        BY DEF IsChange
      <3> QED
        BY <2>1, <3>1, OnTopIs
    <2> QED
      BY <2>2, <2>3, <2>4 DEF TaskInput
  <1>4. ASSUME NEW r \in DOMAIN f.people
        PROVE  person[r] \in ResourceInput
    <2>1. f.people[r] \in ResourceInput /\ f.people[r].active \in BOOLEAN
      <3>1. f.people[r] \in ResourceInput
        BY <1>1
      <3> QED
        BY <3>1 DEF ResourceInput
    <2>2. OnTop(changes, "resource", r, "active", f.people[r].active) \in BOOLEAN
      <3>1. \A c : IsChange(c) /\ c.entity = "resource" => c.value \in BOOLEAN
        BY DEF IsChange
      <3>2. \/ OnTop(changes, "resource", r, "active", f.people[r].active) = f.people[r].active
            \/ \E c : /\ IsChange(c) /\ c.entity = "resource"
                      /\ OnTop(changes, "resource", r, "active", f.people[r].active) = c.value
        BY OnTopIs
      <3> QED
        BY <2>1, <3>1, <3>2, Zenon
    <2> DEFINE v == OnTop(changes, "resource", r, "active", f.people[r].active)
    <2>3. person[r] = [f.people[r] EXCEPT !.active = v]
      OBVIOUS
    <2>4. v \in BOOLEAN
      BY <2>2
    <2> HIDE DEF v
    <2> QED
      BY <2>1, <2>3, <2>4 DEF ResourceInput
  <1> HIDE DEF task, person
  <1>5. task \in Seq(TaskInput) /\ DOMAIN task = DOMAIN f.tasks
    <2>1. DOMAIN task = DOMAIN f.tasks /\ DOMAIN f.tasks = 1..Len(f.tasks) /\ Len(f.tasks) \in Nat
      BY <1>1 DEF task
    <2>2. task = [t \in 1..Len(f.tasks) |-> task[t]]
      BY <2>1 DEF task
    <2>3. \A t \in 1..Len(f.tasks) : task[t] \in TaskInput
      BY <1>3, <2>1
    <2> QED
      BY <2>1, <2>2, <2>3
  <1>6. person \in Seq(ResourceInput)
    <2>1. DOMAIN person = DOMAIN f.people /\ DOMAIN f.people = 1..Len(f.people) /\ Len(f.people) \in Nat
      BY <1>1 DEF person
    <2>2. person = [r \in 1..Len(f.people) |-> person[r]]
      BY <2>1 DEF person
    <2>3. \A r \in 1..Len(f.people) : person[r] \in ResourceInput
      BY <1>4, <2>1
    <2> QED
      BY <2>1, <2>2, <2>3
  <1> HIDE DEF g
  <1>7. IsProject(g)
    BY <1>2, <1>5, <1>6 DEF IsProject
  <1> QED
    BY <1>2, <1>5, <1>7 DEF g

\* What the schedule of a plan says of slack.
SaysWhatCanWait(f, sched) ==
    /\ DOMAIN sched = DOMAIN f.tasks
    /\ \A t \in DOMAIN f.tasks :
          LET late == EarliestStart(f, Anytime(f))[t] + sched[t].slack
          IN  EndWith(f, t, late) = EndWith(f, t, 0) /\ EndWith(f, t, late + 1) > EndWith(f, t, 0)

\* What the critical path computes says of each task what it can be late by.
LEMMA ComputedSaysWhatCanWait ==
  ASSUME NEW f, IsProject(f), Acyclic(f)
  PROVE  SaysWhatCanWait(f, ComputeSchedule(f))
  <1> DEFINE T == DOMAIN f.tasks
             any == Anytime(f)
             es == EarliestStart(f, any)
             end == ProjectDuration(f, es)
             lf == LatestFinish(f, end)
             sched == ComputeSchedule(f)
  <1>1. any \in [T -> Int]
    BY DEF Anytime
  <1>2. es \in [T -> Int]
    BY <1>1, ForwardPass DEF Forward
  <1> HIDE DEF es, any
  <1>3. end \in Nat
    BY <1>2, LastFinish
  <1> HIDE DEF end
  <1>4. lf \in [T -> Int]
    BY <1>3, BackwardPass DEF Backward
  <1> HIDE DEF lf
  <1>5. sched = [t \in T |-> [start |-> ToDate(es[t]), finish |-> ToDate(es[t] + Duration(f, t)),
                              slack |-> lf[t] - Duration(f, t) - es[t]]]
    BY DEF ComputeSchedule, lf, end, es, any
  <1>6. DOMAIN sched = T
    BY <1>5
  <1>7. ASSUME NEW t \in T
        PROVE  LET late == es[t] + sched[t].slack
               IN  EndWith(f, t, late) = EndWith(f, t, 0) /\ EndWith(f, t, late + 1) > EndWith(f, t, 0)
    <2> DEFINE late == es[t] + sched[t].slack
    <2>1. es[t] \in Int /\ lf[t] \in Int /\ Duration(f, t) \in Int
      BY <1>2, <1>4, ProjectFacts
    <2>2. sched[t].slack = lf[t] - Duration(f, t) - es[t]
      BY <1>5
    <2>3. late = lf[t] - Duration(f, t)
      BY <2>1, <2>2
    <2> HIDE DEF late
    <2>4. late = LatestFinish(f, ProjectDuration(f, EarliestStart(f, Anytime(f))))[t] - Duration(f, t)
      BY <2>3 DEF lf, end, es, any
    <2>5. EndWith(f, t, late) = EndWith(f, t, 0) /\ EndWith(f, t, late + 1) > EndWith(f, t, 0)
      BY <2>4, SlackIsWhatATaskCanBeLateBy
    <2> QED
      BY <2>5 DEF late
  <1> HIDE DEF sched
  <1> QED
    BY <1>6, <1>7 DEF SaysWhatCanWait, sched, es, any

(***************************************************************************)
(* What is stored of plans.                                                *)
(***************************************************************************)

\* The storage of plans.  A list is a sequence of whatever it holds.
IsList(q) == q \in Seq({q[i] : i \in DOMAIN q})

\* A list and the list with one more at its end.
LEMMA ListFacts ==
  ASSUME NEW q, IsList(q)
  PROVE  /\ Len(q) \in Nat /\ DOMAIN q = 1..Len(q)
         /\ \A e : /\ IsList(Append(q, e)) /\ Len(Append(q, e)) = Len(q) + 1
                   /\ DOMAIN Append(q, e) = DOMAIN q \union {Len(q) + 1}
                   /\ Append(q, e)[Len(q) + 1] = e
                   /\ \A i \in DOMAIN q : Append(q, e)[i] = q[i]
  <1> DEFINE Q == {q[i] : i \in DOMAIN q}
  <1>1. q \in Seq(Q)
    BY DEF IsList
  <1> HIDE DEF Q
  <1>2. Len(q) \in Nat /\ DOMAIN q = 1..Len(q)
    BY <1>1
  <1>3. ASSUME NEW e
        PROVE  /\ IsList(Append(q, e)) /\ Len(Append(q, e)) = Len(q) + 1
               /\ DOMAIN Append(q, e) = DOMAIN q \union {Len(q) + 1}
               /\ Append(q, e)[Len(q) + 1] = e
               /\ \A i \in DOMAIN q : Append(q, e)[i] = q[i]
    <2> DEFINE Q2 == Q \union {e}
               a == Append(q, e)
    <2>1. q \in Seq(Q2) /\ e \in Q2
      BY <1>1
    <2> HIDE DEF Q2
    <2>2. /\ Len(a) = Len(q) + 1 /\ DOMAIN a = DOMAIN q \union {Len(q) + 1} /\ a[Len(q) + 1] = e
          /\ \A i \in DOMAIN q : a[i] = q[i]
      BY <2>1
    <2>3. a = [i \in 1..Len(a) |-> a[i]] /\ Len(a) \in Nat
      <3>1. a \in Seq(Q2)
        BY <2>1
      <3> HIDE DEF a
      <3> QED
        BY <3>1
    <2>4. IsList(a)
      <3> HIDE DEF a
      <3>1. \A i \in 1..Len(a) : a[i] \in {a[j] : j \in DOMAIN a}
        BY <2>3
      <3> DEFINE A == {a[j] : j \in DOMAIN a}
      <3>2. \A i \in 1..Len(a) : a[i] \in A
        BY <3>1
      <3> HIDE DEF A
      <3>3. a \in Seq(A)
        BY <2>3, <3>2
      <3> QED
        BY <3>3 DEF IsList, A
    <2> QED
      BY <2>2, <2>4
  <1> QED
    BY <1>2, <1>3

\* A list whose members are replaced.
LEMMA ReplacedIsList ==
  ASSUME NEW q, IsList(q), NEW h
  PROVE  LET new == [i \in DOMAIN q |-> h[i]] IN IsList(new) /\ DOMAIN new = DOMAIN q /\ Len(new) = Len(q)
  <1> DEFINE new == [i \in DOMAIN q |-> h[i]]
             A == {new[i] : i \in DOMAIN new}
  <1>1. Len(q) \in Nat /\ DOMAIN q = 1..Len(q)
    BY ListFacts
  <1>2. new = [i \in 1..Len(q) |-> new[i]] /\ DOMAIN new = 1..Len(q)
    BY <1>1
  <1>3. \A i \in 1..Len(q) : new[i] \in A
    BY <1>2
  <1> HIDE DEF A, new
  <1>4. new \in Seq(A) /\ Len(new) = Len(q)
    BY <1>1, <1>2, <1>3
  <1> QED
    BY <1>1, <1>2, <1>4 DEF IsList, A, new

\* A list with one member replaced.
LEMMA OneReplaced ==
  ASSUME NEW q, IsList(q), NEW i \in DOMAIN q, NEW e, NEW r, r = [q EXCEPT ![i] = e]
  PROVE  /\ IsList(r) /\ DOMAIN r = DOMAIN q /\ Len(r) = Len(q) /\ r[i] = e
         /\ \A n \in DOMAIN q : n # i => r[n] = q[n]
  <1> DEFINE h == [n \in DOMAIN q |-> IF n = i THEN e ELSE q[n]]
             all == [n \in DOMAIN q |-> h[n]]
  <1>1. IsList(all) /\ DOMAIN all = DOMAIN q /\ Len(all) = Len(q)
    <2> HIDE DEF h
    <2> QED
      BY ReplacedIsList
  <1>2. r = all
    OBVIOUS
  <1> QED
    BY <1>1, <1>2

Storing(j) == j.step \in {"clear", "clear schedule", "rows"}
OnScenario(j) == Storing(j) \/ j.step \in {"change", "whatif"}
Emptied(j) == j.step \in {"clear schedule", "rows"}

\* The part of the plan that is stored and the part that is left are the plan.
RowsSplit(all, stored, others) ==
    \E k \in 0..Len(all) :
        /\ others = [i \in 1..(Len(all) - k) |-> all[k + i]]
        /\ stored = SetToBag({all[i] : i \in 1..k})

SchedSplit(all, stored, others) ==
    /\ DOMAIN others \subseteq DOMAIN all
    /\ others = [t \in DOMAIN others |-> all[t]]
    /\ stored = [t \in DOMAIN all \ DOMAIN others |-> all[t]]

\* A job that is alone with its scenario stores the plan of the facts under its changes ...
StoredSoFar(j, sc, g) ==
    /\ Acyclic(g)
    /\ j.step \in {"clear", "clear schedule"} => j.rows = PlanOf(g) /\ j.sched = ComputeSchedule(g)
    /\ j.step = "clear schedule" => sc.alloc = EmptyBag
    /\ j.step = "rows" => /\ RowsSplit(PlanOf(g), sc.alloc, j.rows)
                          /\ SchedSplit(ComputeSchedule(g), sc.sched, j.sched)

\* ... and what is marked whole is the plan of the facts under the changes it was made on.
Stored(sc, g) ==
    /\ Acyclic(g)
    /\ sc.alloc = SetToBag(RowsOf(PlanOf(g)))
    /\ sc.sched = ComputeSchedule(g)

ScenarioKept(sc, f) ==
    /\ DOMAIN sc = {"changes", "alloc", "sched", "whole", "on"}
    /\ sc.changes \in Seq(Changes) /\ sc.on \in Seq(Changes)
    /\ sc.whole => Stored(sc, Overlaid(f, sc.on))

JobKept(j, scs, f) ==
    /\ DOMAIN j = JobFields
    /\ j.scenario \in 0..Len(scs)
    /\ j.change \in Seq(Changes)
    /\ OnScenario(j) => j.scenario # 0
    /\ Emptied(j) => ~scs[j.scenario].whole
    /\ Storing(j) /\ j.alone => StoredSoFar(j, scs[j.scenario], Overlaid(f, scs[j.scenario].changes))

Alone(jobs) ==
    \A p, q \in Processes : p # q /\ Storing(jobs[p]) /\ jobs[p].alone => jobs[q].scenario # jobs[p].scenario

Kept(scs, jobs, f) ==
    /\ IsList(scs)
    /\ \A s \in DOMAIN scs : ScenarioKept(scs[s], f)
    /\ DOMAIN jobs = Processes
    /\ \A p \in Processes : JobKept(jobs[p], scs, f)
    /\ Alone(jobs)

\* An idle process stores nothing and is at work on no scenario.
LEMMA JobSteps ==
  /\ ~Storing(IdleProcess) /\ ~OnScenario(IdleProcess) /\ ~Emptied(IdleProcess)
  /\ DOMAIN IdleProcess = JobFields /\ IdleProcess.scenario = 0 /\ IdleProcess.change = <<>>
  /\ \A j : (Storing(j) => OnScenario(j)) /\ (Emptied(j) => Storing(j))
  BY DEF Storing, OnScenario, Emptied, IdleProcess, JobFields

\* A step of one job on its own scenario.
LEMMA OneStores ==
  ASSUME NEW scs, NEW jobs, NEW f, Kept(scs, jobs, f), NEW p \in Processes, OnScenario(jobs[p]),
         NEW s, s = jobs[p].scenario, NEW new, ScenarioKept(new, f), NEW k,
         new.whole => Storing(jobs[p]) /\ jobs[p].alone,
         NEW scs2, scs2 = [scs EXCEPT ![s] = new], JobKept(k, scs2, f),
         k.scenario = 0 \/ k.scenario = s, Storing(k) /\ k.alone => k.scenario = s /\ Storing(jobs[p]) /\ jobs[p].alone
  PROVE  Kept(scs2, [jobs EXCEPT ![p] = k], f)
  <1> DEFINE jobs2 == [jobs EXCEPT ![p] = k]
  <1>1. /\ IsList(scs) /\ (\A n \in DOMAIN scs : ScenarioKept(scs[n], f)) /\ DOMAIN jobs = Processes
        /\ (\A q \in Processes : JobKept(jobs[q], scs, f)) /\ Alone(jobs)
    BY DEF Kept
  <1>2. s \in DOMAIN scs /\ DOMAIN scs = 1..Len(scs) /\ Len(scs) \in Nat
    <2>1. s \in 0..Len(scs) /\ s # 0
      BY <1>1 DEF JobKept
    <2> QED
      BY <1>1, <2>1, ListFacts
  <1>3. /\ IsList(scs2) /\ DOMAIN scs2 = DOMAIN scs /\ Len(scs2) = Len(scs) /\ scs2[s] = new
        /\ \A n \in DOMAIN scs : n # s => scs2[n] = scs[n]
    <2> DEFINE h == [n \in DOMAIN scs |-> IF n = s THEN new ELSE scs[n]]
               all == [n \in DOMAIN scs |-> h[n]]
    <2>1. IsList(all) /\ DOMAIN all = DOMAIN scs /\ Len(all) = Len(scs)
      <3> HIDE DEF h
      <3> QED
        BY <1>1, ReplacedIsList
    <2>2. scs2 = all
      OBVIOUS
    <2> QED
      BY <1>2, <2>1, <2>2
  <1>4. \A n \in DOMAIN scs2 : ScenarioKept(scs2[n], f)
    BY <1>1, <1>3
  <1>5. DOMAIN jobs2 = Processes /\ jobs2[p] = k /\ \A q \in Processes : q # p => jobs2[q] = jobs[q]
    BY <1>1
  <1> HIDE DEF jobs2
  <1>6. ASSUME NEW q \in Processes, q # p
        PROVE  JobKept(jobs[q], scs2, f)
    <2>1. JobKept(jobs[q], scs, f)
      BY <1>1
    <2>2. CASE jobs[q].scenario # s
      <3>1. OnScenario(jobs[q]) => jobs[q].scenario \in DOMAIN scs /\ scs2[jobs[q].scenario] = scs[jobs[q].scenario]
        BY <1>2, <1>3, <2>1, <2>2 DEF JobKept
      <3> QED
        BY <1>3, <2>1, <3>1, JobSteps DEF JobKept
    <2>3. CASE jobs[q].scenario = s
      <3>1. ~(Storing(jobs[q]) /\ jobs[q].alone) /\ ~(Storing(jobs[p]) /\ jobs[p].alone)
        BY <1>1, <1>6, <2>3 DEF Alone
      <3>2. ~new.whole
        BY <3>1
      <3> QED
        BY <1>3, <2>1, <2>3, <3>1, <3>2 DEF JobKept
    <2> QED
      BY <2>2, <2>3
  <1>7. \A q \in Processes : JobKept(jobs2[q], scs2, f)
    BY <1>5, <1>6
  <1>8. Alone(jobs2)
    <2> SUFFICES ASSUME NEW a \in Processes, NEW b \in Processes, a # b, Storing(jobs2[a]), jobs2[a].alone
                 PROVE  jobs2[b].scenario # jobs2[a].scenario
      BY DEF Alone
    <2>1. CASE a = p
      BY <1>1, <1>5, <2>1 DEF Alone
    <2>2. CASE b = p
      <3>1. jobs2[a] = jobs[a] /\ jobs[a].scenario # s
        BY <1>1, <1>5, <2>2 DEF Alone
      <3>2. jobs[a].scenario # 0
        BY <1>1, <3>1, JobSteps DEF JobKept
      <3> QED
        BY <1>5, <2>2, <3>1, <3>2
    <2>3. CASE a # p /\ b # p
      BY <1>1, <1>5, <2>3 DEF Alone
    <2> QED
      BY <2>1, <2>2, <2>3
  <1> QED
    BY <1>3, <1>4, <1>5, <1>7, <1>8 DEF Kept, jobs2

\* A scenario more, and perhaps a job on it that has not come to storing.
Becomes(jobs, p, k, jobs2) ==
    DOMAIN jobs2 = Processes /\ jobs2[p] = k /\ \A q \in Processes : q # p => jobs2[q] = jobs[q]

\* A scenario more leaves the others as they are stored.
LEMMA OneMoreScenario ==
  ASSUME NEW scs, NEW jobs, NEW f, Kept(scs, jobs, f), NEW p \in Processes,
         NEW new, ScenarioKept(new, f), NEW k, DOMAIN k = JobFields, k.scenario \in {0, Len(scs) + 1},
         k.change \in Seq(Changes), ~Storing(k), OnScenario(k) => k.scenario # 0,
         NEW jobs2, Becomes(jobs, p, k, jobs2)
  PROVE  Kept(Append(scs, new), jobs2, f)
  <1> DEFINE scs2 == Append(scs, new)
  <1>1. /\ IsList(scs) /\ (\A n \in DOMAIN scs : ScenarioKept(scs[n], f)) /\ DOMAIN jobs = Processes
        /\ (\A q \in Processes : JobKept(jobs[q], scs, f)) /\ Alone(jobs)
    BY DEF Kept
  <1>2. /\ Len(scs) \in Nat /\ DOMAIN scs = 1..Len(scs)
        /\ IsList(scs2) /\ Len(scs2) = Len(scs) + 1 /\ DOMAIN scs2 = DOMAIN scs \union {Len(scs) + 1}
        /\ scs2[Len(scs) + 1] = new /\ \A i \in DOMAIN scs : scs2[i] = scs[i]
    BY <1>1, ListFacts
  <1>3. DOMAIN jobs2 = Processes /\ jobs2[p] = k /\ \A q \in Processes : q # p => jobs2[q] = jobs[q]
    BY DEF Becomes
  <1> HIDE DEF scs2
  <1>4. \A n \in DOMAIN scs2 : ScenarioKept(scs2[n], f)
    BY <1>1, <1>2
  <1>5. ASSUME NEW q \in Processes
        PROVE  JobKept(jobs[q], scs2, f) /\ jobs[q].scenario \in 0..Len(scs)
    <2>1. JobKept(jobs[q], scs, f)
      BY <1>1
    <2>2. OnScenario(jobs[q]) => jobs[q].scenario \in DOMAIN scs /\ scs2[jobs[q].scenario] = scs[jobs[q].scenario]
      BY <1>2, <2>1 DEF JobKept
    <2>3. jobs[q].scenario \in 0..Len(scs) /\ jobs[q].scenario \in 0..Len(scs2)
      BY <1>2, <2>1 DEF JobKept
    <2> QED
      BY <2>1, <2>2, <2>3, JobSteps DEF JobKept
  <1>6. JobKept(k, scs2, f)
    <2>1. k.scenario \in 0..Len(scs2)
      BY <1>2
    <2> QED
      BY <2>1, JobSteps DEF JobKept
  <1>7. \A q \in Processes : JobKept(jobs2[q], scs2, f)
    BY <1>3, <1>5, <1>6
  <1>8. Alone(jobs2)
    <2> SUFFICES ASSUME NEW a \in Processes, NEW b \in Processes, a # b, Storing(jobs2[a]), jobs2[a].alone
                 PROVE  jobs2[b].scenario # jobs2[a].scenario
      BY DEF Alone
    <2>1. a # p /\ jobs2[a] = jobs[a]
      BY <1>3
    <2>2. CASE b = p
      <3>1. jobs[a].scenario \in 0..Len(scs) /\ jobs[a].scenario # 0
        BY <1>1, <1>5, <2>1, JobSteps DEF JobKept
      <3> QED
        BY <1>2, <1>3, <2>1, <2>2, <3>1
    <2>3. CASE b # p
      BY <1>1, <1>3, <2>1, <2>3 DEF Alone
    <2> QED
      BY <2>2, <2>3
  <1> QED
    BY <1>2, <1>3, <1>4, <1>7, <1>8 DEF Kept, scs2

\* A job that has no scenario, any more or yet.
LEMMA JobWithoutScenario ==
  ASSUME NEW scs, NEW jobs, NEW f, Kept(scs, jobs, f), NEW p \in Processes,
         NEW k, DOMAIN k = JobFields, k.scenario = 0, k.change \in Seq(Changes), ~OnScenario(k)
  PROVE  Kept(scs, [jobs EXCEPT ![p] = k], f)
  <1> DEFINE jobs2 == [jobs EXCEPT ![p] = k]
  <1>1. /\ IsList(scs) /\ (\A n \in DOMAIN scs : ScenarioKept(scs[n], f)) /\ DOMAIN jobs = Processes
        /\ (\A q \in Processes : JobKept(jobs[q], scs, f)) /\ Alone(jobs)
    BY DEF Kept
  <1>2. DOMAIN jobs2 = Processes /\ jobs2[p] = k /\ \A q \in Processes : q # p => jobs2[q] = jobs[q]
    BY <1>1
  <1> HIDE DEF jobs2
  <1>3. JobKept(k, scs, f)
    <2>1. 0 \in 0..Len(scs)
      BY <1>1, ListFacts
    <2> QED
      BY <2>1, JobSteps DEF JobKept
  <1>4. Alone(jobs2)
    <2> SUFFICES ASSUME NEW a \in Processes, NEW b \in Processes, a # b, Storing(jobs2[a]), jobs2[a].alone
                 PROVE  jobs2[b].scenario # jobs2[a].scenario
      BY DEF Alone
    <2>1. a # p /\ jobs2[a] = jobs[a]
      BY <1>2, JobSteps
    <2>2. CASE b = p
      BY <1>1, <1>2, <2>1, <2>2, JobSteps DEF JobKept
    <2>3. CASE b # p
      BY <1>1, <1>2, <2>1, <2>3 DEF Alone
    <2> QED
      BY <2>2, <2>3
  <1> QED
    BY <1>1, <1>2, <1>3, <1>4 DEF Kept, jobs2

\* A plan is computed: the job that is to store it is alone when no other is on its scenario.
LEMMA ComputedKeeps ==
  ASSUME Kept(scenarios, job, facts), IsProject(facts), NEW p \in Processes, NEW s \in DOMAIN scenarios, Computed(p, s)
  PROVE  Kept(scenarios, job', facts)
  <1> DEFINE g == Overlaid(facts, scenarios[s].changes)
             others == {q \in Processes \ {p} : job[q].scenario = s}
             k == [IdleProcess EXCEPT !.step = "clear", !.scenario = s, !.rows = PlanOf(g),
                                      !.sched = ComputeSchedule(g), !.alone = others = {}]
  <1>1. /\ IsList(scenarios) /\ (\A n \in DOMAIN scenarios : ScenarioKept(scenarios[n], facts)) /\ DOMAIN job = Processes
        /\ (\A q \in Processes : JobKept(job[q], scenarios, facts)) /\ Alone(job)
    BY DEF Kept
  <1>2. Acyclic(g) /\ DOMAIN job' = Processes /\ job'[p] = k
    BY Zenon DEF Computed, PlanOf
  <1>3. /\ \A q \in others : job'[q] = NotAlone(job[q])
        /\ \A q \in Processes : q # p /\ q \notin others => job'[q] = job[q]
    BY DEF Computed, NotAlone
  <1>4. /\ DOMAIN k = JobFields /\ k.step = "clear" /\ k.scenario = s /\ k.rows = PlanOf(g)
        /\ k.sched = ComputeSchedule(g) /\ k.change = <<>> /\ k.alone = (others = {})
    BY DEF IdleProcess, JobFields
  <1> HIDE DEF k
  <1>5. s \in 0..Len(scenarios) /\ s # 0 /\ Len(scenarios) \in Nat /\ DOMAIN scenarios = 1..Len(scenarios)
    BY <1>1, ListFacts
  <1>6. JobKept(k, scenarios, facts)
    <2>1. StoredSoFar(k, scenarios[s], g)
      BY <1>2, <1>4 DEF StoredSoFar
    <2>2. Storing(k) /\ ~Emptied(k)
      BY <1>4 DEF Storing, Emptied
    <2> QED
      BY <1>4, <1>5, <2>1, <2>2 DEF JobKept
  <1>7. ASSUME NEW j, DOMAIN j = JobFields
        PROVE  /\ DOMAIN NotAlone(j) = JobFields /\ ~NotAlone(j).alone /\ NotAlone(j).step = j.step
               /\ NotAlone(j).scenario = j.scenario /\ NotAlone(j).change = j.change
    BY <1>7 DEF NotAlone, JobFields, IdleProcess
  <1>8. \A q \in others : /\ JobKept(NotAlone(job[q]), scenarios, facts) /\ ~NotAlone(job[q]).alone
                          /\ NotAlone(job[q]).scenario = s
    <2> TAKE q \in others
    <2>1. JobKept(job[q], scenarios, facts) /\ job[q].scenario = s
      BY <1>1
    <2> DEFINE j == NotAlone(job[q])
    <2>2. /\ DOMAIN j = JobFields /\ ~j.alone /\ j.step = job[q].step
          /\ j.scenario = job[q].scenario /\ j.change = job[q].change
      BY <1>7, <2>1 DEF JobKept
    <2> HIDE DEF j
    <2>3. JobKept(j, scenarios, facts)
      BY <2>1, <2>2 DEF JobKept, OnScenario, Storing, Emptied
    <2> QED
      BY <2>1, <2>2, <2>3 DEF j
  <1>9. \A q \in Processes : JobKept(job'[q], scenarios, facts)
    BY <1>1, <1>2, <1>3, <1>6, <1>8
  <1>10. Alone(job')
    <2> SUFFICES ASSUME NEW a \in Processes, NEW b \in Processes, a # b, Storing(job'[a]), job'[a].alone
                 PROVE  job'[b].scenario # job'[a].scenario
      BY DEF Alone
    <2>1. a \notin others
      BY <1>3, <1>8
    <2>2. CASE a = p
      <3>1. others = {} /\ job'[a].scenario = s
        BY <1>2, <1>4, <2>2
      <3>2. job'[b] = job[b] /\ job[b].scenario # s
        BY <1>3, <2>2, <3>1
      <3> QED
        BY <3>1, <3>2
    <2>3. CASE a # p
      <3>1. job'[a] = job[a] /\ job[a].scenario # s
        BY <1>3, <2>1, <2>3
      <3>2. CASE b = p \/ b \in others
        BY <1>2, <1>3, <1>4, <1>8, <3>1, <3>2
      <3>3. CASE b # p /\ b \notin others
        BY <1>1, <1>3, <3>1, <3>3 DEF Alone
      <3> QED
        BY <3>2, <3>3
    <2> QED
      BY <2>2, <2>3
  <1> QED
    BY <1>1, <1>2, <1>9, <1>10 DEF Kept

\* An entered fact: no plan on the disk or under way is of the facts any more.
LEMMA EnterKeeps ==
  ASSUME Kept(scenarios, job, facts), NEW p \in Processes, NEW new, Enter(p, new)
  PROVE  Kept(scenarios', job', new)
  <1>1. /\ IsList(scenarios) /\ (\A n \in DOMAIN scenarios : ScenarioKept(scenarios[n], facts)) /\ DOMAIN job = Processes
        /\ (\A q \in Processes : JobKept(job[q], scenarios, facts)) /\ Alone(job)
    BY DEF Kept
  <1>2. /\ scenarios' = [s \in DOMAIN scenarios |-> [scenarios[s] EXCEPT !.whole = FALSE]]
        /\ DOMAIN job' = Processes
        /\ \A q \in Processes : job'[q] = IdleProcess \/ job'[q] = NotAlone(job[q])
    BY DEF Enter, NotAlone
  <1>3. IsList(scenarios') /\ DOMAIN scenarios' = DOMAIN scenarios /\ Len(scenarios') = Len(scenarios)
    <2> DEFINE h == [s \in DOMAIN scenarios |-> [scenarios[s] EXCEPT !.whole = FALSE]]
               all == [s \in DOMAIN scenarios |-> h[s]]
    <2>1. IsList(all) /\ DOMAIN all = DOMAIN scenarios /\ Len(all) = Len(scenarios)
      <3> HIDE DEF h
      <3> QED
        BY <1>1, ReplacedIsList
    <2>2. scenarios' = all
      BY <1>2
    <2> QED
      BY <2>1, <2>2
  <1>4. \A s \in DOMAIN scenarios' : ScenarioKept(scenarios'[s], new) /\ ~scenarios'[s].whole
    <2> TAKE s \in DOMAIN scenarios'
    <2> DEFINE old == scenarios[s]
               sc == [old EXCEPT !.whole = FALSE]
    <2>1. scenarios'[s] = sc /\ ScenarioKept(old, facts)
      BY <1>1, <1>2, <1>3
    <2>2. /\ DOMAIN sc = DOMAIN old /\ sc.changes = old.changes /\ sc.on = old.on /\ sc.whole = FALSE
      BY <2>1 DEF ScenarioKept
    <2> HIDE DEF sc, old
    <2> QED
      BY <2>1, <2>2 DEF ScenarioKept
  <1>5. ASSUME NEW q \in Processes
        PROVE  JobKept(job'[q], scenarios', new) /\ ~(Storing(job'[q]) /\ job'[q].alone)
    <2>1. Len(scenarios) \in Nat /\ DOMAIN scenarios = 1..Len(scenarios)
      BY <1>1, ListFacts
    <2>2. CASE job'[q] = IdleProcess
      BY <1>3, <2>1, <2>2, JobSteps DEF JobKept
    <2>3. CASE job'[q] = NotAlone(job[q])
      <3> DEFINE j == NotAlone(job[q])
      <3>1. JobKept(job[q], scenarios, facts)
        BY <1>1
      <3>2. /\ DOMAIN j = JobFields /\ ~j.alone /\ j.step = job[q].step
            /\ j.scenario = job[q].scenario /\ j.change = job[q].change
        BY <3>1 DEF NotAlone, JobKept, JobFields, IdleProcess
      <3> HIDE DEF j
      <3>3. Emptied(j) => j.scenario \in DOMAIN scenarios
        <4>1. Emptied(j) => OnScenario(job[q])
          BY <3>2 DEF OnScenario, Storing, Emptied
        <4>2. job[q].scenario \in 0..Len(scenarios) /\ (OnScenario(job[q]) => job[q].scenario # 0)
          BY <3>1 DEF JobKept
        <4> QED
          BY <2>1, <3>2, <4>1, <4>2
      <3>4. JobKept(j, scenarios', new)
        BY <1>3, <1>4, <3>1, <3>2, <3>3 DEF JobKept, OnScenario, Storing, Emptied
      <3> QED
        BY <2>3, <3>2, <3>4 DEF j
    <2> QED
      BY <1>2, <2>2, <2>3
  <1>6. Alone(job')
    BY <1>5 DEF Alone
  <1> QED
    BY <1>2, <1>3, <1>4, <1>5, <1>6 DEF Kept

\* One row more is stored of rows that are all different, and the others are left.
LEMMA OneRowStored ==
  ASSUME NEW all \in Seq(Row), \A i, j \in DOMAIN all : all[i] = all[j] => i = j,
         NEW stored, NEW others, RowsSplit(all, stored, others), others # <<>>
  PROVE  RowsSplit(all, stored (+) SetToBag({Head(others)}), Tail(others))
  <1> DEFINE n == Len(all)
  <1>1. n \in Nat /\ DOMAIN all = 1..n
    OBVIOUS
  <1>2. PICK k \in 0..n : /\ others = [i \in 1..(n - k) |-> all[k + i]]
                          /\ stored = SetToBag({all[i] : i \in 1..k})
    BY DEF RowsSplit
  <1> HIDE DEF n
  <1>3. others \in Seq(Row) /\ Len(others) = n - k
    <2>1. \A i \in 1..(n - k) : k + i \in DOMAIN all
      BY <1>1, <1>2
    <2>2. \A i \in 1..(n - k) : all[k + i] \in Row
      BY <2>1
    <2> QED
      BY <1>1, <1>2, <2>2
  <1>4. k < n
    BY <1>1, <1>2, <1>3
  <1> DEFINE m == k + 1
             A == {all[i] : i \in 1..k}
             x == all[m]
  <1>5. m \in 0..n /\ m \in DOMAIN all
    BY <1>1, <1>2, <1>4
  <1>6. Head(others) = x
    BY <1>1, <1>2, <1>3, <1>4
  <1>7. Tail(others) = [i \in 1..(n - m) |-> all[m + i]]
    <2>1. Tail(others) = [i \in 1..(n - k) - 1 |-> others[i + 1]]
      BY <1>1, <1>2, <1>3, <1>4
    <2>2. (n - k) - 1 = n - m
      BY <1>1, <1>2
    <2>3. \A i \in 1..(n - m) : others[i + 1] = all[m + i]
      <3> TAKE i \in 1..(n - m)
      <3>1. i + 1 \in 1..(n - k) /\ k + (i + 1) = m + i
        BY <1>1, <1>2
      <3>2. others[i + 1] = all[k + (i + 1)]
        BY <1>2, <3>1
      <3> QED
        BY <3>1, <3>2
    <2> HIDE DEF m
    <2> QED
      BY <2>1, <2>2, <2>3
  <1>8. x \notin A
    <2>1. \A i \in 1..k : i \in DOMAIN all /\ i # m
      BY <1>1, <1>2
    <2> HIDE DEF m
    <2>2. \A i \in 1..k : all[i] # all[m]
      BY <1>5, <2>1
    <2> QED
      BY <2>2
  <1>9. {all[i] : i \in 1..m} = A \union {x}
    <2>1. 1..m = (1..k) \union {m}
      BY <1>2
    <2> HIDE DEF m
    <2> QED
      BY <2>1
  <1> HIDE DEF A, x, m
  <1>10. SetToBag(A) (+) SetToBag({x}) = SetToBag(A \union {x})
    <2> DEFINE sum == SetToBag(A) (+) SetToBag({x})
    <2>1. DOMAIN sum = A \union {x} /\ sum = [e \in DOMAIN sum |-> sum[e]]
      BY DEF (+), SetToBag, BagToSet
    <2>2. \A e \in A \union {x} : sum[e] = 1
      BY <1>8 DEF (+), SetToBag, BagToSet, BagIn
    <2> HIDE DEF sum
    <2>3. sum = [e \in A \union {x} |-> 1]
      BY <2>1, <2>2
    <2> QED
      BY <2>3 DEF sum, SetToBag
  <1>11. stored (+) SetToBag({Head(others)}) = SetToBag({all[i] : i \in 1..m})
    BY <1>2, <1>6, <1>9, <1>10 DEF A
  <1> QED
    BY <1>5, <1>7, <1>11 DEF RowsSplit, n

\* Before the first row is stored, none is;
LEMMA NoRowStored ==
  ASSUME NEW all \in Seq(Row)
  PROVE  RowsSplit(all, EmptyBag, all)
  <1>1. Len(all) \in Nat /\ 0 \in 0..Len(all)
    OBVIOUS
  <1>2. all = [i \in 1..(Len(all) - 0) |-> all[0 + i]]
    <2>1. \A i \in 1..Len(all) : 0 + i = i
      BY <1>1
    <2>2. all = [i \in 1..Len(all) |-> all[i]]
      OBVIOUS
    <2> QED
      BY <1>1, <2>1, <2>2
  <1>3. EmptyBag = SetToBag({all[i] : i \in 1..0})
    <2>1. 1..0 = {}
      OBVIOUS
    <2> QED
      BY <2>1 DEF EmptyBag
  <1> QED
    BY <1>1, <1>2, <1>3 DEF RowsSplit

\* once none is left to store, all are.
LEMMA AllRowsStored ==
  ASSUME NEW all \in Seq(Row), NEW stored, RowsSplit(all, stored, <<>>)
  PROVE  stored = SetToBag(RowsOf(all))
  <1>1. PICK k \in 0..Len(all) : /\ <<>> = [i \in 1..(Len(all) - k) |-> all[k + i]]
                                 /\ stored = SetToBag({all[i] : i \in 1..k})
    BY DEF RowsSplit
  <1>2. Len(all) \in Nat /\ DOMAIN all = 1..Len(all)
    OBVIOUS
  <1>3. k = Len(all)
    <2>1. DOMAIN <<>> = 1..(Len(all) - k)
      BY <1>1
    <2>2. DOMAIN <<>> = {}
      OBVIOUS
    <2>3. 1 \notin 1..(Len(all) - k)
      BY <2>1, <2>2
    <2> DEFINE n == Len(all)
    <2>4. n \in Nat /\ k \in 0..n /\ 1 \notin 1..(n - k)
      BY <1>2, <2>3
    <2> HIDE DEF n
    <2>5. k = n
      BY <2>4
    <2> QED
      BY <2>5 DEF n
  <1> QED
    BY <1>1, <1>2, <1>3 DEF RowsOf

\* One row of the schedule is stored, and the others are left.
LEMMA OneDateStored ==
  ASSUME NEW all, NEW stored, NEW others, SchedSplit(all, stored, others), NEW t \in DOMAIN others
  PROVE  SchedSplit(all, With(stored, t, others[t]), [u \in DOMAIN others \ {t} |-> others[u]])
  <1> DEFINE L == DOMAIN others
             less == [u \in L \ {t} |-> others[u]]
             more == With(stored, t, others[t])
  <1>1. L \subseteq DOMAIN all /\ (\A u \in L : others[u] = all[u]) /\ stored = [u \in DOMAIN all \ L |-> all[u]]
    BY DEF SchedSplit
  <1>2. DOMAIN less = L \ {t} /\ less = [u \in DOMAIN less |-> all[u]]
    BY <1>1
  <1>3. more = [u \in DOMAIN all \ DOMAIN less |-> all[u]]
    <2>1. DOMAIN stored \union {t} = DOMAIN all \ (L \ {t})
      BY <1>1
    <2>2. more = [u \in DOMAIN stored \union {t} |-> IF u = t THEN others[t] ELSE stored[u]]
      BY DEF With
    <2>3. \A u \in DOMAIN stored \union {t} : (IF u = t THEN others[t] ELSE stored[u]) = all[u]
      BY <1>1
    <2> HIDE DEF L, more
    <2> QED
      BY <1>2, <2>1, <2>2, <2>3
  <1> HIDE DEF less, more
  <1>4. SchedSplit(all, more, less)
    BY <1>1, <1>2, <1>3 DEF SchedSplit
  <1> QED
    BY <1>4 DEF more, less

\* The same of the dates: before the first, none is stored;
LEMMA NoDateStored ==
  ASSUME NEW all, all = [t \in DOMAIN all |-> all[t]]
  PROVE  SchedSplit(all, <<>>, all)
  <1>1. <<>> = [t \in DOMAIN all \ DOMAIN all |-> all[t]]
    <2>1. DOMAIN all \ DOMAIN all = {}
      OBVIOUS
    <2>2. <<>> = [t \in {} |-> all[t]]
      OBVIOUS
    <2> QED
      BY <2>1, <2>2
  <1> QED
    BY <1>1 DEF SchedSplit

\* once none is left to store, all are.
LEMMA AllDatesStored ==
  ASSUME NEW all, all = [t \in DOMAIN all |-> all[t]], NEW stored, NEW others, SchedSplit(all, stored, others), DOMAIN others = {}
  PROVE  stored = all
  <1>1. stored = [t \in DOMAIN all \ {} |-> all[t]]
    BY DEF SchedSplit
  <1>2. DOMAIN all \ {} = DOMAIN all
    OBVIOUS
  <1> QED
    BY <1>1, <1>2

\* What is computed of the facts under changes.
LEMMA PlanFacts ==
  ASSUME NEW f, IsProject(f), NEW changes \in Seq(Changes), NEW g, g = Overlaid(f, changes), Acyclic(g)
  PROVE  /\ IsProject(g)
         /\ PlanOf(g) \in Seq(Row) /\ \A i, j \in DOMAIN PlanOf(g) : PlanOf(g)[i] = PlanOf(g)[j] => i = j
         /\ ComputeSchedule(g) = [t \in DOMAIN ComputeSchedule(g) |-> ComputeSchedule(g)[t]]
         /\ DOMAIN ComputeSchedule(g) \in SUBSET Int /\ IsFiniteSet(DOMAIN ComputeSchedule(g))
  <1>1. IsProject(g)
    BY OverlaidIsProject
  <1>2. DOMAIN ComputeSchedule(g) = DOMAIN g.tasks
    BY <1>1, ComputedIsSchedule DEF IsSchedule
  <1>3. DOMAIN g.tasks \in SUBSET Int /\ IsFiniteSet(DOMAIN g.tasks)
    BY <1>1, ProjectFacts
  <1>4. ComputeSchedule(g) = [t \in DOMAIN ComputeSchedule(g) |-> ComputeSchedule(g)[t]]
    BY DEF ComputeSchedule
  <1> QED
    BY <1>1, <1>2, <1>3, <1>4, ComputedCanBeCarriedOut

\* What is known of a job that has a scenario.
LEMMA OnIts ==
  ASSUME Kept(scenarios, job, facts), NEW p \in Processes, OnScenario(job[p])
  PROVE  /\ job[p].scenario \in DOMAIN scenarios
         /\ ScenarioKept(scenarios[job[p].scenario], facts)
         /\ JobKept(job[p], scenarios, facts)
         /\ DOMAIN job = Processes
  <1>1. /\ IsList(scenarios) /\ (\A n \in DOMAIN scenarios : ScenarioKept(scenarios[n], facts)) /\ DOMAIN job = Processes
        /\ JobKept(job[p], scenarios, facts)
    BY DEF Kept
  <1>2. job[p].scenario \in DOMAIN scenarios
    <2>1. job[p].scenario \in 0..Len(scenarios) /\ job[p].scenario # 0
      BY <1>1 DEF JobKept
    <2> QED
      BY <1>1, <2>1, ListFacts
  <1> QED
    BY <1>1, <1>2

\* The same step, of a job that goes on storing on a scenario that it does not mark.
LEMMA StoresOn ==
  ASSUME Kept(scenarios, job, facts), NEW p \in Processes, Storing(job[p]),
         NEW s, s = job[p].scenario, NEW new, ScenarioKept(new, facts), ~new.whole, new.changes = scenarios[s].changes,
         NEW k, DOMAIN k = JobFields, Storing(k), k.scenario = s, k.change = job[p].change, k.alone = job[p].alone,
         StoredSoFar(job[p], scenarios[s], Overlaid(facts, new.changes)) =>
            StoredSoFar(k, new, Overlaid(facts, new.changes))
  PROVE  Kept([scenarios EXCEPT ![s] = new], [job EXCEPT ![p] = k], facts)
  <1> DEFINE scs2 == [scenarios EXCEPT ![s] = new]
  <1>1. OnScenario(job[p]) /\ OnScenario(k)
    BY JobSteps
  <1>2. s \in DOMAIN scenarios /\ JobKept(job[p], scenarios, facts) /\ IsList(scenarios)
    BY <1>1, OnIts DEF Kept
  <1>3. scs2[s] = new /\ Len(scs2) = Len(scenarios)
    BY <1>2, OneReplaced
  <1> HIDE DEF scs2
  <1>5. k.alone => StoredSoFar(k, new, Overlaid(facts, new.changes))
    BY <1>2 DEF JobKept
  <1>6. JobKept(k, scs2, facts)
    BY <1>1, <1>2, <1>3, <1>5 DEF JobKept
  <1>7. scs2 = [scenarios EXCEPT ![s] = new]
    BY DEF scs2
  <1>8. k.scenario = 0 \/ k.scenario = s
    OBVIOUS
  <1>9. new.whole => Storing(job[p]) /\ job[p].alone
    OBVIOUS
  <1>10. Storing(k) /\ k.alone => k.scenario = s /\ Storing(job[p]) /\ job[p].alone
    OBVIOUS
  <1>11. Kept(scs2, [job EXCEPT ![p] = k], facts)
    BY <1>1, <1>6, <1>7, <1>8, <1>9, <1>10, OneStores
  <1> QED
    BY <1>11 DEF scs2

\* Clearing the allocation of a scenario,
LEMMA ClearAllocationKeeps ==
  ASSUME Kept(scenarios, job, facts), NEW p \in Processes, ClearAllocation(p)
  PROVE  Kept(scenarios', job', facts)
  <1> DEFINE j == job[p]
             s == j.scenario
             old == scenarios[s]
             new == [old EXCEPT !.alloc = EmptyBag, !.whole = FALSE]
             k == [j EXCEPT !.step = "clear schedule"]
  <1>1. j.step = "clear" /\ Storing(j) /\ OnScenario(j)
    BY DEF ClearAllocation, At, Storing, OnScenario
  <1>2. s \in DOMAIN scenarios /\ ScenarioKept(old, facts) /\ JobKept(j, scenarios, facts) /\ DOMAIN job = Processes
    BY <1>1, OnIts
  <1>3. scenarios' = [scenarios EXCEPT ![s] = new] /\ job' = [job EXCEPT ![p] = k]
    BY <1>2 DEF ClearAllocation
  <1>4. /\ DOMAIN new = DOMAIN old /\ new.changes = old.changes /\ new.on = old.on /\ new.whole = FALSE
        /\ new.alloc = EmptyBag
    BY <1>2 DEF ScenarioKept
  <1>5. /\ DOMAIN k = JobFields /\ k.step = "clear schedule" /\ k.scenario = s /\ k.change = j.change
        /\ k.alone = j.alone /\ k.rows = j.rows /\ k.sched = j.sched
    BY <1>2 DEF JobKept, JobFields, IdleProcess
  <1> HIDE DEF new, k
  <1>6. ScenarioKept(new, facts)
    BY <1>2, <1>4 DEF ScenarioKept
  <1>7. StoredSoFar(j, old, Overlaid(facts, new.changes)) => StoredSoFar(k, new, Overlaid(facts, new.changes))
    BY <1>1, <1>4, <1>5 DEF StoredSoFar
  <1>8. Storing(k)
    BY <1>5 DEF Storing
  <1> HIDE DEF s, old
  <1>9. Kept([scenarios EXCEPT ![s] = new], [job EXCEPT ![p] = k], facts)
    BY <1>1, <1>4, <1>5, <1>6, <1>7, <1>8, StoresOn DEF s, old
  <1> QED
    BY <1>3, <1>9

\* clearing its schedule,
LEMMA ClearScheduleKeeps ==
  ASSUME Kept(scenarios, job, facts), IsProject(facts), NEW p \in Processes, ClearSchedule(p)
  PROVE  Kept(scenarios', job', facts)
  <1> DEFINE j == job[p]
             s == j.scenario
             old == scenarios[s]
             new == [old EXCEPT !.sched = <<>>]
             k == [j EXCEPT !.step = "rows"]
  <1>1. j.step = "clear schedule" /\ Storing(j) /\ OnScenario(j) /\ Emptied(j)
    BY DEF ClearSchedule, At, Storing, OnScenario, Emptied
  <1>2. s \in DOMAIN scenarios /\ ScenarioKept(old, facts) /\ JobKept(j, scenarios, facts) /\ DOMAIN job = Processes
    BY <1>1, OnIts
  <1>3. scenarios' = [scenarios EXCEPT ![s] = new] /\ job' = [job EXCEPT ![p] = k]
    BY <1>2 DEF ClearSchedule
  <1>4. /\ DOMAIN new = DOMAIN old /\ new.changes = old.changes /\ new.on = old.on /\ new.whole = old.whole
        /\ new.alloc = old.alloc /\ new.sched = <<>> /\ ~old.whole
    BY <1>1, <1>2 DEF ScenarioKept, JobKept
  <1>5. /\ DOMAIN k = JobFields /\ k.step = "rows" /\ k.scenario = s /\ k.change = j.change
        /\ k.alone = j.alone /\ k.rows = j.rows /\ k.sched = j.sched
    BY <1>2 DEF JobKept, JobFields, IdleProcess
  <1> HIDE DEF new, k
  <1>6. ScenarioKept(new, facts) /\ new.changes \in Seq(Changes)
    BY <1>2, <1>4 DEF ScenarioKept
  <1> DEFINE g == Overlaid(facts, new.changes)
  <1>7. ASSUME StoredSoFar(j, old, g)
        PROVE  StoredSoFar(k, new, g)
    <2>1. Acyclic(g) /\ j.rows = PlanOf(g) /\ j.sched = ComputeSchedule(g) /\ old.alloc = EmptyBag
      BY <1>1, <1>7 DEF StoredSoFar
    <2>2. RowsSplit(PlanOf(g), EmptyBag, PlanOf(g)) /\ SchedSplit(ComputeSchedule(g), <<>>, ComputeSchedule(g))
      BY <1>6, <2>1, PlanFacts, NoRowStored, NoDateStored
    <2> HIDE DEF g
    <2> QED
      BY <1>4, <1>5, <2>1, <2>2 DEF StoredSoFar
  <1>8. Storing(k)
    BY <1>5 DEF Storing
  <1> HIDE DEF s, old
  <1>9. Kept([scenarios EXCEPT ![s] = new], [job EXCEPT ![p] = k], facts)
    BY <1>1, <1>4, <1>5, <1>6, <1>7, <1>8, StoresOn DEF s, old
  <1> QED
    BY <1>3, <1>9

\* adding one row,
LEMMA AddAllocationKeeps ==
  ASSUME Kept(scenarios, job, facts), IsProject(facts), NEW p \in Processes, AddAllocation(p)
  PROVE  Kept(scenarios', job', facts)
  <1> DEFINE j == job[p]
             s == j.scenario
             old == scenarios[s]
             new == [old EXCEPT !.alloc = old.alloc (+) SetToBag({Head(j.rows)})]
             k == [j EXCEPT !.rows = Tail(j.rows)]
  <1>1. j.step = "rows" /\ j.rows # <<>> /\ Storing(j) /\ OnScenario(j) /\ Emptied(j)
    BY DEF AddAllocation, At, Storing, OnScenario, Emptied
  <1>2. s \in DOMAIN scenarios /\ ScenarioKept(old, facts) /\ JobKept(j, scenarios, facts) /\ DOMAIN job = Processes
    BY <1>1, OnIts
  <1>3. scenarios' = [scenarios EXCEPT ![s] = new] /\ job' = [job EXCEPT ![p] = k]
    BY <1>2 DEF AddAllocation
  <1>4. /\ DOMAIN new = DOMAIN old /\ new.changes = old.changes /\ new.on = old.on /\ new.whole = old.whole
        /\ new.alloc = old.alloc (+) SetToBag({Head(j.rows)}) /\ new.sched = old.sched /\ ~old.whole
    BY <1>1, <1>2 DEF ScenarioKept, JobKept
  <1>5. /\ DOMAIN k = JobFields /\ k.step = "rows" /\ k.scenario = s /\ k.change = j.change
        /\ k.alone = j.alone /\ k.rows = Tail(j.rows) /\ k.sched = j.sched
    BY <1>1, <1>2 DEF JobKept, JobFields, IdleProcess
  <1> HIDE DEF new, k
  <1>6. ScenarioKept(new, facts) /\ new.changes \in Seq(Changes)
    BY <1>2, <1>4 DEF ScenarioKept
  <1> DEFINE g == Overlaid(facts, new.changes)
  <1>7. ASSUME StoredSoFar(j, old, g)
        PROVE  StoredSoFar(k, new, g)
    <2>1. /\ Acyclic(g) /\ RowsSplit(PlanOf(g), old.alloc, j.rows) /\ SchedSplit(ComputeSchedule(g), old.sched, j.sched)
      BY <1>1, <1>7 DEF StoredSoFar
    <2>2. PlanOf(g) \in Seq(Row) /\ \A a, b \in DOMAIN PlanOf(g) : PlanOf(g)[a] = PlanOf(g)[b] => a = b
      BY <1>6, <2>1, PlanFacts
    <2> HIDE DEF g, j, old
    <2>3. RowsSplit(PlanOf(g), old.alloc (+) SetToBag({Head(j.rows)}), Tail(j.rows))
      BY <1>1, <2>1, <2>2, OneRowStored
    <2> QED
      BY <1>4, <1>5, <2>1, <2>3 DEF StoredSoFar
  <1>8. Storing(k)
    BY <1>5 DEF Storing
  <1> HIDE DEF s, old
  <1>9. Kept([scenarios EXCEPT ![s] = new], [job EXCEPT ![p] = k], facts)
    BY <1>1, <1>4, <1>5, <1>6, <1>7, <1>8, StoresOn DEF s, old
  <1> QED
    BY <1>3, <1>9

\* writing the dates of one task,
LEMMA SetScheduleRowKeeps ==
  ASSUME Kept(scenarios, job, facts), IsProject(facts), NEW p \in Processes, SetScheduleRow(p)
  PROVE  Kept(scenarios', job', facts)
  <1> DEFINE j == job[p]
             s == j.scenario
             old == scenarios[s]
             others == DOMAIN j.sched
             t == Min(others)
             g == Overlaid(facts, old.changes)
  <1>1. j.step = "rows" /\ j.rows = <<>> /\ Storing(j) /\ OnScenario(j) /\ Emptied(j)
    BY DEF SetScheduleRow, At, Storing, OnScenario, Emptied
  <1>2. s \in DOMAIN scenarios /\ ScenarioKept(old, facts) /\ JobKept(j, scenarios, facts) /\ DOMAIN job = Processes
    BY <1>1, OnIts
  <1>3. old.changes \in Seq(Changes) /\ ~old.whole
    BY <1>1, <1>2 DEF ScenarioKept, JobKept
  <1>4. ASSUME StoredSoFar(j, old, g)
        PROVE  /\ Acyclic(g) /\ RowsSplit(PlanOf(g), old.alloc, <<>>) /\ SchedSplit(ComputeSchedule(g), old.sched, j.sched)
               /\ PlanOf(g) \in Seq(Row)
               /\ ComputeSchedule(g) = [u \in DOMAIN ComputeSchedule(g) |-> ComputeSchedule(g)[u]]
               /\ others \in SUBSET Int /\ IsFiniteSet(others)
    <2>1. /\ Acyclic(g) /\ RowsSplit(PlanOf(g), old.alloc, <<>>) /\ SchedSplit(ComputeSchedule(g), old.sched, j.sched)
      BY <1>1, <1>4 DEF StoredSoFar
    <2>2. /\ PlanOf(g) \in Seq(Row)
          /\ ComputeSchedule(g) = [u \in DOMAIN ComputeSchedule(g) |-> ComputeSchedule(g)[u]]
          /\ DOMAIN ComputeSchedule(g) \in SUBSET Int /\ IsFiniteSet(DOMAIN ComputeSchedule(g))
      BY <1>3, <2>1, PlanFacts
    <2>3. others \in SUBSET DOMAIN ComputeSchedule(g)
      BY <2>1 DEF SchedSplit
    <2> HIDE DEF others, g
    <2> QED
      BY <2>1, <2>2, <2>3, FS_Subset
  <1>5. CASE others = {}
    <2> DEFINE new == [old EXCEPT !.whole = j.alone, !.on = old.changes]
    <2>1. scenarios' = [scenarios EXCEPT ![s] = new] /\ job' = [job EXCEPT ![p] = IdleProcess]
      BY <1>2, <1>5 DEF SetScheduleRow
    <2>2. /\ DOMAIN new = DOMAIN old /\ new.changes = old.changes /\ new.on = old.changes /\ new.whole = j.alone
          /\ new.alloc = old.alloc /\ new.sched = old.sched
      BY <1>2 DEF ScenarioKept
    <2> HIDE DEF new
    <2>3. ASSUME j.alone
          PROVE  Stored(new, g)
      <3>1. StoredSoFar(j, old, g)
        BY <1>1, <1>2, <2>3 DEF JobKept
      <3>2. old.alloc = SetToBag(RowsOf(PlanOf(g))) /\ old.sched = ComputeSchedule(g)
        <4> HIDE DEF g, j, old
        <4> QED
          BY <1>4, <1>5, <3>1, AllRowsStored, AllDatesStored DEF others
      <3> QED
        BY <1>4, <2>2, <3>1, <3>2 DEF Stored
    <2>5. ScenarioKept(new, facts)
      BY <1>2, <1>3, <2>2, <2>3 DEF ScenarioKept
    <2> DEFINE scs2 == [scenarios EXCEPT ![s] = new]
    <2>6. Len(scs2) = Len(scenarios) /\ Len(scs2) \in Nat
      BY <1>2, OneReplaced, ListFacts DEF Kept
    <2>7. scs2 = [scenarios EXCEPT ![s] = new]
      OBVIOUS
    <2> HIDE DEF scs2
    <2>8. JobKept(IdleProcess, scs2, facts)
      BY <2>6, JobSteps DEF JobKept
    <2>9. new.whole => Storing(j) /\ j.alone
      BY <1>1, <2>2
    <2> HIDE DEF s
    <2>10. Kept(scs2, [job EXCEPT ![p] = IdleProcess], facts)
      BY <1>1, <2>5, <2>7, <2>8, <2>9, JobSteps, OneStores DEF s
    <2> QED
      BY <2>1, <2>7, <2>10 DEF s
  <1>6. CASE others # {}
    <2> DEFINE new == [old EXCEPT !.sched = With(old.sched, t, j.sched[t])]
               k == [j EXCEPT !.sched = [u \in others \ {t} |-> j.sched[u]]]
    <2>1. scenarios' = [scenarios EXCEPT ![s] = new] /\ job' = [job EXCEPT ![p] = k]
      BY <1>2, <1>6 DEF SetScheduleRow
    <2>2. /\ DOMAIN new = DOMAIN old /\ new.changes = old.changes /\ new.on = old.on /\ new.whole = old.whole
          /\ new.alloc = old.alloc /\ new.sched = With(old.sched, t, j.sched[t])
      BY <1>2 DEF ScenarioKept
    <2>3. /\ DOMAIN k = JobFields /\ k.step = "rows" /\ k.scenario = s /\ k.change = j.change
          /\ k.alone = j.alone /\ k.rows = j.rows /\ k.sched = [u \in others \ {t} |-> j.sched[u]]
      BY <1>1, <1>2 DEF JobKept, JobFields, IdleProcess
    <2> HIDE DEF new, k
    <2>4. ScenarioKept(new, facts)
      BY <1>2, <1>3, <2>2 DEF ScenarioKept
    <2>5. ASSUME StoredSoFar(j, old, g)
          PROVE  StoredSoFar(k, new, g)
      <3>1. t \in others
        <4> HIDE DEF others, g
        <4> QED
          BY <1>4, <1>6, <2>5, SmallestOf
      <3> HIDE DEF g, t
      <3>2. SchedSplit(ComputeSchedule(g), With(old.sched, t, j.sched[t]), [u \in DOMAIN j.sched \ {t} |-> j.sched[u]])
        <4>1. SchedSplit(ComputeSchedule(g), old.sched, j.sched)
          BY <1>4, <2>5
        <4>2. t \in DOMAIN j.sched
          BY <3>1
        <4> HIDE DEF j, old, others
        <4> QED
          BY ONLY <4>1, <4>2, OneDateStored
      <3> QED
        BY <1>1, <1>4, <2>2, <2>3, <2>5, <3>2 DEF StoredSoFar
    <2>6. Storing(k)
      BY <2>3 DEF Storing
    <2> HIDE DEF s, old
    <2>7. Kept([scenarios EXCEPT ![s] = new], [job EXCEPT ![p] = k], facts)
      BY <1>1, <1>3, <2>2, <2>3, <2>4, <2>5, <2>6, StoresOn DEF s, old
    <2> QED
      BY <2>1, <2>7
  <1> QED
    BY <1>5, <1>6

\* adding a change to a scenario,
LEMMA AddChangeKeeps ==
  ASSUME Kept(scenarios, job, facts), NEW p \in Processes, AddChange(p)
  PROVE  Kept(scenarios', job', facts)
  <1> DEFINE j == job[p]
             s == j.scenario
             old == scenarios[s]
             new == [old EXCEPT !.changes = old.changes \o j.change, !.whole = FALSE]
             k == [j EXCEPT !.step = "whatif", !.change = <<>>]
             scs2 == [scenarios EXCEPT ![s] = new]
  <1>1. j.step = "change" /\ OnScenario(j)
    BY DEF AddChange, At, OnScenario
  <1>2. s \in DOMAIN scenarios /\ ScenarioKept(old, facts) /\ JobKept(j, scenarios, facts) /\ DOMAIN job = Processes
    BY <1>1, OnIts
  <1>3. scenarios' = scs2 /\ job' = [job EXCEPT ![p] = k]
    BY <1>2 DEF AddChange
  <1>4. /\ DOMAIN new = DOMAIN old /\ new.changes = old.changes \o j.change /\ new.on = old.on /\ new.whole = FALSE
    BY <1>2 DEF ScenarioKept
  <1>5. DOMAIN k = JobFields /\ k.step = "whatif" /\ k.scenario = s /\ k.change = <<>>
    BY <1>2 DEF JobKept, JobFields, IdleProcess
  <1>6. Len(scs2) = Len(scenarios)
    BY <1>2, OneReplaced DEF Kept
  <1>7. scs2 = [scenarios EXCEPT ![s] = new]
    OBVIOUS
  <1> HIDE DEF new, k, scs2
  <1>8. ScenarioKept(new, facts)
    BY <1>2, <1>4 DEF ScenarioKept, JobKept
  <1>9. JobKept(k, scs2, facts) /\ ~Storing(k)
    <2>1. ~Storing(k) /\ ~Emptied(k)
      BY <1>5 DEF Storing, Emptied
    <2>2. s \in 0..Len(scenarios) /\ s # 0
      BY <1>1, <1>2 DEF JobKept
    <2> QED
      BY <1>5, <1>6, <2>1, <2>2 DEF JobKept
  <1> HIDE DEF s
  <1>10. Kept(scs2, [job EXCEPT ![p] = k], facts)
    BY <1>1, <1>4, <1>5, <1>7, <1>8, <1>9, OneStores DEF s
  <1> QED
    BY <1>3, <1>10

\* making a scenario,
LEMMA NewScenarioKeeps ==
  ASSUME Kept(scenarios, job, facts), NEW p \in Processes, AddScenario(p) \/ CommitScenario(p) \/ AskWhatIf(p)
  PROVE  Kept(scenarios', job', facts)
  <1>1. DOMAIN job = Processes /\ \A s \in DOMAIN scenarios : ScenarioKept(scenarios[s], facts)
    BY DEF Kept
  <1>2. ScenarioKept(Empty, facts)
    BY DEF ScenarioKept, Empty
  <1>3. Becomes(job, p, IdleProcess, job)
    BY <1>1 DEF AddScenario, CommitScenario, AskWhatIf, IsIdle, Becomes
  <1>4. /\ DOMAIN IdleProcess = JobFields /\ IdleProcess.scenario \in {0, Len(scenarios) + 1}
        /\ IdleProcess.change \in Seq(Changes) /\ ~Storing(IdleProcess) /\ ~OnScenario(IdleProcess)
    BY JobSteps
  <1>5. ASSUME NEW new, ScenarioKept(new, facts)
        PROVE  Kept(Append(scenarios, new), job, facts)
    BY <1>3, <1>4, <1>5, OneMoreScenario
  <1>6. CASE AddScenario(p)
    <2>1. scenarios' = Append(scenarios, Empty) /\ job' = job
      BY <1>6 DEF AddScenario
    <2> QED
      BY <1>2, <1>5, <2>1
  <1>7. CASE CommitScenario(p)
    <2>1. PICK s \in DOMAIN scenarios : scenarios' = Append(scenarios, Frozen(s)) /\ job' = job
      BY <1>7 DEF CommitScenario
    <2>2. ScenarioKept(Frozen(s), facts)
      <3> DEFINE old == scenarios[s]
                 new == [old EXCEPT !.changes = <<>>]
      <3>1. ScenarioKept(old, facts) /\ Frozen(s) = new
        BY <1>1 DEF Frozen
      <3>2. /\ DOMAIN new = DOMAIN old /\ new.changes = <<>> /\ new.on = old.on /\ new.whole = old.whole
            /\ new.alloc = old.alloc /\ new.sched = old.sched
        BY <3>1 DEF ScenarioKept
      <3> HIDE DEF new, old
      <3> QED
        BY <3>1, <3>2 DEF ScenarioKept, Stored
    <2> QED
      BY <1>5, <2>1, <2>2
  <1>8. CASE AskWhatIf(p)
    <2>1. PICK c \in Changes :
            /\ scenarios' = Append(scenarios, Empty)
            /\ job' = [job EXCEPT ![p] = [IdleProcess EXCEPT !.step = "change", !.scenario = Len(scenarios) + 1, !.change = <<c>>]]
      BY <1>8 DEF AskWhatIf
    <2> DEFINE k == [IdleProcess EXCEPT !.step = "change", !.scenario = Len(scenarios) + 1, !.change = <<c>>]
    <2>2. /\ DOMAIN k = JobFields /\ k.step = "change" /\ k.scenario = Len(scenarios) + 1 /\ k.change = <<c>>
      BY DEF JobFields, IdleProcess
    <2>3. job' = [job EXCEPT ![p] = k]
      BY <2>1
    <2> HIDE DEF k
    <2>4. ~Storing(k) /\ k.change \in Seq(Changes) /\ k.scenario \in {0, Len(scenarios) + 1}
      BY <2>2 DEF Storing
    <2>5. k.scenario # 0
      BY <2>2, ListFacts DEF Kept
    <2>6. Becomes(job, p, k, job')
      BY <1>1, <2>3 DEF Becomes
    <2> QED
      BY <1>2, <2>1, <2>2, <2>4, <2>5, <2>6, OneMoreScenario
  <1> QED
    BY <1>6, <1>7, <1>8

\* ending a job
LEMMA JobEndsKeeps ==
  ASSUME Kept(scenarios, job, facts), NEW p \in Processes, job' = [job EXCEPT ![p] = IdleProcess]
  PROVE  Kept(scenarios, job', facts)
  <1> DEFINE k == IdleProcess
  <1>1. DOMAIN k = JobFields /\ k.scenario = 0 /\ k.change \in Seq(Changes) /\ ~OnScenario(k)
    BY JobSteps
  <1> HIDE DEF k
  <1>2. Kept(scenarios, [job EXCEPT ![p] = k], facts)
    BY <1>1, JobWithoutScenario
  <1> QED
    BY <1>2 DEF k

\* and checking a dependency before it is entered keep what is stored as it must be.
LEMMA CheckKeeps ==
  ASSUME Kept(scenarios, job, facts), NEW p \in Processes, CheckDependency(p)
  PROVE  Kept(scenarios, job', facts)
  <1>1. PICK d : job' = [job EXCEPT ![p] = [IdleProcess EXCEPT !.step = "insert", !.link = d]]
    BY DEF CheckDependency
  <1> DEFINE k == [IdleProcess EXCEPT !.step = "insert", !.link = d]
  <1>2. DOMAIN k = JobFields /\ k.scenario = 0 /\ k.change = <<>> /\ k.step = "insert"
    BY DEF JobFields, IdleProcess
  <1>3. job' = [job EXCEPT ![p] = k]
    BY <1>1
  <1> HIDE DEF k
  <1>4. ~OnScenario(k) /\ k.change \in Seq(Changes)
    BY <1>2 DEF OnScenario, Storing
  <1>5. Kept(scenarios, [job EXCEPT ![p] = k], facts)
    BY <1>2, <1>4, JobWithoutScenario
  <1> QED
    BY <1>3, <1>5

StorageInv == GraphInv /\ Kept(scenarios, job, facts)

\* What is stored is as it must be at the start
LEMMA StorageHoldsAtStart ==
  ASSUME PlanningInit
  PROVE  StorageInv
  <1>1. GraphInv
    BY GraphHoldsAtStart
  <1>2. scenarios = <<>> /\ DOMAIN job = Processes /\ \A p \in Processes : job[p] = IdleProcess
    BY DEF PlanningInit
  <1>3. IsList(scenarios) /\ DOMAIN scenarios = {} /\ Len(scenarios) = 0
    BY <1>2 DEF IsList
  <1>4. \A p \in Processes : JobKept(job[p], scenarios, facts)
    <2>1. 0 \in 0..Len(scenarios) /\ <<>> \in Seq(Changes)
      BY <1>3
    <2>2. JobKept(IdleProcess, scenarios, facts)
      BY <2>1, JobSteps DEF JobKept
    <2> QED
      BY <1>2, <2>2
  <1>5. Alone(job)
    BY <1>2, JobSteps DEF Alone
  <1> QED
    BY <1>1, <1>2, <1>3, <1>4, <1>5 DEF StorageInv, Kept

\* and from then on: any step keeps it so.
LEMMA StorageHoldsOn ==
  ASSUME StorageInv, [PlanningNext]_planningVars
  PROVE  StorageInv'
  <1>1. GraphInv' /\ IsProject(facts) /\ Kept(scenarios, job, facts)
    BY GraphHoldsOn DEF StorageInv, GraphInv
  <1> SUFFICES Kept(scenarios', job', facts')
    BY <1>1 DEF StorageInv, Kept, ScenarioKept, JobKept
  <1>2. CASE UNCHANGED planningVars
    <2>1. scenarios' = scenarios /\ job' = job /\ facts' = facts
      BY <1>2 DEF planningVars
    <2> QED
      BY <1>1, <2>1
  <1>3. ASSUME NEW p \in Processes, NEW new, Enter(p, new)
        PROVE  Kept(scenarios', job', facts')
    <2>1. facts' = new
      BY <1>3 DEF Enter
    <2> QED
      BY <1>1, <1>3, <2>1, EnterKeeps
  <1>4. ASSUME NEW p \in Processes,
               AddTask(p) \/ EstimateTask(p) \/ AddResource(p) \/ SetSkill(p) \/ AddAvailability(p) \/ AddDependency(p)
        PROVE  Kept(scenarios', job', facts')
    <2>1. \E new : Enter(p, new)
      BY <1>4 DEF AddTask, EstimateTask, AddResource, SetSkill, AddAvailability, AddDependency
    <2> QED
      BY <1>3, <2>1
  <1>5. ASSUME NEW p \in Processes, AddScenario(p) \/ CommitScenario(p) \/ AskWhatIf(p)
        PROVE  Kept(scenarios', job', facts')
    <2>1. facts' = facts
      BY <1>5 DEF AddScenario, CommitScenario, AskWhatIf
    <2> QED
      BY <1>1, <1>5, <2>1, NewScenarioKeeps
  <1>6. ASSUME NEW p \in Processes,
               ClearAllocation(p) \/ ClearSchedule(p) \/ AddAllocation(p) \/ SetScheduleRow(p) \/ AddChange(p)
        PROVE  Kept(scenarios', job', facts')
    <2>1. facts' = facts
      BY <1>6 DEF ClearAllocation, ClearSchedule, AddAllocation, SetScheduleRow, AddChange
    <2> QED
      BY <1>1, <1>6, <2>1, ClearAllocationKeeps, ClearScheduleKeeps, AddAllocationKeeps, SetScheduleRowKeeps, AddChangeKeeps
  <1>7. ASSUME NEW p \in Processes, Crash(p) \/ CheckDependency(p)
        PROVE  Kept(scenarios', job', facts')
    <2>1. facts' = facts /\ scenarios' = scenarios /\ (Crash(p) => job' = [job EXCEPT ![p] = IdleProcess])
      BY <1>7 DEF Crash, CheckDependency
    <2> QED
      BY <1>1, <1>7, <2>1, JobEndsKeeps, CheckKeeps
  <1>8. ASSUME NEW p \in Processes, NEW s \in DOMAIN scenarios, Computed(p, s)
        PROVE  Kept(scenarios', job', facts')
    <2>1. facts' = facts /\ scenarios' = scenarios
      BY <1>8 DEF Computed
    <2> QED
      BY <1>1, <1>8, <2>1, ComputedKeeps
  <1>9. ASSUME NEW p \in Processes, Allocate(p) \/ WhatIf(p)
        PROVE  Kept(scenarios', job', facts')
    <2>1. CASE Allocate(p)
      BY <1>8, <2>1 DEF Allocate
    <2>2. CASE WhatIf(p)
      <3>1. OnScenario(job[p])
        BY <2>2 DEF WhatIf, At, OnScenario
      <3>2. job[p].scenario \in DOMAIN scenarios
        BY <1>1, <3>1, OnIts
      <3>3. CASE Computed(p, job[p].scenario)
        BY <1>8, <3>2, <3>3
      <3>4. CASE ~Computed(p, job[p].scenario)
        <4>1. facts' = facts /\ scenarios' = scenarios /\ job' = [job EXCEPT ![p] = IdleProcess]
          BY <2>2, <3>4 DEF WhatIf
        <4> QED
          BY <1>1, <4>1, JobEndsKeeps
      <3> QED
        BY <3>3, <3>4
    <2> QED
      BY <1>9, <2>1, <2>2
  <1>10. CASE PlanningNext
    <2>1. PICK p \in Processes :
            \/ AddTask(p) \/ EstimateTask(p) \/ AddResource(p) \/ SetSkill(p) \/ AddAvailability(p)
            \/ CheckDependency(p) \/ AddDependency(p)
            \/ AddScenario(p) \/ CommitScenario(p) \/ Allocate(p)
            \/ ClearAllocation(p) \/ ClearSchedule(p) \/ AddAllocation(p) \/ SetScheduleRow(p)
            \/ AskWhatIf(p) \/ AddChange(p) \/ WhatIf(p) \/ Crash(p)
      BY <1>10 DEF PlanningNext
    <2> QED
      BY <2>1, <1>4, <1>5, <1>6, <1>7, <1>9
  <1> QED
    BY <1>2, <1>10

\* A whole plan is the one that is computed, and that one can be carried out and says what
\* can wait.
LEMMA WholePlan ==
  ASSUME StorageInv, NEW s \in DOMAIN scenarios, scenarios[s].whole, NEW f, f = Overlaid(facts, scenarios[s].on)
  PROVE  /\ IsProject(f) /\ Acyclic(f)
         /\ scenarios[s].alloc = SetToBag(RowsOf(PlanOf(f))) /\ scenarios[s].sched = ComputeSchedule(f)
         /\ CanBeCarriedOut(f, RowsOf(PlanOf(f))) /\ SaysWhatCanWait(f, ComputeSchedule(f))
  <1>1. IsProject(facts) /\ ScenarioKept(scenarios[s], facts)
    BY DEF StorageInv, GraphInv, Kept
  <1>2. scenarios[s].on \in Seq(Changes) /\ Stored(scenarios[s], f)
    BY <1>1 DEF ScenarioKept
  <1>3. IsProject(f)
    BY <1>1, <1>2, OverlaidIsProject
  <1> QED
    BY <1>2, <1>3, ComputedCanBeCarriedOut, ComputedSaysWhatCanWait DEF Stored

\* What is stored of a whole plan can be carried out
LEMMA WholePlansAreFeasible ==
  ASSUME StorageInv
  PROVE  PlansAreFeasible
  <1> SUFFICES ASSUME NEW s \in DOMAIN scenarios, scenarios[s].whole,
                      NEW f, f = Overlaid(facts, scenarios[s].on), NEW rows, rows = BagToSet(scenarios[s].alloc)
               PROVE  /\ \A x \in rows : scenarios[s].alloc[x] = 1
                      /\ \A t \in DOMAIN f.tasks :
                            IF f.tasks[t].est = NoEstimate \/ Eligible(f, t) = {} THEN {x \in rows : x.task = t} = {}
                            ELSE \E x \in rows : /\ {y \in rows : y.task = t} = {x}
                                                 /\ x.hours = f.tasks[t].est /\ x.resource \in Eligible(f, t)
                      /\ \A r \in DOMAIN f.people, from \in {x.start : x \in rows}, to \in {x.end : x \in rows} :
                            from <= to => HoursIn(rows, r, from, to) <= CapacityIn(f, r, from, to)
                      /\ \A d \in f.deps : d.type = "FS" =>
                            \A x \in {z \in rows : z.task = d.pred}, y \in {z \in rows : z.task = d.succ} : x.end < y.start
    BY DEF PlansAreFeasible
  <1>1. scenarios[s].alloc = SetToBag(RowsOf(PlanOf(f))) /\ CanBeCarriedOut(f, RowsOf(PlanOf(f)))
    BY WholePlan
  <1>2. rows = RowsOf(PlanOf(f)) /\ \A x \in rows : scenarios[s].alloc[x] = 1
    BY <1>1 DEF BagToSet, SetToBag
  <1>3. CanBeCarriedOut(f, rows)
    BY <1>1, <1>2
  <1>4. \A t \in DOMAIN f.tasks : NeedsRow(f, t) <=> ~(f.tasks[t].est = NoEstimate \/ Eligible(f, t) = {})
    BY DEF NeedsRow
  <1> QED
    BY <1>2, <1>3, <1>4 DEF CanBeCarriedOut

\* and says what can wait.
LEMMA WholePlansAreHonest ==
  ASSUME StorageInv
  PROVE  SlackIsHonest
  <1>1. ASSUME NEW s \in DOMAIN scenarios, scenarios[s].whole, NEW f, f = Overlaid(facts, scenarios[s].on)
        PROVE  SaysWhatCanWait(f, scenarios[s].sched)
    BY <1>1, WholePlan
  <1> QED
    BY <1>1 DEF SlackIsHonest, SaysWhatCanWait, EndWith

\* Every plan that is stored as a whole can be carried out: a row for each task with an
\* estimate and somebody who can do it, as long as the estimate, nobody busier than the
\* days allow, and nothing begun before what it waits for has ended (allocate's list
\* scheduling with its ledger of hours, pm/allocate.py:153).
THEOREM PlansCanBeCarriedOut == PlanningSpec => []PlansAreFeasible
  BY StorageHoldsAtStart, StorageHoldsOn, WholePlansAreFeasible, PTL DEF PlanningSpec

\* The slack that is stored for a whole plan is what one task can be late by without
\* delaying the project, and no more: the two passes of compute_critical_path agree
\* (pm/schedule.py:91).
THEOREM SlackIsTrue == PlanningSpec => []SlackIsHonest
  BY StorageHoldsAtStart, StorageHoldsOn, WholePlansAreHonest, PTL DEF PlanningSpec
=============================================================================
