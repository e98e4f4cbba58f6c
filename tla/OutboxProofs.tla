------------------------- MODULE OutboxProofs -------------------------
(***************************************************************************)
(* Proofs about the outbox for any number of rows, handlers and users, with *)
(* or without a sweep of expired rows; and, in the last part, about the     *)
(* linked accounts of a user, for any number of accounts, jobs and grants.  *)
(***************************************************************************)
EXTENDS Outbox, Accounts, FiniteSetTheorems, TLAPS

LEMMA ConstantsExist == AnAction \in Actions /\ AUser \in Users
  BY ActionsAssumption, UsersAssumption DEF AnAction, AUser

LEMMA BlankIsRequest ==
  ASSUME NEW s \in Surfaces, NEW a \in Actions, NEW u \in Users
  PROVE  /\ Blank(s, a, u) \in Request
         /\ [Blank(s, a, u) EXCEPT !.step = "queued"] \in Request
         /\ \A ans \in Answers : Ended(a, u, ans) \in Request
         /\ \A d \in Decisions, ok \in BOOLEAN :
              [Blank(s, a, u) EXCEPT !.step = "claim", !.decision = d,
                                     !.requesterOk = ok] \in Request
  BY DEF Blank, Ended, Request, Steps, Surfaces, Answers, Decisions

LEMMA TypeInit == Init => TypeOK
  <1>1. Idle \in Request
    BY ConstantsExist, BlankIsRequest DEF Idle, Surfaces
  <1> QED
    BY <1>1, ConstantsExist DEF Init, TypeOK, Statuses

LEMMA TypeStep == TypeOK /\ [Next]_vars => TypeOK'
  <1> SUFFICES ASSUME TypeOK, [Next]_vars
               PROVE  TypeOK'
    OBVIOUS
  <1> USE DEF TypeOK, Statuses
  <1>1. ASSUME NEW a \in Actions, NEW u \in Users, NEW t \in Gated, Queue(a, u, t)
        PROVE  /\ status' \in [Actions -> Statuses]
               /\ tool' \in [Actions -> Tools \union {"none"}]
               /\ requester' \in [Actions -> Users]
               /\ UNCHANGED <<decidedBy, result, past, effects, disabled, off, audit>>
    BY <1>1, GatedAssumption DEF Queue
  <1>2. ASSUME NEW a \in Actions, NEW u \in Users, NEW t \in Gated, Enqueue(a, u, t)
        PROVE  TypeOK'
    BY <1>1, <1>2 DEF Enqueue
  <1>3. ASSUME NEW h \in Handlers, NEW a \in Actions, NEW u \in Users, NEW t \in Gated,
               EnqueueAndOffer(h, a, u, t)
        PROVE  TypeOK'
    BY <1>1, <1>3, BlankIsRequest DEF EnqueueAndOffer, Surfaces
  <1>4. ASSUME NEW h \in Handlers, NEW s \in Steps, Goto(h, s)
        PROVE  req' \in [Handlers -> Request]
    BY <1>4 DEF Goto, Request
  <1>5. ASSUME NEW h \in Handlers, NEW ans \in Answers, Finish(h, ans)
        PROVE  req' \in [Handlers -> Request]
    <2>1. req[h].act \in Actions /\ req[h].user \in Users
      BY DEF Request
    <2> QED
      BY <1>5, <2>1, BlankIsRequest DEF Finish, Surfaces
  <1>6. ASSUME NEW h \in Handlers, NEW s \in Surfaces, NEW a \in Actions,
               NEW u \in Users, NEW d \in Decisions, Admit(h, s, a, u, d)
        PROVE  TypeOK'
    <2>1. MayUse(requester[a], tool[a]) \in BOOLEAN
      BY DEF MayUse
    <2> QED
      BY <1>6, <2>1, BlankIsRequest DEF Admit, Answers, row
  <1>7. ASSUME NEW h \in Handlers, OfferDialog(h) \/ DismissDialog(h) \/ Fail(h)
        PROVE  TypeOK'
    BY <1>4, <1>5, <1>7 DEF OfferDialog, DismissDialog, Fail, Steps, Answers, row
  <1>8. ASSUME NEW h \in Handlers, NEW a \in Actions, NEW u \in Users,
               RefuseLocked(h, a, u)
        PROVE  TypeOK'
    BY <1>8, BlankIsRequest DEF RefuseLocked, Surfaces, Answers, row
  <1>9. ASSUME NEW h \in Handlers, NEW d \in Decisions, AnswerDialog(h, d)
        PROVE  TypeOK'
    BY <1>6, <1>9 DEF AnswerDialog, Request, Surfaces
  <1>10. ASSUME NEW h \in Handlers, Claim(h)
         PROVE  TypeOK'
    <2>1. req[h].act \in Actions /\ req[h].user \in Users
      BY DEF Request
    <2> QED
      BY <1>4, <1>5, <1>10, <2>1 DEF Claim, Steps, Answers
  <1>11. ASSUME NEW h \in Handlers, Execute(h)
         PROVE  TypeOK'
    <2>1. PICK happens \in BOOLEAN, outcome \in {"ok", "error"} :
            /\ effects' = IF happens THEN [effects EXCEPT ![req[h].act] = @ + 1]
                                      ELSE effects
            /\ req' = [req EXCEPT ![h].step = "record", ![h].outcome = outcome]
      BY <1>11 DEF Execute
    <2>2. req' \in [Handlers -> Request]
      <3>1. req[h] \in Request
        OBVIOUS
      <3>2. [req[h] EXCEPT !.step = "record", !.outcome = outcome] \in Request
        BY <3>1 DEF Request, Steps
      <3>3. req' = [req EXCEPT ![h] = [req[h] EXCEPT !.step = "record", !.outcome = outcome]]
        BY <2>1
      <3> QED
        BY <3>2, <3>3
    <2>3. effects' \in [Actions -> Nat]
      <3>0. effects[req[h].act] + 1 \in Nat
        BY DEF Request
      <3>1. [effects EXCEPT ![req[h].act] = @ + 1] \in [Actions -> Nat]
        BY <3>0
      <3> QED
        BY <2>1, <3>1
    <2> QED
      BY <1>11, <2>2, <2>3 DEF Execute, row
  <1>11a. ASSUME NEW h \in Handlers, ReadList(h)
          PROVE  TypeOK'
    <2>1. req[h] \in Request /\ UNCHANGED <<row, past, effects, disabled, off, audit>>
      BY <1>11a DEF ReadList
    <2>2. \/ req' = [req EXCEPT ![h] = [req[h] EXCEPT !.step = "change"]]
          \/ req' = [req EXCEPT ![h] = [req[h] EXCEPT !.step = "record", !.outcome = "error"]]
      BY <1>11a DEF ReadList
    <2>3. /\ [req[h] EXCEPT !.step = "change"] \in Request
          /\ [req[h] EXCEPT !.step = "record", !.outcome = "error"] \in Request
      BY <2>1 DEF Request, Steps
    <2>4. req' \in [Handlers -> Request]
      BY <2>2, <2>3
    <2> QED
      BY <2>1, <2>4 DEF row
  <1>12. ASSUME NEW h \in Handlers, RecordResult(h)
         PROVE  TypeOK'
    <2>1. Stored(h) \in {"none", "error", "ok", "link"}
      BY DEF Stored
    <2> QED
      BY <1>4, <1>12, <2>1 DEF RecordResult, Request, Steps
  <1>13. ASSUME NEW h \in Handlers, AuditDecision(h)
         PROVE  TypeOK'
    <2>1. Verdict(h) \in {"ok", "failed", "rejected"} /\ Verdict(h) \in Answers
      BY DEF Verdict, Answers
    <2>2. req[h].act \in Actions
      BY DEF Request
    <2> QED
      BY <1>5, <1>13, <2>1, <2>2 DEF AuditDecision, row
  <1>14. ASSUME NEW a \in Actions, TimePasses(a)
         PROVE  TypeOK'
    BY <1>14 DEF TimePasses, row
  <1>15. CASE ExpireDue
    BY <1>15 DEF ExpireDue
  <1>16. ASSUME NEW u \in Users, ToggleUser(u)
         PROVE  TypeOK'
    BY <1>16 DEF ToggleUser, row
  <1>17. CASE UNCHANGED vars
    BY <1>17 DEF vars
  <1> QED
    BY <1>2, <1>3, <1>6, <1>7, <1>8, <1>9, <1>10, <1>11, <1>11a, <1>12, <1>13, <1>14,
       <1>15, <1>16, <1>17
    DEF Next, Work, Decide

\* Every variable keeps its type, whatever the number of rows and handlers.
THEOREM TypeCorrect == Spec => []TypeOK
  <1>1. Init => TypeOK
    BY TypeInit
  <1>2. TypeOK /\ [Next]_vars => TypeOK'
    BY TypeStep
  <1> QED
    BY <1>1, <1>2, PTL DEF Spec

------------------------------------------------------------------------
(* The inductive invariant.  A step touches one row and one handler; the    *)
(* others keep their part by the two frame lemmas.                          *)

LEMMA RowFrame ==
  ASSUME NEW a \in Actions, RowInv(a),
         UNCHANGED <<status[a], tool[a], decidedBy[a], effects[a], audit[a]>>
  PROVE  RowInv(a)'
  BY DEF RowInv, ApprovalRole

LEMMA HandlerFrame ==
  ASSUME NEW h \in Handlers, HandlerInv(h, req[h].act), UNCHANGED req[h],
         UNCHANGED <<status[req[h].act], tool[req[h].act], decidedBy[req[h].act],
                     effects[req[h].act]>>
  PROVE  HandlerInv(h, req[h].act)'
  BY DEF HandlerInv, Holds, Left, Verdict, ApprovalRole

LEMMA InvInit == Init => IInv
  <1> SUFFICES ASSUME Init PROVE IInv
    OBVIOUS
  <1>1. TypeOK
    BY TypeInit
  <1>2. \A a \in Actions : RowInv(a)
    BY DEF Init, RowInv
  <1>3. \A h \in Handlers : req[h].step = "idle"
    BY DEF Init, Idle, Blank
  <1>4. (\A h \in Handlers : HandlerInv(h, req[h].act)) /\ HolderIsAlone
    BY <1>3 DEF HandlerInv, HolderIsAlone, Holds
  <1> QED
    BY <1>1, <1>2, <1>4 DEF IInv

\* The requester's INSERT: no handler has anything to say of an absent row.
LEMMA QueueKeeps ==
  ASSUME IInv, NEW b \in Actions, NEW u \in Users, NEW t \in Gated, Queue(b, u, t)
  PROVE  /\ \A a \in Actions : RowInv(a)'
         /\ \A h \in Handlers : UNCHANGED req[h] => HandlerInv(h, req[h].act)'
  <1>1. \A a \in Actions : RowInv(a)'
    <2> TAKE a \in Actions
    <2>1. CASE a = b
      BY <2>1 DEF IInv, TypeOK, RowInv, Queue
    <2>2. CASE a # b
      BY <2>2, RowFrame DEF IInv, TypeOK, Queue
    <2> QED
      BY <2>1, <2>2
  <1>2. \A h \in Handlers : UNCHANGED req[h] => HandlerInv(h, req[h].act)'
    <2> TAKE h \in Handlers
    <2> HAVE UNCHANGED req[h]
    <2>1. CASE req[h].act = b
      BY <2>1 DEF IInv, TypeOK, HandlerInv, Holds, Left, Verdict, Queue
    <2>2. CASE req[h].act # b
      BY <2>2, HandlerFrame DEF IInv, TypeOK, Queue
    <2> QED
      BY <2>1, <2>2
  <1> QED
    BY <1>1, <1>2

\* One handler changes and no row does: enough to look at that handler.
LEMMA HandlerOnly ==
  ASSUME IInv, NEW h \in Handlers, NEW r, req' = [req EXCEPT ![h] = r],
         UNCHANGED <<row, effects, audit>>,
         r.step \notin {"execute", "change", "record"}
  PROVE  /\ \A a \in Actions : RowInv(a)'
         /\ \A g \in Handlers : g # h => HandlerInv(g, req[g].act)'
         /\ HolderIsAlone'
  <1>1. \A a \in Actions : RowInv(a)'
    BY RowFrame DEF IInv, row
  <1>2. \A g \in Handlers : g # h => HandlerInv(g, req[g].act)'
    BY HandlerFrame DEF IInv, TypeOK, row
  <1>3. HolderIsAlone'
    BY DEF IInv, TypeOK, HolderIsAlone, Holds
  <1> QED
    BY <1>1, <1>2, <1>3

\* A request that waits, is refused, is dismissed or dies.
LEMMA FinishKeeps ==
  ASSUME IInv, TypeOK', NEW h \in Handlers, NEW ans \in {"pending", "error"}, Finish(h, ans),
         UNCHANGED <<row, effects, audit>>
  PROVE  IInv'
  <1>1. req' = [req EXCEPT ![h] = Ended(req[h].act, req[h].user, ans)]
    BY DEF Finish
  <1>2. Ended(req[h].act, req[h].user, ans).step = "done"
    BY DEF Ended, Blank
  <1>3. HandlerInv(h, req[h].act)'
    BY <1>1 DEF IInv, TypeOK, HandlerInv, Holds, Ended, Blank
  <1> QED
    BY <1>1, <1>2, <1>3, HandlerOnly DEF IInv

LEMMA AdmitKeeps ==
  ASSUME IInv, TypeOK', NEW h \in Handlers, NEW s \in Surfaces, NEW a \in Actions,
         NEW u \in Users, NEW d \in Decisions, Admit(h, s, a, u, d)
  PROVE  IInv'
  <1> DEFINE r == IF MayUse(u, tool[a])
                  THEN [Blank(s, a, u) EXCEPT
                          !.step = "claim", !.decision = d,
                          !.requesterOk = MayUse(requester[a], tool[a])]
                  ELSE Ended(a, u, "denied")
  <1>1. req' = [req EXCEPT ![h] = r] /\ UNCHANGED <<row, effects, audit>>
    BY DEF Admit
  <1>2. r.step \in {"claim", "done"}
    BY DEF Ended, Blank
  <1>3. HandlerInv(h, req[h].act)'
    <2>1. req'[h] = r /\ status[a] # "absent" /\ UNCHANGED <<status, tool>>
      BY <1>1 DEF IInv, TypeOK, Admit, row
    <2>2. CASE MayUse(u, tool[a])
      <3>1. r.step = "claim" /\ r.act = a /\ r.user = u
        BY <2>2 DEF Blank
      <3> QED
        BY <2>1, <2>2, <3>1 DEF HandlerInv, Holds, MayUse, ApprovalRole
    <2>3. CASE ~MayUse(u, tool[a])
      <3>1. r.step = "done" /\ r.answer = "denied"
        BY <2>3 DEF Ended, Blank
      <3> QED
        BY <2>1, <3>1 DEF HandlerInv, Holds
    <2> QED
      BY <2>2, <2>3
  <1> QED
    BY <1>1, <1>2, <1>3, HandlerOnly DEF IInv

\* The claim: the row was pending, so no handler held or had decided it.
LEMMA ClaimKeeps ==
  ASSUME IInv, TypeOK', NEW h \in Handlers, Claim(h)
  PROVE  IInv'
  <1> DEFINE b == req[h].act
  <1>0. /\ b \in Actions /\ req[h] \in Request /\ HandlerInv(h, b) /\ RowInv(b)
        /\ req[h].decision \in {"approve", "reject"}
    BY DEF IInv, TypeOK, Request, Decisions
  <1>1. CASE status[b] # "pending"
    <2>1. Finish(h, "conflict") /\ UNCHANGED <<row, effects, audit>>
      BY <1>1 DEF Claim, row
    <2>2. req' = [req EXCEPT ![h] = Ended(b, req[h].user, "conflict")]
      BY <2>1 DEF Finish
    <2>3. HandlerInv(h, req[h].act)'
      BY <1>0, <1>1, <2>1, <2>2
      DEF IInv, TypeOK, HandlerInv, Holds, Ended, Blank, Claim, row
    <2>4. Ended(b, req[h].user, "conflict").step = "done"
      BY DEF Ended, Blank
    <2> QED
      BY <2>1, <2>2, <2>3, <2>4, HandlerOnly DEF IInv
  <1>2. CASE status[b] = "pending"
    <2> DEFINE new  == IF req[h].decision = "approve" THEN "approved" ELSE "rejected"
               next == IF req[h].decision = "approve" THEN "execute" ELSE "audit"
    <2>1. /\ status'    = [status EXCEPT ![b] = new]
          /\ decidedBy' = [decidedBy EXCEPT ![b] = {req[h].user}]
          /\ req'       = [req EXCEPT ![h].step = next]
          /\ req[h].step = "claim"
          /\ UNCHANGED <<tool, effects, audit>>
      BY <1>2 DEF Claim, Goto
    <2>0. /\ status'[b] = new /\ decidedBy'[b] = {req[h].user} /\ effects'[b] = 0
          /\ \A a \in Actions : a # b => /\ status'[a] = status[a]
                                        /\ decidedBy'[a] = decidedBy[a]
      BY <1>0, <1>2, <2>1 DEF IInv, TypeOK, RowInv
    <2>2. \A a \in Actions : RowInv(a)'
      <3> TAKE a \in Actions
      <3>1. CASE a = b
        BY <1>0, <1>2, <2>0, <2>1, <3>1 DEF RowInv, HandlerInv, ApprovalRole
      <3>2. CASE a # b
        BY <2>0, <2>1, <3>2, RowFrame DEF IInv
      <3> QED
        BY <3>1, <3>2
    <2>3. \A g \in Handlers : ~Holds(g, b)
      BY <1>2 DEF IInv, HandlerInv, Holds, Left
    <2>4. HolderIsAlone'
      BY <2>1, <2>3 DEF IInv, TypeOK, HolderIsAlone, Holds
    <2>5. \A g \in Handlers : HandlerInv(g, req[g].act)'
      <3> TAKE g \in Handlers
      <3>1. CASE g = h
        <4>1. req'[h] = [req[h] EXCEPT !.step = next]
          BY <2>1 DEF IInv, TypeOK
        <4>2. /\ req'[h].act = b /\ req'[h].user = req[h].user
              /\ req'[h].decision = req[h].decision /\ req'[h].step = next
          BY <1>0, <4>1 DEF Request
        <4>3. CASE req[h].decision = "approve"
          BY <2>0, <3>1, <4>2, <4>3 DEF HandlerInv, Holds, Left
        <4>4. CASE req[h].decision = "reject"
          <5>1. Verdict(h)' = "rejected" /\ req'[h].step = "audit"
            BY <4>2, <4>4 DEF Verdict
          <5>2. Left(h, b, "rejected")'
            BY <2>0, <4>2, <4>4 DEF Left
          <5> QED
            BY <3>1, <4>2, <5>1, <5>2 DEF HandlerInv, Holds
        <4> QED
          BY <1>0, <4>3, <4>4
      <3>2. CASE g # h /\ req[g].act = b
        <4>1. req'[g] = req[g] /\ HandlerInv(g, b)
          BY <2>1, <3>2 DEF IInv, TypeOK
        <4> QED
          BY <1>0, <1>2, <2>1, <3>2, <4>1
          DEF IInv, TypeOK, HandlerInv, Holds, Left, Verdict
      <3>3. CASE g # h /\ req[g].act # b
        BY <2>1, <3>3, HandlerFrame DEF IInv, TypeOK
      <3> QED
        BY <3>1, <3>2, <3>3
    <2> QED
      BY <2>2, <2>4, <2>5 DEF IInv
  <1> QED
    BY <1>1, <1>2

\* The requester is looked up in a fresh list: the handler keeps its row, untouched.
LEMMA ReadListKeeps ==
  ASSUME IInv, TypeOK', NEW h \in Handlers, ReadList(h)
  PROVE  IInv'
  <1> DEFINE b == req[h].act
  <1>0. b \in Actions /\ req[h] \in Request /\ HandlerInv(h, b)
    BY DEF IInv, TypeOK, Request
  <1>1. /\ UNCHANGED <<row, effects, audit>> /\ req[h].step = "execute"
        /\ \A g \in Handlers : g # h => req'[g] = req[g]
    BY DEF ReadList, IInv, TypeOK
  <1>2. \/ req'[h] = [req[h] EXCEPT !.step = "change"]
        \/ req'[h] = [req[h] EXCEPT !.step = "record", !.outcome = "error"]
    BY DEF ReadList, IInv, TypeOK
  <1>3. /\ req'[h].act = b /\ req'[h].user = req[h].user /\ req'[h].decision = req[h].decision
        /\ req'[h].step = "change" \/ (req'[h].step = "record" /\ req'[h].outcome = "error")
    BY <1>0, <1>2 DEF Request
  <1>4. \A a \in Actions : RowInv(a)'
    BY <1>1, RowFrame DEF IInv, row
  <1>5. HolderIsAlone'
    BY <1>1, <1>3 DEF IInv, HolderIsAlone, Holds
  <1>6. \A g \in Handlers : HandlerInv(g, req[g].act)'
    <2> TAKE g \in Handlers
    <2>1. CASE g = h
      BY <1>0, <1>1, <1>3, <2>1 DEF HandlerInv, Holds, Left, row
    <2>2. CASE g # h
      BY <1>1, <2>2, HandlerFrame DEF IInv, row
    <2> QED
      BY <2>1, <2>2
  <1> QED
    BY <1>4, <1>5, <1>6 DEF IInv

\* The tool runs: only this handler holds the row, and nothing has happened yet.
LEMMA ExecuteKeeps ==
  ASSUME IInv, TypeOK', NEW h \in Handlers, Execute(h)
  PROVE  IInv'
  <1> DEFINE b == req[h].act
  <1>0. b \in Actions /\ req[h] \in Request /\ HandlerInv(h, b) /\ RowInv(b)
    BY DEF IInv, TypeOK, Request
  <1>1. PICK happens \in BOOLEAN, outcome \in {"ok", "error"} :
          /\ outcome = "ok" => happens
          /\ effects' = IF happens THEN [effects EXCEPT ![b] = @ + 1] ELSE effects
          /\ req' = [req EXCEPT ![h].step = "record", ![h].outcome = outcome]
    BY DEF Execute
  <1>2. UNCHANGED row /\ UNCHANGED audit /\ Holds(h, b) /\ effects[b] = 0
    BY <1>0 DEF Execute, Holds, HandlerInv
  <1>3. /\ effects'[b] = IF happens THEN 1 ELSE 0
        /\ \A a \in Actions : a # b => effects'[a] = effects[a]
    BY <1>0, <1>1, <1>2 DEF IInv, TypeOK
  <1>3a. /\ req'[h] = [req[h] EXCEPT !.step = "record", !.outcome = outcome]
        /\ \A g \in Handlers : g # h => req'[g] = req[g]
    BY <1>1 DEF IInv, TypeOK
  <1>4. /\ req'[h].act = b /\ req'[h].user = req[h].user
        /\ req'[h].decision = req[h].decision
        /\ req'[h].step = "record" /\ req'[h].outcome = outcome
        /\ \A g \in Handlers : g # h => req'[g] = req[g]
    BY <1>0, <1>3a DEF Request
  <1>5. \A a \in Actions : RowInv(a)'
    <2> TAKE a \in Actions
    <2>1. CASE a = b
      BY <1>0, <1>2, <1>3, <2>1 DEF RowInv, HandlerInv, Left, ApprovalRole, row
    <2>2. CASE a # b
      BY <1>2, <1>3, <2>2, RowFrame DEF IInv, row
    <2> QED
      BY <2>1, <2>2
  <1>6. HolderIsAlone'
    BY <1>0, <1>2, <1>4 DEF IInv, HolderIsAlone, Holds
  <1>7. \A g \in Handlers : HandlerInv(g, req[g].act)'
    <2> TAKE g \in Handlers
    <2>1. CASE g = h
      <3>1. Left(h, b, "approved") /\ req[h].decision = "approve"
        BY <1>0, <1>2 DEF HandlerInv
      <3>2. /\ status'[b] = "approved" /\ decidedBy'[b] = {req'[h].user}
            /\ req'[h].decision = "approve"
            /\ outcome = "ok" => effects'[b] = 1
        BY <1>1, <1>2, <1>3, <1>4, <3>1 DEF Left, row
      <3> QED
        BY <1>4, <2>1, <3>2 DEF HandlerInv, Holds, Left
    <2>2. CASE g # h /\ req[g].act = b
      <3>1. ~Holds(g, b) /\ HandlerInv(g, b)
        BY <1>0, <1>2, <2>2 DEF IInv, HolderIsAlone
      <3> QED
        BY <1>2, <1>4, <2>2, <3>1 DEF HandlerInv, Holds, Left, Verdict, row
    <2>3. CASE g # h /\ req[g].act # b
      <3>1. req[g].act \in Actions
        BY DEF IInv, TypeOK, Request
      <3> QED
        BY <1>2, <1>3, <1>4, <2>3, <3>1, HandlerFrame DEF IInv, row
    <2> QED
      BY <2>1, <2>2, <2>3
  <1> QED
    BY <1>5, <1>6, <1>7 DEF IInv

\* The result is stored over "approved": nobody else has said anything of the row.
LEMMA RecordKeeps ==
  ASSUME IInv, TypeOK', NEW h \in Handlers, RecordResult(h)
  PROVE  IInv'
  <1> DEFINE b   == req[h].act
             new == IF req[h].outcome = "ok" THEN "executed" ELSE "failed"
  <1>0. b \in Actions /\ req[h] \in Request /\ HandlerInv(h, b) /\ RowInv(b)
    BY DEF IInv, TypeOK, Request
  <1>1. /\ status' = [status EXCEPT ![b] = new]
        /\ req' = [req EXCEPT ![h].step = "audit"]
        /\ UNCHANGED <<tool, decidedBy, effects, audit>>
        /\ Holds(h, b)
    BY DEF RecordResult, Goto, Holds
  <1>2. /\ status'[b] = new
        /\ \A a \in Actions : a # b => status'[a] = status[a]
    BY <1>0, <1>1 DEF IInv, TypeOK
  <1>2a. /\ req'[h] = [req[h] EXCEPT !.step = "audit"]
         /\ \A g \in Handlers : g # h => req'[g] = req[g]
    BY <1>1 DEF IInv, TypeOK
  <1>3. /\ req'[h].act = b /\ req'[h].user = req[h].user
        /\ req'[h].decision = req[h].decision
        /\ req'[h].step = "audit" /\ req'[h].outcome = req[h].outcome
        /\ \A g \in Handlers : g # h => req'[g] = req[g]
    BY <1>0, <1>2a DEF Request
  <1>4. /\ Left(h, b, "approved") /\ req[h].decision = "approve"
        /\ req[h].outcome \in {"ok", "error"}
        /\ req[h].outcome = "ok" => effects[b] = 1
    BY <1>0, <1>1 DEF HandlerInv, RecordResult
  <1>5. \A a \in Actions : RowInv(a)'
    <2> TAKE a \in Actions
    <2>1. CASE a = b
      BY <1>0, <1>1, <1>2, <1>4, <2>1 DEF RowInv, Left, ApprovalRole
    <2>2. CASE a # b
      BY <1>1, <1>2, <2>2, RowFrame DEF IInv
    <2> QED
      BY <2>1, <2>2
  <1>6. HolderIsAlone'
    BY <1>0, <1>1, <1>3 DEF IInv, HolderIsAlone, Holds
  <1>7. \A g \in Handlers : HandlerInv(g, req[g].act)'
    <2> TAKE g \in Handlers
    <2>1. CASE g = h
      BY <1>0, <1>1, <1>2, <1>3, <1>4, <2>1 DEF HandlerInv, Holds, Left, Verdict
    <2>2. CASE g # h /\ req[g].act = b
      <3>1. ~Holds(g, b) /\ HandlerInv(g, b)
        BY <1>0, <1>1, <2>2 DEF IInv, HolderIsAlone
      <3> QED
        BY <1>1, <1>2, <1>3, <1>4, <2>2, <3>1
        DEF HandlerInv, Holds, Left, Verdict, ApprovalRole
    <2>3. CASE g # h /\ req[g].act # b
      <3>1. req[g].act \in Actions
        BY DEF IInv, TypeOK, Request
      <3> QED
        BY <1>1, <1>2, <1>3, <2>3, <3>1, HandlerFrame DEF IInv
    <2> QED
      BY <2>1, <2>2, <2>3
  <1> QED
    BY <1>5, <1>6, <1>7 DEF IInv

\* The last step of a handler: it says of the row what it left there.
LEMMA AuditKeeps ==
  ASSUME IInv, TypeOK', NEW h \in Handlers, AuditDecision(h)
  PROVE  IInv'
  <1> DEFINE b == req[h].act
             v == Verdict(h)
  <1>0. /\ b \in Actions /\ HandlerInv(h, b) /\ req[h].step = "audit"
        /\ \A a \in Actions : RowInv(a)
    BY DEF IInv, TypeOK, Request, AuditDecision
  <1>1. v \in {"ok", "failed", "rejected"}
    BY DEF Verdict
  <1>2. Left(h, b, IF v = "ok" THEN "executed" ELSE v)
    BY <1>0 DEF HandlerInv
  <1>3. /\ UNCHANGED <<row, effects>>
        /\ \A a \in Actions : audit'[a] = audit[a] \/ (a = b /\ audit'[a] = audit[a] \union {v})
    BY <1>0 DEF AuditDecision, IInv, TypeOK
  <1>4. /\ req'[h] = Ended(b, req[h].user, v)
        /\ \A g \in Handlers : g # h => req'[g] = req[g]
    BY DEF AuditDecision, Finish, IInv, TypeOK
  <1>5. /\ req'[h].act = b /\ req'[h].user = req[h].user
        /\ req'[h].step = "done" /\ req'[h].answer = v
    BY <1>4 DEF Ended, Blank
  <1>6. \A a \in Actions : RowInv(a)'
    <2> TAKE a \in Actions
    <2>1. CASE audit'[a] = audit[a]
      BY <1>0, <1>3, <2>1, RowFrame DEF row
    <2>2. CASE a = b /\ audit'[a] = audit[a] \union {v}
      BY <1>0, <1>1, <1>2, <1>3, <2>2 DEF RowInv, Left, ApprovalRole, row
    <2> QED
      BY <1>3, <2>1, <2>2
  <1>7. HolderIsAlone'
    BY <1>4, <1>5 DEF IInv, HolderIsAlone, Holds
  <1>8. \A g \in Handlers : HandlerInv(g, req[g].act)'
    <2> TAKE g \in Handlers
    <2>1. CASE g = h
      BY <1>1, <1>2, <1>3, <1>5, <2>1 DEF HandlerInv, Holds, Left, row
    <2>2. CASE g # h
      BY <1>3, <1>4, <2>2, HandlerFrame DEF IInv, row
    <2> QED
      BY <2>1, <2>2
  <1> QED
    BY <1>6, <1>7, <1>8 DEF IInv

\* A sweep only touches pending rows, of which no handler has said anything.
LEMMA ExpireKeeps ==
  ASSUME IInv, TypeOK', ExpireDue
  PROVE  IInv'
  <1>1. /\ \A a \in Actions : status'[a] = status[a]
                             \/ (status[a] = "pending" /\ status'[a] = "expired")
        /\ UNCHANGED <<tool, decidedBy, effects, audit, req>>
    BY DEF ExpireDue
  <1>2. \A a \in Actions : RowInv(a)'
    <2> TAKE a \in Actions
    <2>1. CASE status'[a] = status[a]
      BY <1>1, <2>1, RowFrame DEF IInv
    <2>2. CASE status[a] = "pending" /\ status'[a] = "expired"
      BY <1>1, <2>2 DEF IInv, RowInv, ApprovalRole
    <2> QED
      BY <1>1, <2>1, <2>2
  <1>3. \A h \in Handlers : HandlerInv(h, req[h].act)'
    <2> TAKE h \in Handlers
    <2>0. req[h].act \in Actions /\ HandlerInv(h, req[h].act) /\ req'[h] = req[h]
      BY <1>1 DEF IInv, TypeOK, Request
    <2>1. CASE status'[req[h].act] = status[req[h].act]
      BY <1>1, <2>0, <2>1, HandlerFrame
    <2>2. CASE status[req[h].act] = "pending" /\ status'[req[h].act] = "expired"
      BY <1>1, <2>0, <2>2 DEF HandlerInv, Holds, Left, Verdict, ApprovalRole
    <2> QED
      BY <1>1, <2>0, <2>1, <2>2
  <1>4. HolderIsAlone'
    BY <1>1 DEF IInv, HolderIsAlone, Holds
  <1> QED
    BY <1>2, <1>3, <1>4 DEF IInv

LEMMA SilentKeeps ==
  ASSUME IInv, TypeOK', UNCHANGED <<row, effects, audit, req>>
  PROVE  IInv'
  <1>1. \A a \in Actions : RowInv(a)'
    BY RowFrame DEF IInv, row
  <1>2. \A h \in Handlers : HandlerInv(h, req[h].act)'
    BY HandlerFrame DEF IInv, row
  <1>3. HolderIsAlone'
    BY DEF IInv, HolderIsAlone, Holds
  <1> QED
    BY <1>1, <1>2, <1>3 DEF IInv

LEMMA InvStep == IInv /\ [Next]_vars => IInv'
  <1> SUFFICES ASSUME IInv, [Next]_vars
               PROVE  IInv'
    OBVIOUS
  <1>0. TypeOK'
    BY TypeStep DEF IInv
  <1>1. ASSUME NEW a \in Actions, NEW u \in Users, NEW t \in Gated, Enqueue(a, u, t)
        PROVE  IInv'
    <2>1. Queue(a, u, t) /\ UNCHANGED req
      BY <1>1 DEF Enqueue
    <2> QED
      BY <1>0, <2>1, QueueKeeps DEF IInv, HolderIsAlone, Holds
  <1>2. ASSUME NEW h \in Handlers, NEW a \in Actions, NEW u \in Users, NEW t \in Gated,
               EnqueueAndOffer(h, a, u, t)
        PROVE  IInv'
    <2>1. /\ req'[h].step = "queued" /\ req'[h].act = a
          /\ \A g \in Handlers : g # h => req'[g] = req[g]
      BY <1>2 DEF EnqueueAndOffer, IInv, TypeOK, Blank
    <2>2. Queue(a, u, t) /\ status'[a] # "absent"
      BY <1>2 DEF EnqueueAndOffer, Queue, IInv, TypeOK
    <2>3. HandlerInv(h, req[h].act)'
      BY <2>1, <2>2 DEF HandlerInv, Holds
    <2>4. HolderIsAlone'
      BY <2>1 DEF IInv, HolderIsAlone, Holds
    <2> QED
      BY <1>0, <2>1, <2>2, <2>3, <2>4, QueueKeeps DEF IInv
  <1>3. ASSUME NEW h \in Handlers, OfferDialog(h)
        PROVE  IInv'
    <2>0. UNCHANGED <<row, effects, audit>> /\ req[h].step = "queued"
      BY <1>3 DEF OfferDialog
    <2>1. CASE Finish(h, "pending")
      BY <1>0, <2>0, <2>1, FinishKeeps
    <2>2. CASE Goto(h, "asking")
      <3>1. req' = [req EXCEPT ![h] = [req[h] EXCEPT !.step = "asking"]]
        BY <2>2 DEF Goto
      <3>2. /\ [req[h] EXCEPT !.step = "asking"].step = "asking"
            /\ req'[h].step = "asking" /\ req'[h].act = req[h].act
        BY <3>1 DEF IInv, TypeOK, Request
      <3>3. HandlerInv(h, req[h].act)'
        BY <2>0, <3>2 DEF IInv, HandlerInv, Holds, row
      <3> QED
        BY <1>0, <2>0, <3>1, <3>2, <3>3, HandlerOnly DEF IInv
    <2> QED
      BY <1>3, <2>1, <2>2 DEF OfferDialog
  <1>4. ASSUME NEW h \in Handlers, DismissDialog(h)
        PROVE  IInv'
    BY <1>0, <1>4, FinishKeeps DEF DismissDialog
  <1>5. ASSUME NEW h \in Handlers, Fail(h)
        PROVE  IInv'
    BY <1>0, <1>5, FinishKeeps DEF Fail
  <1>6. ASSUME NEW h \in Handlers, NEW s \in Surfaces, NEW a \in Actions,
               NEW u \in Users, NEW d \in Decisions, Decide(h, s, a, u, d)
        PROVE  IInv'
    BY <1>0, <1>6, AdmitKeeps DEF Decide
  <1>7. ASSUME NEW h \in Handlers, NEW d \in Decisions, AnswerDialog(h, d)
        PROVE  IInv'
    <2>1. req[h].act \in Actions /\ req[h].user \in Users /\ "elicit" \in Surfaces
      BY DEF IInv, TypeOK, Request, Surfaces
    <2>2. Admit(h, "elicit", req[h].act, req[h].user, d)
      BY <1>7 DEF AnswerDialog
    <2> QED
      BY <1>0, <2>1, <2>2, AdmitKeeps
  <1>8. ASSUME NEW h \in Handlers, NEW a \in Actions, NEW u \in Users,
               RefuseLocked(h, a, u)
        PROVE  IInv'
    <2>1. /\ req' = [req EXCEPT ![h] = Ended(a, u, "locked")]
          /\ UNCHANGED <<row, effects, audit>>
      BY <1>8 DEF RefuseLocked
    <2>2. Ended(a, u, "locked").step = "done" /\ Ended(a, u, "locked").answer = "locked"
      BY DEF Ended, Blank
    <2>3. HandlerInv(h, req[h].act)'
      BY <2>1, <2>2 DEF IInv, TypeOK, HandlerInv, Holds
    <2> QED
      BY <1>0, <2>1, <2>2, <2>3, HandlerOnly DEF IInv
  <1>9. ASSUME NEW h \in Handlers, Work(h)
        PROVE  IInv'
    BY <1>0, <1>3, <1>9, ClaimKeeps, ReadListKeeps, ExecuteKeeps, RecordKeeps, AuditKeeps DEF Work
  <1>10. CASE ExpireDue
    BY <1>0, <1>10, ExpireKeeps
  <1>11. CASE \/ \E a \in Actions : TimePasses(a)
              \/ \E u \in Users : ToggleUser(u)
              \/ UNCHANGED vars
    <2>1. UNCHANGED <<row, effects, audit, req>>
      BY <1>11 DEF TimePasses, ToggleUser, vars, row
    <2> QED
      BY <1>0, <2>1, SilentKeeps
  <1> QED
    BY <1>1, <1>2, <1>4, <1>5, <1>6, <1>7, <1>8, <1>9, <1>10, <1>11 DEF Next

LEMMA InvAlways == Spec => []IInv
  <1> QED
    BY InvInit, InvStep, PTL DEF Spec

------------------------------------------------------------------------
(* What follows *)

\* At most one execution per approval and none without it, for any number of
\* rows, racing handlers and users, wherever handlers fail.
THEOREM HappensOnce == Spec => []OnlyApprovedHappensOnce
  <1>1. IInv => OnlyApprovedHappensOnce
    BY DEF IInv, RowInv, OnlyApprovedHappensOnce
  <1> QED
    BY <1>1, InvAlways, PTL

\* No approver is ever told something the row does not bear out, then or later.
THEOREM AnswersAreTrue == Spec => []AnswersStayTrue
  <1>1. IInv => AnswersStayTrue
    <2> SUFFICES ASSUME IInv, NEW h \in Handlers, req[h].step = "done"
                 PROVE  LET a == req[h].act IN
                        /\ req[h].answer = "ok"       => status[a] = "executed" /\ decidedBy[a] = {req[h].user}
                        /\ req[h].answer = "failed"   => status[a] = "failed" /\ decidedBy[a] = {req[h].user}
                        /\ req[h].answer = "rejected" => status[a] = "rejected" /\ effects[a] = 0
                        /\ req[h].answer = "conflict" => status[a] \notin {"absent", "pending"}
      BY DEF AnswersStayTrue
    <2>1. HandlerInv(h, req[h].act) /\ RowInv(req[h].act)
      BY DEF IInv, TypeOK, Request
    <2> QED
      BY <2>1 DEF HandlerInv, RowInv, Left
  <1> QED
    BY <1>1, InvAlways, PTL

\* The audit log and the row never disagree.
THEOREM AuditIsTrue == Spec => []AuditAgrees
  <1>1. IInv => AuditAgrees
    BY DEF IInv, RowInv, AuditAgrees
  <1> QED
    BY <1>1, InvAlways, PTL

\* Nobody without the tool's role is ever recorded as having decided a row.
THEOREM DecidersHaveRole == Spec => []DeciderHasRole
  <1>1. IInv => DeciderHasRole
    BY DEF IInv, RowInv, DeciderHasRole
  <1> QED
    BY <1>1, InvAlways, PTL

\* What one step can do to a row, given the invariant: nothing; be inserted, be
\* decided, expire; or, once approved, happen or be closed.
LEMMA RowStep ==
  ASSUME IInv, [Next]_vars, NEW a \in Actions
  PROVE  \/ /\ status'[a] = status[a] /\ decidedBy'[a] = decidedBy[a]
            /\ effects'[a] = effects[a]
         \/ /\ status[a] = "absent" /\ status'[a] = "pending"
            /\ decidedBy'[a] = decidedBy[a] /\ effects'[a] = effects[a]
         \/ /\ status[a] = "pending" /\ status'[a] \in {"approved", "rejected"}
            /\ effects'[a] = effects[a]
         \/ /\ status[a] = "pending" /\ status'[a] = "expired"
            /\ decidedBy'[a] = decidedBy[a] /\ effects'[a] = effects[a]
         \/ /\ status[a] = "approved" /\ status'[a] = "approved"
            /\ decidedBy'[a] = decidedBy[a]
            /\ effects[a] = 0 /\ effects'[a] = 1
         \/ /\ status[a] = "approved" /\ status'[a] \in {"executed", "failed"}
            /\ status'[a] = "executed" => effects[a] = 1
            /\ decidedBy'[a] = decidedBy[a] /\ effects'[a] = effects[a]
  <1> DEFINE Same == UNCHANGED <<status, decidedBy, effects>>
  <1>0. TypeOK /\ RowInv(a)
    BY DEF IInv
  <1>1. CASE Same
    BY <1>1
  <1>2. ASSUME NEW b \in Actions, NEW u \in Users, NEW t \in Gated, Queue(b, u, t)
        PROVE  /\ status'[a] = status[a] \/ (status[a] = "absent" /\ status'[a] = "pending")
               /\ UNCHANGED <<decidedBy, effects>>
    BY <1>0, <1>2 DEF Queue, TypeOK
  <1>3. ASSUME NEW h \in Handlers, Claim(h)
        PROVE  \/ status'[a] = status[a] /\ decidedBy'[a] = decidedBy[a]
                                         /\ UNCHANGED effects
               \/ /\ status[a] = "pending" /\ status'[a] \in {"approved", "rejected"}
                  /\ UNCHANGED effects
    BY <1>0, <1>3 DEF Claim, TypeOK
  <1>4. ASSUME NEW h \in Handlers, Execute(h)
        PROVE  \/ Same
               \/ status'[a] = status[a] /\ decidedBy'[a] = decidedBy[a]
                                         /\ effects'[a] = effects[a]
               \/ /\ status[a] = "approved" /\ status'[a] = "approved"
                  /\ decidedBy'[a] = decidedBy[a] /\ effects[a] = 0 /\ effects'[a] = 1
    <2>1. /\ HandlerInv(h, req[h].act) /\ req[h].step \in {"execute", "change"}
          /\ UNCHANGED row
      BY <1>4 DEF IInv, Execute
    <2>2. effects[req[h].act] = 0 /\ status[req[h].act] = "approved"
      BY <2>1 DEF HandlerInv, Holds, Left
    <2>3. \/ effects' = effects
          \/ effects' = [effects EXCEPT ![req[h].act] = @ + 1]
      BY <1>4 DEF Execute
    <2> QED
      BY <1>0, <2>1, <2>2, <2>3 DEF TypeOK, row
  <1>5. ASSUME NEW h \in Handlers, RecordResult(h)
        PROVE  \/ status'[a] = status[a] /\ decidedBy'[a] = decidedBy[a]
                                         /\ UNCHANGED effects
               \/ /\ status[a] = "approved" /\ status'[a] \in {"executed", "failed"}
                  /\ status'[a] = "executed" => effects[a] = 1
                  /\ decidedBy'[a] = decidedBy[a] /\ UNCHANGED effects
    <2>1. HandlerInv(h, req[h].act) /\ req[h].step = "record"
      BY <1>5 DEF IInv, RecordResult
    <2>2. /\ status[req[h].act] = "approved"
          /\ req[h].outcome = "ok" => effects[req[h].act] = 1
      BY <2>1 DEF HandlerInv, Holds, Left
    <2> QED
      BY <1>0, <1>5, <2>2 DEF RecordResult, TypeOK
  <1>6. CASE ExpireDue
    BY <1>0, <1>6 DEF ExpireDue, TypeOK
  <1>7. ASSUME NEW h \in Handlers, Work(h)
        PROVE  \/ Same \/ Claim(h) \/ Execute(h) \/ RecordResult(h)
    BY <1>7 DEF Work, OfferDialog, ReadList, AuditDecision, row
  <1>8. CASE /\ ~ \E h \in Handlers : Work(h)
             /\ ~ \E b \in Actions, u \in Users, t \in Gated : Queue(b, u, t)
             /\ ~ ExpireDue
    <2>1. Same
      BY <1>8 DEF Next, vars, row, Enqueue, EnqueueAndOffer, TimePasses, ToggleUser,
                  Decide, Admit, RefuseLocked, AnswerDialog, DismissDialog, Fail
    <2> QED
      BY <1>1, <2>1
  <1> QED
    BY <1>1, <1>2, <1>3, <1>4, <1>5, <1>6, <1>7, <1>8

\* Once a row is decided, no step of anyone undecides or repeats it.
THEOREM DecisionsAreFinal == Spec => DecisionIsFinal
  <1>1. IInv /\ [Next]_vars =>
          [\A a \in Actions :
             /\ decidedBy[a] # {} => decidedBy'[a] = decidedBy[a]
             /\ status[a] \in {"rejected", "executed", "failed", "expired"} =>
                  status'[a] = status[a] /\ effects'[a] = effects[a]]_vars
    <2> SUFFICES ASSUME IInv, [Next]_vars, NEW a \in Actions
                 PROVE  /\ decidedBy[a] # {} => decidedBy'[a] = decidedBy[a]
                        /\ status[a] \in {"rejected", "executed", "failed", "expired"} =>
                             status'[a] = status[a] /\ effects'[a] = effects[a]
      OBVIOUS
    <2>1. RowInv(a)
      BY DEF IInv
    <2> QED
      BY <2>1, RowStep DEF RowInv
  <1> QED
    BY <1>1, InvAlways, PTL DEF Spec, DecisionIsFinal

\* Only the executor makes anything happen, to the row it holds; for a membership tool
\* at its last step.
LEMMA EffectStep ==
  ASSUME TypeOK, [Next]_vars, NEW a \in Actions, effects'[a] # effects[a]
  PROVE  \E h \in Handlers :
           /\ req[h].act = a
           /\ req[h].step = IF tool[a] \in AccessTools THEN "change" ELSE "execute"
  <1>1. effects' # effects
    OBVIOUS
  <1>2. PICK h \in Handlers : Execute(h)
    BY <1>1 DEF Next, vars, row, Enqueue, EnqueueAndOffer, Queue, TimePasses, ToggleUser,
                Decide, Admit, RefuseLocked, AnswerDialog, DismissDialog, Fail, Work, ReadList,
                OfferDialog, Claim, RecordResult, AuditDecision, ExpireDue
  <1>3. PICK happens \in BOOLEAN :
          effects' = IF happens THEN [effects EXCEPT ![req[h].act] = @ + 1] ELSE effects
    BY <1>2 DEF Execute
  <1>4. a = req[h].act
    BY <1>1, <1>3 DEF TypeOK
  <1> QED
    BY <1>2, <1>4 DEF Execute

\* The claim puts a row among those whose requester is off only while the requester is,
\* and a handler passes its look at the fresh list only while the requester is not.
LEMMA KillSwitchStep ==
  ASSUME IInv, KillSwitchInv, [Next]_vars
  PROVE  KillSwitchInv'
  <1> USE DEF KillSwitchInv
  <1>0. TypeOK /\ \A h \in Handlers : req[h] \in Request /\ req[h].act \in Actions
    BY DEF IInv, TypeOK, Request
  <1> DEFINE Steady == /\ UNCHANGED <<off, disabled, requester>>
                       /\ \A a \in off : status'[a] \notin {"absent", "pending"}
             NoneNew == \A h \in Handlers : req'[h].step = "change" => req'[h] = req[h]
  <1>1. Steady /\ NoneNew => KillSwitchInv'
    OBVIOUS
  <1>2. ASSUME NEW b \in Actions, NEW u \in Users, NEW t \in Gated, Queue(b, u, t)
        PROVE  /\ \A a \in off : requester'[a] \in disabled' /\ status'[a] \notin {"absent", "pending"}
               /\ off' = off
    BY <1>0, <1>2 DEF Queue, TypeOK
  <1>3. ASSUME NEW a \in Actions, NEW u \in Users, NEW t \in Gated, Enqueue(a, u, t)
        PROVE  KillSwitchInv'
    BY <1>2, <1>3 DEF Enqueue
  <1>4. ASSUME NEW h \in Handlers, NEW a \in Actions, NEW u \in Users, NEW t \in Gated,
               EnqueueAndOffer(h, a, u, t)
        PROVE  KillSwitchInv'
    <2>1. Queue(a, u, t) /\ req'[h].step = "queued" /\ \A g \in Handlers : g # h => req'[g] = req[g]
      BY <1>0, <1>4 DEF EnqueueAndOffer, Blank, TypeOK
    <2> QED
      BY <1>2, <2>1
  <1>5. ASSUME NEW h \in Handlers, NEW r, req' = [req EXCEPT ![h] = r], r.step # "change",
               UNCHANGED <<off, disabled, requester, status>>
        PROVE  KillSwitchInv'
    BY <1>0, <1>1, <1>5 DEF TypeOK
  <1>6. ASSUME NEW h \in Handlers, NEW ans, Finish(h, ans),
               UNCHANGED <<off, disabled, requester, status>>
        PROVE  KillSwitchInv'
    <2>1. Ended(req[h].act, req[h].user, ans).step = "done"
      BY DEF Ended, Blank
    <2> QED
      BY <1>5, <1>6, <2>1 DEF Finish
  <1>7. ASSUME NEW h \in Handlers, NEW s \in Steps \ {"change"}, Goto(h, s)
        PROVE  NoneNew
    BY <1>0, <1>7 DEF Goto, TypeOK, Request
  <1>8. ASSUME NEW h \in Handlers, NEW s \in Surfaces, NEW a \in Actions,
               NEW u \in Users, NEW d \in Decisions, Admit(h, s, a, u, d)
        PROVE  KillSwitchInv'
    <2> DEFINE r == IF MayUse(u, tool[a])
                    THEN [Blank(s, a, u) EXCEPT
                            !.step = "claim", !.decision = d,
                            !.requesterOk = MayUse(requester[a], tool[a])]
                    ELSE Ended(a, u, "denied")
    <2>1. req' = [req EXCEPT ![h] = r] /\ UNCHANGED <<off, disabled, requester, status>>
      BY <1>8 DEF Admit, row
    <2>2. r.step # "change"
      BY DEF Ended, Blank
    <2> HIDE DEF r
    <2> QED
      BY <1>5, <2>1, <2>2
  <1>9. ASSUME NEW h \in Handlers, NEW d \in Decisions, AnswerDialog(h, d)
        PROVE  KillSwitchInv'
    BY <1>0, <1>8, <1>9 DEF AnswerDialog, Request, Surfaces
  <1>10. ASSUME NEW h \in Handlers, NEW a \in Actions, NEW u \in Users, RefuseLocked(h, a, u)
         PROVE  KillSwitchInv'
    <2>1. Ended(a, u, "locked").step # "change"
      BY DEF Ended, Blank
    <2> QED
      BY <1>5, <1>10, <2>1 DEF RefuseLocked, row
  <1>11. ASSUME NEW h \in Handlers, OfferDialog(h) \/ DismissDialog(h) \/ Fail(h)
         PROVE  KillSwitchInv'
    <2>1. UNCHANGED <<off, disabled, requester, status>>
      BY <1>11 DEF OfferDialog, DismissDialog, Fail, row
    <2>2. Goto(h, "asking") \/ Finish(h, "pending") \/ Finish(h, "error")
      BY <1>11 DEF OfferDialog, DismissDialog, Fail
    <2> QED
      BY <1>1, <1>6, <1>7, <2>1, <2>2 DEF Steps
  <1>12. ASSUME NEW h \in Handlers, Claim(h)
         PROVE  KillSwitchInv'
    <2> DEFINE b == req[h].act
    <2>1. CASE status[b] # "pending"
      BY <1>6, <1>12, <2>1 DEF Claim
    <2>2. CASE status[b] = "pending"
      <3>1. \A g \in Handlers : req[g].step = "change" => req[g].act # b
        BY <2>2 DEF IInv, HandlerInv, Holds, Left
      <3>2. NoneNew
        BY <1>7, <1>12, <2>2 DEF Claim, Steps
      <3>3. /\ UNCHANGED <<disabled, requester>> /\ status'[b] \in {"approved", "rejected"}
            /\ \A a \in Actions : a # b => status'[a] = status[a]
            /\ off' = off \/ (off' = off \union {b} /\ requester[b] \in disabled)
        BY <1>0, <1>12, <2>2 DEF Claim, TypeOK
      <3>4. off \subseteq Actions
        BY <1>0 DEF TypeOK
      <3> QED
        BY <3>1, <3>2, <3>3, <3>4
    <2> QED
      BY <2>1, <2>2
  <1>13. ASSUME NEW h \in Handlers, ReadList(h)
         PROVE  KillSwitchInv'
    <2>1. UNCHANGED <<off, disabled, requester, status>>
      BY <1>13 DEF ReadList, row
    <2>2. CASE RequesterAllowed(h, req[h].act)
      <3>1. requester[req[h].act] \notin disabled
        BY <2>2 DEF RequesterAllowed, MayUse
      <3>2. req'[h].act = req[h].act /\ \A g \in Handlers : g # h => req'[g] = req[g]
        BY <1>0, <1>13, <2>2 DEF ReadList, TypeOK, Request
      <3> QED
        BY <2>1, <3>1, <3>2
    <2>3. CASE ~RequesterAllowed(h, req[h].act)
      <3> DEFINE r == [req[h] EXCEPT !.step = "record", !.outcome = "error"]
      <3>1. req' = [req EXCEPT ![h] = r] /\ r.step # "change"
        BY <1>0, <1>13, <2>3 DEF ReadList, Request
      <3> HIDE DEF r
      <3> QED
        BY <1>5, <2>1, <3>1
    <2> QED
      BY <2>2, <2>3
  <1>14. ASSUME NEW h \in Handlers, Execute(h)
         PROVE  KillSwitchInv'
    <2>1. PICK outcome \in {"ok", "error"} :
            req' = [req EXCEPT ![h].step = "record", ![h].outcome = outcome]
      BY <1>14 DEF Execute
    <2> DEFINE r == [req[h] EXCEPT !.step = "record", !.outcome = outcome]
    <2>2. req' = [req EXCEPT ![h] = r] /\ r.step # "change"
      BY <1>0, <2>1 DEF Request
    <2>3. UNCHANGED <<off, disabled, requester, status>>
      BY <1>14 DEF Execute, row
    <2> HIDE DEF r
    <2> QED
      BY <1>5, <2>2, <2>3
  <1>15. ASSUME NEW h \in Handlers, RecordResult(h)
         PROVE  KillSwitchInv'
    <2>1. NoneNew
      BY <1>7, <1>15 DEF RecordResult, Steps
    <2>2. UNCHANGED <<off, disabled, requester>>
      BY <1>15 DEF RecordResult
    <2>3. \A a \in Actions : status'[a] = status[a] \/ status'[a] \in {"executed", "failed"}
      BY <1>0, <1>15 DEF RecordResult, TypeOK
    <2>4. off \subseteq Actions
      BY <1>0 DEF TypeOK
    <2> QED
      BY <1>1, <2>1, <2>2, <2>3, <2>4
  <1>16. ASSUME NEW h \in Handlers, AuditDecision(h)
         PROVE  KillSwitchInv'
    <2>1. UNCHANGED <<off, disabled, requester, status>>
      BY <1>16 DEF AuditDecision, row
    <2> QED
      BY <1>6, <1>16, <2>1 DEF AuditDecision
  <1>17. CASE ExpireDue
    <2>1. UNCHANGED <<off, disabled, requester, req>> /\ off \subseteq Actions
      BY <1>0, <1>17 DEF ExpireDue, TypeOK
    <2>2. \A a \in Actions : status'[a] = status[a] \/ status'[a] = "expired"
      BY <1>17 DEF ExpireDue
    <2> QED
      BY <2>1, <2>2
  <1>18. ASSUME NEW u \in Users, ToggleUser(u)
         PROVE  KillSwitchInv'
    BY <1>18 DEF ToggleUser, row
  <1>19. CASE (\E a \in Actions : TimePasses(a)) \/ UNCHANGED vars
    BY <1>19 DEF TimePasses, vars, row
  <1>20. ASSUME NEW h \in Handlers, Work(h)
         PROVE  KillSwitchInv'
    BY <1>11, <1>12, <1>13, <1>14, <1>15, <1>16, <1>20 DEF Work
  <1> QED
    BY <1>3, <1>4, <1>8, <1>9, <1>10, <1>11, <1>17, <1>18, <1>19, <1>20 DEF Next, Decide

\* The executor's fresh reading of the access list: a membership action never takes effect
\* for a requester who was switched off when it was approved and has stayed so.
THEOREM KillSwitchReachesExecutor == Spec => DisabledRequesterChangesNothing
  <1>1. Init => KillSwitchInv
    BY ConstantsExist DEF Init, KillSwitchInv, Idle, Blank
  <1>2. IInv /\ KillSwitchInv /\ [Next]_vars => KillSwitchInv'
    BY KillSwitchStep
  <1>3. IInv /\ KillSwitchInv /\ [Next]_vars =>
          [\A a \in Actions :
             tool[a] \in AccessTools /\ a \in off => effects'[a] = effects[a]]_vars
    BY EffectStep DEF KillSwitchInv, IInv
  <1> QED
    BY <1>1, <1>2, <1>3, InvAlways, PTL DEF Spec, DisabledRequesterChangesNothing

\* The handlers, their races and their failures implement the plain life cycle of
\* OutboxPromise: each step moves one row as it allows, or expires some, or none.
THEOREM Implements == Spec => KeepsThePromise
  <1>1. Init => Promise!Init
    BY DEF Init, Promise!Init
  <1>2. IInv /\ [Next]_vars => [Promise!Next]_(Promise!vars)
    <2> SUFFICES ASSUME IInv, [Next]_vars
                 PROVE  Promise!Next \/ UNCHANGED <<status, effects>>
      BY DEF Promise!vars
    <2> USE DEF Promise!Next, Promise!Move
    <2>0. TypeOK /\ \A h \in Handlers : HandlerInv(h, req[h].act) /\ req[h].act \in Actions
      BY DEF IInv, TypeOK, Request
    <2>1. ASSUME NEW a \in Actions, NEW u \in Users, NEW t \in Gated, Queue(a, u, t)
          PROVE  Promise!Submit(a)
      BY <2>1 DEF Queue, Promise!Submit
    <2>2. ASSUME NEW h \in Handlers, Claim(h)
          PROVE  \/ Promise!Approve(req[h].act) \/ Promise!Reject(req[h].act)
                 \/ UNCHANGED <<status, effects>>
      BY <2>0, <2>2 DEF Claim, Promise!Approve, Promise!Reject
    <2>3. ASSUME NEW h \in Handlers, Execute(h)
          PROVE  Promise!Happen(req[h].act) \/ UNCHANGED <<status, effects>>
      <3>1. status[req[h].act] = "approved" /\ effects[req[h].act] = 0 /\ UNCHANGED status
        BY <2>0, <2>3 DEF Execute, HandlerInv, Holds, Left, row
      <3>2. \/ effects' = effects
            \/ effects' = [effects EXCEPT ![req[h].act] = @ + 1]
        BY <2>3 DEF Execute
      <3>3. [effects EXCEPT ![req[h].act] = @ + 1] = [effects EXCEPT ![req[h].act] = 1]
        BY <2>0, <3>1 DEF TypeOK
      <3> QED
        BY <3>1, <3>2, <3>3 DEF Promise!Happen
    <2>4. ASSUME NEW h \in Handlers, RecordResult(h)
          PROVE  Promise!Succeed(req[h].act) \/ Promise!GiveUp(req[h].act)
      <3>1. status[req[h].act] = "approved" /\ (req[h].outcome = "ok" => effects[req[h].act] = 1)
        BY <2>0, <2>4 DEF RecordResult, HandlerInv, Holds, Left
      <3> QED
        BY <2>4, <3>1 DEF RecordResult, Promise!Succeed, Promise!GiveUp
    <2>5. CASE ExpireDue
      <3> DEFINE due == {a \in Actions : status[a] = "pending" /\ past[a]}
      <3>1. due \in SUBSET {a \in Actions : status[a] = "pending"}
        OBVIOUS
      <3>2. /\ status' = [a \in Actions |-> IF a \in due THEN "expired" ELSE status[a]]
            /\ UNCHANGED effects
        BY <2>5 DEF ExpireDue
      <3> QED
        BY <3>1, <3>2 DEF Promise!Expire
    <2>6. CASE /\ ~ \E h \in Handlers : Claim(h) \/ Execute(h) \/ RecordResult(h)
               /\ ~ \E a \in Actions, u \in Users, t \in Gated : Queue(a, u, t)
               /\ ~ ExpireDue
      BY <2>6 DEF Next, vars, row, Enqueue, EnqueueAndOffer, TimePasses, ToggleUser,
                  Decide, Admit, RefuseLocked, AnswerDialog, DismissDialog, Fail,
                  Work, OfferDialog, ReadList, AuditDecision
    <2> QED
      BY <2>0, <2>1, <2>2, <2>3, <2>4, <2>5, <2>6
  <1> QED
    BY <1>1, <1>2, InvAlways, PTL DEF Spec, Promise!Spec, KeepsThePromise

(***************************************************************************)
(* The linked accounts.                                                    *)
(***************************************************************************)

\* A finite set of numbers has a smallest one: the one that the fewest are below.
LEMMA SmallestOf ==
  ASSUME NEW S \in SUBSET Nat, IsFiniteSet(S), S # {}
  PROVE  Min(S) \in S
  <1> DEFINE Below(x) == {y \in S : y < x}
             All == {Below(x) : x \in S}
  <1>1. All \subseteq FiniteSubsetsOf(S) /\ All # {} /\ All \subseteq SUBSET S
    <2>1. All # {} /\ All \subseteq SUBSET S
      OBVIOUS
    <2> HIDE DEF All
    <2> QED
      BY <2>1, FS_FiniteSubsetsOfFinite
  <1>2. PICK B \in All : \A C \in All : <<C, B>> \notin StrictSubsetOrdering(S)
    <2> HIDE DEF All
    <2> QED
      BY <1>1, FS_StrictSubsetOrderingWellFounded, WFMin
  <1>3. PICK x \in S : B = Below(x)
    OBVIOUS
  <1>4. \A y \in S : x <= y
    <2> SUFFICES ASSUME NEW y \in S, y < x PROVE FALSE
      OBVIOUS
    <2>1. Below(y) \in All
      OBVIOUS
    <2>2. \A z \in S : z \in Nat
      OBVIOUS
    <2>3. \A z \in S : z < y => z < x
      BY <2>2
    <2>4. Below(y) \subseteq B
      BY <1>3, <2>3
    <2>5. y \in B /\ y \notin Below(y)
      BY <1>3
    <2>6. <<Below(y), B>> \in StrictSubsetOrdering(S)
      BY <1>1, <2>1, <2>4, <2>5 DEF StrictSubsetOrdering
    <2> QED
      BY <1>2, <2>1, <2>6
  <1> QED
    BY <1>4 DEF Min

\* The invariant.  A row that is not there is blank; an account with a password has no
\* refresh token, in its row or in a job; nothing runs and nothing is shared before the
\* store is opened; and what a job has yet to do is of accounts.
RowFits(a, r) ==
    /\ r \in Rows
    /\ r.status = "unlinked" => r = Unlinked
    /\ Provider[a] = "imap" => r.refresh = 0

ScopeFits(a, s) ==
    /\ s \subseteq Capabilities \X (Projects \union {Every})
    /\ \A g \in s : g[2] = Every => \A h \in s : h[1] = g[1] => h = g

TokenSteps == {"store", "answer", "keep", "flag"}

JobFits(k) ==
    /\ DOMAIN k = DOMAIN NoJob
    /\ k.todo \subseteq Accounts
    /\ k.step = "look" => k.todo # {}
    /\ k.step \in TokenSteps =>
          /\ k.account \in Accounts /\ k.refresh \in 0..MaxGrants
          /\ Provider[k.account] = "imap" => k.refresh = 0
    /\ k.step = "scope" => /\ k.account \in Accounts /\ k.ask \in Asks[k.account]

\* What the user said last is what the store has.
Tells(w, r, s) ==
    w.known => (r # Unlinked) = w.linked /\ r.refresh = w.refresh /\ s = w.scopes

RowsFit  == rows \in [Accounts -> Rows] /\ \A a \in Accounts : RowFits(a, rows[a])
SharesFit == DOMAIN scopes = Accounts /\ \A a \in Accounts : ScopeFits(a, scopes[a])
JobsFit  == DOMAIN job = Jobs /\ \A j \in Jobs : JobFits(job[j])
WordsFit ==
    /\ DOMAIN want = Accounts
    /\ \A a \in Accounts : DOMAIN want[a] = DOMAIN Nothing /\ Tells(want[a], rows[a], scopes[a])
WorldFits == links \subseteq Links /\ alive \subseteq 1..given /\ given \in 1..MaxGrants
BeforeOpening ==
    /\ marked \in BOOLEAN
    /\ ~marked => (\A j \in Jobs : job[j] = NoJob) /\ (\A a \in Accounts : scopes[a] = {})

AccountsInv == RowsFit /\ SharesFit /\ JobsFit /\ WordsFit /\ WorldFits /\ BeforeOpening

LEMMA AccountsInvIsEnough ==
  ASSUME AccountsInv
  PROVE  AccountsTyped /\ StoreIsTheUsers
  <1>1. AccountsTyped
    <2>1. \A a \in Accounts : scopes[a] \in SUBSET (Capabilities \X (Projects \union {Every}))
      BY DEF AccountsInv, SharesFit, ScopeFits
    <2>2. \A a \in Accounts : \A g \in scopes[a] : g[2] = Every => \A h \in scopes[a] : h[1] = g[1] => h = g
      BY DEF AccountsInv, SharesFit, ScopeFits
    <2> QED
      BY <2>1, <2>2, GrantsAssumption DEF AccountsInv, RowsFit, WorldFits, BeforeOpening, AccountsTyped
  <1>2. StoreIsTheUsers
    BY DEF AccountsInv, WordsFit, Tells, StoreIsTheUsers, Linked
  <1> QED
    BY <1>1, <1>2

\* A call that touches one account and one that takes a job on.
Touches(a, r, s, w) ==
    /\ rows' = [rows EXCEPT ![a] = r]
    /\ DOMAIN scopes' = Accounts /\ scopes'[a] = s /\ \A b \in Accounts \ {a} : scopes'[b] = scopes[b]
    /\ DOMAIN want' = Accounts /\ want'[a] = w /\ \A b \in Accounts \ {a} : want'[b] = want[b]

TakesOn(j, k) == DOMAIN job' = Jobs /\ job'[j] = k /\ \A i \in Jobs \ {j} : job'[i] = job[i]

LEMMA OneAccount ==
  ASSUME AccountsInv, NEW a \in Accounts, NEW r, NEW s, NEW w, Touches(a, r, s, w),
         RowFits(a, r), ScopeFits(a, s), DOMAIN w = DOMAIN Nothing, Tells(w, r, s),
         marked' = marked, marked \/ (job' = job /\ scopes' = scopes), JobsFit', WorldFits'
  PROVE  AccountsInv'
  <1>1. rows' \in [Accounts -> Rows] /\ rows'[a] = r /\ \A b \in Accounts \ {a} : rows'[b] = rows[b]
    BY DEF AccountsInv, RowsFit, RowFits, Touches
  <1>2. RowsFit'
    BY <1>1 DEF AccountsInv, RowsFit, RowFits
  <1>3. SharesFit'
    BY DEF AccountsInv, SharesFit, Touches, ScopeFits
  <1>4. WordsFit'
    BY <1>1 DEF AccountsInv, WordsFit, Touches, Tells
  <1>5. BeforeOpening'
    BY DEF AccountsInv, BeforeOpening
  <1> QED
    BY <1>2, <1>3, <1>4, <1>5 DEF AccountsInv

LEMMA NoAccount ==
  ASSUME AccountsInv, UNCHANGED <<rows, scopes, marked, want>>, marked \/ job' = job, JobsFit', WorldFits'
  PROVE  AccountsInv'
  BY DEF AccountsInv, RowsFit, RowFits, SharesFit, ScopeFits, WordsFit, Tells, BeforeOpening

LEMMA OneJob ==
  ASSUME JobsFit, NEW j \in Jobs, NEW k, TakesOn(j, k), JobFits(k)
  PROVE  JobsFit'
  BY DEF JobsFit, JobFits, TakesOn

LEMMA JobTaken ==
  ASSUME JobsFit, NEW j \in Jobs, NEW k, job' = [job EXCEPT ![j] = k]
  PROVE  TakesOn(j, k)
  BY DEF JobsFit, TakesOn

LEMMA NoJobFits == JobFits(NoJob) /\ NoJob.step = "none"
  BY DEF JobFits, NoJob, TokenSteps

LEMMA LookingFits ==
  ASSUME NEW todo \in SUBSET Accounts, todo # {}
  PROVE  JobFits([NoJob EXCEPT !.step = "look", !.todo = todo])
  BY DEF JobFits, NoJob, TokenSteps

\* A call that goes on.
LEMMA OnwardsFits ==
  ASSUME JobsFit, NEW j \in Jobs, NEW todo \in SUBSET Accounts, Onwards(j, todo)
  PROVE  JobsFit'
  <1>1. CASE todo = {}
    <2>1. job' = [job EXCEPT ![j] = NoJob]
      BY <1>1 DEF Onwards
    <2> QED
      BY <2>1, NoJobFits, JobTaken, OneJob
  <1>2. CASE todo # {}
    <2> DEFINE k == [NoJob EXCEPT !.step = "look", !.todo = todo]
    <2>1. JobFits(k) /\ job' = [job EXCEPT ![j] = k]
      BY <1>2, LookingFits DEF Onwards
    <2> HIDE DEF k
    <2> QED
      BY <2>1, JobTaken, OneJob
  <1> QED
    BY <1>1, <1>2

LEMMA EndFits ==
  ASSUME JobsFit, NEW j \in Jobs, End(j)
  PROVE  JobsFit'
  BY NoJobFits, JobTaken, OneJob DEF End

\* A stamped token as a row, the row that is not there, and what Say leaves.
LEMMA StampedFits ==
  ASSUME NEW a \in Accounts, NEW refresh \in 0..MaxGrants, Provider[a] = "imap" => refresh = 0
  PROVE  RowFits(a, Stamped(refresh)) /\ Stamped(refresh) # Unlinked /\ Stamped(refresh).refresh = refresh
  BY DEF RowFits, Rows, Stamped, Unlinked

LEMMA BlankFits ==
  ASSUME NEW a \in Accounts
  PROVE  RowFits(a, Unlinked) /\ ScopeFits(a, {}) /\ Tells(Nothing, Unlinked, {})
  <1>1. RowFits(a, Unlinked)
    BY GrantsAssumption DEF RowFits, Rows, Unlinked
  <1>2. ScopeFits(a, {})
    BY DEF ScopeFits
  <1>3. Tells(Nothing, Unlinked, {})
    BY DEF Tells, Nothing, Unlinked
  <1> QED
    BY <1>1, <1>2, <1>3

Word(w, overwrites, new) == IF w.known /\ ~overwrites THEN new ELSE Unknown

LEMMA SaidAs ==
  ASSUME WordsFit, NEW a \in Accounts, NEW overwrites, NEW new, Say(a, overwrites, new)
  PROVE  DOMAIN want' = Accounts /\ want'[a] = Word(want[a], overwrites, new)
         /\ \A b \in Accounts \ {a} : want'[b] = want[b]
  BY DEF WordsFit, Say, Word

LEMMA UnknownTells ==
  ASSUME NEW r, NEW s
  PROVE  Tells(Unknown, r, s) /\ DOMAIN Unknown = DOMAIN Nothing
  BY DEF Tells, Unknown, Nothing

\* A link that is stored.
LEMMA LinkIsStored ==
  ASSUME AccountsInv, NEW j \in Jobs, StoreLink(j)
  PROVE  AccountsInv'
  <1> DEFINE a == job[j].account
             refresh == job[j].refresh
             overwrites == job[j].kept /\ rows[a].refresh # refresh
             new == [want[a] EXCEPT !.linked = TRUE, !.refresh = refresh]
             w == Word(want[a], overwrites, new)
  <1>1. a \in Accounts /\ refresh \in 0..MaxGrants /\ (Provider[a] = "imap" => refresh = 0)
    BY DEF StoreLink, At, AccountsInv, JobsFit, JobFits, TokenSteps
  <1>2. RowFits(a, Stamped(refresh)) /\ Stamped(refresh) # Unlinked /\ Stamped(refresh).refresh = refresh
    BY <1>1, StampedFits
  <1>3. DOMAIN want[a] = DOMAIN Nothing /\ Tells(want[a], rows[a], scopes[a])
    BY <1>1 DEF AccountsInv, WordsFit
  <1>4. DOMAIN w = DOMAIN Nothing /\ Tells(w, Stamped(refresh), scopes[a])
    <2>1. CASE w = Unknown
      BY <2>1, UnknownTells
    <2>2. CASE w # Unknown
      <3>1. w = new /\ want[a].known
        BY <2>2 DEF Word
      <3>2. DOMAIN new = DOMAIN Nothing /\ new.linked = TRUE /\ new.refresh = refresh /\ new.scopes = want[a].scopes
        BY <1>3 DEF Nothing
      <3> HIDE DEF a, refresh, overwrites, new, w
      <3> QED
        BY <1>2, <1>3, <3>1, <3>2 DEF Tells
    <2> QED
      BY <2>1, <2>2
  <1>5. /\ rows' = [rows EXCEPT ![a] = Stamped(refresh)] /\ scopes' = scopes /\ marked' = marked
        /\ UNCHANGED <<links, worldVars>> /\ End(j) /\ Say(a, overwrites, new)
    BY DEF StoreLink, Upsert
  <1> HIDE DEF a, refresh, overwrites, new
  <1>6. Touches(a, Stamped(refresh), scopes[a], w)
    BY <1>1, <1>5, SaidAs DEF AccountsInv, SharesFit, Touches
  <1>7. marked
    BY <1>5 DEF AccountsInv, BeforeOpening, StoreLink, At, NoJob
  <1>8. JobsFit' /\ WorldFits'
    BY <1>5, EndFits DEF AccountsInv, WorldFits, worldVars
  <1>9. ScopeFits(a, scopes[a])
    BY <1>1 DEF AccountsInv, SharesFit
  <1> HIDE DEF w
  <1> QED
    BY <1>1, <1>2, <1>4, <1>5, <1>6, <1>7, <1>8, <1>9, OneAccount

\* A refreshed token that is kept.
LEMMA TokenIsKept ==
  ASSUME AccountsInv, NEW j \in Jobs, Keep(j)
  PROVE  AccountsInv'
  <1> DEFINE a == job[j].account
             refresh == job[j].refresh
             overwrites == rows[a] = Unlinked \/ rows[a].refresh # refresh
             w == Word(want[a], overwrites, want[a])
  <1>1. a \in Accounts /\ refresh \in 0..MaxGrants /\ (Provider[a] = "imap" => refresh = 0)
    BY DEF Keep, At, AccountsInv, JobsFit, JobFits, TokenSteps
  <1>2. RowFits(a, Stamped(refresh)) /\ Stamped(refresh) # Unlinked /\ Stamped(refresh).refresh = refresh
    BY <1>1, StampedFits
  <1>3. DOMAIN want[a] = DOMAIN Nothing /\ Tells(want[a], rows[a], scopes[a])
    BY <1>1 DEF AccountsInv, WordsFit
  <1>4. DOMAIN w = DOMAIN Nothing /\ Tells(w, Stamped(refresh), scopes[a])
    BY <1>2, <1>3, UnknownTells DEF Word, Tells
  <1>5. /\ rows' = [rows EXCEPT ![a] = Stamped(refresh)] /\ scopes' = scopes /\ marked' = marked
        /\ UNCHANGED <<links, worldVars>> /\ Onwards(j, job[j].todo \ {a}) /\ Say(a, overwrites, want[a])
    BY DEF Keep, Upsert
  <1>6. job[j].todo \ {a} \in SUBSET Accounts
    BY DEF AccountsInv, JobsFit, JobFits
  <1> HIDE DEF a, refresh, overwrites
  <1>7. Touches(a, Stamped(refresh), scopes[a], w)
    BY <1>1, <1>5, SaidAs DEF AccountsInv, SharesFit, Touches
  <1>8. marked
    BY DEF AccountsInv, BeforeOpening, Keep, At, NoJob
  <1>9. JobsFit' /\ WorldFits'
    BY <1>5, <1>6, OnwardsFits DEF AccountsInv, WorldFits, worldVars
  <1>10. ScopeFits(a, scopes[a])
    BY <1>1 DEF AccountsInv, SharesFit
  <1> HIDE DEF w
  <1> QED
    BY <1>1, <1>2, <1>4, <1>5, <1>7, <1>8, <1>9, <1>10, OneAccount

\* An account that is flagged.
LEMMA AccountIsFlagged ==
  ASSUME AccountsInv, NEW j \in Jobs, Flag(j)
  PROVE  AccountsInv'
  <1> DEFINE a == job[j].account
             overwrites == rows[a] # Unlinked /\ rows[a].refresh # job[j].refresh
             r == IF rows[a] = Unlinked THEN Unlinked ELSE [rows[a] EXCEPT !.status = "needs_relink"]
             w == Word(want[a], overwrites, want[a])
  <1>1. a \in Accounts
    BY DEF Flag, At, AccountsInv, JobsFit, JobFits, TokenSteps
  <1>2. RowFits(a, rows[a]) /\ ScopeFits(a, scopes[a]) /\ DOMAIN want[a] = DOMAIN Nothing
        /\ Tells(want[a], rows[a], scopes[a])
    BY <1>1 DEF AccountsInv, RowsFit, SharesFit, WordsFit
  <1>3. RowFits(a, r) /\ (r = Unlinked <=> rows[a] = Unlinked) /\ r.refresh = rows[a].refresh
    BY <1>2 DEF RowFits, Rows, Unlinked
  <1>4. DOMAIN w = DOMAIN Nothing /\ Tells(w, r, scopes[a])
    <2> HIDE DEF a, overwrites, r
    <2> QED
      BY <1>2, <1>3, UnknownTells DEF Word, Tells
  <1>5. /\ scopes' = scopes /\ marked' = marked /\ UNCHANGED <<links, worldVars>>
        /\ Onwards(j, job[j].todo \ {a}) /\ Say(a, overwrites, want[a]) /\ rows' = [rows EXCEPT ![a] = r]
    BY DEF Flag, MarkNeedsRelink
  <1>6. job[j].todo \ {a} \in SUBSET Accounts
    BY DEF AccountsInv, JobsFit, JobFits
  <1> HIDE DEF a, overwrites, r
  <1>7. Touches(a, r, scopes[a], w)
    BY <1>1, <1>5, SaidAs DEF AccountsInv, SharesFit, Touches
  <1>8. marked
    BY DEF AccountsInv, BeforeOpening, Flag, At, NoJob
  <1>9. JobsFit' /\ WorldFits'
    BY <1>5, <1>6, OnwardsFits DEF AccountsInv, WorldFits, worldVars
  <1> HIDE DEF w
  <1> QED
    BY <1>1, <1>2, <1>3, <1>4, <1>5, <1>7, <1>8, <1>9, OneAccount

\* The projects of an account that are set.
LEMMA RescopedFits ==
  ASSUME NEW a \in Accounts, NEW s, ScopeFits(a, s), NEW ask \in Asks[a]
  PROVE  ScopeFits(a, Rescoped(s, ask))
  <1>1. ask[2] \subseteq Projects \union {Every} /\ Wanted(ask[2]) \subseteq Projects \union {Every}
    BY AsksAssumption DEF Wanted
  <1>2. Every \in Wanted(ask[2]) => Wanted(ask[2]) = {Every}
    BY DEF Wanted
  <1>3. PICK cap, projects : cap = ask[1] /\ projects = Wanted(ask[2])
    OBVIOUS
  <1>4. Rescoped(s, ask) = {g \in s : g[1] # cap} \union ({cap} \X projects)
    BY <1>3 DEF Rescoped
  <1>5. projects \subseteq Projects \union {Every} /\ (Every \in projects => projects = {Every}) /\ cap \in Capabilities
    BY <1>1, <1>2, <1>3, AsksAssumption
  <1>6. ASSUME NEW g \in Rescoped(s, ask)
        PROVE  /\ g \in Capabilities \X (Projects \union {Every})
               /\ g[2] = Every => \A h \in Rescoped(s, ask) : h[1] = g[1] => h = g
    <2>1. CASE g \in s /\ g[1] # cap
      <3>1. g \in Capabilities \X (Projects \union {Every})
        BY <2>1 DEF ScopeFits
      <3>2. \A h \in Rescoped(s, ask) : h[1] = g[1] => h \in s
        BY <1>4, <2>1
      <3> QED
        BY <2>1, <3>1, <3>2 DEF ScopeFits
    <2>2. CASE g \in {cap} \X projects
      BY <1>4, <1>5, <2>2
    <2> QED
      BY <1>4, <2>1, <2>2
  <1> QED
    BY <1>6 DEF ScopeFits

LEMMA ScopeIsSet ==
  ASSUME AccountsInv, NEW j \in Jobs, SetScope(j)
  PROVE  AccountsInv'
  <1> DEFINE a == job[j].account
             ask == job[j].ask
             s == Rescoped(scopes[a], ask)
             new == [want[a] EXCEPT !.scopes = Rescoped(want[a].scopes, ask)]
             w == Word(want[a], a \notin Linked, new)
  <1>1. a \in Accounts /\ ask \in Asks[a]
    BY DEF SetScope, At, AccountsInv, JobsFit, JobFits
  <1>2. RowFits(a, rows[a]) /\ ScopeFits(a, scopes[a]) /\ DOMAIN want[a] = DOMAIN Nothing
        /\ Tells(want[a], rows[a], scopes[a])
    BY <1>1 DEF AccountsInv, RowsFit, SharesFit, WordsFit
  <1>3. ScopeFits(a, s)
    BY <1>1, <1>2, RescopedFits
  <1>4. DOMAIN w = DOMAIN Nothing /\ Tells(w, rows[a], s)
    <2>1. CASE w = Unknown
      BY <2>1, UnknownTells
    <2>2. CASE w # Unknown
      <3>1. w = new /\ want[a].known
        BY <2>2 DEF Word
      <3>2. DOMAIN new = DOMAIN Nothing /\ new.linked = want[a].linked /\ new.refresh = want[a].refresh
            /\ new.scopes = Rescoped(want[a].scopes, ask)
        BY <1>2 DEF Nothing
      <3>3. want[a].scopes = scopes[a]
        BY <1>2, <3>1 DEF Tells
      <3> HIDE DEF a, ask, new, w
      <3> QED
        BY <1>2, <3>1, <3>2, <3>3 DEF Tells
    <2> QED
      BY <2>1, <2>2
  <1>5. /\ rows' = rows /\ scopes' = [scopes EXCEPT ![a] = s] /\ marked' = marked
        /\ UNCHANGED <<links, worldVars>> /\ End(j) /\ Say(a, a \notin Linked, new)
    BY DEF SetScope
  <1> HIDE DEF a, ask, s, new
  <1>6. Touches(a, rows[a], s, w)
    BY <1>1, <1>5, SaidAs DEF AccountsInv, RowsFit, SharesFit, Touches
  <1>7. marked
    BY DEF AccountsInv, BeforeOpening, SetScope, At, NoJob
  <1>8. JobsFit' /\ WorldFits'
    BY <1>5, EndFits DEF AccountsInv, WorldFits, worldVars
  <1> HIDE DEF w
  <1> QED
    BY <1>1, <1>2, <1>3, <1>4, <1>5, <1>6, <1>7, <1>8, OneAccount

\* Steps that touch the row of one account and no job.
LEMMA AccountSteps ==
  ASSUME AccountsInv, NEW a \in Accounts, LinkPassword(a) \/ Unlink(a) \/ Expire(a)
  PROVE  AccountsInv'
  <1>1. RowFits(a, rows[a]) /\ ScopeFits(a, scopes[a]) /\ DOMAIN want[a] = DOMAIN Nothing
        /\ Tells(want[a], rows[a], scopes[a])
    BY DEF AccountsInv, RowsFit, SharesFit, WordsFit
  <1>2. job' = job /\ marked' = marked /\ UNCHANGED <<links, worldVars>>
    BY DEF LinkPassword, Unlink, Expire
  <1>3. JobsFit' /\ WorldFits'
    BY <1>2 DEF AccountsInv, JobsFit, JobFits, WorldFits, worldVars
  <1>4. CASE LinkPassword(a)
    <2> DEFINE new == [want[a] EXCEPT !.linked = TRUE]
               w == Word(want[a], FALSE, new)
    <2>1. /\ marked /\ Provider[a] = "imap" /\ rows' = [rows EXCEPT ![a] = Stamped(0)]
          /\ scopes' = scopes /\ Say(a, FALSE, new)
      BY <1>4 DEF LinkPassword, Upsert
    <2>2. RowFits(a, Stamped(0)) /\ Stamped(0) # Unlinked /\ Stamped(0).refresh = 0
      BY StampedFits, GrantsAssumption
    <2>3. rows[a].refresh = 0
      BY <1>1, <2>1 DEF RowFits
    <2>4. DOMAIN w = DOMAIN Nothing /\ Tells(w, Stamped(0), scopes[a])
      <3>1. CASE w = Unknown
        BY <3>1, UnknownTells
      <3>2. CASE w # Unknown
        <4>1. w = new /\ want[a].known
          BY <3>2 DEF Word
        <4>2. DOMAIN new = DOMAIN Nothing /\ new.linked = TRUE /\ new.refresh = want[a].refresh
              /\ new.scopes = want[a].scopes
          BY <1>1 DEF Nothing
        <4> HIDE DEF new, w
        <4> QED
          BY <1>1, <2>2, <2>3, <4>1, <4>2 DEF Tells
      <3> QED
        BY <3>1, <3>2
    <2> HIDE DEF new
    <2>5. Touches(a, Stamped(0), scopes[a], w)
      <3>1. WordsFit /\ DOMAIN scopes = Accounts
        BY DEF AccountsInv, SharesFit
      <3>2. DOMAIN want' = Accounts /\ want'[a] = w /\ \A b \in Accounts \ {a} : want'[b] = want[b]
        BY <2>1, <3>1, SaidAs
      <3> QED
        BY <2>1, <3>1, <3>2 DEF Touches
    <2> HIDE DEF w
    <2> QED
      BY <1>1, <1>2, <1>3, <2>1, <2>2, <2>4, <2>5, OneAccount
  <1>5. CASE Unlink(a)
    <2>1. Touches(a, Unlinked, {}, Nothing)
      BY <1>5 DEF Unlink, Delete, AccountsInv, SharesFit, WordsFit, Touches
    <2>2. marked
      BY <1>5 DEF Unlink
    <2> QED
      BY <1>2, <1>3, <2>1, <2>2, BlankFits, OneAccount
  <1>6. CASE Expire(a)
    <2> DEFINE r == [rows[a] EXCEPT !.fresh = FALSE]
    <2>1. rows[a].fresh /\ rows' = [rows EXCEPT ![a] = r] /\ scopes' = scopes /\ want' = want
      BY <1>6 DEF Expire
    <2>2. rows[a] # Unlinked /\ rows[a].status # "unlinked"
      BY <1>1, <2>1 DEF RowFits, Unlinked
    <2>3. RowFits(a, r) /\ r # Unlinked /\ r.refresh = rows[a].refresh
      BY <1>1, <2>2 DEF RowFits, Rows, Unlinked
    <2> HIDE DEF r
    <2>4. Tells(want[a], r, scopes[a])
      BY <1>1, <2>2, <2>3 DEF Tells
    <2>5. Touches(a, r, scopes[a], want[a])
      BY <2>1 DEF AccountsInv, SharesFit, WordsFit, Touches
    <2> QED
      BY <1>1, <1>2, <1>3, <2>1, <2>3, <2>4, <2>5, OneAccount
  <1> QED
    BY <1>4, <1>5, <1>6

\* The store is opened: what each account served it may go on serving.
LEMMA StoreIsOpened ==
  ASSUME AccountsInv, Start
  PROVE  AccountsInv'
  <1>1. ASSUME NEW a \in Accounts
        PROVE  /\ ScopeFits(a, Backfill[a]) /\ scopes'[a] = Backfill[a]
               /\ want'[a] = [want[a] EXCEPT !.scopes = Backfill[a]]
    <2>1. Legacy(Provider[a]) \subseteq Capabilities
      BY DEF Legacy, Capabilities
    <2>2. Backfill[a] = {} \/ Backfill[a] = Legacy(Provider[a]) \X {Every}
      BY DEF Backfill
    <2>3. \A g, h \in Legacy(Provider[a]) \X {Every} : h[1] = g[1] => h = g
      OBVIOUS
    <2>4. Legacy(Provider[a]) \X {Every} \subseteq Capabilities \X (Projects \union {Every})
      BY <2>1
    <2>5. ScopeFits(a, Backfill[a])
      BY <2>2, <2>3, <2>4 DEF ScopeFits
    <2>6. scopes[a] = {}
      BY DEF AccountsInv, BeforeOpening, Start
    <2> QED
      BY <2>5, <2>6 DEF Start
  <1>2. rows' = rows /\ marked' = TRUE /\ job' = job /\ UNCHANGED <<links, worldVars>>
        /\ DOMAIN scopes' = Accounts /\ DOMAIN want' = Accounts
    BY DEF Start
  <1>3. SharesFit'
    BY <1>1, <1>2 DEF SharesFit, ScopeFits
  <1>4. ASSUME NEW a \in Accounts
        PROVE  DOMAIN want'[a] = DOMAIN Nothing /\ Tells(want'[a], rows'[a], scopes'[a])
    <2>1. PICK s : s = Backfill[a]
      OBVIOUS
    <2>2. DOMAIN want[a] = DOMAIN Nothing /\ Tells(want[a], rows[a], scopes[a])
      BY DEF AccountsInv, WordsFit
    <2>3. want'[a] = [want[a] EXCEPT !.scopes = s] /\ scopes'[a] = s
      BY <1>1, <2>1
    <2> QED
      BY <1>2, <2>2, <2>3 DEF Nothing, Tells
  <1>5. RowsFit' /\ JobsFit' /\ WorldFits' /\ BeforeOpening' /\ WordsFit'
    BY <1>2, <1>4 DEF WordsFit, AccountsInv, RowsFit, RowFits, JobsFit, JobFits, WorldFits, worldVars, BeforeOpening
  <1> QED
    BY <1>3, <1>5 DEF AccountsInv

\* Links asked for, redeemed, and forgotten.
LEMMA LinkSteps ==
  ASSUME AccountsInv, Linking
  PROVE  AccountsInv'
  <1>1. PICK l \in Links : AskLink(l) \/ LinkAges(l) \/ \E j \in Jobs : Callback(j, l)
    BY DEF Linking
  <1>2. UNCHANGED <<rows, scopes, marked, want, alive, given>> /\ links' \subseteq Links
    BY <1>1 DEF AccountsInv, WorldFits, AskLink, LinkAges, Callback, storeVars, worldVars
  <1>3. WorldFits'
    BY <1>2 DEF AccountsInv, WorldFits
  <1>4. JobsFit' /\ (marked \/ job' = job)
    <2>1. CASE job' = job
      BY <2>1 DEF AccountsInv, JobsFit, JobFits
    <2>2. CASE job' # job
      <3> DEFINE k == [NoJob EXCEPT !.step = "exchange"]
      <3>1. PICK j \in Jobs : marked /\ job' = [job EXCEPT ![j] = k]
        BY <1>1, <2>2 DEF AskLink, LinkAges, Callback, AtRest
      <3>2. JobFits(k)
        BY DEF JobFits, NoJob, TokenSteps
      <3> HIDE DEF k
      <3> QED
        BY <3>1, <3>2, JobTaken, OneJob DEF AccountsInv
    <2> QED
      BY <2>1, <2>2
  <1> QED
    BY <1>2, <1>3, <1>4, NoAccount

LEMMA CodeIsExchanged ==
  ASSUME AccountsInv, NEW j \in Jobs, Exchange(j)
  PROVE  AccountsInv'
  <1>1. UNCHANGED <<rows, scopes, marked, want, links>> /\ job[j].step = "exchange"
    BY DEF Exchange, At, storeVars
  <1>2. marked
    BY <1>1 DEF AccountsInv, BeforeOpening, NoJob
  <1>3. CASE End(j) /\ UNCHANGED <<alive, given, faults>>
    <2>1. JobsFit' /\ WorldFits'
      BY <1>1, <1>3, EndFits DEF AccountsInv, WorldFits
    <2> QED
      BY <1>1, <1>2, <2>1, NoAccount
  <1>4. CASE ~(End(j) /\ UNCHANGED <<alive, given, faults>>)
    <2>1. PICK a \in Chosen, refresh \in {0, given + 1}, read \in BOOLEAN :
            /\ given < MaxGrants /\ alive' = alive \union ({refresh} \ {0}) /\ given' = given + 1
            /\ job' = [job EXCEPT ![j].step = "store", ![j].account = a,
                                  ![j].kept = refresh = 0,
                                  ![j].refresh = Merged(refresh, IF read THEN rows[a] ELSE Unlinked)]
      BY <1>4 DEF Exchange
    <2>2. PICK m, t : m = Merged(refresh, IF read THEN rows[a] ELSE Unlinked) /\ t = (refresh = 0)
      OBVIOUS
    <2> DEFINE k == [job[j] EXCEPT !.step = "store", !.account = a, !.kept = t, !.refresh = m]
    <2>3. job' = [job EXCEPT ![j] = k]
      BY <2>1, <2>2
    <2>4. a \in Accounts /\ Provider[a] # "imap" /\ rows[a].refresh \in 0..MaxGrants
      BY DEF Chosen, OAuth, AccountsInv, RowsFit, Rows
    <2>5. given \in 1..MaxGrants /\ MaxGrants \in Nat /\ alive \subseteq 1..given
      BY GrantsAssumption DEF AccountsInv, WorldFits
    <2>6. m \in 0..MaxGrants
      BY <2>1, <2>2, <2>4, <2>5 DEF Merged, Unlinked
    <2>7. JobFits(job[j])
      BY DEF AccountsInv, JobsFit
    <2>8. JobFits(k)
      BY <2>4, <2>6, <2>7 DEF JobFits, NoJob, TokenSteps
    <2> HIDE DEF k
    <2>9. JobsFit'
      BY <2>3, <2>8, JobTaken, OneJob DEF AccountsInv
    <2>10. alive' \subseteq 1..given' /\ given' \in 1..MaxGrants
      BY <2>1, <2>5
    <2>11. WorldFits'
      BY <1>1, <2>10 DEF AccountsInv, WorldFits
    <2> QED
      BY <1>1, <1>2, <2>9, <2>11, NoAccount
  <1> QED
    BY <1>3, <1>4

LEMMA ScopeIsAsked ==
  ASSUME AccountsInv, NEW j \in Jobs, NEW a \in Accounts, NEW ask \in Asks[a], AskScope(j, a, ask)
  PROVE  AccountsInv'
  <1> DEFINE k == [NoJob EXCEPT !.step = "scope", !.account = a, !.ask = ask]
  <1>1. UNCHANGED <<rows, scopes, marked, want, links, alive, given>> /\ marked
        /\ job' = [job EXCEPT ![j] = k]
    BY DEF AskScope, storeVars, AtRest
  <1>2. JobFits(k)
    BY <1>1 DEF JobFits, NoJob, TokenSteps
  <1> HIDE DEF k
  <1>3. JobsFit' /\ WorldFits'
    BY <1>1, <1>2, JobTaken, OneJob DEF AccountsInv, WorldFits
  <1> QED
    BY <1>1, <1>3, NoAccount

\* Calls that refresh tokens: what they look at is accounts.
LEMMA CallBegins ==
  ASSUME AccountsInv, NEW j \in Jobs, NEW todo \in SUBSET Accounts, Begin(j, todo)
  PROVE  AccountsInv'
  <1> DEFINE k == [NoJob EXCEPT !.step = "look", !.todo = todo]
  <1>1. UNCHANGED <<rows, scopes, marked, want, links, alive, given>> /\ marked /\ todo # {}
        /\ job' = [job EXCEPT ![j] = k]
    BY DEF Begin, storeVars, worldVars, AtRest
  <1>2. JobFits(k)
    BY <1>1, LookingFits
  <1> HIDE DEF k
  <1>3. JobsFit' /\ WorldFits'
    BY <1>1, <1>2, JobTaken, OneJob DEF AccountsInv, WorldFits
  <1> QED
    BY <1>1, <1>3, NoAccount

LEMMA TokenIsLookedAt ==
  ASSUME AccountsInv, NEW j \in Jobs, Look(j)
  PROVE  AccountsInv'
  <1> DEFINE a == Min(job[j].todo)
  <1>1. UNCHANGED <<rows, scopes, marked, want, links, alive, given>> /\ job[j].step = "look"
    BY DEF Look, At, storeVars, worldVars
  <1>2. marked
    BY <1>1 DEF AccountsInv, BeforeOpening, NoJob
  <1>3. JobFits(job[j])
    BY DEF AccountsInv, JobsFit
  <1>4. job[j].todo \subseteq Accounts /\ job[j].todo # {}
    BY <1>1, <1>3 DEF JobFits
  <1>5. job[j].todo \in SUBSET Nat /\ IsFiniteSet(job[j].todo)
    BY <1>4, AccountsAssumption, FS_Subset
  <1>6. a \in Accounts
    BY <1>4, <1>5, SmallestOf
  <1>7. JobsFit'
    <2>1. CASE rows[a] = Unlinked \/ rows[a].fresh
      <3>1. Onwards(j, job[j].todo \ {a}) /\ job[j].todo \ {a} \in SUBSET Accounts
        BY <1>4, <2>1 DEF Look
      <3> HIDE DEF a
      <3> QED
        BY <3>1, OnwardsFits DEF AccountsInv
    <2>2. CASE ~(rows[a] = Unlinked \/ rows[a].fresh)
      <3>1. job' = [job EXCEPT ![j].step = "answer", ![j].account = a, ![j].refresh = rows[a].refresh]
        BY <2>2 DEF Look
      <3> HIDE DEF a
      <3>2. PICK m : m = rows[a].refresh
        OBVIOUS
      <3>3. m \in 0..MaxGrants /\ (Provider[a] = "imap" => m = 0)
        BY <1>6, <3>2 DEF AccountsInv, RowsFit, RowFits, Rows
      <3> DEFINE k == [job[j] EXCEPT !.step = "answer", !.account = a, !.refresh = m]
      <3>4. job' = [job EXCEPT ![j] = k]
        BY <3>1, <3>2
      <3>5. JobFits(k)
        BY <1>3, <1>6, <3>3 DEF JobFits, NoJob, TokenSteps
      <3> HIDE DEF k
      <3> QED
        BY <3>4, <3>5, JobTaken, OneJob DEF AccountsInv
    <2> QED
      BY <2>1, <2>2
  <1>8. WorldFits'
    BY <1>1 DEF AccountsInv, WorldFits
  <1> QED
    BY <1>1, <1>2, <1>7, <1>8, NoAccount

LEMMA AnswerComes ==
  ASSUME AccountsInv, NEW j \in Jobs, Answer(j)
  PROVE  AccountsInv'
  <1>1. UNCHANGED <<rows, scopes, marked, want, links, alive, given>> /\ job[j].step = "answer"
    BY DEF Answer, At, storeVars
  <1>2. marked
    BY <1>1 DEF AccountsInv, BeforeOpening, NoJob
  <1>3. JobFits(job[j])
    BY DEF AccountsInv, JobsFit
  <1>4. PICK s \in {"keep", "flag"} : job' = [job EXCEPT ![j].step = s]
    BY DEF Answer
  <1> DEFINE k == [job[j] EXCEPT !.step = s]
  <1>5. job' = [job EXCEPT ![j] = k]
    BY <1>4
  <1>6. JobFits(k)
    BY <1>1, <1>3 DEF JobFits, NoJob, TokenSteps
  <1> HIDE DEF k
  <1>7. JobsFit' /\ WorldFits'
    BY <1>1, <1>5, <1>6, JobTaken, OneJob DEF AccountsInv, WorldFits
  <1> QED
    BY <1>1, <1>2, <1>7, NoAccount

\* A grant is withdrawn, or a process dies.
LEMMA WorldSteps ==
  ASSUME AccountsInv, (\E g \in 1..MaxGrants : Withdraw(g)) \/ (\E j \in Jobs : Crash(j))
  PROVE  AccountsInv'
  <1>1. CASE \E g \in 1..MaxGrants : Withdraw(g)
    <2>1. UNCHANGED <<rows, scopes, marked, want, links, given, job>> /\ alive' \subseteq alive
      BY <1>1 DEF Withdraw, storeVars
    <2>2. JobsFit' /\ WorldFits'
      BY <2>1 DEF AccountsInv, JobsFit, JobFits, WorldFits
    <2> QED
      BY <2>1, <2>2, NoAccount
  <1>2. CASE \E j \in Jobs : Crash(j)
    <2>1. PICK j \in Jobs : Crash(j)
      BY <1>2
    <2>2. UNCHANGED <<rows, scopes, marked, want, links, given, alive>> /\ End(j) /\ job[j] # NoJob
      BY <2>1 DEF Crash, storeVars
    <2>3. marked
      BY <2>2 DEF AccountsInv, BeforeOpening
    <2>4. JobsFit' /\ WorldFits'
      BY <2>2, EndFits DEF AccountsInv, WorldFits
    <2> QED
      BY <2>2, <2>3, <2>4, NoAccount
  <1> QED
    BY <1>1, <1>2

LEMMA AccountsHoldAtStart ==
  ASSUME AccountsInit
  PROVE  AccountsInv
  <1>1. PICK old \in SUBSET Accounts :
          rows = [a \in Accounts |-> CASE a \notin old -> Unlinked
                                       [] a \in old /\ Provider[a] \in OAuth -> Stamped(1)
                                       [] OTHER -> Stamped(0)]
    BY DEF AccountsInit
  <1>2. /\ scopes = [a \in Accounts |-> {}] /\ marked = FALSE /\ links = {} /\ job = [j \in Jobs |-> NoJob]
        /\ alive = {1} /\ given = 1
        /\ want = [a \in Accounts |-> [Nothing EXCEPT !.linked = rows[a] # Unlinked, !.refresh = rows[a].refresh]]
    BY DEF AccountsInit
  <1>3. ASSUME NEW a \in Accounts
        PROVE  RowFits(a, rows[a])
    <2>1. CASE a \notin old
      BY <1>1, <2>1, BlankFits
    <2>2. CASE a \in old /\ Provider[a] \in OAuth
      <3>1. rows[a] = Stamped(1)
        BY <1>1, <2>2
      <3>2. 1 \in 0..MaxGrants /\ Provider[a] # "imap"
        BY <2>2, GrantsAssumption DEF OAuth
      <3> QED
        BY <3>1, <3>2, StampedFits
    <2>3. CASE a \in old /\ Provider[a] \notin OAuth
      <3>1. rows[a] = Stamped(0)
        BY <1>1, <2>3
      <3>2. 0 \in 0..MaxGrants
        BY GrantsAssumption
      <3> QED
        BY <3>1, <3>2, StampedFits
    <2> QED
      BY <2>1, <2>2, <2>3
  <1>4. RowsFit
    <2>1. DOMAIN rows = Accounts /\ rows = [a \in Accounts |-> rows[a]]
      BY <1>1
    <2> QED
      BY <1>3, <2>1 DEF RowsFit, RowFits
  <1>5. SharesFit
    BY <1>2 DEF SharesFit, ScopeFits
  <1>6. JobsFit /\ BeforeOpening
    BY <1>2, NoJobFits DEF JobsFit, BeforeOpening
  <1>7. WorldFits
    <2>1. MaxGrants \in Nat /\ MaxGrants > 0
      BY GrantsAssumption
    <2>2. given = 1 /\ alive = {1} /\ links = {}
      BY <1>2
    <2>3. given \in 1..MaxGrants
      BY ONLY <2>1, <2>2
    <2>4. \A g \in {1} : g \in 1..1
      OBVIOUS
    <2>5. alive \subseteq 1..given
      BY ONLY <2>4, <2>2
    <2> QED
      BY ONLY <2>3, <2>5, <2>2 DEF WorldFits
  <1>8. ASSUME NEW a \in Accounts
        PROVE  DOMAIN want[a] = DOMAIN Nothing /\ Tells(want[a], rows[a], scopes[a])
    <2>1. PICK t, m : t = (rows[a] # Unlinked) /\ m = rows[a].refresh
      OBVIOUS
    <2>2. want[a] = [Nothing EXCEPT !.linked = t, !.refresh = m] /\ scopes[a] = {}
      BY <1>2, <2>1
    <2> QED
      BY <2>1, <2>2 DEF Tells, Nothing
  <1>9. WordsFit
    BY <1>2, <1>8 DEF WordsFit
  <1> QED
    BY <1>4, <1>5, <1>6, <1>7, <1>9 DEF AccountsInv

LEMMA AccountsHoldOn ==
  ASSUME AccountsInv, [AccountsNext]_accountVars
  PROVE  AccountsInv'
  <1>1. CASE UNCHANGED accountVars
    <2>1. UNCHANGED <<rows, scopes, marked, want, links, alive, given, job>>
      BY <1>1 DEF accountVars
    <2>2. JobsFit' /\ WorldFits'
      BY <2>1 DEF AccountsInv, JobsFit, JobFits, WorldFits
    <2> QED
      BY <2>1, <2>2, NoAccount
  <1>2. CASE Start \/ Linking
    BY <1>2, StoreIsOpened, LinkSteps
  <1>3. CASE Sharing
    BY <1>3, AccountSteps, ScopeIsAsked DEF Sharing
  <1>4. CASE (\E g \in 1..MaxGrants : Withdraw(g)) \/ (\E j \in Jobs : Crash(j))
    BY <1>4, WorldSteps
  <1>5. ASSUME NEW j \in Jobs, BeginMail(j) \/ BeginCalendar(j)
        PROVE  AccountsInv'
    <2>1. Reached \in SUBSET Accounts /\ First("google") \in SUBSET Accounts
      BY DEF Reached, First, Linked
    <2> QED
      BY <1>5, <2>1, CallBegins DEF BeginMail, BeginCalendar
  <1>6. ASSUME NEW j \in Jobs, Step(j)
        PROVE  AccountsInv'
    BY <1>6, CodeIsExchanged, LinkIsStored, ScopeIsSet, TokenIsLookedAt, AnswerComes, TokenIsKept,
       AccountIsFlagged DEF Step
  <1> QED
    BY <1>1, <1>2, <1>3, <1>4, <1>5, <1>6 DEF AccountsNext

\* The store of linked accounts keeps its tables in order, whatever is linked, shared,
\* refreshed, withdrawn or cut short: a wildcard stands alone, and what an account is shared
\* for its provider serves.
THEOREM AccountsKeepTypes == AccountsSpec => []AccountsTyped
  <1>1. AccountsInv => AccountsTyped
    BY AccountsInvIsEnough
  <1> QED
    BY <1>1, AccountsHoldAtStart, AccountsHoldOn, PTL DEF AccountsSpec

\* However many jobs link, refresh, share and unlink the accounts of a user at once, the
\* store holds the user's last word on each, unless a job wrote over what another did.
THEOREM StoreHoldsLastWord == AccountsSpec => []StoreIsTheUsers
  <1>1. AccountsInv => StoreIsTheUsers
    BY AccountsInvIsEnough
  <1> QED
    BY <1>1, AccountsHoldAtStart, AccountsHoldOn, PTL DEF AccountsSpec
=============================================================================
