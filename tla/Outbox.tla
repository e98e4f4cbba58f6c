---------------------------- MODULE Outbox ----------------------------
(***************************************************************************)
(* The approval outbox: outgoing actions (mail, calendar, membership) that *)
(* wait for a person, and the request handlers that decide them.           *)
(*                                                                         *)
(* A row of pending_actions is shared by every handler: the MCP tools of   *)
(* server.py (on the event loop), the web API (a thread per request), the  *)
(* board API and the elicitation dialog, possibly in several processes on  *)
(* the same SQLite file.  One SQLite statement is one step; between two    *)
(* statements of a handler any other handler may run, the clock may pass   *)
(* expires_at, an administrator may switch a user off, and the handler     *)
(* itself may die or lose an SQLite call.                                  *)
(***************************************************************************)
EXTENDS Naturals, FiniteSets

CONSTANTS
    Actions,      \* ids of the rows pending_actions may ever hold
    Handlers,     \* requests in flight at the same time
    Users,        \* memaix users
    Gated,        \* tools the policy sends to review (action_mode = "review")
    Rank,         \* Rank[u]: the user's role on the project, by index in ROLES
    Sweeps        \* TRUE when something calls expire_due; nothing does as shipped

MailTools   == {"email_send"}
CalTools    == {"calendar_create", "calendar_update"}
LinkTools   == {"user_invite", "user_reset_link"}
AccessTools == LinkTools \union {"project_member_set"}
Tools       == MailTools \union CalTools \union AccessTools

\* ROLES = ("reader", "collaborator", "owner")
Collaborator == 1
Owner        == 2

ASSUME ActionsAssumption == Actions # {}
ASSUME UsersAssumption   == Users # {}
ASSUME GatedAssumption   == Gated \subseteq Tools
ASSUME RankAssumption    == Rank \in [Users -> 0..Owner]
ASSUME SweepsAssumption  == Sweeps \in BOOLEAN

Surfaces  == {"mcp", "web", "board", "elicit"}
Decisions == {"approve", "reject"}
Statuses  == {"absent", "pending", "approved", "rejected", "executed", "failed",
              "expired"}
Steps     == {"idle", "queued", "asking", "claim", "execute", "change", "record",
              "audit", "done"}
Answers   == {"none", "ok", "failed", "rejected", "conflict", "denied", "locked",
              "pending", "error"}

VARIABLES
    status,     \* pending_actions.status, "absent" before the INSERT
    tool,       \* pending_actions.tool, the tool that was called
    requester,  \* pending_actions.memaix_user, who called it
    decidedBy,  \* pending_actions.decided_by, a set of at most one user
    result,     \* pending_actions.result_json: "none", "error", "ok" or "link"
    past,       \* past[a]: the clock has passed expires_at of row a
    effects,    \* observer: how often the outside world saw action a happen
    disabled,   \* users switched off (users.<id>.disabled in acl.yaml)
    off,        \* observer: rows whose requester has been switched off ever since
                \* the approval
    audit,      \* audit[a]: the outbox_* audit entries about row a
    req         \* req[h]: what handler h is doing

row  == <<status, tool, requester, decidedBy, result>>
vars == <<status, tool, requester, decidedBy, result, past, effects, disabled, off, audit, req>>

------------------------------------------------------------------------
(* The access list; a name ending in Mutant is a broken version of the     *)
(* definition after it, kept to show which property would notice           *)

\* The role that may decide an action of tool t; t asks the same of its user.
ApprovalRole(t) == IF t \in CalTools THEN Collaborator ELSE Owner

\* acl.enforce(u, project, ApprovalRole(t)) with the access list as it is now
MayUse(u, t) == u \notin disabled /\ Rank[u] >= ApprovalRole(t)

StaleListMutant(h, a) == req[h].requesterOk

\* The check of the user who asked for a membership action: by the list the handler
\* read at its start, like any requester, and by the list the tool reads afresh.
RequesterAllowed(h, a) ==
    /\ req[h].requesterOk
    /\ MayUse(requester[a], tool[a])

------------------------------------------------------------------------
(* Handler records *)

Request == [step : Steps, surface : Surfaces, act : Actions, user : Users,
            decision : Decisions, requesterOk : BOOLEAN,
            outcome : {"none", "ok", "error"}, answer : Answers]

AnAction == CHOOSE a \in Actions : TRUE
AUser    == CHOOSE u \in Users : TRUE

Blank(s, a, u) ==
    [step |-> "idle", surface |-> s, act |-> a, user |-> u, decision |-> "approve",
     requesterOk |-> FALSE, outcome |-> "none", answer |-> "none"]

Idle == Blank("mcp", AnAction, AUser)

Free(h) == req[h].step \in {"idle", "done"}

Goto(h, s) == req' = [req EXCEPT ![h].step = s]

\* What is left of a request once its caller was told `ans`: who asked, about
\* which row, and the answer.
Ended(a, u, ans) == [Blank("mcp", a, u) EXCEPT !.step = "done", !.answer = ans]

Finish(h, ans) == req' = [req EXCEPT ![h] = Ended(@.act, @.user, ans)]

\* Handler h is between its claim of row a for approval and record_result.
Holds(h, a) == req[h].step \in {"execute", "change", "record"} /\ req[h].act = a

Init ==
    /\ status    = [a \in Actions |-> "absent"]
    /\ tool      = [a \in Actions |-> "none"]
    /\ requester = [a \in Actions |-> AUser]
    /\ decidedBy = [a \in Actions |-> {}]
    /\ result    = [a \in Actions |-> "none"]
    /\ past      = [a \in Actions |-> FALSE]
    /\ effects   = [a \in Actions |-> 0]
    /\ disabled  = {}
    /\ off       = {}
    /\ audit     = [a \in Actions |-> {}]
    /\ req       = [h \in Handlers |-> Idle]

------------------------------------------------------------------------
(* The requester's side: a gated tool queues instead of acting *)

\* The tools check their user's role first, then INSERT the row as pending.
Queue(a, u, t) ==
    /\ status[a] = "absent"
    /\ MayUse(u, t)
    /\ status'    = [status EXCEPT ![a] = "pending"]
    /\ tool'      = [tool EXCEPT ![a] = t]
    /\ requester' = [requester EXCEPT ![a] = u]
    /\ UNCHANGED <<decidedBy, result, past, effects, disabled, off, audit>>

\* No dialog follows: elicitation is off or the caller has no such client.
Enqueue(a, u, t) == Queue(a, u, t) /\ UNCHANGED req

\* The asynchronous MCP tools go on to offer the dialog in the same call.
EnqueueAndOffer(h, a, u, t) ==
    /\ Free(h)
    /\ Queue(a, u, t)
    /\ req' = [req EXCEPT ![h] = [Blank("elicit", a, u) EXCEPT !.step = "queued"]]

\* The dialog is only shown while the row is still pending.
OfferDialog(h) ==
    /\ req[h].step = "queued"
    /\ IF status[req[h].act] = "pending" THEN Goto(h, "asking")
                                         ELSE Finish(h, "pending")
    /\ UNCHANGED <<row, past, effects, disabled, off, audit>>

\* A dismissed or failing dialog leaves the row in the outbox.
DismissDialog(h) ==
    /\ req[h].step = "asking"
    /\ Finish(h, "pending")
    /\ UNCHANGED <<row, past, effects, disabled, off, audit>>

------------------------------------------------------------------------
(* The approver's side *)

\* The row is read, the access list is read once and the role enforced.  The
\* row's status is not looked at: the claim decides.
Admit(h, s, a, u, d) ==
    /\ status[a] # "absent"
    /\ req' = [req EXCEPT ![h] =
                 IF MayUse(u, tool[a])
                 THEN [Blank(s, a, u) EXCEPT
                          !.step = "claim", !.decision = d,
                          !.requesterOk = MayUse(requester[a], tool[a])]
                 ELSE Ended(a, u, "denied")]
    /\ UNCHANGED <<row, past, effects, disabled, off, audit>>

\* outbox_approve / outbox_reject, the web API or the board API is called.
Decide(h, s, a, u, d) ==
    /\ s # "elicit"
    /\ Free(h)
    /\ Admit(h, s, a, u, d)

\* outbox_approve of a mail from a session that is not unlocked for sending.
RefuseLocked(h, a, u) ==
    /\ Free(h)
    /\ status[a] # "absent"
    /\ tool[a] \in MailTools
    /\ req' = [req EXCEPT ![h] = Ended(a, u, "locked")]
    /\ UNCHANGED <<row, past, effects, disabled, off, audit>>

\* The requester answers the dialog: accept approves, anything else rejects.
AnswerDialog(h, d) ==
    /\ req[h].step = "asking"
    /\ Admit(h, "elicit", req[h].act, req[h].user, d)

\* drops AND status='pending' from the UPDATE
ClaimAnyMutant(h) ==
    LET a == req[h].act IN
    /\ req[h].step = "claim"
    /\ decidedBy' = [decidedBy EXCEPT ![a] = {req[h].user}]
    /\ status' = [status EXCEPT ![a] =
                    IF req[h].decision = "approve" THEN "approved" ELSE "rejected"]
    /\ Goto(h, IF req[h].decision = "approve" THEN "execute" ELSE "audit")
    /\ UNCHANGED off
    /\ UNCHANGED <<tool, requester, result, past, effects, disabled, audit>>

\* claim_for_decision: UPDATE ... WHERE id=? AND status='pending'.
Claim(h) ==
    LET a == req[h].act IN
    /\ req[h].step = "claim"
    /\ IF status[a] = "pending"
       THEN /\ decidedBy' = [decidedBy EXCEPT ![a] = {req[h].user}]
            /\ IF req[h].decision = "approve"
               THEN /\ status' = [status EXCEPT ![a] = "approved"]
                    /\ off' = IF requester[a] \in disabled THEN off \union {a} ELSE off
                    /\ Goto(h, "execute")
               ELSE /\ status' = [status EXCEPT ![a] = "rejected"]
                    /\ Goto(h, "audit")
                    /\ UNCHANGED off
       ELSE /\ Finish(h, "conflict")
            /\ UNCHANGED <<status, decidedBy, off>>
    /\ UNCHANGED <<tool, requester, result, past, effects, disabled, audit>>

\* user_invite, user_reset_link and project_member_set read the access list and look
\* the requester up in it.  AclWriter loads the list again for the change itself and
\* nobody looks the requester up in that one: a handler is a thread of the pool, and
\* a kill switch may be thrown between the two.
ReadList(h) ==
    LET a == req[h].act IN
    /\ req[h].step = "execute"
    /\ tool[a] \in AccessTools
    /\ req' = [req EXCEPT ![h] = IF RequesterAllowed(h, a)
                                 THEN [@ EXCEPT !.step = "change"]
                                 ELSE [@ EXCEPT !.step = "record", !.outcome = "error"]]
    /\ UNCHANGED <<row, past, effects, disabled, off, audit>>

\* execute_pending runs the tool as the requester with _confirmed=True.  It may
\* be refused or fail before anything happens, happen, or happen and then raise
\* (an SMTP session that breaks after the message was taken).
Execute(h) ==
    LET a == req[h].act IN
    /\ req[h].step = IF tool[a] \in AccessTools THEN "change" ELSE "execute"
    /\ \E happens \in BOOLEAN, outcome \in {"ok", "error"} :
         /\ happens => req[h].requesterOk
         /\ outcome = "ok" => happens
         /\ effects' = IF happens THEN [effects EXCEPT ![a] = @ + 1] ELSE effects
         /\ req' = [req EXCEPT ![h].step = "record", ![h].outcome = outcome]
    /\ UNCHANGED <<row, past, disabled, off, audit>>

\* What result_json keeps: redact_links strips one-time links, except that the
\* board stores the result as the tool returned it.
Stored(h) ==
    IF req[h].outcome = "error" THEN "error"
    ELSE IF req[h].surface = "board" /\ tool[req[h].act] \in LinkTools THEN "link"
    ELSE "ok"

\* tries again after an error instead of recording it
RecordRetryMutant(h) ==
    LET a == req[h].act IN
    /\ req[h].step = "record"
    /\ IF req[h].outcome = "ok"
       THEN /\ status' = [status EXCEPT ![a] = "executed"]
            /\ result' = [result EXCEPT ![a] = Stored(h)]
            /\ Goto(h, "audit")
       ELSE Goto(h, "execute") /\ UNCHANGED <<status, result>>
    /\ UNCHANGED <<tool, requester, decidedBy, past, effects, disabled, off, audit>>

\* records successes only
RecordOkMutant(h) ==
    LET a == req[h].act IN
    /\ req[h].step = "record"
    /\ status' = IF req[h].outcome = "ok" THEN [status EXCEPT ![a] = "executed"]
                                          ELSE status
    /\ result' = [result EXCEPT ![a] = Stored(h)]
    /\ Goto(h, "audit")
    /\ UNCHANGED <<tool, requester, decidedBy, past, effects, disabled, off, audit>>

\* record_result: UPDATE ... SET status=?, result_json=? WHERE id=?.
RecordResult(h) ==
    LET a == req[h].act IN
    /\ req[h].step = "record"
    /\ status' = [status EXCEPT ![a] =
                    IF req[h].outcome = "ok" THEN "executed" ELSE "failed"]
    /\ result' = [result EXCEPT ![a] = Stored(h)]
    /\ Goto(h, "audit")
    /\ UNCHANGED <<tool, requester, decidedBy, past, effects, disabled, off, audit>>

VerdictMutant(h) == IF req[h].decision = "reject" THEN "rejected" ELSE "ok"

\* The word the handler's caller and the audit log get for what was decided.
Verdict(h) ==
    IF req[h].decision = "reject" THEN "rejected"
    ELSE IF req[h].outcome = "ok" THEN "ok"
    ELSE "failed"

\* The web and board handlers swallow a failing audit log; the MCP tools do not
\* (there the failure is the handler's own, see Fail).
AuditDecision(h) ==
    LET a == req[h].act IN
    /\ req[h].step = "audit"
    /\ \/ audit' = [audit EXCEPT ![a] = @ \union {Verdict(h)}]
       \/ req[h].surface \in {"web", "board"} /\ UNCHANGED audit
    /\ Finish(h, Verdict(h))
    /\ UNCHANGED <<row, past, effects, disabled, off>>

------------------------------------------------------------------------
(* What happens around the handlers *)

\* The process dies, or an SQLite call raises: the request ends where it is and
\* nothing picks it up again.
Fail(h) ==
    /\ ~Free(h)
    /\ Finish(h, "error")
    /\ UNCHANGED <<row, past, effects, disabled, off, audit>>

\* 72 hours go by.
TimePasses(a) ==
    /\ status[a] = "pending"
    /\ ~past[a]
    /\ past' = [past EXCEPT ![a] = TRUE]
    /\ UNCHANGED <<row, effects, disabled, off, audit, req>>

\* expire_due: every pending row whose time has passed.
ExpireDue ==
    /\ Sweeps
    /\ \E a \in Actions : status[a] = "pending" /\ past[a]
    /\ status' = [a \in Actions |->
                    IF status[a] = "pending" /\ past[a] THEN "expired" ELSE status[a]]
    /\ UNCHANGED <<tool, requester, decidedBy, result, past, effects, disabled, off, audit, req>>

\* An administrator flips the kill switch of u.
ToggleUser(u) ==
    /\ disabled' = IF u \in disabled THEN disabled \ {u} ELSE disabled \union {u}
    /\ off' = {a \in off : requester[a] # u}
    /\ UNCHANGED <<row, past, effects, audit, req>>

Work(h) == \/ OfferDialog(h)
           \/ Claim(h)
           \/ ReadList(h)
           \/ Execute(h)
           \/ RecordResult(h)
           \/ AuditDecision(h)

Next ==
    \/ \E a \in Actions, u \in Users, t \in Gated : Enqueue(a, u, t)
    \/ \E h \in Handlers, a \in Actions, u \in Users, t \in Gated :
         EnqueueAndOffer(h, a, u, t)
    \/ \E h \in Handlers, s \in Surfaces, a \in Actions, u \in Users, d \in Decisions :
         Decide(h, s, a, u, d)
    \/ \E h \in Handlers, a \in Actions, u \in Users : RefuseLocked(h, a, u)
    \/ \E h \in Handlers, d \in Decisions : AnswerDialog(h, d)
    \/ \E h \in Handlers : Work(h) \/ DismissDialog(h) \/ Fail(h)
    \/ \E a \in Actions : TimePasses(a)
    \/ ExpireDue
    \/ \E u \in Users : ToggleUser(u)

Spec == Init /\ [][Next]_vars

\* Past its claim a handler is straight-line code: it runs on unless it fails.
FairSpec == Spec /\ \A h \in Handlers : WF_vars(Work(h))

------------------------------------------------------------------------
(* What must hold *)

\* Every variable keeps to its type.
TypeOK ==
    /\ status    \in [Actions -> Statuses]
    /\ tool      \in [Actions -> Tools \union {"none"}]
    /\ requester \in [Actions -> Users]
    /\ decidedBy \in [Actions -> SUBSET Users]
    /\ result    \in [Actions -> {"none", "error", "ok", "link"}]
    /\ past      \in [Actions -> BOOLEAN]
    /\ effects   \in [Actions -> Nat]
    /\ disabled  \subseteq Users
    /\ off       \subseteq Actions
    /\ audit     \in [Actions -> SUBSET {"ok", "failed", "rejected"}]
    /\ req       \in [Handlers -> Request]

\* However many approvers race on one row, over however many surfaces, and
\* wherever one of them dies, the outside world sees the action at most once and
\* only after an approval: a rejected, expired or still pending mail was not sent.
OnlyApprovedHappensOnce ==
    \A a \in Actions :
        /\ effects[a] <= 1
        /\ status[a] \in {"absent", "pending", "rejected", "expired"} => effects[a] = 0
        /\ status[a] = "executed" => effects[a] = 1

\* What an approver is told stays true of the row: "ok" means this action has
\* happened, "rejected" that it never will, "conflict" that another decided it.
AnswersStayTrue ==
    \A h \in Handlers :
        LET a == req[h].act IN
        req[h].step = "done" =>
            /\ req[h].answer = "ok"       => status[a] = "executed" /\ decidedBy[a] = {req[h].user}
            /\ req[h].answer = "failed"   => status[a] = "failed" /\ decidedBy[a] = {req[h].user}
            /\ req[h].answer = "rejected" => status[a] = "rejected" /\ effects[a] = 0
            /\ req[h].answer = "conflict" => status[a] \notin {"absent", "pending"}

\* The audit log never contradicts the row, and never has two verdicts on it.
AuditAgrees ==
    \A a \in Actions :
        /\ "ok" \in audit[a]       => status[a] = "executed" /\ effects[a] = 1
        /\ "failed" \in audit[a]   => status[a] = "failed"
        /\ "rejected" \in audit[a] => status[a] = "rejected" /\ effects[a] = 0

\* Whoever is recorded as having decided a row has the role the tool needs, and
\* no row leaves "pending" for a decision without somebody being recorded.
DeciderHasRole ==
    \A a \in Actions :
        /\ \A u \in decidedBy[a] : Rank[u] >= ApprovalRole(tool[a])
        /\ status[a] \in {"approved", "rejected", "executed", "failed"} => decidedBy[a] # {}

\* A decision is final: no step changes who decided, nor what happened, nor
\* takes a row out of a terminal status.
DecisionIsFinal ==
    [][\A a \in Actions :
         /\ decidedBy[a] # {} => decidedBy'[a] = decidedBy[a]
         /\ status[a] \in {"rejected", "executed", "failed", "expired"} =>
              status'[a] = status[a] /\ effects'[a] = effects[a]]_vars

\* The kill switch reaches a membership action whose approval is already under way:
\* nobody's access is changed for a requester switched off before the claim and ever
\* since, although the approver's own list was read before.  (A switch thrown after
\* the tool has read the list comes too late, see ReadList.)
DisabledRequesterChangesNothing ==
    [][\A a \in Actions :
         tool[a] \in AccessTools /\ a \in off => effects'[a] = effects[a]]_vars

\* A row a handler has approved and holds is resolved, unless a request about it
\* dies on the way (then it stays "approved": nothing looks for such rows).
ApprovedIsResolved ==
    \A a \in Actions :
        (\E h \in Handlers : Holds(h, a)) ~>
            \/ status[a] \in {"executed", "failed"}
            \/ \E h \in Handlers : req[h].act = a /\ req[h].answer = "error"

\* All of the handlers together keep the promise of the outbox.
Promise == INSTANCE OutboxPromise WITH happened <- effects
KeepsThePromise == Promise!Spec

------------------------------------------------------------------------
(* Why it holds: what a row says of itself, what a handler at each of its   *)
(* steps may rely on, and that two handlers never work on the same row      *)

RowInv(a) ==
    /\ effects[a] <= 1
    /\ status[a] \in {"absent", "pending", "rejected", "expired"} => effects[a] = 0
    /\ status[a] = "executed" => effects[a] = 1
    /\ status[a] \in {"absent", "pending", "expired"} <=> decidedBy[a] = {}
    /\ \A u \in decidedBy[a] : Rank[u] >= ApprovalRole(tool[a])
    /\ "ok" \in audit[a]       => status[a] = "executed"
    /\ "failed" \in audit[a]   => status[a] = "failed"
    /\ "rejected" \in audit[a] => status[a] = "rejected"

\* Row a was decided by the user of handler h and stands at status s.
Left(h, a, s) == status[a] = s /\ decidedBy[a] = {req[h].user}

HandlerInv(h, a) ==
    /\ req[h].step \in {"queued", "asking", "claim"} => status[a] # "absent"
    /\ req[h].step = "claim"   => Rank[req[h].user] >= ApprovalRole(tool[a])
    /\ Holds(h, a)             => Left(h, a, "approved") /\ req[h].decision = "approve"
    /\ req[h].step \in {"execute", "change"} => effects[a] = 0
    /\ req[h].step = "record"  =>
         /\ req[h].outcome \in {"ok", "error"}
         /\ req[h].outcome = "ok" => effects[a] = 1
    /\ req[h].step = "audit"   =>
         Left(h, a, IF Verdict(h) = "ok" THEN "executed" ELSE Verdict(h))
    /\ req[h].step = "done"    =>
         /\ req[h].answer = "ok" => Left(h, a, "executed")
         /\ req[h].answer \in {"failed", "rejected"} => Left(h, a, req[h].answer)
         /\ req[h].answer = "conflict" => status[a] \notin {"absent", "pending"}

HolderIsAlone ==
    \A a \in Actions, g, h \in Handlers : Holds(g, a) /\ Holds(h, a) => g = h

\* A row whose requester is off stays with that requester, and no handler that found
\* the requester allowed is still about to act on it.
KillSwitchInv ==
    /\ \A a \in off : requester[a] \in disabled /\ status[a] \notin {"absent", "pending"}
    /\ \A h \in Handlers : req[h].step = "change" => req[h].act \notin off

IInv ==
    /\ TypeOK
    /\ \A a \in Actions : RowInv(a)
    /\ \A h \in Handlers : HandlerInv(h, req[h].act)
    /\ HolderIsAlone

------------------------------------------------------------------------
(* What two documents say and the code does not do *)

\* docs/FEATURE-APPROVAL-OUTBOX.md: expired rows are marked and cannot be approved.
ExpiredIsNotApproved ==
    [][\A a \in Actions :
         status[a] = "pending" /\ past[a] => status'[a] # "approved"]_vars

\* outbox/execute.py: one-time sign-in links are never persisted.
LinksAreNotStored == \A a \in Actions : result[a] # "link"
========================================================================
