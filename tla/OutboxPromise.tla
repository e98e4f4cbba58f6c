------------------------- MODULE OutboxPromise -------------------------
(***************************************************************************)
(* What the outbox promises, with no handlers, races or failures in sight: *)
(* a submitted action waits until it is approved, rejected or has expired; *)
(* only an approved one happens, once; and what is recorded of it is final *)
(* (docs/FEATURE-APPROVAL-OUTBOX.md, the status diagram).                  *)
(***************************************************************************)
EXTENDS Naturals

CONSTANT Actions

VARIABLES status, happened

vars == <<status, happened>>

Init ==
    /\ status   = [a \in Actions |-> "absent"]
    /\ happened = [a \in Actions |-> 0]

Move(a, from, to) ==
    /\ status[a] = from
    /\ status' = [status EXCEPT ![a] = to]
    /\ UNCHANGED happened

Submit(a)  == Move(a, "absent", "pending")
Approve(a) == Move(a, "pending", "approved")
Reject(a)  == Move(a, "pending", "rejected")

\* Expiry may sweep several actions at once.
Expire ==
    \E due \in SUBSET {a \in Actions : status[a] = "pending"} :
        /\ status' = [a \in Actions |-> IF a \in due THEN "expired" ELSE status[a]]
        /\ UNCHANGED happened

Happen(a) ==
    /\ status[a] = "approved"
    /\ happened[a] = 0
    /\ happened' = [happened EXCEPT ![a] = 1]
    /\ UNCHANGED status

\* A success is only ever reported of what happened; a failure may be reported
\* of something that broke after it happened.
Succeed(a) == happened[a] = 1 /\ Move(a, "approved", "executed")
GiveUp(a)  == Move(a, "approved", "failed")

Next ==
    \/ \E a \in Actions : \/ Submit(a)
                          \/ Approve(a)
                          \/ Reject(a)
                          \/ Happen(a)
                          \/ Succeed(a)
                          \/ GiveUp(a)
    \/ Expire

Spec == Init /\ [][Next]_vars
========================================================================
