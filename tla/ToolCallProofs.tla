--------------------------- MODULE ToolCallProofs ---------------------------
(***************************************************************************)
(* Proofs about the tool call path, for any number of processes, users,    *)
(* projects and calls, any limits and any window.                          *)
(***************************************************************************)
EXTENDS ToolCall, FiniteSetTheorems, TLAPS

Steps == {"user", "project", "role", "lookup", "run", "audit", "traces", "record", "fail"}
Fates == {"open", "ok", "replayed", "error", "refused", "died"}
Limitable == Users \union Projects

Call     == [id : Nat, step : Steps \union {"none"}, at : Nat]
PastCall == [user : Users, tool : Called, project : Projects, key : Keys \union {NoKey},
             fate : Fates, took : SUBSET (Limitable \X Nat), ran : BOOLEAN, queued : BOOLEAN,
             noted : BOOLEAN, traces : SUBSET {"timeline", "search", "event"},
             barred : BOOLEAN, beside : SUBSET Nat]
Slot     == [key : Limitable, at : Nat, id : Nat]
Stored   == [user : Users, tool : Called, key : Keys \union {NoKey}, by : Nat]

TypeInv ==
    /\ now \in Nat
    /\ slots \in SUBSET Slot /\ IsFiniteSet(slots)
    /\ stored \in SUBSET Stored
    /\ log \in Seq([id : Nat, ok : BOOLEAN])
    /\ disabled \in SUBSET Users
    /\ known \in [Instances -> SUBSET Users]
    /\ call \in [Instances -> Call]
    /\ past \in Seq(PastCall)

\* The calls in hand are those that have not ended, each in one process.
HandInv ==
    /\ \A i \in Instances : call[i] = Idle \/ (call[i].step # "none" /\ call[i].id \in Ids)
    /\ \A i \in Instances : call[i] # Idle => past[call[i].id].fate = "open"
    /\ \A i, j \in Instances : i # j /\ call[i] # Idle => call[i].id # call[j].id
    /\ \A n \in Ids : past[n].fate = "open" => \E i \in Instances : call[i].id = n

\* A process has read the clock at most Lag ago.
LagInv ==
    \A i \in Instances :
        call[i].step \in {"user", "project"} => call[i].at <= now /\ now <= call[i].at + Lag

\* What a call took is in the table until the window is over.
RowOfTook(n, x) ==
    \E s \in slots : s.key = x[1] /\ s.id = n /\ s.at <= x[2] /\ x[2] <= s.at + Lag
TookInv ==
    \A n \in Ids : \A x \in past[n].took :
        x[2] <= now /\ (x[2] + Window <= now + Lag \/ RowOfTook(n, x))

\* A row is what some call took, and a call has one row for a key.
SlotInv ==
    /\ \A s \in slots : s.id \in Ids /\ \E x \in past[s.id].took : x[1] = s.key /\ s.at <= x[2]
    /\ \A r, s \in slots : r.key = s.key /\ r.id = s.id => r = s
    /\ \A i \in Instances : At(i, "user") => past[call[i].id].took = {}
    /\ \A i \in Instances : At(i, "project") => \A x \in past[call[i].id].took : x[1] \in Users

LimitOf(key) == IF key \in Users THEN UserLimit ELSE ProjectLimit
QuotaInv ==
    \A key \in Limitable, t \in Nat :
        IsFiniteSet(Admitted(key, t)) /\ Cardinality(Admitted(key, t)) <= LimitOf(key)

\* What is answered is remembered, and no tool runs, or is about to, for who has an answer.
Settled(a, b) ==
    /\ a < b /\ SameRequest(a, b) /\ a \notin past[b].beside
    /\ past[a].fate \in {"ok", "replayed"}
KeyInv ==
    /\ \A n \in Ids : past[n].key # NoKey => past[n].tool \in Keyed
    /\ \A a, b \in Ids : a < b /\ a \notin past[b].beside => past[a].fate # "open"
    /\ \A a \in Ids : past[a].fate \in {"ok", "replayed"} /\ past[a].key # NoKey =>
         \E s \in stored : s.user = past[a].user /\ s.tool = past[a].tool /\ s.key = past[a].key
    /\ \A a, b \in Ids : Settled(a, b) =>
         ~past[b].ran /\ \A i \in Instances : call[i].id = b => call[i].step # "run"

\* Who ran was not barred; what is remembered ran and is in the log; a call has no entry
\* before its tool returned, and from then on its last one says ok until it ends.
SaysOk(n)       == \E k \in DOMAIN log : log[k] = [id |-> n, ok |-> TRUE]
LastSays(n, ok) == \E k \in Entries(n) : (\A l \in Entries(n) : l <= k) /\ log[k].ok = ok
Early           == {"user", "project", "role", "lookup", "run", "audit"}
HandOk(i) ==
    LET n == call[i].id
        c == past[n] IN
    /\ call[i].step \in {"audit", "traces", "record"} => c.ran
    /\ call[i].step \in {"traces", "record"} => Audited(c.tool) /\ LastSays(n, TRUE)
    /\ call[i].step \in Early => Entries(n) = {}
    /\ call[i].step = "lookup" => c.key # NoKey
    /\ c.noted
HandsInv ==
    \A i \in Instances :
        call[i] # Idle =>
            /\ past[call[i].id].barred = (past[call[i].id].user \in known[i])
            /\ HandOk(i)
RanInv ==
    /\ \A n \in Ids : past[n].ran => ~past[n].barred
    /\ \A k \in DOMAIN log : log[k].id \in Ids
    /\ \A s \in stored :
         /\ s.by \in Ids
         /\ past[s.by].user = s.user /\ past[s.by].tool = s.tool /\ past[s.by].key = s.key
         /\ past[s.by].ran /\ SaysOk(s.by)

\* The two halves of AnswersAgree, with the entry that is the last one named.
Agrees(n) ==
    LET c == past[n] IN
    /\ c.fate \in {"ok", "replayed", "error"} /\ Audited(c.tool) /\ c.noted =>
         LastSays(n, c.fate # "error")
    /\ c.fate = "refused" => Entries(n) = {}
    /\ c.traces # {} => SaysOk(n)
Stands(n) ==
    past[n].fate \in {"ok", "replayed"} =>
        \E m \in Ids :
            /\ m = n \/ (past[n].fate = "replayed" /\ SameRequest(m, n))
            /\ past[m].ran
            /\ Audited(past[n].tool) => SaysOk(m) /\ SaysOk(n)

AnswerInv == HandsInv /\ RanInv /\ \A n \in Ids : Agrees(n) /\ Stands(n)

------------------------------------------------------------------------
(* What a step of a call leaves as it is *)

\* r is what has become of a call that was c.
Keeps(r, c) ==
    /\ r.user = c.user /\ r.tool = c.tool /\ r.project = c.project
    /\ r.key = c.key /\ r.barred = c.barred /\ r.beside = c.beside

\* The call process i has in hand goes on as c or ends, and what is known of it is now r.
Acting(i, c, r) ==
    /\ c \in Call /\ r \in PastCall
    /\ call' = [call EXCEPT ![i] = c] /\ past' = [past EXCEPT ![call[i].id] = r]
    /\ Keeps(r, past[call[i].id])
    /\ \/ c = Idle /\ r.fate # "open"
       \/ c.id = call[i].id /\ c.step \in Steps /\ r.fate = "open"

Acts(i) ==
    /\ call[i] # Idle /\ call[i].id \in Ids /\ past[call[i].id] \in PastCall
    /\ call' \in [Instances -> Call] /\ past' \in Seq(PastCall) /\ Len(past') = Len(past)
    /\ Ids' = Ids
    /\ \A j \in Instances : j # i => call'[j] = call[j]
    /\ \A n \in Ids : n # call[i].id => past'[n] = past[n]
    /\ Keeps(past'[call[i].id], past[call[i].id])
    /\ \/ call'[i] = Idle /\ past'[call[i].id].fate # "open"
       \/ call'[i].id = call[i].id /\ call'[i].step \in Steps /\ past'[call[i].id].fate = "open"

LEMMA CallInHand ==
  ASSUME TypeInv, HandInv, NEW i \in Instances, call[i].step # "none"
  PROVE  /\ call[i] # Idle /\ call[i].id \in Ids /\ past[call[i].id] \in PastCall
         /\ past[call[i].id].fate = "open" /\ call[i] \in Call
  <1>1. call[i] # Idle
    BY DEF Idle
  <1>2. call[i] \in Call /\ call[i].id \in Ids
    BY <1>1 DEF TypeInv, HandInv
  <1> QED
    BY <1>1, <1>2 DEF TypeInv, HandInv, Ids

LEMMA ActingActs ==
  ASSUME TypeInv, HandInv, NEW i \in Instances, call[i] # Idle,
         NEW c, NEW r, Acting(i, c, r)
  PROVE  Acts(i) /\ call'[i] = c /\ past'[call[i].id] = r
  <1>1. call[i].id \in Ids /\ call[i].id \in Nat
    BY DEF TypeInv, HandInv, Call
  <1>2. past[call[i].id] \in PastCall
    BY <1>1 DEF TypeInv, Ids
  <1>3. /\ past' \in Seq(PastCall) /\ Len(past') = Len(past)
        /\ past'[call[i].id] = r /\ \A n \in Ids : n # call[i].id => past'[n] = past[n]
    BY <1>1 DEF Acting, TypeInv, Ids
  <1>4. Ids' = Ids
    BY <1>3 DEF Ids, TypeInv
  <1>5. /\ call' \in [Instances -> Call] /\ call'[i] = c
        /\ \A j \in Instances : j # i => call'[j] = call[j]
    BY DEF Acting, TypeInv
  <1> QED
    BY <1>1, <1>2, <1>3, <1>4, <1>5 DEF Acting, Acts

\* The three ways a call goes on.
LEMMA GotoActs ==
  ASSUME TypeInv, HandInv, NEW i \in Instances, call[i].step # "none", NEW s \in Steps,
         Goto(i, s), past' = past
  PROVE  /\ Acts(i) /\ call'[i] = [call[i] EXCEPT !.step = s]
         /\ past'[call[i].id] = past[call[i].id]
  <1> DEFINE c == [call[i] EXCEPT !.step = s]
             r == past[call[i].id]
  <1>1. call[i] # Idle /\ call[i].id \in Ids /\ r \in PastCall /\ r.fate = "open" /\ call[i] \in Call
    BY CallInHand
  <1>2. c \in Call /\ c.id = call[i].id /\ c.step = s
    BY <1>1 DEF Call
  <1>3. call' = [call EXCEPT ![i] = c]
    BY DEF Goto, TypeInv
  <1>4. past' = [past EXCEPT ![call[i].id] = r]
    BY DEF TypeInv
  <1>5. Acting(i, c, r)
    BY <1>1, <1>2, <1>3, <1>4 DEF Acting, Keeps
  <1> QED
    BY <1>1, <1>5, ActingActs

LEMMA FinishActs ==
  ASSUME TypeInv, HandInv, NEW i \in Instances, call[i].step # "none", NEW r \in PastCall,
         Keeps(r, past[call[i].id]), r.fate # "open", Finish(i, r)
  PROVE  Acts(i) /\ call'[i] = Idle /\ past'[call[i].id] = r
  <1>1. call[i] # Idle
    BY CallInHand
  <1>2. Idle \in Call
    BY DEF Idle, Call
  <1>3. Acting(i, Idle, r)
    BY <1>2 DEF Acting, Finish
  <1> QED
    BY <1>1, <1>3, ActingActs

LEMMA EndedActs ==
  ASSUME TypeInv, HandInv, NEW i \in Instances, call[i].step # "none", NEW f \in Fates \ {"open"},
         Ended(i, f)
  PROVE  /\ Acts(i) /\ call'[i] = Idle
         /\ past'[call[i].id] = [past[call[i].id] EXCEPT !.fate = f]
  <1> DEFINE r == [past[call[i].id] EXCEPT !.fate = f]
  <1>1. past[call[i].id] \in PastCall
    BY CallInHand
  <1>2. r \in PastCall /\ r.fate = f /\ Keeps(r, past[call[i].id])
    BY <1>1 DEF PastCall, Keeps
  <1>3. Finish(i, r)
    BY DEF Ended, Mine
  <1> QED
    BY <1>2, <1>3, FinishActs

\* A call that ends in an error without an entry in the log.
LEMMA UnnotedActs ==
  ASSUME TypeInv, HandInv, NEW i \in Instances, call[i].step # "none",
         Finish(i, [Mine(i) EXCEPT !.fate = "error", !.noted = FALSE])
  PROVE  /\ Acts(i) /\ call'[i] = Idle
         /\ past'[call[i].id] = [past[call[i].id] EXCEPT !.fate = "error", !.noted = FALSE]
  <1> DEFINE r == [past[call[i].id] EXCEPT !.fate = "error", !.noted = FALSE]
  <1>1. past[call[i].id] \in PastCall
    BY CallInHand
  <1>2. r \in PastCall /\ r.fate = "error" /\ Keeps(r, past[call[i].id])
    BY <1>1 DEF PastCall, Keeps, Fates
  <1>3. Finish(i, r)
    BY DEF Mine
  <1> QED
    BY <1>2, <1>3, FinishActs

\* A call that passes a limit has taken one of key's.
LEMMA PassActs ==
  ASSUME TypeInv, HandInv, NEW i \in Instances, call[i].step # "none",
         NEW key \in Limitable, NEW next \in Steps, NEW at \in Nat,
         call' = [call EXCEPT ![i] = [id |-> call[i].id, step |-> next, at |-> at]],
         past' = [past EXCEPT ![call[i].id].took = @ \union {<<key, now>>}]
  PROVE  /\ Acts(i) /\ call'[i] = [id |-> call[i].id, step |-> next, at |-> at]
         /\ past'[call[i].id] = [past[call[i].id] EXCEPT !.took = @ \union {<<key, now>>}]
  <1> DEFINE c == [id |-> call[i].id, step |-> next, at |-> at]
             p == past[call[i].id]
             r == [p EXCEPT !.took = @ \union {<<key, now>>}]
  <1>1. call[i] # Idle /\ call[i].id \in Ids /\ p \in PastCall /\ p.fate = "open" /\ call[i] \in Call
    BY CallInHand
  <1>2. c \in Call
    BY <1>1 DEF Call
  <1>3. r \in PastCall /\ r.fate = "open" /\ Keeps(r, p)
    <2>1. p.took \in SUBSET (Limitable \X Nat) /\ <<key, now>> \in Limitable \X Nat
      BY <1>1 DEF PastCall, TypeInv
    <2>2. p.took \union {<<key, now>>} \in SUBSET (Limitable \X Nat)
      BY <2>1
    <2>3. \A T \in SUBSET (Limitable \X Nat) : [p EXCEPT !.took = T] \in PastCall
      BY <1>1 DEF PastCall
    <2> QED
      BY <1>1, <2>2, <2>3 DEF Keeps, PastCall
  <1>5. past' = [past EXCEPT ![call[i].id] = r]
    BY <1>1 DEF TypeInv, Ids
  <1>6. Acting(i, c, r)
    BY <1>2, <1>3, <1>5 DEF Acting
  <1> QED
    BY <1>1, <1>6, ActingActs

------------------------------------------------------------------------
(* The limits *)

\* The two ends of a check, and the steps that do not touch the limiter.
Passed(i, key, next) ==
    /\ Acts(i)
    /\ slots' = Fresh(key, call[i].at) \union {[key |-> key, at |-> call[i].at, id |-> call[i].id]}
    /\ call'[i].step = next /\ call'[i].at = (IF next = "project" THEN now ELSE 0)
    /\ past'[call[i].id].took = past[call[i].id].took \union {<<key, now>>}

Refused(i, key) ==
    /\ Acts(i)
    /\ slots' = Fresh(key, call[i].at)
    /\ call'[i] = Idle /\ past'[call[i].id].took = past[call[i].id].took

Quiet(i) ==
    /\ Acts(i)
    /\ slots' = slots
    /\ call'[i].step \notin {"user", "project"}
    /\ past'[call[i].id].took = past[call[i].id].took

LEMMA CheckEnds ==
  ASSUME TypeInv, HandInv, NEW i \in Instances, call[i].step # "none",
         NEW key \in Limitable, NEW limit \in Nat, NEW next \in {"project", "role"},
         Check(i, key, limit, next)
  PROVE  \/ Count(key, call[i].at) < limit /\ Passed(i, key, next)
         \/ ~(Count(key, call[i].at) < limit) /\ Refused(i, key)
  <1> DEFINE at == IF next = "project" THEN now ELSE 0
             c  == [id |-> call[i].id, step |-> next, at |-> at]
  <1>0. past[call[i].id] \in PastCall
    BY CallInHand
  <1>1. CASE Count(key, call[i].at) < limit
    <2>1. /\ slots' = Fresh(key, call[i].at) \union {[key |-> key, at |-> call[i].at, id |-> call[i].id]}
          /\ call' = [call EXCEPT ![i] = c]
          /\ past' = [past EXCEPT ![call[i].id].took = @ \union {<<key, now>>}]
      BY <1>1 DEF Check
    <2>2. at \in Nat /\ next \in Steps
      BY DEF TypeInv, Steps
    <2>3. /\ Acts(i) /\ call'[i] = c
          /\ past'[call[i].id] = [past[call[i].id] EXCEPT !.took = @ \union {<<key, now>>}]
      <3> HIDE DEF at
      <3> QED
        BY <2>1, <2>2, PassActs
    <2> QED
      BY <1>0, <1>1, <2>1, <2>3 DEF Passed, PastCall
  <1>2. CASE ~(Count(key, call[i].at) < limit)
    <2>1. slots' = Fresh(key, call[i].at) /\ Ended(i, "refused")
      BY <1>2 DEF Check
    <2>2. /\ Acts(i) /\ call'[i] = Idle
          /\ past'[call[i].id] = [past[call[i].id] EXCEPT !.fate = "refused"]
      BY <2>1, EndedActs DEF Fates
    <2> QED
      BY <1>0, <1>2, <2>1, <2>2 DEF Refused, PastCall
  <1> QED
    BY <1>1, <1>2

LEMMA UserChecked ==
  ASSUME TypeInv, HandInv, NEW i \in Instances, CheckUser(i)
  PROVE  LET key == past[call[i].id].user IN
         /\ key \in Users /\ At(i, "user")
         /\ \/ Count(key, call[i].at) < UserLimit /\ Passed(i, key, "project")
            \/ ~(Count(key, call[i].at) < UserLimit) /\ Refused(i, key)
  <1> DEFINE key == past[call[i].id].user
  <1>1. At(i, "user") /\ call[i].step # "none" /\ Check(i, key, UserLimit, "project")
    BY DEF CheckUser, At, Mine
  <1>2. key \in Users
    BY <1>1, CallInHand DEF PastCall
  <1>3. key \in Limitable /\ UserLimit \in Nat
    BY <1>2, LimitsAssumption DEF Limitable
  <1>4. \/ Count(key, call[i].at) < UserLimit /\ Passed(i, key, "project")
        \/ ~(Count(key, call[i].at) < UserLimit) /\ Refused(i, key)
    <2> HIDE DEF key
    <2> QED
      BY <1>1, <1>3, CheckEnds
  <1> QED
    BY <1>1, <1>2, <1>4

LEMMA ProjectChecked ==
  ASSUME TypeInv, HandInv, NEW i \in Instances, CheckProject(i)
  PROVE  LET key == past[call[i].id].project IN
         /\ key \in Projects /\ At(i, "project")
         /\ \/ Count(key, call[i].at) < ProjectLimit /\ Passed(i, key, "role")
            \/ ~(Count(key, call[i].at) < ProjectLimit) /\ Refused(i, key)
  <1> DEFINE key == past[call[i].id].project
  <1>1. At(i, "project") /\ call[i].step # "none" /\ Check(i, key, ProjectLimit, "role")
    BY DEF CheckProject, At, Mine
  <1>2. key \in Projects
    BY <1>1, CallInHand DEF PastCall
  <1>3. key \in Limitable /\ ProjectLimit \in Nat
    BY <1>2, LimitsAssumption DEF Limitable
  <1>4. \/ Count(key, call[i].at) < ProjectLimit /\ Passed(i, key, "role")
        \/ ~(Count(key, call[i].at) < ProjectLimit) /\ Refused(i, key)
    <2> HIDE DEF key
    <2> QED
      BY <1>1, <1>3, CheckEnds
  <1> QED
    BY <1>1, <1>2, <1>4

\* A step that goes on to another, or ends the call, by Goto and Ended alone.
LEMMA GotoIsQuiet ==
  ASSUME TypeInv, HandInv, NEW i \in Instances, call[i].step # "none",
         NEW s \in Steps \ {"user", "project"}, Goto(i, s), past' = past, slots' = slots
  PROVE  Quiet(i)
  <1>1. call[i] \in Call
    BY CallInHand
  <1>2. Acts(i) /\ call'[i] = [call[i] EXCEPT !.step = s] /\ past'[call[i].id] = past[call[i].id]
    BY GotoActs
  <1> QED
    BY <1>1, <1>2 DEF Quiet, Call

LEMMA EndedIsQuiet ==
  ASSUME TypeInv, HandInv, NEW i \in Instances, call[i].step # "none",
         NEW f \in Fates \ {"open"}, Ended(i, f), slots' = slots
  PROVE  Quiet(i)
  <1>1. past[call[i].id] \in PastCall
    BY CallInHand
  <1>2. /\ Acts(i) /\ call'[i] = Idle
        /\ past'[call[i].id] = [past[call[i].id] EXCEPT !.fate = f]
    BY EndedActs
  <1> QED
    BY <1>1, <1>2 DEF Quiet, Idle, PastCall

LEMMA UnnotedIsQuiet ==
  ASSUME TypeInv, HandInv, NEW i \in Instances, call[i].step # "none",
         Finish(i, [Mine(i) EXCEPT !.fate = "error", !.noted = FALSE]), slots' = slots
  PROVE  Quiet(i)
  <1>1. past[call[i].id] \in PastCall
    BY CallInHand
  <1>2. /\ Acts(i) /\ call'[i] = Idle
        /\ past'[call[i].id] = [past[call[i].id] EXCEPT !.fate = "error", !.noted = FALSE]
    BY UnnotedActs
  <1> QED
    BY <1>1, <1>2 DEF Quiet, Idle, PastCall

\* A tool that does its work, and returns or raises after it.
LEMMA RunActs ==
  ASSUME TypeInv, HandInv, NEW i \in Instances, Run(i)
  PROVE  /\ Quiet(i) /\ call'[i].step \in {"audit", "fail"}
         /\ \E q \in BOOLEAN :
              past'[call[i].id] = [past[call[i].id] EXCEPT !.ran = TRUE, !.queued = q]
  <1> DEFINE p == past[call[i].id]
  <1>1. call[i].step # "none" /\ call[i] \in Call /\ call[i] # Idle /\ call[i].id \in Ids
        /\ p \in PastCall /\ p.fate = "open"
    BY CallInHand DEF Run, At
  <1>2. PICK q \in BOOLEAN : past' = [past EXCEPT ![call[i].id].ran = TRUE, ![call[i].id].queued = q]
    BY DEF Run
  <1>3. PICK s \in {"audit", "fail"} : Goto(i, s)
    BY DEF Run
  <1> DEFINE c == [call[i] EXCEPT !.step = s]
             r == [p EXCEPT !.ran = TRUE, !.queued = q]
  <1>4. c \in Call /\ c.id = call[i].id /\ c.step = s /\ s \in Steps
    BY <1>1 DEF Call, Steps
  <1>5. call' = [call EXCEPT ![i] = c]
    BY <1>3 DEF Goto, TypeInv
  <1>6. r \in PastCall /\ r.fate = "open" /\ Keeps(r, p) /\ r.took = p.took
    BY <1>1 DEF PastCall, Keeps
  <1>7. past' = [past EXCEPT ![call[i].id] = r]
    BY <1>1, <1>2 DEF TypeInv, Ids
  <1>8. Acting(i, c, r)
    BY <1>4, <1>5, <1>6, <1>7 DEF Acting
  <1>9. Acts(i) /\ call'[i] = c /\ past'[call[i].id] = r
    <2> HIDE DEF c, r
    <2> QED
      BY <1>1, <1>8, ActingActs
  <1>10. slots' = slots
    BY DEF Run
  <1> QED
    BY <1>4, <1>6, <1>9, <1>10 DEF Quiet

LEMMA LeaveTracesActs ==
  ASSUME TypeInv, HandInv, NEW i \in Instances, LeaveTraces(i)
  PROVE  /\ Quiet(i) /\ call'[i].step = "record"
         /\ \E left \in SUBSET {"timeline", "search", "event"} :
              past'[call[i].id] = [past[call[i].id] EXCEPT !.traces = left]
  <1> DEFINE p == past[call[i].id]
             c == [call[i] EXCEPT !.step = "record"]
  <1>1. call[i].step # "none" /\ call[i] \in Call /\ call[i] # Idle /\ call[i].id \in Ids
        /\ p \in PastCall /\ p.fate = "open"
    BY CallInHand DEF LeaveTraces, At
  <1>2. PICK left \in SUBSET {"timeline", "search", "event"} :
          past' = [past EXCEPT ![call[i].id].traces = left]
    BY DEF LeaveTraces, TracesOf
  <1> DEFINE r == [p EXCEPT !.traces = left]
  <1>4. c \in Call /\ c.id = call[i].id /\ c.step = "record" /\ "record" \in Steps
    BY <1>1 DEF Call, Steps
  <1>5. call' = [call EXCEPT ![i] = c]
    BY DEF LeaveTraces, Goto, TypeInv
  <1>6. r \in PastCall /\ r.fate = "open" /\ Keeps(r, p) /\ r.took = p.took
    BY <1>1 DEF PastCall, Keeps
  <1>7. past' = [past EXCEPT ![call[i].id] = r]
    BY <1>1, <1>2 DEF TypeInv, Ids
  <1>8. Acting(i, c, r)
    BY <1>4, <1>5, <1>6, <1>7 DEF Acting
  <1>9. Acts(i) /\ call'[i] = c /\ past'[call[i].id] = r
    <2> HIDE DEF c, r
    <2> QED
      BY <1>1, <1>8, ActingActs
  <1>10. slots' = slots
    BY DEF LeaveTraces
  <1> QED
    BY <1>4, <1>6, <1>9, <1>10 DEF Quiet

\* Every step but the two checks is quiet.
LEMMA QuietSteps ==
  ASSUME TypeInv, HandInv, NEW i \in Instances, Step(i) \/ Crash(i)
  PROVE  CheckUser(i) \/ CheckProject(i) \/ Quiet(i)
  <1> SUFFICES ASSUME ~CheckUser(i), ~CheckProject(i)
               PROVE  Quiet(i)
    OBVIOUS
  <1>1. CASE CheckRole(i)
    <2>1. call[i].step # "none" /\ slots' = slots
      BY <1>1 DEF CheckRole, At
    <2>2. \/ Ended(i, "refused")
          \/ \E s \in {"run", "lookup"} : Goto(i, s) /\ past' = past
      BY <1>1 DEF CheckRole
    <2> QED
      BY <2>1, <2>2, GotoIsQuiet, EndedIsQuiet DEF Steps, Fates
  <1>2. CASE Lookup(i)
    <2>1. call[i].step # "none" /\ slots' = slots
      BY <1>2 DEF Lookup, At
    <2>2. Ended(i, "replayed") \/ (Goto(i, "run") /\ past' = past)
      BY <1>2 DEF Lookup
    <2> QED
      BY <2>1, <2>2, GotoIsQuiet, EndedIsQuiet DEF Steps, Fates
  <1>3. CASE LookupFails(i)
    BY <1>3, UnnotedIsQuiet DEF LookupFails, At
  <1>4. CASE Run(i)
    BY <1>4, RunActs
  <1>5. CASE RunRefused(i)
    BY <1>5, GotoIsQuiet DEF RunRefused, At, Steps
  <1>6. CASE Audit(i)
    <2>1. call[i].step # "none" /\ slots' = slots
      BY <1>6 DEF Audit, At
    <2>2. Ended(i, "ok") \/ (Goto(i, "traces") /\ past' = past)
      BY <1>6 DEF Audit
    <2> QED
      BY <2>1, <2>2, GotoIsQuiet, EndedIsQuiet DEF Steps, Fates
  <1>7. CASE AuditFails(i)
    BY <1>7, GotoIsQuiet DEF AuditFails, At, Steps
  <1>8. CASE LeaveTraces(i)
    BY <1>8, LeaveTracesActs
  <1>9. CASE Record(i)
    BY <1>9, EndedIsQuiet DEF Record, At, Fates
  <1>10. CASE RecordFails(i)
    BY <1>10, GotoIsQuiet DEF RecordFails, At, Steps
  <1>11. CASE Fail(i)
    <2>1. call[i].step # "none" /\ slots' = slots
      BY <1>11 DEF Fail, At
    <2>2. Ended(i, "error") \/ Finish(i, [Mine(i) EXCEPT !.fate = "error", !.noted = FALSE])
      BY <1>11 DEF Fail
    <2> QED
      BY <2>1, <2>2, EndedIsQuiet, UnnotedIsQuiet DEF Fates
  <1>12. CASE Crash(i)
    <2>1. call[i].step # "none"
      BY <1>12 DEF Crash, HandInv
    <2> QED
      BY <1>12, <2>1, EndedIsQuiet DEF Crash, Fates
  <1> QED
    BY <1>1, <1>2, <1>3, <1>4, <1>5, <1>6, <1>7, <1>8, <1>9, <1>10, <1>11, <1>12 DEF Step

\* Whatever a process does, it moves its own call on and no other.
LEMMA StepActs ==
  ASSUME TypeInv, HandInv, NEW i \in Instances, Step(i) \/ Crash(i)
  PROVE  Acts(i)
  BY QuietSteps, UserChecked, ProjectChecked DEF Quiet, Passed, Refused

\* A new call, and what it starts with.
Fresher(i, u, t, p, k) ==
    [user |-> u, tool |-> t, project |-> p, key |-> k, fate |-> "open",
     took |-> {}, ran |-> FALSE, queued |-> FALSE, noted |-> TRUE, traces |-> {},
     barred |-> u \in known[i], beside |-> {call[j].id : j \in Instances} \ {0}]
Begun(i, r) ==
    /\ call[i] = Idle /\ r \in PastCall
    /\ past' \in Seq(PastCall) /\ call' \in [Instances -> Call]
    /\ Ids' = Ids \union {Len(past) + 1} /\ Len(past) + 1 \notin Ids /\ Len(past) + 1 \in Nat \ {0}
    /\ \A n \in Ids : n <= Len(past) /\ n < Len(past) + 1
    /\ past'[Len(past) + 1] = r /\ \A n \in Ids : past'[n] = past[n]
    /\ \A j \in Instances : j # i => call'[j] = call[j]
    /\ call'[i].id = Len(past) + 1
    /\ \/ call'[i].step = "user" /\ call'[i].at = now
       \/ call'[i].step = "run" /\ ~Limited(r.tool)

LEMMA BeginBegins ==
  ASSUME TypeInv, HandInv, NEW i \in Instances, NEW u \in Users, NEW t \in Called,
         NEW p \in Projects, NEW k \in Keys \union {NoKey}, Begin(i, u, t, p, k)
  PROVE  Begun(i, Fresher(i, u, t, p, k))
  <1> DEFINE r == Fresher(i, u, t, p, k)
             n == Len(past) + 1
             c == IF Limited(t) THEN [id |-> n, step |-> "user", at |-> now]
                                ELSE [id |-> n, step |-> "run", at |-> 0]
  <1>1. call[i] = Idle
    BY DEF Begin, At, HandInv
  <1>2. r \in PastCall
    <2>1. {call[j].id : j \in Instances} \ {0} \in SUBSET Nat
      BY DEF TypeInv, Call
    <2>2. (u \in known[i]) \in BOOLEAN
      OBVIOUS
    <2> QED
      BY <2>1, <2>2 DEF PastCall, Fresher, Fates
  <1>3. past' = Append(past, r)
    BY DEF Begin, Fresher
  <1>4. /\ past' \in Seq(PastCall) /\ Len(past') = n /\ n \in Nat \ {0}
        /\ past'[n] = r /\ \A m \in 1..Len(past) : past'[m] = past[m]
    <2> HIDE DEF r
    <2> QED
      BY <1>2, <1>3 DEF TypeInv
  <1>5. Ids' = Ids \union {n} /\ n \notin Ids /\ \A m \in Ids : m <= Len(past) /\ m < n
    BY <1>4 DEF Ids, TypeInv
  <1>6. call' = [call EXCEPT ![i] = c]
    BY <1>4 DEF Begin
  <1>7. c \in Call
    BY <1>4 DEF Call, Steps, TypeInv
  <1>8. /\ call' \in [Instances -> Call] /\ call'[i] = c
        /\ \A j \in Instances : j # i => call'[j] = call[j]
    <2> HIDE DEF c
    <2> QED
      BY <1>6, <1>7 DEF TypeInv
  <1>9. r.tool = t
    BY DEF Fresher
  <1>10. /\ c.id = n
         /\ (c.step = "user" /\ c.at = now) \/ (c.step = "run" /\ ~Limited(r.tool))
    BY <1>9
  <1>11. \A m \in Ids : past'[m] = past[m]
    BY <1>4 DEF Ids, TypeInv
  <1> HIDE DEF r, c
  <1>12. Begun(i, r)
    BY <1>1, <1>2, <1>4, <1>5, <1>8, <1>10, <1>11 DEF Begun
  <1> QED
    BY <1>12 DEF r

LEMMA HandStep ==
  ASSUME TypeInv, HandInv, NEW i \in Instances, Acts(i)
  PROVE  HandInv'
  <1>1. call[i].id \in Nat /\ \A j \in Instances : call[j].id \in Nat
    BY DEF TypeInv, Call
  <1>2. Idle.id = 0 /\ Idle.step = "none" /\ 0 \notin Ids
    BY DEF Idle, Ids, TypeInv
  <1>3. call'[i] # Idle => call'[i].id = call[i].id /\ call'[i].step \in Steps
    BY DEF Acts
  <1>4. \A j \in Instances : call'[j] = Idle \/ (call'[j].step # "none" /\ call'[j].id \in Ids')
    BY <1>3 DEF Acts, HandInv, Steps
  <1>5. \A j \in Instances : call'[j] # Idle => past'[call'[j].id].fate = "open"
    <2> SUFFICES ASSUME NEW j \in Instances, call'[j] # Idle
                 PROVE  past'[call'[j].id].fate = "open"
      OBVIOUS
    <2>1. CASE j = i
      BY <2>1 DEF Acts
    <2>2. CASE j # i
      BY <2>2 DEF Acts, HandInv
    <2> QED
      BY <2>1, <2>2
  <1>6. \A j, k \in Instances : j # k /\ call'[j] # Idle => call'[j].id # call'[k].id
    <2> SUFFICES ASSUME NEW j \in Instances, NEW k \in Instances, j # k, call'[j] # Idle
                 PROVE  call'[j].id # call'[k].id
      OBVIOUS
    <2>1. \A l \in Instances : call'[l].id = call[l].id \/ call'[l] = Idle
      BY DEF Acts
    <2>2. call'[j].id = call[j].id /\ call[j] # Idle
      BY <2>1 DEF Acts
    <2>3. call'[j].id \in Ids
      BY <1>4 DEF Acts
    <2> QED
      BY <1>2, <2>1, <2>2, <2>3 DEF HandInv
  <1>7. \A n \in Ids' : past'[n].fate = "open" => \E j \in Instances : call'[j].id = n
    <2> SUFFICES ASSUME NEW n \in Ids, past'[n].fate = "open"
                 PROVE  \E j \in Instances : call'[j].id = n
      BY DEF Acts
    <2>1. CASE n = call[i].id
      BY <2>1 DEF Acts
    <2>2. CASE n # call[i].id
      BY <2>2 DEF Acts, HandInv
    <2> QED
      BY <2>1, <2>2
  <1> QED
    BY <1>4, <1>5, <1>6, <1>7 DEF HandInv

LEMMA HandBegin ==
  ASSUME TypeInv, HandInv, NEW i \in Instances, NEW r, r.fate = "open", Begun(i, r)
  PROVE  HandInv'
  <1> DEFINE new == Len(past) + 1
  <1>1. Idle.id = 0 /\ Idle.step = "none" /\ 0 \notin Ids
    BY DEF Idle, Ids, TypeInv
  <1>2. \A j \in Instances : call'[j] = Idle \/ (call'[j].step # "none" /\ call'[j].id \in Ids')
    BY DEF Begun, HandInv
  <1>3. \A j \in Instances : call'[j] # Idle => past'[call'[j].id].fate = "open"
    BY DEF Begun, HandInv
  <1>4. \A j, k \in Instances : j # k /\ call'[j] # Idle => call'[j].id # call'[k].id
    BY <1>1 DEF Begun, HandInv
  <1>5. \A n \in Ids' : past'[n].fate = "open" => \E j \in Instances : call'[j].id = n
    <2> SUFFICES ASSUME NEW n \in Ids', past'[n].fate = "open"
                 PROVE  \E j \in Instances : call'[j].id = n
      OBVIOUS
    <2>1. CASE n = new
      BY <2>1 DEF Begun
    <2>2. CASE n \in Ids
      <3>1. PICK j \in Instances : call[j].id = n
        BY <2>2 DEF Begun, HandInv
      <3>2. j # i
        BY <1>1, <2>2, <3>1 DEF Begun
      <3> QED
        BY <3>1, <3>2 DEF Begun
    <2> QED
      BY <2>1, <2>2 DEF Begun
  <1> QED
    BY <1>2, <1>3, <1>4, <1>5 DEF HandInv

\* The calls let through with a key in some window, of the calls so far.
LEMMA AdmittedOfTook ==
  ASSUME NEW key, NEW t
  PROVE  Admitted(key, t) = {n \in Ids : \E x \in past[n].took :
                                x[1] = key /\ x[2] >= t /\ x[2] + Lag < t + Window}
  BY DEF Admitted

LimiterInv == LagInv /\ TookInv /\ SlotInv /\ QuotaInv

LEMMA TookTyped ==
  ASSUME TypeInv, NEW n \in Ids, NEW x \in past[n].took
  PROVE  x[1] \in Limitable /\ x[2] \in Nat
  <1>1. past[n] \in PastCall
    BY DEF TypeInv, Ids
  <1> QED
    BY <1>1 DEF PastCall

LEMMA LimiterQuiet ==
  ASSUME TypeInv, HandInv, LimiterInv, NEW i \in Instances, Quiet(i), now' = now
  PROVE  LimiterInv'
  <1>1. \A n \in Ids : past'[n].took = past[n].took
    BY DEF Quiet, Acts
  <1>2. Ids' = Ids /\ slots' = slots
    BY DEF Quiet, Acts
  <1>3. \A j \in Instances : call'[j] = call[j] \/ call'[j].step \notin {"user", "project"}
    BY DEF Quiet, Acts
  <1>4. LagInv'
    BY <1>3 DEF LimiterInv, LagInv
  <1>5. TookInv'
    BY <1>1, <1>2 DEF LimiterInv, TookInv, RowOfTook
  <1>6. SlotInv'
    <2>1. \A j \in Instances : At(j, "user")' => past'[call'[j].id].took = {}
      <3> SUFFICES ASSUME NEW j \in Instances, call'[j].step = "user"
                   PROVE  past'[call'[j].id].took = {}
        BY DEF At
      <3>1. call'[j] = call[j] /\ call[j] # Idle
        BY <1>3 DEF Idle
      <3> QED
        BY <1>1, <3>1 DEF LimiterInv, SlotInv, At, HandInv
    <2>2. \A j \in Instances : At(j, "project")' => \A x \in past'[call'[j].id].took : x[1] \in Users
      <3> SUFFICES ASSUME NEW j \in Instances, call'[j].step = "project"
                   PROVE  \A x \in past'[call'[j].id].took : x[1] \in Users
        BY DEF At
      <3>1. call'[j] = call[j] /\ call[j] # Idle
        BY <1>3 DEF Idle
      <3> QED
        BY <1>1, <3>1 DEF LimiterInv, SlotInv, At, HandInv
    <2> QED
      BY <1>1, <1>2, <2>1, <2>2 DEF LimiterInv, SlotInv
  <1>7. \A key, t : Admitted(key, t)' = Admitted(key, t)
    BY <1>1, <1>2 DEF Admitted
  <1>8. QuotaInv'
    BY <1>7 DEF LimiterInv, QuotaInv
  <1> QED
    BY <1>4, <1>5, <1>6, <1>8 DEF LimiterInv

LEMMA LimiterRefused ==
  ASSUME TypeInv, HandInv, LimiterInv, NEW i \in Instances,
         call[i].step \in {"user", "project"}, NEW key, Refused(i, key), now' = now
  PROVE  LimiterInv'
  <1>1. \A n \in Ids : past'[n].took = past[n].took
    BY DEF Refused, Acts
  <1>2. Ids' = Ids
    BY DEF Refused, Acts
  <1>3. \A j \in Instances : call'[j] = call[j] \/ call'[j].step \notin {"user", "project"}
    BY DEF Refused, Acts, Idle
  <1>4. LagInv'
    BY <1>3 DEF LimiterInv, LagInv
  <1>5. TookInv'
    <2> SUFFICES ASSUME NEW n \in Ids, NEW x \in past[n].took
                 PROVE  x[2] <= now /\ (x[2] + Window <= now + Lag \/ RowOfTook(n, x)')
      BY <1>1, <1>2 DEF TookInv
    <2>1. x[2] <= now /\ x[2] \in Nat
      BY TookTyped DEF LimiterInv, TookInv
    <2>2. CASE x[2] + Window <= now + Lag
      BY <2>1, <2>2
    <2>3. CASE RowOfTook(n, x)
      <3>1. PICK s \in slots : s.key = x[1] /\ s.id = n /\ s.at <= x[2] /\ x[2] <= s.at + Lag
        BY <2>3 DEF RowOfTook
      <3>2. s.at \in Nat /\ call[i].at \in Nat /\ now \in Nat /\ Lag \in Nat /\ Window \in Nat
        BY LimitsAssumption DEF TypeInv, Slot, Call
      <3>3. call[i].at <= now
        BY DEF LimiterInv, LagInv
      <3>4. CASE s \in Fresh(key, call[i].at)
        BY <2>1, <3>1, <3>4 DEF RowOfTook, Refused
      <3>5. CASE s \notin Fresh(key, call[i].at)
        <4>1. s.at + Window <= call[i].at
          BY <3>2, <3>5 DEF Fresh
        <4>2. x[2] + Window <= now + Lag
          BY <2>1, <3>1, <3>2, <3>3, <4>1
        <4> QED
          BY <2>1, <4>2
      <3> QED
        BY <3>4, <3>5
    <2> QED
      BY <2>2, <2>3 DEF LimiterInv, TookInv
  <1>6. SlotInv'
    <2>0. slots' \subseteq slots
      BY DEF Refused, Fresh
    <2>1. \A j \in Instances : At(j, "user")' => past'[call'[j].id].took = {}
      <3> SUFFICES ASSUME NEW j \in Instances, call'[j].step = "user"
                   PROVE  past'[call'[j].id].took = {}
        BY DEF At
      <3>1. call'[j] = call[j] /\ call[j] # Idle
        BY <1>3 DEF Idle
      <3> QED
        BY <1>1, <3>1 DEF LimiterInv, SlotInv, At, HandInv
    <2>2. \A j \in Instances : At(j, "project")' => \A x \in past'[call'[j].id].took : x[1] \in Users
      <3> SUFFICES ASSUME NEW j \in Instances, call'[j].step = "project"
                   PROVE  \A x \in past'[call'[j].id].took : x[1] \in Users
        BY DEF At
      <3>1. call'[j] = call[j] /\ call[j] # Idle
        BY <1>3 DEF Idle
      <3> QED
        BY <1>1, <3>1 DEF LimiterInv, SlotInv, At, HandInv
    <2>3. \A s \in slots' : s.id \in Ids' /\ \E x \in past'[s.id].took : x[1] = s.key /\ s.at <= x[2]
      BY <1>1, <1>2, <2>0 DEF LimiterInv, SlotInv
    <2>4. \A r, s \in slots' : r.key = s.key /\ r.id = s.id => r = s
      BY <2>0 DEF LimiterInv, SlotInv
    <2> QED
      BY <2>1, <2>2, <2>3, <2>4 DEF SlotInv
  <1>7. \A k, t : Admitted(k, t)' = Admitted(k, t)
    BY <1>1, <1>2 DEF Admitted
  <1>8. QuotaInv'
    BY <1>7 DEF LimiterInv, QuotaInv
  <1> QED
    BY <1>4, <1>5, <1>6, <1>8 DEF LimiterInv

\* The calls that rows belong to are at most as many as the rows.
LEMMA CallsOfRows ==
  ASSUME NEW R, IsFiniteSet(R)
  PROVE  /\ IsFiniteSet({s.id : s \in R})
         /\ Cardinality({s.id : s \in R}) <= Cardinality(R)
  <1> DEFINE T == {s.id : s \in R}
             f == [s \in R |-> s.id]
  <1>1. f \in Surjection(R, T)
    BY DEF Surjection
  <1> QED
    BY <1>1, FS_Surjection

\* Calls that had been let through shortly before: their rows are all still counted.
LEMMA RecentAreCounted ==
  ASSUME TypeInv, LagInv, TookInv, NEW i \in Instances, call[i].step \in {"user", "project"},
         NEW key \in Limitable, NEW t \in Nat, now + Lag < t + Window
  PROVE  Admitted(key, t) \subseteq {s.id : s \in {s \in Fresh(key, call[i].at) : s.key = key}}
  <1> SUFFICES ASSUME NEW n \in Admitted(key, t)
               PROVE  \E s \in Fresh(key, call[i].at) : s.key = key /\ s.id = n
    OBVIOUS
  <1>1. PICK x \in past[n].took : x[1] = key /\ x[2] >= t /\ x[2] + Lag < t + Window
    BY DEF Admitted
  <1>2. n \in Ids
    BY DEF Admitted
  <1>3. x[2] \in Nat /\ now \in Nat /\ Lag \in Nat /\ Window \in Nat /\ call[i].at \in Nat
    BY <1>2, TookTyped, LimitsAssumption DEF TypeInv, Call
  <1>4. ~(x[2] + Window <= now + Lag)
    BY <1>1, <1>3
  <1>5. PICK s \in slots : s.key = key /\ s.id = n /\ s.at <= x[2] /\ x[2] <= s.at + Lag
    BY <1>1, <1>2, <1>4 DEF TookInv, RowOfTook
  <1>6. s.at \in Nat
    BY DEF TypeInv, Slot
  <1>7. call[i].at <= now
    BY DEF LagInv
  <1>8. s.at + Window > call[i].at
    BY <1>1, <1>3, <1>5, <1>6, <1>7
  <1> QED
    BY <1>5, <1>8 DEF Fresh

\* A call that passes is one more, and there was room for one.
LEMMA QuotaPassed ==
  ASSUME TypeInv, LagInv, TookInv, QuotaInv, NEW i \in Instances,
         call[i].step \in {"user", "project"}, NEW key \in Limitable, NEW next,
         Passed(i, key, next), Count(key, call[i].at) < LimitOf(key)
  PROVE  QuotaInv'
  <1> DEFINE m == call[i].id
  <1>1. Ids' = Ids /\ \A n \in Ids : n # m => past'[n] = past[n]
    BY DEF Passed, Acts
  <1>2. m \in Ids /\ past'[m].took = past[m].took \union {<<key, now>>}
    BY DEF Passed, Acts
  <1> SUFFICES ASSUME NEW k \in Limitable, NEW t \in Nat
               PROVE  /\ IsFiniteSet(Admitted(k, t)')
                      /\ Cardinality(Admitted(k, t)') <= LimitOf(k)
    BY DEF QuotaInv, LimitOf
  <1>3. IsFiniteSet(Admitted(k, t)) /\ Cardinality(Admitted(k, t)) <= LimitOf(k)
    BY DEF QuotaInv
  <1>4. now \in Nat /\ Lag \in Nat /\ Window \in Nat /\ LimitOf(key) \in Nat
    BY LimitsAssumption DEF TypeInv, LimitOf
  <1>5. Admitted(k, t)' \subseteq Admitted(k, t) \union {m}
    <2> SUFFICES ASSUME NEW n \in Ids, n # m, NEW x \in past'[n].took,
                        x[1] = k /\ x[2] >= t /\ x[2] + Lag < t + Window
                 PROVE  n \in Admitted(k, t)
      BY <1>1 DEF Admitted
    <2> QED
      BY <1>1 DEF Admitted
  <1>6. CASE k = key /\ now >= t /\ now + Lag < t + Window
    <2> DEFINE R == {s \in Fresh(key, call[i].at) : s.key = key}
               T == {s.id : s \in R}
    <2>1. R \subseteq slots /\ IsFiniteSet(slots)
      BY DEF Fresh, TypeInv
    <2>2. IsFiniteSet(R)
      BY <2>1, FS_Subset
    <2>3. IsFiniteSet(T) /\ Cardinality(T) <= Cardinality(R)
      BY <2>2, CallsOfRows
    <2>4. Cardinality(R) < LimitOf(key)
      BY DEF Count
    <2>5. Admitted(key, t) \subseteq T
      BY <1>6, RecentAreCounted
    <2>6. Admitted(k, t)' \subseteq T \union {m}
      BY <1>5, <1>6, <2>5
    <2> HIDE DEF R, T, m
    <2>7. /\ IsFiniteSet(T \union {m})
          /\ Cardinality(T \union {m}) <= Cardinality(T) + 1
      <3>1. Cardinality(T \union {m}) = IF m \in T THEN Cardinality(T) ELSE Cardinality(T) + 1
        BY <2>3, FS_AddElement
      <3>2. Cardinality(T) \in Nat
        BY <2>3, FS_CardinalityType
      <3> QED
        BY <2>3, <3>1, <3>2, FS_AddElement
    <2>8. /\ IsFiniteSet(Admitted(k, t)')
          /\ Cardinality(Admitted(k, t)') <= Cardinality(T \union {m})
      BY <2>6, <2>7, FS_Subset
    <2>9. /\ Cardinality(T) \in Nat /\ Cardinality(R) \in Nat /\ Cardinality(T \union {m}) \in Nat
          /\ Cardinality(Admitted(k, t)') \in Nat
      BY <2>2, <2>3, <2>7, <2>8, FS_CardinalityType
    <2> QED
      BY <1>4, <1>6, <2>3, <2>4, <2>7, <2>8, <2>9
  <1>7. CASE ~(k = key /\ now >= t /\ now + Lag < t + Window)
    <2>1. Admitted(k, t)' \subseteq Admitted(k, t)
      <3> SUFFICES ASSUME NEW n \in Ids, NEW x \in past'[n].took,
                          x[1] = k /\ x[2] >= t /\ x[2] + Lag < t + Window
                   PROVE  x \in past[n].took
        BY <1>1 DEF Admitted
      <3>1. x # <<key, now>>
        BY <1>7
      <3> QED
        BY <1>1, <1>2, <3>1
    <2>2. /\ IsFiniteSet(Admitted(k, t)')
          /\ Cardinality(Admitted(k, t)') <= Cardinality(Admitted(k, t))
      BY <1>3, <2>1, FS_Subset
    <2>3. /\ Cardinality(Admitted(k, t)') \in Nat /\ Cardinality(Admitted(k, t)) \in Nat
          /\ LimitOf(k) \in Nat
      BY <1>3, <2>2, FS_CardinalityType, LimitsAssumption DEF LimitOf
    <2> QED
      BY <1>3, <2>2, <2>3
  <1> QED
    BY <1>6, <1>7

LEMMA LimiterPassed ==
  ASSUME TypeInv, HandInv, LimiterInv, NEW i \in Instances, now' = now,
         NEW key \in Limitable, NEW next \in {"project", "role"},
         call[i].step \in {"user", "project"}, next = "project" <=> At(i, "user"),
         key \in Users <=> At(i, "user"),
         Passed(i, key, next), Count(key, call[i].at) < LimitOf(key)
  PROVE  LimiterInv'
  <1> DEFINE m   == call[i].id
             row == [key |-> key, at |-> call[i].at, id |-> m]
  <1>1. Ids' = Ids /\ m \in Ids /\ \A n \in Ids : n # m => past'[n] = past[n]
    BY DEF Passed, Acts
  <1>2. past'[m].took = past[m].took \union {<<key, now>>}
    BY DEF Passed
  <1>3. slots' = Fresh(key, call[i].at) \union {row} /\ Fresh(key, call[i].at) \subseteq slots
    BY DEF Passed, Fresh
  <1>4. /\ call[i].at \in Nat /\ now \in Nat /\ Lag \in Nat /\ Window \in Nat
        /\ call[i].at <= now /\ now <= call[i].at + Lag
    BY LimitsAssumption DEF TypeInv, Call, LimiterInv, LagInv
  <1>5. /\ \A j \in Instances : j # i => call'[j] = call[j]
        /\ call'[i].step = next /\ call'[i].at = (IF next = "project" THEN now ELSE 0)
        /\ call'[i].id = m
    BY DEF Passed, Acts, Idle
  <1>6. LagInv'
    <2> SUFFICES ASSUME NEW j \in Instances, call'[j].step \in {"user", "project"}
                 PROVE  call'[j].at <= now /\ now <= call'[j].at + Lag
      BY DEF LagInv
    <2>1. CASE j = i
      BY <1>4, <1>5, <2>1
    <2>2. CASE j # i
      BY <1>5, <2>2 DEF LimiterInv, LagInv
    <2> QED
      BY <2>1, <2>2
  <1>7. TookInv'
    <2> SUFFICES ASSUME NEW n \in Ids, NEW x \in past'[n].took
                 PROVE  x[2] <= now /\ (x[2] + Window <= now + Lag \/ RowOfTook(n, x)')
      BY <1>1 DEF TookInv
    <2>1. CASE x \in past[n].took
      <3>1. x[2] <= now /\ x[2] \in Nat /\ (x[2] + Window <= now + Lag \/ RowOfTook(n, x))
        BY <2>1, TookTyped DEF LimiterInv, TookInv
      <3>2. CASE RowOfTook(n, x)
        <4>1. PICK s \in slots : s.key = x[1] /\ s.id = n /\ s.at <= x[2] /\ x[2] <= s.at + Lag
          BY <3>2 DEF RowOfTook
        <4>2. s.at \in Nat
          BY DEF TypeInv, Slot
        <4>3. CASE s \in Fresh(key, call[i].at)
          BY <1>3, <3>1, <4>1, <4>3 DEF RowOfTook
        <4>4. CASE s \notin Fresh(key, call[i].at)
          <5>1. s.at + Window <= call[i].at
            BY <1>4, <4>2, <4>4 DEF Fresh
          <5>2. x[2] + Window <= now + Lag
            BY <1>4, <3>1, <4>1, <4>2, <5>1
          <5> QED
            BY <3>1, <5>2
        <4> QED
          BY <4>3, <4>4
      <3> QED
        BY <3>1, <3>2
    <2>2. CASE x \notin past[n].took
      <3>1. n = m /\ x = <<key, now>>
        BY <1>1, <1>2, <2>2
      <3>2. row \in slots' /\ row.key = key /\ row.id = m /\ row.at = call[i].at
        BY <1>3
      <3>3. x[1] = key /\ x[2] = now
        BY <3>1
      <3> HIDE DEF row
      <3>4. RowOfTook(n, x)'
        BY <1>4, <3>1, <3>2, <3>3 DEF RowOfTook
      <3> QED
        BY <1>4, <3>3, <3>4
    <2> QED
      BY <2>1, <2>2
  <1>8. SlotInv'
    <2>0. row.key = key /\ row.id = m /\ row.at = call[i].at
      OBVIOUS
    <2>1. \A s \in slots : ~(s.key = key /\ s.id = m)
      BY KeysAssumption DEF LimiterInv, SlotInv, At, Limitable
    <2> HIDE DEF row
    <2>2. \A s \in slots' : s.id \in Ids' /\ \E x \in past'[s.id].took : x[1] = s.key /\ s.at <= x[2]
      <3> SUFFICES ASSUME NEW s \in slots'
                   PROVE  s.id \in Ids /\ \E x \in past'[s.id].took : x[1] = s.key /\ s.at <= x[2]
        BY <1>1
      <3>1. CASE s = row
        <4>1. <<key, now>> \in past'[m].took /\ <<key, now>>[1] = key /\ <<key, now>>[2] = now
          BY <1>2
        <4> QED
          BY <1>1, <1>4, <2>0, <3>1, <4>1
      <3>2. CASE s \in slots
        <4>1. s.id \in Ids
          BY <3>2 DEF LimiterInv, SlotInv
        <4>2. PICK x \in past[s.id].took : x[1] = s.key /\ s.at <= x[2]
          BY <3>2 DEF LimiterInv, SlotInv
        <4>3. x \in past'[s.id].took
          BY <1>1, <1>2, <4>1
        <4> QED
          BY <4>1, <4>2, <4>3
      <3> QED
        BY <1>3, <3>1, <3>2
    <2>3. \A r, s \in slots' : r.key = s.key /\ r.id = s.id => r = s
      BY <1>3, <2>0, <2>1 DEF LimiterInv, SlotInv
    <2>4. \A j \in Instances : At(j, "user")' => past'[call'[j].id].took = {}
      <3> SUFFICES ASSUME NEW j \in Instances, call'[j].step = "user"
                   PROVE  past'[call'[j].id].took = {}
        BY DEF At
      <3>1. call'[j] = call[j] /\ call[j] # Idle /\ j # i
        BY <1>5 DEF Idle
      <3>2. call[j].id \in Ids /\ call[j].id # m
        BY <3>1 DEF HandInv
      <3> QED
        BY <1>1, <3>1, <3>2 DEF LimiterInv, SlotInv, At
    <2>5. \A j \in Instances : At(j, "project")' => \A x \in past'[call'[j].id].took : x[1] \in Users
      <3> SUFFICES ASSUME NEW j \in Instances, call'[j].step = "project",
                          NEW x \in past'[call'[j].id].took
                   PROVE  x[1] \in Users
        BY DEF At
      <3>1. CASE j = i
        <4>1. past[m].took = {} /\ key \in Users
          BY <1>5, <3>1 DEF LimiterInv, SlotInv, At
        <4> QED
          BY <1>2, <1>5, <3>1, <4>1
      <3>2. CASE j # i
        <4>1. call'[j] = call[j] /\ call[j] # Idle
          BY <1>5, <3>2 DEF Idle
        <4>2. call[j].id \in Ids /\ call[j].id # m
          BY <3>2, <4>1 DEF HandInv
        <4> QED
          BY <1>1, <4>1, <4>2 DEF LimiterInv, SlotInv, At
      <3> QED
        BY <3>1, <3>2
    <2> QED
      BY <2>2, <2>3, <2>4, <2>5 DEF SlotInv
  <1>9. QuotaInv'
    BY QuotaPassed DEF LimiterInv
  <1> QED
    BY <1>6, <1>7, <1>8, <1>9 DEF LimiterInv

LEMMA LimiterStep ==
  ASSUME TypeInv, HandInv, LimiterInv, NEW i \in Instances, Step(i) \/ Crash(i)
  PROVE  LimiterInv'
  <1>0. now' = now
    BY DEF Step, Crash, CheckUser, CheckProject, CheckRole, Lookup, LookupFails, Run, RunRefused,
           Audit, AuditFails, LeaveTraces, Record, RecordFails, Fail
  <1>1. CASE CheckUser(i)
    <2> DEFINE key == past[call[i].id].user
    <2>1. /\ key \in Users /\ At(i, "user")
          /\ \/ Count(key, call[i].at) < UserLimit /\ Passed(i, key, "project")
             \/ ~(Count(key, call[i].at) < UserLimit) /\ Refused(i, key)
      BY <1>1, UserChecked
    <2>2. key \in Limitable /\ LimitOf(key) = UserLimit /\ call[i].step \in {"user", "project"}
      BY <2>1 DEF Limitable, LimitOf, At
    <2> HIDE DEF key
    <2> QED
      BY <1>0, <2>1, <2>2, LimiterPassed, LimiterRefused
  <1>2. CASE CheckProject(i)
    <2> DEFINE key == past[call[i].id].project
    <2>1. /\ key \in Projects /\ At(i, "project")
          /\ \/ Count(key, call[i].at) < ProjectLimit /\ Passed(i, key, "role")
             \/ ~(Count(key, call[i].at) < ProjectLimit) /\ Refused(i, key)
      BY <1>2, ProjectChecked
    <2>2. /\ key \in Limitable /\ key \notin Users /\ LimitOf(key) = ProjectLimit
          /\ call[i].step \in {"user", "project"} /\ ~At(i, "user")
      BY <2>1, KeysAssumption DEF Limitable, LimitOf, At
    <2> HIDE DEF key
    <2> QED
      BY <1>0, <2>1, <2>2, LimiterPassed, LimiterRefused
  <1> QED
    BY <1>0, <1>1, <1>2, QuietSteps, LimiterQuiet

LEMMA LimiterBegin ==
  ASSUME TypeInv, HandInv, LimiterInv, NEW i \in Instances, NEW r, Begun(i, r),
         r.took = {}, now' = now, slots' = slots
  PROVE  LimiterInv'
  <1> DEFINE m == Len(past) + 1
  <1>1. /\ Ids' = Ids \union {m} /\ m \notin Ids /\ past'[m].took = {}
        /\ \A n \in Ids : past'[n] = past[n]
    BY DEF Begun
  <1>2. \A j \in Instances : j # i => call'[j] = call[j]
    BY DEF Begun
  <1>3. call'[i].id = m /\ call'[i].step # "project" /\ (call'[i].step = "user" => call'[i].at = now)
    BY DEF Begun
  <1>4. \A j \in Instances : call[j].step # "none" => call[j].id \in Ids
    BY CallInHand
  <1> HIDE DEF m
  <1>5. LagInv'
    <2>1. now \in Nat /\ Lag \in Nat
      BY LimitsAssumption DEF TypeInv
    <2>2. now <= now /\ now <= now + Lag
      BY <2>1
    <2> QED
      BY <1>2, <1>3, <2>2 DEF LimiterInv, LagInv
  <1>6. TookInv'
    BY <1>1 DEF LimiterInv, TookInv, RowOfTook
  <1>7. SlotInv'
    <2>1. \A s \in slots' : s.id \in Ids' /\ \E x \in past'[s.id].took : x[1] = s.key /\ s.at <= x[2]
      BY <1>1 DEF LimiterInv, SlotInv
    <2>2. \A j \in Instances : At(j, "user")' => past'[call'[j].id].took = {}
      BY <1>1, <1>2, <1>3, <1>4 DEF LimiterInv, SlotInv, At
    <2>3. \A j \in Instances : At(j, "project")' => \A x \in past'[call'[j].id].took : x[1] \in Users
      BY <1>1, <1>2, <1>3, <1>4 DEF LimiterInv, SlotInv, At
    <2> QED
      BY <2>1, <2>2, <2>3 DEF LimiterInv, SlotInv
  <1>8. \A key, t : Admitted(key, t)' = Admitted(key, t)
    BY <1>1 DEF Admitted
  <1>9. QuotaInv'
    BY <1>8 DEF LimiterInv, QuotaInv
  <1> QED
    BY <1>5, <1>6, <1>7, <1>9 DEF LimiterInv

LEMMA LimiterTick ==
  ASSUME TypeInv, LimiterInv, Tick
  PROVE  LimiterInv'
  <1>1. /\ now' = now + 1 /\ slots' = slots /\ call' = call /\ past' = past
        /\ \A i \in Instances : call[i].step \in {"user", "project"} => now < call[i].at + Lag
    BY DEF Tick
  <1>2. now \in Nat /\ Lag \in Nat /\ Window \in Nat /\ \A i \in Instances : call[i].at \in Nat
    BY LimitsAssumption DEF TypeInv, Call
  <1>3. LagInv'
    BY <1>1, <1>2 DEF LimiterInv, LagInv
  <1>4. TookInv'
    <2> SUFFICES ASSUME NEW n \in Ids, NEW x \in past[n].took
                 PROVE  x[2] <= now + 1 /\ (x[2] + Window <= now + 1 + Lag \/ RowOfTook(n, x))
      BY <1>1 DEF TookInv, RowOfTook, Ids
    <2>1. x[2] \in Nat /\ x[2] <= now /\ (x[2] + Window <= now + Lag \/ RowOfTook(n, x))
      BY TookTyped DEF LimiterInv, TookInv
    <2> QED
      BY <1>2, <2>1
  <1>5. SlotInv' /\ QuotaInv'
    BY <1>1 DEF LimiterInv, SlotInv, QuotaInv, Admitted, Ids, At
  <1> QED
    BY <1>3, <1>4, <1>5 DEF LimiterInv

LEMMA LimiterSwitchOff ==
  ASSUME LimiterInv, NEW i \in Instances, NEW u \in Users, SwitchOff(i, u)
  PROVE  LimiterInv'
  <1>1. now' = now /\ slots' = slots /\ call' = call /\ past' = past
    BY DEF SwitchOff
  <1>2. Ids' = Ids /\ \A key, t : Admitted(key, t)' = Admitted(key, t)
    BY <1>1 DEF Admitted, Ids
  <1>3. LagInv' /\ TookInv'
    BY <1>1, <1>2 DEF LimiterInv, LagInv, TookInv, RowOfTook
  <1>4. SlotInv'
    BY <1>1, <1>2 DEF LimiterInv, SlotInv, At
  <1>5. QuotaInv'
    BY <1>2 DEF LimiterInv, QuotaInv
  <1> QED
    BY <1>3, <1>4, <1>5 DEF LimiterInv

------------------------------------------------------------------------
(* Types *)

LEMMA TypeStep ==
  ASSUME TypeInv, HandInv, NEW i \in Instances, Step(i) \/ Crash(i)
  PROVE  TypeInv'
  <1>1. Acts(i)
    BY StepActs
  <1>2. call' \in [Instances -> Call] /\ past' \in Seq(PastCall)
    BY <1>1 DEF Acts
  <1>3. now' = now /\ disabled' = disabled
    BY DEF Step, Crash, CheckUser, CheckProject, CheckRole, Lookup, LookupFails, Run, RunRefused,
           Audit, AuditFails, LeaveTraces, Record, RecordFails, Fail
  <1>4. known' \in [Instances -> SUBSET Users]
    BY DEF Step, Crash, CheckUser, CheckProject, CheckRole, Lookup, LookupFails, Run, RunRefused,
           Audit, AuditFails, LeaveTraces, Record, RecordFails, Fail, TypeInv
  <1>5. call[i].id \in Nat /\ call[i].at \in Nat
    BY DEF TypeInv, Call
  <1>6. slots' \in SUBSET Slot /\ IsFiniteSet(slots')
    <2> SUFFICES ASSUME ~Quiet(i)
                 PROVE  slots' \in SUBSET Slot /\ IsFiniteSet(slots')
      BY DEF Quiet, TypeInv
    <2>1. PICK key \in Limitable : Refused(i, key) \/ \E next : Passed(i, key, next)
      BY QuietSteps, UserChecked, ProjectChecked DEF Limitable
    <2> DEFINE row == [key |-> key, at |-> call[i].at, id |-> call[i].id]
    <2>2. Fresh(key, call[i].at) \subseteq slots
      BY DEF Fresh
    <2>3. row \in Slot
      BY <1>5 DEF Slot
    <2>4. IsFiniteSet(Fresh(key, call[i].at)) /\ IsFiniteSet(Fresh(key, call[i].at) \union {row})
      BY <2>2, FS_Subset, FS_AddElement DEF TypeInv
    <2>5. slots' \in {Fresh(key, call[i].at), Fresh(key, call[i].at) \union {row}}
      BY <2>1 DEF Refused, Passed
    <2> QED
      BY <2>2, <2>3, <2>4, <2>5 DEF TypeInv
  <1>7. stored' \in SUBSET Stored
    <2>1. CASE Record(i)
      <3>1. past[call[i].id] \in PastCall
        BY <2>1, CallInHand DEF Record, At
      <3>2. [user |-> Mine(i).user, tool |-> Mine(i).tool, key |-> Mine(i).key, by |-> call[i].id] \in Stored
        BY <1>5, <3>1 DEF Mine, PastCall, Stored
      <3> QED
        BY <2>1, <3>2 DEF Record, TypeInv
    <2>2. CASE ~Record(i)
      <3>1. stored' = stored
        BY <2>2 DEF Step, Crash, CheckUser, CheckProject, CheckRole, Lookup, LookupFails, Run, RunRefused,
             Audit, AuditFails, LeaveTraces, RecordFails, Fail
      <3> QED
        BY <3>1 DEF TypeInv
    <2> QED
      BY <2>1, <2>2
  <1>8. log' \in Seq([id : Nat, ok : BOOLEAN])
    <2>1. log' = log \/ \E ok \in BOOLEAN : Logged(i, ok)
      BY DEF Step, Crash, CheckUser, CheckProject, CheckRole, Lookup, LookupFails, Run, RunRefused,
             Audit, AuditFails, LeaveTraces, Record, RecordFails, Fail
    <2>2. CASE log' = log
      BY <2>2 DEF TypeInv
    <2>3. CASE \E ok \in BOOLEAN : Logged(i, ok)
      <3>1. PICK ok \in BOOLEAN : Logged(i, ok)
        BY <2>3
      <3> DEFINE e == [id |-> call[i].id, ok |-> ok]
      <3>2. e \in [id : Nat, ok : BOOLEAN] /\ log' = Append(log, e)
        BY <1>5, <3>1 DEF Logged
      <3> HIDE DEF e
      <3> QED
        BY <3>2 DEF TypeInv
    <2> QED
      BY <2>1, <2>2, <2>3
  <1> QED
    BY <1>2, <1>3, <1>4, <1>6, <1>7, <1>8 DEF TypeInv

LEMMA TypeBegin ==
  ASSUME TypeInv, NEW i \in Instances, NEW r, Begun(i, r),
         UNCHANGED <<now, slots, stored, log, disabled, known>>
  PROVE  TypeInv'
  BY DEF Begun, TypeInv

LEMMA TypeRest ==
  ASSUME TypeInv,
         Tick \/ \E i \in Instances, u \in Users : SwitchOff(i, u)
  PROVE  TypeInv'
  BY DEF Tick, SwitchOff, TypeInv

LEMMA IdsAreFinite ==
  ASSUME TypeInv
  PROVE  IsFiniteSet(Ids)
  <1>1. Len(past) \in Nat /\ Ids = 1..Len(past)
    BY DEF TypeInv, Ids
  <1>2. IsFiniteSet(1..Len(past))
    BY <1>1, FS_Interval
  <1> QED
    BY <1>1, <1>2

LEMMA InitInvariant ==
  Init => TypeInv /\ HandInv /\ LimiterInv
  <1> SUFFICES ASSUME Init
               PROVE  TypeInv /\ HandInv /\ LimiterInv
    OBVIOUS
  <1>1. Idle \in Call /\ Idle.step = "none"
    BY DEF Idle, Call
  <1>2. past = <<>> /\ Ids = {} /\ \A i \in Instances : call[i] = Idle
    BY DEF Init, Ids
  <1>3. TypeInv
    <2>1. IsFiniteSet({})
      BY FS_EmptySet
    <2> QED
      BY <1>1, <2>1 DEF Init, TypeInv
  <1>4. HandInv
    BY <1>2 DEF HandInv
  <1>5. \A key, t : Admitted(key, t) = {}
    BY <1>2 DEF Admitted
  <1>6. QuotaInv
    BY <1>5, FS_EmptySet, LimitsAssumption DEF QuotaInv, LimitOf
  <1>7. LagInv /\ TookInv /\ SlotInv
    BY <1>1, <1>2 DEF Init, LagInv, TookInv, SlotInv, At
  <1> QED
    BY <1>3, <1>4, <1>6, <1>7 DEF LimiterInv

------------------------------------------------------------------------
(* The limits hold, and turn nobody away too early *)

Core == TypeInv /\ HandInv /\ LimiterInv

\* One step of the system, by who takes it.
LEMMA NextCases ==
  ASSUME TypeInv, HandInv, Next
  PROVE  \/ \E i \in Instances, u \in Users, t \in Called, p \in Projects, k \in Keys \union {NoKey} :
              Begin(i, u, t, p, k) /\ Begun(i, Fresher(i, u, t, p, k))
         \/ \E i \in Instances : Step(i) \/ Crash(i)
         \/ \E i \in Instances, u \in Users : SwitchOff(i, u)
         \/ Tick
  BY BeginBegins DEF Next

LEMMA CoreNext == Core /\ [Next]_vars => Core'
  <1> SUFFICES ASSUME Core, [Next]_vars
               PROVE  Core'
    OBVIOUS
  <1> USE DEF Core
  <1>1. CASE UNCHANGED vars
    <2>1. now' = now /\ slots' = slots /\ call' = call /\ past' = past
      BY <1>1 DEF vars
    <2>2. TypeInv'
      BY <1>1 DEF vars, TypeInv
    <2>3. Ids' = Ids /\ \A key, t : Admitted(key, t)' = Admitted(key, t)
      BY <2>1 DEF Admitted, Ids
    <2>4. HandInv'
      BY <2>1, <2>3 DEF HandInv
    <2>5. LagInv' /\ TookInv'
      BY <2>1, <2>3 DEF LimiterInv, LagInv, TookInv, RowOfTook
    <2>6. SlotInv'
      BY <2>1, <2>3 DEF LimiterInv, SlotInv, At
    <2>7. QuotaInv'
      BY <2>3 DEF LimiterInv, QuotaInv
    <2> QED
      BY <2>2, <2>4, <2>5, <2>6, <2>7 DEF LimiterInv
  <1>2. ASSUME NEW i \in Instances, NEW u \in Users, NEW t \in Called, NEW p \in Projects,
               NEW k \in Keys \union {NoKey},
               Begin(i, u, t, p, k), Begun(i, Fresher(i, u, t, p, k))
        PROVE  Core'
    <2> DEFINE r == Fresher(i, u, t, p, k)
    <2>1. r.fate = "open" /\ r.took = {} /\ Begun(i, r)
      BY <1>2 DEF Fresher
    <2>2. UNCHANGED <<now, slots, stored, log, disabled, known>>
      BY <1>2 DEF Begin
    <2> HIDE DEF r
    <2> QED
      BY <2>1, <2>2, HandBegin, LimiterBegin, TypeBegin
  <1>3. ASSUME NEW i \in Instances, Step(i) \/ Crash(i)
        PROVE  Core'
    BY <1>3, StepActs, HandStep, LimiterStep, TypeStep
  <1>4. ASSUME NEW i \in Instances, NEW u \in Users, SwitchOff(i, u)
        PROVE  Core'
    <2>1. call' = call /\ past' = past
      BY <1>4 DEF SwitchOff
    <2>2. HandInv'
      BY <2>1 DEF HandInv, Ids
    <2> QED
      BY <1>4, <2>2, TypeRest, LimiterSwitchOff
  <1>5. CASE Tick
    <2>1. call' = call /\ past' = past
      BY <1>5 DEF Tick
    <2>2. HandInv'
      BY <2>1 DEF HandInv, Ids
    <2> QED
      BY <1>5, <2>2, TypeRest, LimiterTick
  <1> QED
    BY <1>1, <1>2, <1>3, <1>4, <1>5, NextCases

LEMMA CoreHolds == Spec => []Core
  <1>1. Init => Core
    BY InitInvariant DEF Core
  <1> QED
    BY <1>1, CoreNext, PTL DEF Spec

\* Over all processes together, however they interleave and restart, no more than the
\* limit of a user's or of a project's calls get through in any window.
THEOREM QuotaHolds == Spec => []WithinQuota
  <1>1. Core => WithinQuota
    <2> SUFFICES ASSUME Core, NEW t \in 0..MaxTime
                 PROVE  /\ \A u \in Users : Cardinality(Admitted(u, t)) <= UserLimit
                        /\ \A p \in Projects : Cardinality(Admitted(p, t)) <= ProjectLimit
      BY DEF WithinQuota
    <2>1. t \in Nat
      OBVIOUS
    <2>2. \A u \in Users : u \in Limitable /\ LimitOf(u) = UserLimit
      BY DEF Limitable, LimitOf
    <2>3. \A p \in Projects : p \in Limitable /\ LimitOf(p) = ProjectLimit
      BY KeysAssumption DEF Limitable, LimitOf
    <2> QED
      BY <2>1, <2>2, <2>3 DEF Core, LimiterInv, QuotaInv
  <1> QED
    BY <1>1, CoreHolds, PTL

\* The rows a check has counted belong to as many calls, all of them let through in the
\* window before it.
LEMMA CountedWereAdmitted ==
  ASSUME Core, NEW key, NEW at \in Nat
  PROVE  Count(key, at) <= Cardinality({n \in Ids : \E x \in past[n].took :
                                          x[1] = key /\ x[2] + Window > at})
  <1> DEFINE R == {s \in Fresh(key, at) : s.key = key}
             T == {n \in Ids : \E x \in past[n].took : x[1] = key /\ x[2] + Window > at}
             f == [s \in R |-> s.id]
  <1>1. IsFiniteSet(T)
    <2>1. IsFiniteSet(Ids)
      BY IdsAreFinite DEF Core
    <2> QED
      BY <2>1, FS_Subset
  <1>2. ASSUME NEW s \in R
        PROVE  s \in slots /\ s.id \in T
    <2>1. s \in slots /\ s.key = key /\ s.at + Window > at
      BY DEF Fresh
    <2>2. s.id \in Ids
      BY <2>1 DEF Core, LimiterInv, SlotInv
    <2>3. PICK x \in past[s.id].took : x[1] = key /\ s.at <= x[2]
      BY <2>1 DEF Core, LimiterInv, SlotInv
    <2>4. x[2] \in Nat /\ s.at \in Nat /\ Window \in Nat
      BY <2>1, <2>2, TookTyped, LimitsAssumption DEF Core, TypeInv, Slot
    <2>5. x[2] + Window > at
      BY <2>1, <2>3, <2>4
    <2> QED
      BY <2>1, <2>2, <2>3, <2>5
  <1>3. f \in Injection(R, T)
    <2>1. f \in [R -> T]
      BY <1>2
    <2>2. \A r, s \in R : f[r] = f[s] => r = s
      BY <1>2 DEF Core, LimiterInv, SlotInv
    <2> QED
      BY <2>1, <2>2 DEF Injection, IsInjective
  <1>4. Cardinality(R) <= Cardinality(T)
    BY <1>1, <1>3, FS_Injection
  <1> QED
    BY <1>4 DEF Count

\* A limit turns a call away only when as many were let through in the window before.
THEOREM RefusalsAreDue == Spec => RefusedOnlyWhenFull
  <1>1. ASSUME Core, [Next]_vars, NEW i \in Instances, At(i, "user") \/ At(i, "project")
        PROVE  LET key == IF At(i, "user") THEN Mine(i).user ELSE Mine(i).project
                   limit == IF At(i, "user") THEN UserLimit ELSE ProjectLimit IN
               past'[call[i].id].fate = "refused" =>
                 Cardinality({n \in Ids : \E x \in past[n].took :
                                x[1] = key /\ x[2] + Window > call[i].at}) >= limit
    <2> SUFFICES ASSUME past'[call[i].id].fate = "refused"
                 PROVE  LET key == IF At(i, "user") THEN Mine(i).user ELSE Mine(i).project
                            limit == IF At(i, "user") THEN UserLimit ELSE ProjectLimit IN
                        Cardinality({n \in Ids : \E x \in past[n].took :
                                x[1] = key /\ x[2] + Window > call[i].at}) >= limit
      OBVIOUS
    <2> USE DEF Core
    <2>1. /\ call[i] # Idle /\ call[i].id \in Ids /\ past[call[i].id] \in PastCall
          /\ past[call[i].id].fate = "open" /\ call[i] \in Call /\ call[i].step # "none"
      BY <1>1, CallInHand DEF At
    <2>2. past'[call[i].id] # past[call[i].id]
      BY <2>1
    <2>3. Next
      BY <1>1, <2>2 DEF vars
    <2>4. Step(i) \/ Crash(i)
      <3>1. \A j \in Instances : Acts(j) /\ j # i => past'[call[i].id] = past[call[i].id]
        BY <1>1, <2>1 DEF Acts, HandInv
      <3>2. \A j \in Instances : \A r : Begun(j, r) => past'[call[i].id] = past[call[i].id]
        BY <2>1 DEF Begun
      <3>3. Tick \/ (\E j \in Instances, u \in Users : SwitchOff(j, u)) => past' = past
        BY DEF Tick, SwitchOff
      <3> QED
        BY <1>1, <2>2, <2>3, <3>1, <3>2, <3>3, NextCases, StepActs
    <2>5. CheckUser(i) \/ CheckProject(i)
      <3>1. ~Crash(i)
        <4> SUFFICES ASSUME Crash(i)
                     PROVE  FALSE
          OBVIOUS
        <4>1. past'[call[i].id] = [past[call[i].id] EXCEPT !.fate = "died"]
          BY <1>1, <2>1, EndedActs DEF Crash, Fates
        <4> QED
          BY <2>1, <4>1 DEF PastCall
      <3> QED
        BY <1>1, <2>4, <3>1 DEF Step, CheckRole, Lookup, LookupFails, Run, RunRefused,
             Audit, AuditFails, LeaveTraces, Record, RecordFails, Fail, At
    <2> DEFINE key == IF At(i, "user") THEN Mine(i).user ELSE Mine(i).project
               limit == IF At(i, "user") THEN UserLimit ELSE ProjectLimit
    <2>6. ~(Count(key, call[i].at) < limit)
      <3>1. \A k : Passed(i, k, "project") \/ Passed(i, k, "role") => FALSE
        BY <2>1 DEF Passed, Acts, Idle
      <3>2. CASE CheckUser(i)
        BY <1>1, <3>1, <3>2, UserChecked DEF Mine
      <3>3. CASE CheckProject(i)
        <4>1. ~At(i, "user")
          BY <3>3 DEF CheckProject, At
        <4> QED
          BY <1>1, <3>1, <3>3, <4>1, ProjectChecked DEF Mine
      <3> QED
        BY <2>5, <3>2, <3>3
    <2>7. Count(key, call[i].at) <= Cardinality({n \in Ids : \E x \in past[n].took :
                                          x[1] = key /\ x[2] + Window > call[i].at})
      BY <1>1, <2>1, CountedWereAdmitted DEF Call
    <2>8. /\ Count(key, call[i].at) \in Nat /\ limit \in Nat
          /\ Cardinality({n \in Ids : \E x \in past[n].took :
                            x[1] = key /\ x[2] + Window > call[i].at}) \in Nat
      <3> HIDE DEF key
      <3>1. IsFiniteSet(slots) /\ {s \in Fresh(key, call[i].at) : s.key = key} \subseteq slots
        BY <1>1 DEF TypeInv, Fresh
      <3>2. IsFiniteSet(Ids)
        BY <1>1, IdsAreFinite
      <3>3. IsFiniteSet({n \in Ids : \E x \in past[n].took : x[1] = key /\ x[2] + Window > call[i].at})
        BY <3>2, FS_Subset
      <3>4. IsFiniteSet({s \in Fresh(key, call[i].at) : s.key = key})
        BY <3>1, FS_Subset
      <3> QED
        BY <3>3, <3>4, FS_CardinalityType, LimitsAssumption DEF Count
    <2> HIDE DEF key, limit
    <2>9. Cardinality({n \in Ids : \E x \in past[n].took :
                          x[1] = key /\ x[2] + Window > call[i].at}) >= limit
      BY <2>6, <2>7, <2>8
    <2> QED
      BY <2>9 DEF key, limit
  <1>2. Core /\ [Next]_vars =>
          \A i \in Instances :
            At(i, "user") \/ At(i, "project") =>
              LET key == IF At(i, "user") THEN Mine(i).user ELSE Mine(i).project
                  limit == IF At(i, "user") THEN UserLimit ELSE ProjectLimit IN
              past'[call[i].id].fate = "refused" =>
                Cardinality({n \in Ids : \E x \in past[n].took :
                               x[1] = key /\ x[2] + Window > call[i].at}) >= limit
    BY <1>1
  <1> QED
    BY <1>2, CoreHolds, PTL DEF Spec, RefusedOnlyWhenFull

------------------------------------------------------------------------
(* Asking again with the same key *)

\* Every tool that takes a key is limited and audited, with its role checked inside.
LEMMA KeyedIsCall ==
  ASSUME NEW r \in Table, r.tool \in Keyed
  PROVE  r.path = "call"
  <1>1. \A names, need, path, acts : \A row \in Rows(names, need, path, acts) :
          row.tool \in names /\ row.path = path
    BY DEF Rows
  <1>2. \A reads, writes, path : \A row \in Prefixed(reads, writes, path) : row.path = path
    BY <1>1 DEF Prefixed
  <1>3. r \notin AccountTools
    <2>1. r \in AccountTools => r.tool \in {"whoami", "account_list", "account_scope_list", "account_link",
                                           "account_unlink", "account_scope_set", "onboarding_complete"}
      <3>1. \A x, names, need, path, acts : x \in Rows(names, need, path, acts) => x.tool \in names
        BY <1>1
      <3> QED
        BY <3>1, Zenon DEF AccountTools
    <2> QED
      BY <2>1 DEF Keyed
  <1>4. r \notin LedgerTools /\ r \notin SearchTools
    <2>1. r \notin LedgerTools
      BY <1>1 DEF LedgerTools, Keyed
    <2>2. r \notin SearchTools
      BY <1>1 DEF SearchTools, Keyed
    <2> QED
      BY <2>1, <2>2
  <1>5. r \notin HelpTools /\ r \notin SetupTools
    BY <1>1 DEF HelpTools, SetupTools, Keyed
  <1>6. r \in FileTools \union MemoryTools \union BacklogTools \union PmTools => r.path = "call"
    BY <1>1, <1>2 DEF FileTools, MemoryTools, BacklogTools, PmTools
  <1>7. r \in EngineTools \union CloudFileTools \union CloudTaskTools \union MailReadTools => r.path = "call"
    BY <1>1, <1>2 DEF EngineTools, CloudFileTools, CloudTaskTools, MailReadTools
  <1>8. r \in MailSendTools \union MailBoxTools \union MailReplyTools \union CalendarTools
              \union BookingTools => r.path = "call"
    BY <1>1, <1>2 DEF MailSendTools, MailBoxTools, MailReplyTools, CalendarTools, BookingTools
  <1>9. r \in EventTools \union MemberTools => r.path = "call"
    BY <1>1 DEF EventTools, MemberTools
  <1> HIDE DEF AccountTools, LedgerTools, SearchTools, HelpTools, FileTools, MemoryTools,
       BacklogTools, PmTools, EngineTools, SetupTools, CloudFileTools, CloudTaskTools,
       MailReadTools, MailSendTools, MailBoxTools, MailReplyTools, CalendarTools, BookingTools,
       EventTools, MemberTools
  <1> QED
    BY <1>3, <1>4, <1>5, <1>6, <1>7, <1>8, <1>9 DEF Table

LEMMA KeyedIsAudited ==
  ASSUME NEW t \in Called, t \in Keyed
  PROVE  Audited(t) /\ Limited(t)
  <1>1. \E r \in Table : r.tool = t
    BY CalledAssumption
  <1>2. RowOf(t) \in Table /\ RowOf(t).tool = t
    BY <1>1 DEF RowOf
  <1>3. RowOf(t).path = "call"
    BY <1>2, KeyedIsCall
  <1> QED
    BY <1>3 DEF Audited, Limited

\* What a step means for the keys: an answer is remembered by the time it is given, and
\* nothing starts to run that has an answer.
KeyedStep(i) ==
    LET c == past[call[i].id]
        d == past'[call[i].id] IN
    /\ stored \subseteq stored'
    /\ d.fate \in {"ok", "replayed"} /\ c.key # NoKey =>
         \E s \in stored' : s.user = c.user /\ s.tool = c.tool /\ s.key = c.key
    /\ d.ran => c.ran \/ call[i].step = "run"
    /\ call'[i].step = "run" => c.key = NoKey \/ Earlier(i) = {}

\* Steps that only go on to another than "run", or end the call without an answer.
LEMMA GotoKeyed ==
  ASSUME TypeInv, HandInv, NEW i \in Instances, call[i].step # "none",
         NEW s \in Steps \ {"run"}, Goto(i, s), past' = past, stored' = stored
  PROVE  KeyedStep(i)
  <1>1. call[i] \in Call /\ past[call[i].id].fate = "open"
    BY CallInHand
  <1>2. call'[i] = [call[i] EXCEPT !.step = s] /\ past'[call[i].id] = past[call[i].id]
    BY GotoActs
  <1> QED
    BY <1>1, <1>2 DEF KeyedStep, Call

LEMMA EndedKeyed ==
  ASSUME TypeInv, HandInv, NEW i \in Instances, call[i].step # "none",
         NEW f \in {"error", "refused", "died"}, Ended(i, f), stored' = stored
  PROVE  KeyedStep(i)
  <1>1. past[call[i].id] \in PastCall
    BY CallInHand
  <1>2. f \in Fates \ {"open"}
    BY DEF Fates
  <1>3. /\ call'[i] = Idle
        /\ past'[call[i].id] = [past[call[i].id] EXCEPT !.fate = f]
    BY <1>2, EndedActs
  <1> QED
    BY <1>1, <1>3 DEF KeyedStep, Idle, PastCall

LEMMA UnnotedKeyed ==
  ASSUME TypeInv, HandInv, NEW i \in Instances, call[i].step # "none",
         Finish(i, [Mine(i) EXCEPT !.fate = "error", !.noted = FALSE]), stored' = stored
  PROVE  KeyedStep(i)
  <1>1. past[call[i].id] \in PastCall
    BY CallInHand
  <1>2. /\ call'[i] = Idle
        /\ past'[call[i].id] = [past[call[i].id] EXCEPT !.fate = "error", !.noted = FALSE]
    BY UnnotedActs
  <1> QED
    BY <1>1, <1>2 DEF KeyedStep, Idle, PastCall

\* A call that ends with an answer that is remembered.
LEMMA AnsweredKeyed ==
  ASSUME TypeInv, HandInv, NEW i \in Instances, call[i].step # "none",
         NEW f \in {"ok", "replayed"}, Ended(i, f), stored \subseteq stored',
         Mine(i).key # NoKey => \E s \in stored' :
            s.user = Mine(i).user /\ s.tool = Mine(i).tool /\ s.key = Mine(i).key
  PROVE  KeyedStep(i)
  <1>1. past[call[i].id] \in PastCall
    BY CallInHand
  <1>2. f \in Fates \ {"open"}
    BY DEF Fates
  <1>3. /\ call'[i] = Idle
        /\ past'[call[i].id] = [past[call[i].id] EXCEPT !.fate = f]
    BY <1>2, EndedActs
  <1> QED
    BY <1>1, <1>3 DEF KeyedStep, Idle, PastCall, Mine

LEMMA StepKeyed ==
  ASSUME TypeInv, HandInv, KeyInv, NEW i \in Instances, Step(i) \/ Crash(i)
  PROVE  KeyedStep(i)
  <1> DEFINE c == past[call[i].id]
  <1>0. call[i].step # "none" /\ call[i].id \in Ids /\ c \in PastCall /\ call[i] # Idle
        /\ c.fate = "open" /\ call[i] \in Call
    <2>1. call[i].step # "none"
      BY DEF Step, Crash, CheckUser, CheckProject, CheckRole, Lookup, LookupFails, Run, RunRefused,
             Audit, AuditFails, LeaveTraces, Record, RecordFails, Fail, At, HandInv
    <2> QED
      BY <2>1, CallInHand
  <1>1. CASE CheckUser(i) \/ CheckProject(i)
    <2>1. stored' = stored
      BY <1>1 DEF CheckUser, CheckProject
    <2>2. PICK key, limit, next : Check(i, key, limit, next) /\ next \in {"project", "role"}
                                  /\ key \in Limitable
      BY <1>0, <1>1 DEF CheckUser, CheckProject, Mine, PastCall, Limitable
    <2>3. CASE Ended(i, "refused")
      BY <1>0, <2>1, <2>3, EndedKeyed
    <2>4. CASE ~Ended(i, "refused")
      <3>1. /\ call' = [call EXCEPT ![i] = [id |-> call[i].id, step |-> next,
                                            at |-> IF next = "project" THEN now ELSE 0]]
            /\ past' = [past EXCEPT ![call[i].id].took = @ \union {<<key, now>>}]
        BY <2>2, <2>4 DEF Check
      <3>2. past'[call[i].id] = [c EXCEPT !.took = @ \union {<<key, now>>}]
        BY <1>0, <3>1 DEF TypeInv, Ids
      <3>3. past'[call[i].id].fate = "open" /\ past'[call[i].id].ran = c.ran
        BY <1>0, <3>2 DEF PastCall
      <3>4. call'[i].step # "run"
        BY <2>2, <3>1 DEF TypeInv
      <3> QED
        BY <2>1, <3>3, <3>4 DEF KeyedStep
    <2> QED
      BY <2>3, <2>4
  <1>2. CASE CheckRole(i)
    <2>1. stored' = stored
      BY <1>2 DEF CheckRole
    <2>2. CASE Ended(i, "refused")
      BY <1>0, <2>1, <2>2, EndedKeyed
    <2>3. CASE Goto(i, "lookup") /\ past' = past
      BY <1>0, <2>1, <2>3, GotoKeyed DEF Steps
    <2>4. CASE Goto(i, "run") /\ past' = past /\ c.key = NoKey
      <3>1. past'[call[i].id] = c
        BY <2>4
      <3> QED
        BY <1>0, <2>1, <2>4, <3>1 DEF KeyedStep
    <2> QED
      BY <1>2, <2>2, <2>3, <2>4 DEF CheckRole, Mine
  <1>3. CASE Lookup(i)
    <2>1. stored' = stored
      BY <1>3 DEF Lookup
    <2>2. CASE Earlier(i) = {}
      <3>1. past' = past
        BY <1>3, <2>2 DEF Lookup
      <3> QED
        BY <1>0, <2>1, <2>2, <3>1 DEF KeyedStep
    <2>3. CASE Earlier(i) # {}
      <3>1. Ended(i, "replayed")
        BY <1>3, <2>3 DEF Lookup
      <3>2. \E s \in stored' : s.user = Mine(i).user /\ s.tool = Mine(i).tool /\ s.key = Mine(i).key
        BY <2>1, <2>3 DEF Earlier
      <3> QED
        BY <1>0, <2>1, <3>1, <3>2, AnsweredKeyed
    <2> QED
      BY <2>2, <2>3
  <1>4. CASE LookupFails(i)
    BY <1>0, <1>4, UnnotedKeyed DEF LookupFails
  <1>5. CASE Run(i)
    <2>1. stored' = stored /\ call[i].step = "run"
      BY <1>5 DEF Run, At
    <2>2. PICK q \in BOOLEAN : past'[call[i].id] = [c EXCEPT !.ran = TRUE, !.queued = q]
      BY <1>5, RunActs
    <2>3. past'[call[i].id].fate = "open"
      BY <1>0, <2>2 DEF PastCall
    <2>4. call'[i].step # "run"
      BY <1>5, RunActs
    <2> QED
      BY <2>1, <2>3, <2>4 DEF KeyedStep
  <1>6. CASE RunRefused(i)
    BY <1>0, <1>6, GotoKeyed DEF RunRefused, Steps
  <1>7. CASE Audit(i)
    <2>1. stored' = stored
      BY <1>7 DEF Audit
    <2>2. CASE Audited(Mine(i).tool)
      BY <1>0, <1>7, <2>1, <2>2, GotoKeyed DEF Audit, Steps
    <2>3. CASE ~Audited(Mine(i).tool)
      <3>1. Ended(i, "ok")
        BY <1>7, <2>3 DEF Audit
      <3>2. c.key = NoKey
        BY <1>0, <2>3, KeyedIsAudited DEF Mine, KeyInv, PastCall
      <3> QED
        BY <1>0, <2>1, <3>1, <3>2, AnsweredKeyed DEF Mine
    <2> QED
      BY <2>2, <2>3
  <1>8. CASE AuditFails(i)
    BY <1>0, <1>8, GotoKeyed DEF AuditFails, Steps
  <1>9. CASE LeaveTraces(i)
    <2>1. stored' = stored
      BY <1>9 DEF LeaveTraces
    <2>2. PICK left \in SUBSET {"timeline", "search", "event"} :
            past'[call[i].id] = [c EXCEPT !.traces = left]
      BY <1>9, LeaveTracesActs
    <2>3. past'[call[i].id].fate = "open" /\ past'[call[i].id].ran = c.ran
      BY <1>0, <2>2 DEF PastCall
    <2>4. call'[i].step # "run"
      BY <1>9, LeaveTracesActs
    <2> QED
      BY <2>1, <2>3, <2>4 DEF KeyedStep
  <1>10. CASE Record(i)
    <2> DEFINE e == [user |-> Mine(i).user, tool |-> Mine(i).tool, key |-> Mine(i).key, by |-> call[i].id]
    <2>1. Ended(i, "ok") /\ stored' = IF Mine(i).key = NoKey \/ Earlier(i) # {} THEN stored
                                      ELSE stored \union {e}
      BY <1>10 DEF Record
    <2>2. stored \subseteq stored'
      BY <2>1
    <2>3. Mine(i).key # NoKey => \E s \in stored' :
            s.user = Mine(i).user /\ s.tool = Mine(i).tool /\ s.key = Mine(i).key
      <3> SUFFICES ASSUME Mine(i).key # NoKey
                   PROVE  \E s \in stored' :
                            s.user = Mine(i).user /\ s.tool = Mine(i).tool /\ s.key = Mine(i).key
        OBVIOUS
      <3>1. CASE Earlier(i) # {}
        <4>1. PICK s \in stored : s.user = Mine(i).user /\ s.tool = Mine(i).tool /\ s.key = Mine(i).key
          BY <3>1 DEF Earlier
        <4> QED
          BY <2>2, <4>1
      <3>2. CASE Earlier(i) = {}
        <4>1. e \in stored' /\ e.user = Mine(i).user /\ e.tool = Mine(i).tool /\ e.key = Mine(i).key
          BY <2>1, <3>2
        <4> QED
          BY <4>1
      <3> QED
        BY <3>1, <3>2
    <2> QED
      BY <1>0, <2>1, <2>2, <2>3, AnsweredKeyed
  <1>11. CASE RecordFails(i)
    BY <1>0, <1>11, GotoKeyed DEF RecordFails, Steps
  <1>12. CASE Fail(i)
    BY <1>0, <1>12, EndedKeyed, UnnotedKeyed DEF Fail
  <1>13. CASE Crash(i)
    BY <1>0, <1>13, EndedKeyed DEF Crash
  <1> QED
    BY <1>1, <1>2, <1>3, <1>4, <1>5, <1>6, <1>7, <1>8, <1>9, <1>10, <1>11, <1>12, <1>13 DEF Step

LEMMA KeyInvStep ==
  ASSUME TypeInv, HandInv, KeyInv, NEW i \in Instances, Acts(i), KeyedStep(i)
  PROVE  KeyInv'
  <1> DEFINE m == call[i].id
  <1>1. /\ Ids' = Ids /\ m \in Ids /\ \A n \in Ids : n # m => past'[n] = past[n]
        /\ past[m].fate = "open"
    BY DEF Acts, HandInv
  <1>2. \A n \in Ids : Keeps(past'[n], past[n])
    BY DEF Acts, Keeps
  <1>3. \A n \in Ids : past'[n].key # NoKey => past'[n].tool \in Keyed
    BY <1>2 DEF KeyInv, Keeps
  <1>4. \A a, b \in Ids : a < b /\ a \notin past[b].beside => past[a].fate # "open" /\ a # m
    BY <1>1 DEF KeyInv
  <1>5. \A a, b \in Ids : a < b /\ a \notin past'[b].beside => past'[a].fate # "open"
    BY <1>1, <1>2, <1>4 DEF Keeps
  <1>6. ASSUME NEW a \in Ids, past'[a].fate \in {"ok", "replayed"}, past'[a].key # NoKey
        PROVE  \E s \in stored' : s.user = past'[a].user /\ s.tool = past'[a].tool /\ s.key = past'[a].key
    <2>1. Keeps(past'[a], past[a])
      BY <1>2
    <2>2. CASE a = m
      BY <1>6, <2>1, <2>2 DEF KeyedStep, Keeps
    <2>3. CASE a # m
      <3>1. past'[a] = past[a]
        BY <1>1, <2>3
      <3>2. PICK s \in stored : s.user = past[a].user /\ s.tool = past[a].tool /\ s.key = past[a].key
        BY <1>6, <3>1 DEF KeyInv
      <3>3. s \in stored'
        BY DEF KeyedStep
      <3> QED
        BY <3>1, <3>2, <3>3
    <2> QED
      BY <2>2, <2>3
  <1>7. ASSUME NEW a \in Ids, NEW b \in Ids, Settled(a, b)'
        PROVE  ~past'[b].ran /\ \A j \in Instances : call'[j].id = b => call'[j].step # "run"
    <2>1. /\ a < b /\ SameRequest(a, b)' /\ a \notin past'[b].beside
          /\ past'[a].fate \in {"ok", "replayed"}
      BY <1>7 DEF Settled
    <2>2. Keeps(past'[a], past[a]) /\ Keeps(past'[b], past[b])
      BY <1>2
    <2>3. a # m /\ past'[a] = past[a]
      BY <1>1, <1>4, <2>1, <2>2 DEF Keeps
    <2>4. Settled(a, b) /\ SameRequest(a, b)
      BY <2>1, <2>2, <2>3 DEF Settled, SameRequest, Keeps
    <2>5. ~past[b].ran /\ \A j \in Instances : call[j].id = b => call[j].step # "run"
      BY <2>4 DEF KeyInv
    <2>6. 0 \notin Ids /\ Idle.id = 0
      BY DEF Ids, TypeInv, Idle
    <2>7. CASE b # m
      <3>1. past'[b] = past[b]
        BY <1>1, <2>7
      <3>2. \A j \in Instances : call'[j].id = b => call'[j] = call[j]
        BY <2>6, <2>7 DEF Acts
      <3> QED
        BY <2>5, <3>1, <3>2
    <2>8. CASE b = m
      <3>1. ~past'[b].ran
        BY <2>5, <2>8 DEF KeyedStep
      <3>2. Earlier(i) # {} /\ past[b].key # NoKey
        <4>1. PICK s \in stored : s.user = past[a].user /\ s.tool = past[a].tool /\ s.key = past[a].key
          BY <2>1, <2>3, <2>4 DEF KeyInv, SameRequest
        <4> QED
          BY <2>4, <2>8, <4>1 DEF SameRequest, Earlier, Mine
      <3>3. call'[i].step # "run"
        BY <2>8, <3>2 DEF KeyedStep
      <3>4. \A j \in Instances : j # i => call'[j].id # b
        BY <2>6, <2>8, <1>1 DEF Acts, HandInv
      <3> QED
        BY <3>1, <3>3, <3>4
    <2> QED
      BY <2>7, <2>8
  <1> HIDE DEF m
  <1> QED
    BY <1>1, <1>3, <1>5, <1>6, <1>7 DEF KeyInv

LEMMA KeyInvBegin ==
  ASSUME TypeInv, HandInv, KeyInv, NEW i \in Instances, NEW u \in Users, NEW t \in Called,
         NEW p \in Projects, NEW k \in Keys \union {NoKey}, Begin(i, u, t, p, k),
         Begun(i, Fresher(i, u, t, p, k))
  PROVE  KeyInv'
  <1> DEFINE r == Fresher(i, u, t, p, k)
             m == Len(past) + 1
  <1>1. /\ Ids' = Ids \union {m} /\ m \notin Ids /\ \A n \in Ids : n < m
        /\ past'[m] = r /\ \A n \in Ids : past'[n] = past[n]
        /\ \A j \in Instances : j # i => call'[j] = call[j]
        /\ call'[i].id = m /\ (call'[i].step = "run" => ~Limited(t))
        /\ m \in Nat /\ Ids \subseteq Nat
    BY DEF Begun, Fresher, Ids, TypeInv
  <1>2. stored' = stored /\ (k # NoKey => t \in Keyed)
    BY DEF Begin
  <1>3. /\ r.tool = t /\ r.key = k /\ r.fate = "open" /\ r.ran = FALSE
        /\ r.beside = {call[j].id : j \in Instances} \ {0}
    BY DEF Fresher
  <1> HIDE DEF r, m
  <1>4. \A n \in Ids' : past'[n].key # NoKey => past'[n].tool \in Keyed
    BY <1>1, <1>2, <1>3 DEF KeyInv
  <1>5. \A a, b \in Ids' : a < b /\ a \notin past'[b].beside => past'[a].fate # "open"
    <2> SUFFICES ASSUME NEW a \in Ids', NEW b \in Ids', a < b, a \notin past'[b].beside
                 PROVE  past'[a].fate # "open"
      OBVIOUS
    <2>1. a \in Ids
      BY <1>1
    <2>2. CASE b \in Ids
      BY <1>1, <2>1, <2>2 DEF KeyInv
    <2>3. CASE b = m
      <3>1. a # 0
        BY <2>1 DEF Ids, TypeInv
      <3>2. \A j \in Instances : call[j].id # a
        BY <1>1, <1>3, <2>3, <3>1
      <3> QED
        BY <1>1, <2>1, <3>2 DEF HandInv
    <2> QED
      BY <1>1, <2>2, <2>3
  <1>6. \A a \in Ids' : past'[a].fate \in {"ok", "replayed"} /\ past'[a].key # NoKey =>
         \E s \in stored' : s.user = past'[a].user /\ s.tool = past'[a].tool /\ s.key = past'[a].key
    BY <1>1, <1>2, <1>3 DEF KeyInv
  <1>7. ASSUME NEW a \in Ids', NEW b \in Ids', Settled(a, b)'
        PROVE  ~past'[b].ran /\ \A j \in Instances : call'[j].id = b => call'[j].step # "run"
    <2>1. a < b /\ SameRequest(a, b)' /\ a \notin past'[b].beside /\ past'[a].fate \in {"ok", "replayed"}
      BY <1>7 DEF Settled
    <2>2. a \in Ids /\ past'[a] = past[a]
      BY <1>1, <2>1
    <2>3. CASE b \in Ids
      <3>1. Settled(a, b) /\ past'[b] = past[b] /\ b # m
        BY <1>1, <2>1, <2>2, <2>3 DEF Settled, SameRequest
      <3> QED
        BY <1>1, <2>2, <2>3, <3>1 DEF KeyInv
    <2>4. CASE b = m
      <3>1. k # NoKey
        BY <1>1, <1>3, <2>1, <2>4 DEF SameRequest
      <3>2. Limited(t)
        BY <1>2, <3>1, KeyedIsAudited
      <3>3. \A j \in Instances : j # i => call'[j].id # m
        <4>1. \A j \in Instances : call[j].id \in Ids \/ call[j].id = 0
          BY DEF HandInv, Idle
        <4>2. m # 0
          BY DEF m, TypeInv
        <4> QED
          BY <1>1, <4>1, <4>2
      <3> QED
        BY <1>1, <1>3, <2>4, <3>2, <3>3
    <2> QED
      BY <1>1, <2>3, <2>4
  <1> QED
    BY <1>4, <1>5, <1>6, <1>7 DEF KeyInv

LEMMA KeyInvRest ==
  ASSUME KeyInv, call' = call, past' = past, stored' = stored
  PROVE  KeyInv'
  <1>1. Ids' = Ids /\ \A a, b : Settled(a, b)' = Settled(a, b)
    BY DEF Ids, Settled, SameRequest
  <1> QED
    BY <1>1 DEF KeyInv

\* Who has an answer may ask again with the same key, of any process: nothing runs again.
THEOREM AnswersAreNotRepeated == Spec => []AnsweredKeyRunsOnce
  <1> DEFINE Inv == TypeInv /\ HandInv /\ LimiterInv /\ KeyInv
  <1>1. Init => Inv
    <2>1. Init => KeyInv
      BY DEF Init, KeyInv, Ids
    <2> QED
      BY <2>1, InitInvariant
  <1>2. Inv /\ [Next]_vars => Inv'
    <2> SUFFICES ASSUME Inv, [Next]_vars
                 PROVE  KeyInv'
      BY CoreNext DEF Core
    <2>1. CASE UNCHANGED vars
      BY <2>1, KeyInvRest DEF vars
    <2>2. ASSUME NEW i \in Instances, NEW u \in Users, NEW t \in Called, NEW p \in Projects,
                 NEW k \in Keys \union {NoKey},
                 Begin(i, u, t, p, k), Begun(i, Fresher(i, u, t, p, k))
          PROVE  KeyInv'
      BY <2>2, KeyInvBegin
    <2>3. ASSUME NEW i \in Instances, Step(i) \/ Crash(i)
          PROVE  KeyInv'
      BY <2>3, StepActs, StepKeyed, KeyInvStep
    <2>4. ASSUME Tick \/ \E i \in Instances, u \in Users : SwitchOff(i, u)
          PROVE  KeyInv'
      <3>1. call' = call /\ past' = past /\ stored' = stored
        BY <2>4 DEF Tick, SwitchOff
      <3> QED
        BY <3>1, KeyInvRest
    <2> QED
      BY <2>1, <2>2, <2>3, <2>4, NextCases
  <1>3. Inv => AnsweredKeyRunsOnce
    BY DEF KeyInv, Settled, AnsweredKeyRunsOnce
  <1> QED
    BY <1>1, <1>2, <1>3, PTL DEF Spec

------------------------------------------------------------------------
(* What callers were told, what ran and what the log says *)

\* An entry is added at the end.
LEMMA LogGrows ==
  ASSUME TypeInv, NEW i \in Instances, NEW ok \in BOOLEAN, Logged(i, ok), NEW n, n = call[i].id
  PROVE  /\ \A m : SaysOk(m) => SaysOk(m)'
         /\ ok = TRUE => SaysOk(n)'
         /\ LastSays(n, ok)'
         /\ \A m : m # n => Entries(m)' = Entries(m)
         /\ \A m, b : m # n /\ LastSays(m, b) => LastSays(m, b)'
         /\ \A k \in DOMAIN log' : (k \in DOMAIN log /\ log'[k].id = log[k].id) \/ log'[k].id = n
  <1> DEFINE e == [id |-> n, ok |-> ok]
             l == Len(log) + 1
  <1>1. log' = Append(log, e) /\ e.id = n /\ e.ok = ok /\ n \in Nat
    BY DEF Logged, TypeInv, Call
  <1>2. /\ DOMAIN log' = DOMAIN log \union {l} /\ l \in Nat /\ DOMAIN log \subseteq Nat
        /\ \A k \in DOMAIN log : k < l /\ k <= l /\ log'[k] = log[k]
        /\ log'[l] = e /\ l <= l /\ l \notin DOMAIN log
    <2> HIDE DEF e
    <2> QED
      BY <1>1 DEF TypeInv
  <1>3. ok = TRUE => e = [id |-> n, ok |-> TRUE]
    OBVIOUS
  <1> HIDE DEF e, l
  <1>4. \A m : SaysOk(m) => SaysOk(m)'
    BY <1>2 DEF SaysOk
  <1>5. ok = TRUE => SaysOk(n)'
    BY <1>2, <1>3 DEF SaysOk
  <1>6. LastSays(n, ok)'
    <2>1. l \in Entries(n)' /\ log'[l].ok = ok
      BY <1>1, <1>2 DEF Entries
    <2>2. \A k \in Entries(n)' : k <= l
      BY <1>2 DEF Entries
    <2> QED
      BY <2>1, <2>2 DEF LastSays
  <1>7. \A m : m # n => Entries(m)' = Entries(m)
    BY <1>1, <1>2 DEF Entries
  <1>8. \A m, b : m # n /\ LastSays(m, b) => LastSays(m, b)'
    <2> SUFFICES ASSUME NEW m, NEW b, m # n, LastSays(m, b)
                 PROVE  LastSays(m, b)'
      OBVIOUS
    <2>1. PICK k \in Entries(m) : (\A j \in Entries(m) : j <= k) /\ log[k].ok = b
      BY DEF LastSays
    <2>2. Entries(m)' = Entries(m) /\ log'[k] = log[k]
      BY <1>2, <1>7, <2>1 DEF Entries
    <2> QED
      BY <2>1, <2>2 DEF LastSays
  <1>9. \A k \in DOMAIN log' : (k \in DOMAIN log /\ log'[k].id = log[k].id) \/ log'[k].id = n
    BY <1>1, <1>2
  <1> QED
    BY <1>4, <1>5, <1>6, <1>7, <1>8, <1>9

LEMMA LogRests ==
  ASSUME log' = log
  PROVE  /\ \A m : SaysOk(m)' = SaysOk(m) /\ Entries(m)' = Entries(m)
         /\ \A m, b : LastSays(m, b)' = LastSays(m, b)
  <1>1. \A m : SaysOk(m)' = SaysOk(m) /\ Entries(m)' = Entries(m)
    BY DEF SaysOk, Entries
  <1> QED
    BY <1>1 DEF LastSays

\* An entry that is the last one, and says ok, is there.
LEMMA LastIsThere ==
  ASSUME TypeInv, NEW n, LastSays(n, TRUE)
  PROVE  SaysOk(n)
  <1>1. PICK k \in DOMAIN log : log[k].id = n /\ log[k].ok = TRUE
    BY DEF LastSays, Entries
  <1>2. log[k] \in [id : Nat, ok : BOOLEAN]
    <2> DEFINE E == [id : Nat, ok : BOOLEAN]
    <2>1. log \in Seq(E)
      BY DEF TypeInv
    <2> HIDE DEF E
    <2>2. log[k] \in E
      BY <1>1, <2>1
    <2> QED
      BY <2>2 DEF E
  <1>3. log[k] = [id |-> n, ok |-> TRUE]
    BY <1>1, <1>2
  <1> QED
    BY <1>3 DEF SaysOk

\* What a step means for the answers: the call in hand is m.
AnswerStep(i, m) ==
    LET c == past[m]
        d == past'[m] IN
    /\ log' = log \/ \E ok \in BOOLEAN : Logged(i, ok)
    /\ c.ran => d.ran
    /\ d.ran => ~c.barred
    /\ \A s \in stored' : s \in stored \/ (/\ s.by = m /\ s.user = c.user /\ s.tool = c.tool
                                           /\ s.key = c.key /\ d.ran /\ SaysOk(m)')
    /\ \A j \in Instances : known'[j] = known[j] \/ (j = i /\ call'[j] = Idle)
    /\ call'[i] # Idle => HandOk(i)'
    /\ Agrees(m)' /\ Stands(m)'

LEMMA AnswerInvStep ==
  ASSUME TypeInv, TypeInv', HandInv, AnswerInv, NEW i \in Instances, Acts(i),
         NEW m, m = call[i].id, AnswerStep(i, m)
  PROVE  AnswerInv'
  <1>1. /\ Ids' = Ids /\ m \in Ids /\ \A n \in Ids : n # m => past'[n] = past[n]
        /\ Keeps(past'[m], past[m]) /\ \A j \in Instances : j # i => call'[j] = call[j]
    BY DEF Acts
  <1>2. \A n \in Ids : Keeps(past'[n], past[n])
    BY <1>1 DEF Keeps
  <1>3. /\ \A n : SaysOk(n) => SaysOk(n)'
        /\ \A n : n # m => Entries(n)' = Entries(n)
        /\ \A n, b : n # m /\ LastSays(n, b) => LastSays(n, b)'
        /\ \A k \in DOMAIN log' : (k \in DOMAIN log /\ log'[k].id = log[k].id) \/ log'[k].id = m
    <2>1. CASE log' = log
      <3>1. /\ \A n : SaysOk(n)' = SaysOk(n) /\ Entries(n)' = Entries(n)
            /\ \A n, b : LastSays(n, b)' = LastSays(n, b)
        BY <2>1, LogRests
      <3> QED
        BY <2>1, <3>1
    <2>2. ASSUME NEW ok \in BOOLEAN, Logged(i, ok)
          PROVE  /\ \A n : SaysOk(n) => SaysOk(n)'
                 /\ \A n : n # m => Entries(n)' = Entries(n)
                 /\ \A n, b : n # m /\ LastSays(n, b) => LastSays(n, b)'
                 /\ \A k \in DOMAIN log' : (k \in DOMAIN log /\ log'[k].id = log[k].id) \/ log'[k].id = m
      BY <2>2, LogGrows
    <2>3. log' = log \/ \E ok \in BOOLEAN : Logged(i, ok)
      BY DEF AnswerStep
    <2> QED
      BY <2>1, <2>2, <2>3
  <1>4. \A n \in Ids : past[n].ran => past'[n].ran
    BY <1>1 DEF AnswerStep
  <1>5. HandsInv'
    <2> SUFFICES ASSUME NEW j \in Instances, call'[j] # Idle
                 PROVE  /\ past'[call'[j].id].barred = (past'[call'[j].id].user \in known'[j])
                        /\ HandOk(j)'
      BY DEF HandsInv
    <2>1. known'[j] = known[j]
      BY DEF AnswerStep
    <2>2. CASE j = i
      <3>1. call'[j].id = m /\ call[j] # Idle
        BY <2>2 DEF Acts
      <3> QED
        BY <1>1, <2>1, <2>2, <3>1 DEF AnswerStep, AnswerInv, HandsInv, Keeps
    <2>3. CASE j # i
      <3>1. call'[j] = call[j] /\ call[j] # Idle
        BY <1>1, <2>3
      <3>2. call[j].id # m /\ call[j].id \in Ids
        BY <2>3, <3>1 DEF HandInv
      <3>3. past'[call[j].id] = past[call[j].id]
        BY <1>1, <3>2
      <3>4. HandOk(j)
        BY <3>1 DEF AnswerInv, HandsInv
      <3>5. HandOk(j)'
        BY <1>3, <3>1, <3>2, <3>3, <3>4 DEF HandOk
      <3> QED
        BY <2>1, <3>1, <3>3, <3>5 DEF AnswerInv, HandsInv
    <2> QED
      BY <2>2, <2>3
  <1>6. RanInv'
    <2>1. \A n \in Ids' : past'[n].ran => ~past'[n].barred
      BY <1>1 DEF AnswerStep, AnswerInv, RanInv, Keeps
    <2>2. \A k \in DOMAIN log' : log'[k].id \in Ids'
      BY <1>1, <1>3 DEF AnswerInv, RanInv
    <2>3. ASSUME NEW s \in stored'
          PROVE  /\ s.by \in Ids'
                 /\ past'[s.by].user = s.user /\ past'[s.by].tool = s.tool /\ past'[s.by].key = s.key
                 /\ past'[s.by].ran /\ SaysOk(s.by)'
      <3>1. CASE s \in stored
        <4>1. /\ s.by \in Ids
              /\ past[s.by].user = s.user /\ past[s.by].tool = s.tool /\ past[s.by].key = s.key
              /\ past[s.by].ran /\ SaysOk(s.by)
          BY <3>1 DEF AnswerInv, RanInv
        <4> QED
          BY <1>1, <1>2, <1>3, <1>4, <4>1 DEF Keeps
      <3>2. CASE s \notin stored
        <4>1. /\ s.by = m /\ s.user = past[m].user /\ s.tool = past[m].tool
              /\ s.key = past[m].key /\ past'[m].ran /\ SaysOk(m)'
          BY <3>2 DEF AnswerStep
        <4>2. SaysOk(s.by)'
          BY <4>1 DEF SaysOk
        <4> QED
          BY <1>1, <4>1, <4>2 DEF Keeps
      <3> QED
        BY <3>1, <3>2
    <2> QED
      BY <2>1, <2>2, <2>3 DEF RanInv
  <1>7. ASSUME NEW n \in Ids, n # m
        PROVE  Agrees(n)' /\ Stands(n)'
    <2>1. past'[n] = past[n]
      BY <1>1, <1>7
    <2>2. Agrees(n)'
      BY <1>3, <1>7, <2>1 DEF AnswerInv, Agrees
    <2>3. Stands(n)'
      <3> SUFFICES ASSUME past[n].fate \in {"ok", "replayed"}
                   PROVE  \E r \in Ids :
                            /\ r = n \/ (past[n].fate = "replayed" /\ SameRequest(r, n)')
                            /\ past'[r].ran
                            /\ Audited(past[n].tool) => SaysOk(r)' /\ SaysOk(n)'
        BY <1>1, <2>1 DEF Stands
      <3>1. PICK r \in Ids :
              /\ r = n \/ (past[n].fate = "replayed" /\ SameRequest(r, n))
              /\ past[r].ran
              /\ Audited(past[n].tool) => SaysOk(r) /\ SaysOk(n)
        BY DEF AnswerInv, Stands
      <3>2. SameRequest(r, n) => SameRequest(r, n)'
        BY <1>2 DEF SameRequest, Keeps
      <3> QED
        BY <1>3, <1>4, <3>1, <3>2
    <2> QED
      BY <2>2, <2>3
  <1>8. \A n \in Ids' : Agrees(n)' /\ Stands(n)'
    <2>1. Agrees(m)' /\ Stands(m)'
      BY DEF AnswerStep
    <2> QED
      BY <1>1, <1>7, <2>1
  <1> QED
    BY <1>5, <1>6, <1>8 DEF AnswerInv

\* The log is as it was, or one entry longer.
LogKept(i) == log' = log \/ \E ok \in BOOLEAN : Logged(i, ok)

LEMMA SaysOkStays ==
  ASSUME TypeInv, NEW i \in Instances, LogKept(i)
  PROVE  \A n : SaysOk(n) => SaysOk(n)'
  BY LogGrows, LogRests DEF LogKept

\* What is known of a call in hand.
LEMMA HandFacts ==
  ASSUME TypeInv, HandInv, AnswerInv, NEW i \in Instances, call[i].step # "none",
         NEW m, m = call[i].id
  PROVE  /\ m \in Ids /\ m \in Nat /\ call[i] \in Call /\ call[i] # Idle
         /\ past[m] \in PastCall /\ past[m].fate = "open" /\ past[m].noted = TRUE
         /\ past[m].barred = (past[m].user \in known[i])
         /\ past[m].ran => ~past[m].barred
         /\ past[m].traces # {} => SaysOk(m)
         /\ HandOk(i)
         /\ call[i].step \in {"audit", "traces", "record"} => past[m].ran
         /\ call[i].step \in {"traces", "record"} => Audited(past[m].tool) /\ LastSays(m, TRUE)
         /\ call[i].step \in Early => Entries(m) = {}
         /\ call[i].step = "lookup" => past[m].key # NoKey
  <1>1. /\ m \in Ids /\ call[i] \in Call /\ call[i] # Idle
        /\ past[m] \in PastCall /\ past[m].fate = "open"
    BY CallInHand
  <1>2. HandOk(i) /\ past[m].barred = (past[m].user \in known[i])
    BY <1>1 DEF AnswerInv, HandsInv
  <1>3. past[m].noted = TRUE
    BY <1>1, <1>2 DEF HandOk, PastCall
  <1>4. Agrees(m) /\ (past[m].ran => ~past[m].barred)
    BY <1>1 DEF AnswerInv, RanInv
  <1>5. m \in Nat
    BY <1>1 DEF Ids, TypeInv
  <1>6. /\ call[i].step \in {"audit", "traces", "record"} => past[m].ran
        /\ call[i].step \in {"traces", "record"} => Audited(past[m].tool) /\ LastSays(m, TRUE)
        /\ call[i].step \in Early => Entries(m) = {}
        /\ call[i].step = "lookup" => past[m].key # NoKey
    BY <1>2 DEF HandOk
  <1>7. past[m].traces # {} => SaysOk(m)
    BY <1>4 DEF Agrees
  <1> QED
    BY <1>1, <1>2, <1>3, <1>4, <1>5, <1>6, <1>7

\* A step that goes on to s, given what s asks for.
LEMMA GotoAnswers ==
  ASSUME TypeInv, HandInv, AnswerInv, NEW i \in Instances, NEW m, m = call[i].id,
         call[i].step # "none", NEW s \in Steps, Goto(i, s), past' = past,
         stored' = stored, known' = known, LogKept(i),
         s \in {"audit", "traces", "record"} => past[m].ran,
         s \in {"traces", "record"} => Audited(past[m].tool) /\ LastSays(m, TRUE)',
         s \in Early => Entries(m)' = {},
         s = "lookup" => past[m].key # NoKey
  PROVE  AnswerStep(i, m)
  <1>1. /\ past[m].fate = "open" /\ past[m].noted = TRUE /\ call[i] \in Call
        /\ past[m].ran => ~past[m].barred
        /\ past[m].traces # {} => SaysOk(m)
    BY HandFacts
  <1>2. call'[i] = [call[i] EXCEPT !.step = s]
    BY GotoActs
  <1>3. call'[i].step = s /\ call'[i].id = m
    BY <1>1, <1>2 DEF Call
  <1>4. HandOk(i)'
    BY <1>1, <1>3 DEF HandOk
  <1>5. Agrees(m)' /\ Stands(m)'
    BY <1>1, SaysOkStays DEF Agrees, Stands
  <1> QED
    BY <1>1, <1>4, <1>5 DEF AnswerStep, LogKept

\* A call that ends, given what its end asks for.
LEMMA EndedAnswers ==
  ASSUME TypeInv, HandInv, AnswerInv, NEW i \in Instances, NEW m, m = call[i].id,
         call[i].step # "none", NEW f \in Fates \ {"open"}, Ended(i, f),
         \A s \in stored' : s \in stored \/ (/\ s.by = m /\ s.user = past[m].user /\ s.tool = past[m].tool
                                             /\ s.key = past[m].key /\ past[m].ran /\ SaysOk(m)'),
         \A j \in Instances : j # i => known'[j] = known[j],
         LogKept(i),
         f \in {"ok", "replayed", "error"} /\ Audited(past[m].tool) => LastSays(m, f # "error")',
         f = "refused" => Entries(m)' = {},
         f \in {"ok", "replayed"} =>
           \E r \in Ids : /\ r = m \/ (f = "replayed" /\ SameRequest(r, m))
                          /\ past[r].ran
                          /\ Audited(past[m].tool) => SaysOk(r)' /\ SaysOk(m)'
  PROVE  AnswerStep(i, m)
  <1>1. /\ past[m].fate = "open" /\ past[m].noted = TRUE /\ past[m] \in PastCall /\ m \in Ids
        /\ past[m].ran => ~past[m].barred
        /\ past[m].traces # {} => SaysOk(m)
    BY HandFacts
  <1>2. /\ Acts(i) /\ call'[i] = Idle
        /\ past'[m] = [past[m] EXCEPT !.fate = f]
    BY EndedActs
  <1>3. /\ past'[m].fate = f /\ past'[m].noted = TRUE /\ past'[m].ran = past[m].ran
        /\ past'[m].tool = past[m].tool /\ past'[m].traces = past[m].traces
    BY <1>1, <1>2 DEF PastCall
  <1>4. Agrees(m)'
    BY <1>1, <1>3, SaysOkStays DEF Agrees
  <1>5. Stands(m)'
    <2> SUFFICES ASSUME f \in {"ok", "replayed"}
                 PROVE  \E r \in Ids : /\ r = m \/ (f = "replayed" /\ SameRequest(r, m)')
                                       /\ past'[r].ran
                                       /\ Audited(past[m].tool) => SaysOk(r)' /\ SaysOk(m)'
      BY <1>2, <1>3 DEF Stands, Acts
    <2>1. PICK r \in Ids : /\ r = m \/ (f = "replayed" /\ SameRequest(r, m))
                           /\ past[r].ran
                           /\ Audited(past[m].tool) => SaysOk(r)' /\ SaysOk(m)'
      OBVIOUS
    <2>2. Keeps(past'[r], past[r]) /\ Keeps(past'[m], past[m])
      BY <1>2 DEF Acts, Keeps
    <2>3. SameRequest(r, m) => SameRequest(r, m)'
      BY <2>2 DEF SameRequest, Keeps
    <2>4. past'[r].ran
      BY <1>2, <1>3, <2>1 DEF Acts
    <2> QED
      BY <2>1, <2>3, <2>4
  <1>6. \A j \in Instances : known'[j] = known[j] \/ (j = i /\ call'[j] = Idle)
    BY <1>2
  <1> QED
    BY <1>1, <1>2, <1>3, <1>4, <1>5, <1>6 DEF AnswerStep, LogKept

LEMMA UnnotedAnswers ==
  ASSUME TypeInv, HandInv, AnswerInv, NEW i \in Instances, NEW m, m = call[i].id,
         call[i].step # "none", Finish(i, [Mine(i) EXCEPT !.fate = "error", !.noted = FALSE]),
         stored' = stored, known' = known, log' = log
  PROVE  AnswerStep(i, m)
  <1>1. /\ past[m] \in PastCall
        /\ past[m].ran => ~past[m].barred
        /\ past[m].traces # {} => SaysOk(m)
    BY HandFacts
  <1>2. /\ call'[i] = Idle
        /\ past'[m] = [past[m] EXCEPT !.fate = "error", !.noted = FALSE]
    BY UnnotedActs
  <1>3. /\ past'[m].fate = "error" /\ past'[m].noted = FALSE /\ past'[m].ran = past[m].ran
        /\ past'[m].traces = past[m].traces
    BY <1>1, <1>2 DEF PastCall
  <1>4. Agrees(m)' /\ Stands(m)'
    BY <1>1, <1>3, LogRests DEF Agrees, Stands
  <1> QED
    BY <1>1, <1>2, <1>3, <1>4 DEF AnswerStep

LEMMA CheckAnswers ==
  ASSUME TypeInv, HandInv, AnswerInv, NEW i \in Instances, NEW m, m = call[i].id,
         CheckUser(i) \/ CheckProject(i)
  PROVE  AnswerStep(i, m)
  <1>1. /\ call[i].step \in {"user", "project"} /\ stored' = stored /\ known' = known /\ log' = log
        /\ \E key \in Limitable, next \in {"project", "role"} : \E limit : Check(i, key, limit, next)
    <2>1. past[call[i].id] \in PastCall
      BY CallInHand DEF CheckUser, CheckProject, At
    <2> QED
      BY <2>1 DEF CheckUser, CheckProject, At, Mine, PastCall, Limitable
  <1>2. /\ m \in Ids /\ past[m] \in PastCall /\ past[m].fate = "open" /\ past[m].noted = TRUE
        /\ past[m].ran => ~past[m].barred
        /\ past[m].traces # {} => SaysOk(m)
        /\ Entries(m) = {} /\ call[i] \in Call
    BY <1>1, HandFacts DEF Early
  <1>3. LogKept(i) /\ Entries(m)' = {}
    BY <1>1, <1>2, LogRests DEF LogKept
  <1>4. PICK key \in Limitable, next \in {"project", "role"} : \E limit : Check(i, key, limit, next)
    BY <1>1
  <1>5. CASE Ended(i, "refused")
    BY <1>1, <1>3, <1>5, EndedAnswers DEF Fates
  <1>6. CASE ~Ended(i, "refused")
    <2> DEFINE at == IF next = "project" THEN now ELSE 0
    <2>1. /\ call' = [call EXCEPT ![i] = [id |-> call[i].id, step |-> next, at |-> at]]
          /\ past' = [past EXCEPT ![call[i].id].took = @ \union {<<key, now>>}]
      BY <1>4, <1>6 DEF Check
    <2>2. past'[m] = [past[m] EXCEPT !.took = @ \union {<<key, now>>}]
      BY <1>2, <2>1 DEF TypeInv, Ids
    <2>3. /\ past'[m].fate = "open" /\ past'[m].noted = TRUE /\ past'[m].ran = past[m].ran
          /\ past'[m].traces = past[m].traces
      BY <1>2, <2>2 DEF PastCall
    <2>4. call'[i].id = m /\ call'[i].step = next
      BY <2>1 DEF TypeInv
    <2>5. HandOk(i)'
      BY <1>3, <2>3, <2>4 DEF HandOk
    <2>6. Agrees(m)' /\ Stands(m)'
      BY <1>2, <1>3, <2>3, SaysOkStays DEF Agrees, Stands
    <2> QED
      BY <1>1, <1>2, <2>3, <2>5, <2>6 DEF AnswerStep
  <1> QED
    BY <1>5, <1>6

LEMMA LookupAnswers ==
  ASSUME TypeInv, HandInv, AnswerInv, NEW i \in Instances, NEW m, m = call[i].id, Lookup(i)
  PROVE  AnswerStep(i, m)
  <1>1. call[i].step = "lookup" /\ stored' = stored /\ known' = known
    BY DEF Lookup, At
  <1>2. Entries(m) = {} /\ past[m].key # NoKey /\ m \in Ids
    BY <1>1, HandFacts DEF Early
  <1>3. CASE Earlier(i) = {}
    <2>1. Goto(i, "run") /\ past' = past /\ log' = log
      BY <1>3 DEF Lookup
    <2>2. LogKept(i) /\ Entries(m)' = {}
      BY <1>2, <2>1, LogRests DEF LogKept
    <2> QED
      BY <1>1, <2>1, <2>2, GotoAnswers DEF Steps
  <1>4. CASE Earlier(i) # {}
    <2>1. Logged(i, TRUE) /\ Ended(i, "replayed")
      BY <1>4 DEF Lookup
    <2>2. LogKept(i) /\ LastSays(m, TRUE)' /\ SaysOk(m)' /\ \A n : SaysOk(n) => SaysOk(n)'
      BY <2>1, LogGrows DEF LogKept
    <2>3. PICK s \in stored : s.user = past[m].user /\ s.tool = past[m].tool /\ s.key = past[m].key
      BY <1>4 DEF Earlier, Mine
    <2>4. /\ s.by \in Ids
          /\ past[s.by].user = s.user /\ past[s.by].tool = s.tool /\ past[s.by].key = s.key
          /\ past[s.by].ran /\ SaysOk(s.by)
      BY DEF AnswerInv, RanInv
    <2>5. SameRequest(s.by, m)
      BY <1>2, <2>3, <2>4 DEF SameRequest
    <2>6. "replayed" \in Fates \ {"open"} /\ "replayed" # "error" /\ "replayed" # "refused"
      BY DEF Fates
    <2>7. \E r \in Ids : /\ r = m \/ ("replayed" = "replayed" /\ SameRequest(r, m))
                         /\ past[r].ran
                         /\ Audited(past[m].tool) => SaysOk(r)' /\ SaysOk(m)'
      BY <2>2, <2>4, <2>5
    <2>8. LastSays(m, "replayed" # "error")'
      BY <2>2, <2>6
    <2> QED
      BY <1>1, <2>1, <2>2, <2>6, <2>7, <2>8, EndedAnswers
  <1> QED
    BY <1>3, <1>4

LEMMA RunAnswers ==
  ASSUME TypeInv, HandInv, AnswerInv, NEW i \in Instances, NEW m, m = call[i].id, Run(i)
  PROVE  AnswerStep(i, m)
  <1>1. call[i].step = "run" /\ stored' = stored /\ known' = known /\ log' = log /\ Allowed(i)
    BY DEF Run, At
  <1>2. /\ m \in Ids /\ past[m] \in PastCall /\ past[m].fate = "open" /\ past[m].noted = TRUE
        /\ past[m].barred = (past[m].user \in known[i])
        /\ past[m].traces # {} => SaysOk(m)
        /\ Entries(m) = {}
    BY <1>1, HandFacts DEF Early
  <1>3. PICK q \in BOOLEAN : past'[m] = [past[m] EXCEPT !.ran = TRUE, !.queued = q]
    BY RunActs
  <1>4. /\ past'[m].fate = "open" /\ past'[m].noted = TRUE /\ past'[m].ran = TRUE
        /\ past'[m].traces = past[m].traces
    BY <1>2, <1>3 DEF PastCall
  <1>5. ~past[m].barred
    BY <1>1, <1>2 DEF Allowed, Mine
  <1>6. LogKept(i) /\ Entries(m)' = {}
    BY <1>1, <1>2, LogRests DEF LogKept
  <1>7. call'[i].step \in {"audit", "fail"} /\ call'[i].id = m
    <2>1. Acts(i) /\ call'[i].step \in {"audit", "fail"}
      BY RunActs DEF Quiet
    <2> QED
      BY <2>1 DEF Acts, Idle
  <1>8. HandOk(i)'
    BY <1>4, <1>6, <1>7 DEF HandOk
  <1>9. Agrees(m)' /\ Stands(m)'
    BY <1>2, <1>4, <1>6, SaysOkStays DEF Agrees, Stands
  <1> QED
    BY <1>1, <1>4, <1>5, <1>8, <1>9 DEF AnswerStep

LEMMA LeaveTracesAnswers ==
  ASSUME TypeInv, HandInv, AnswerInv, NEW i \in Instances, NEW m, m = call[i].id, LeaveTraces(i)
  PROVE  AnswerStep(i, m)
  <1>1. call[i].step = "traces" /\ stored' = stored /\ known' = known /\ log' = log
    BY DEF LeaveTraces, At
  <1>2. /\ m \in Ids /\ past[m] \in PastCall /\ past[m].fate = "open" /\ past[m].noted = TRUE
        /\ past[m].ran /\ ~past[m].barred
        /\ Audited(past[m].tool) /\ LastSays(m, TRUE)
    BY <1>1, HandFacts
  <1>3. PICK left \in SUBSET {"timeline", "search", "event"} : past'[m] = [past[m] EXCEPT !.traces = left]
    BY LeaveTracesActs
  <1>4. /\ past'[m].fate = "open" /\ past'[m].noted = TRUE /\ past'[m].ran = past[m].ran
        /\ past'[m].tool = past[m].tool
    BY <1>2, <1>3 DEF PastCall
  <1>5. LastSays(m, TRUE)' /\ SaysOk(m)'
    BY <1>1, <1>2, LastIsThere, LogRests
  <1>6. call'[i].step = "record" /\ call'[i].id = m
    <2>1. Acts(i) /\ call'[i].step = "record"
      BY LeaveTracesActs DEF Quiet
    <2> QED
      BY <2>1 DEF Acts, Idle
  <1>7. HandOk(i)'
    BY <1>2, <1>4, <1>5, <1>6 DEF HandOk, Early
  <1>8. Agrees(m)' /\ Stands(m)'
    BY <1>4, <1>5 DEF Agrees, Stands
  <1> QED
    BY <1>1, <1>2, <1>4, <1>7, <1>8 DEF AnswerStep

LEMMA AuditAnswers ==
  ASSUME TypeInv, HandInv, AnswerInv, NEW i \in Instances, NEW m, m = call[i].id, Audit(i)
  PROVE  AnswerStep(i, m)
  <1>1. call[i].step = "audit" /\ stored' = stored /\ known' = known
    BY DEF Audit, At
  <1>2. past[m].ran /\ m \in Ids
    BY <1>1, HandFacts
  <1>3. CASE Audited(past[m].tool)
    <2>1. Logged(i, TRUE) /\ Goto(i, "traces") /\ past' = past
      BY <1>3 DEF Audit, Mine
    <2>2. LogKept(i) /\ LastSays(m, TRUE)'
      BY <2>1, LogGrows DEF LogKept
    <2> QED
      BY <1>1, <1>2, <1>3, <2>1, <2>2, GotoAnswers DEF Steps, Early
  <1>4. CASE ~Audited(past[m].tool)
    <2>1. Ended(i, "ok") /\ log' = log
      BY <1>4 DEF Audit, Mine
    <2> QED
      BY <1>1, <1>2, <1>4, <2>1, EndedAnswers DEF Fates, LogKept
  <1> QED
    BY <1>3, <1>4

LEMMA RecordAnswers ==
  ASSUME TypeInv, HandInv, AnswerInv, NEW i \in Instances, NEW m, m = call[i].id, Record(i)
  PROVE  AnswerStep(i, m)
  <1>1. call[i].step = "record" /\ known' = known /\ log' = log /\ Ended(i, "ok")
    BY DEF Record, At
  <1>2. m \in Ids /\ past[m].ran /\ LastSays(m, TRUE)
    BY <1>1, HandFacts
  <1>3. LastSays(m, TRUE)' /\ SaysOk(m)' /\ LogKept(i)
    BY <1>1, <1>2, LastIsThere, LogRests DEF LogKept
  <1>4. \A s \in stored' : s \in stored \/ (/\ s.by = m /\ s.user = past[m].user /\ s.tool = past[m].tool
                                            /\ s.key = past[m].key /\ past[m].ran /\ SaysOk(m)')
    BY <1>2, <1>3 DEF Record, Mine
  <1>5. LastSays(m, "ok" # "error")' /\ "ok" \in Fates \ {"open"} /\ "ok" # "refused"
    BY <1>3 DEF Fates
  <1> QED
    BY <1>1, <1>2, <1>3, <1>4, <1>5, EndedAnswers

LEMMA FailAnswers ==
  ASSUME TypeInv, HandInv, AnswerInv, NEW i \in Instances, NEW m, m = call[i].id, Fail(i)
  PROVE  AnswerStep(i, m)
  <1>1. call[i].step # "none" /\ stored' = stored /\ known' = known
    BY DEF Fail, At
  <1>2. CASE Logged(i, FALSE) /\ Ended(i, "error")
    <2>1. LogKept(i) /\ LastSays(m, FALSE)'
      BY <1>2, LogGrows DEF LogKept
    <2>2. "error" \in Fates \ {"open"} /\ LastSays(m, "error" # "error")'
      BY <2>1 DEF Fates
    <2> QED
      BY <1>1, <1>2, <2>1, <2>2, EndedAnswers
  <1>3. CASE log' = log /\ Finish(i, [Mine(i) EXCEPT !.fate = "error", !.noted = FALSE])
    BY <1>1, <1>3, UnnotedAnswers
  <1> QED
    BY <1>2, <1>3 DEF Fail

LEMMA StepAnswers ==
  ASSUME TypeInv, HandInv, AnswerInv, NEW i \in Instances, NEW m, m = call[i].id,
         Step(i) \/ Crash(i)
  PROVE  AnswerStep(i, m)
  <1>1. CASE CheckRole(i)
    <2>1. call[i].step = "role" /\ stored' = stored /\ known' = known /\ log' = log
      BY <1>1 DEF CheckRole, At
    <2>2. Entries(m)' = {} /\ LogKept(i)
      BY <2>1, HandFacts, LogRests DEF Early, LogKept
    <2>3. CASE Ended(i, "refused")
      BY <2>1, <2>2, <2>3, EndedAnswers DEF Fates
    <2>4. CASE Goto(i, "lookup") /\ past' = past /\ past[m].key # NoKey
      BY <2>1, <2>2, <2>4, GotoAnswers DEF Steps
    <2>5. CASE Goto(i, "run") /\ past' = past
      BY <2>1, <2>2, <2>5, GotoAnswers DEF Steps
    <2> QED
      BY <1>1, <2>3, <2>4, <2>5 DEF CheckRole, Mine
  <1>2. CASE LookupFails(i)
    BY <1>2, UnnotedAnswers DEF LookupFails, At
  <1>3. CASE RunRefused(i) \/ AuditFails(i) \/ RecordFails(i)
    <2>1. /\ call[i].step # "none" /\ Goto(i, "fail") /\ past' = past
          /\ stored' = stored /\ known' = known /\ log' = log
      BY <1>3 DEF RunRefused, AuditFails, RecordFails, At
    <2> QED
      BY <2>1, GotoAnswers DEF Steps, Early, LogKept
  <1>4. CASE Crash(i)
    <2>1. call[i].step # "none"
      BY <1>4 DEF Crash, HandInv
    <2>2. \A j \in Instances : j # i => known'[j] = known[j]
      BY <1>4 DEF Crash, TypeInv
    <2> QED
      BY <1>4, <2>1, <2>2, EndedAnswers DEF Crash, Fates, LogKept
  <1> QED
    BY <1>1, <1>2, <1>3, <1>4, CheckAnswers, LookupAnswers, RunAnswers, LeaveTracesAnswers,
       AuditAnswers, RecordAnswers, FailAnswers DEF Step

LEMMA AnswerInvBegin ==
  ASSUME TypeInv, HandInv, AnswerInv, NEW i \in Instances, NEW u \in Users, NEW t \in Called,
         NEW p \in Projects, NEW k \in Keys \union {NoKey}, Begin(i, u, t, p, k),
         Begun(i, Fresher(i, u, t, p, k))
  PROVE  AnswerInv'
  <1>0. PICK m : m = Len(past) + 1
    OBVIOUS
  <1> DEFINE r == Fresher(i, u, t, p, k)
  <1>1. /\ Ids' = Ids \union {m} /\ m \notin Ids
        /\ past'[m] = r /\ \A n \in Ids : past'[n] = past[n]
        /\ \A j \in Instances : j # i => call'[j] = call[j]
        /\ call'[i].id = m /\ call'[i].step \in {"user", "run"}
    BY <1>0 DEF Begun
  <1>2. stored' = stored /\ log' = log /\ known' = known
    BY DEF Begin
  <1>3. /\ r.fate = "open" /\ r.ran = FALSE /\ r.noted = TRUE /\ r.traces = {}
        /\ r.user = u /\ r.barred = (u \in known[i])
    BY DEF Fresher
  <1> HIDE DEF r
  <1>4. /\ \A n : SaysOk(n)' = SaysOk(n) /\ Entries(n)' = Entries(n)
        /\ \A n, b : LastSays(n, b)' = LastSays(n, b)
    BY <1>2, LogRests
  <1>5. Entries(m)' = {}
    <2>1. \A e \in DOMAIN log : log[e].id # m
      BY <1>1 DEF AnswerInv, RanInv
    <2>2. Entries(m) = {}
      BY <2>1 DEF Entries
    <2> QED
      BY <1>4, <2>2
  <1>6. HandsInv'
    <2> SUFFICES ASSUME NEW j \in Instances, call'[j] # Idle
                 PROVE  /\ past'[call'[j].id].barred = (past'[call'[j].id].user \in known'[j])
                        /\ HandOk(j)'
      BY DEF HandsInv
    <2>1. CASE j = i
      <3>1. HandOk(j)'
        BY <1>1, <1>3, <1>5, <2>1 DEF HandOk
      <3> QED
        BY <1>1, <1>2, <1>3, <2>1, <3>1
    <2>2. CASE j # i
      <3>1. call'[j] = call[j] /\ call[j] # Idle /\ call[j].id \in Ids
        BY <1>1, <2>2 DEF HandInv
      <3>2. past'[call[j].id] = past[call[j].id]
        BY <1>1, <3>1
      <3>3. HandOk(j)'
        BY <1>4, <3>1, <3>2 DEF AnswerInv, HandsInv, HandOk
      <3> QED
        BY <1>2, <3>1, <3>2, <3>3 DEF AnswerInv, HandsInv
    <2> QED
      BY <2>1, <2>2
  <1>7. RanInv'
    <2>1. \A n \in Ids' : past'[n].ran => ~past'[n].barred
      BY <1>1, <1>3 DEF AnswerInv, RanInv
    <2>2. \A e \in DOMAIN log' : log'[e].id \in Ids'
      BY <1>1, <1>2 DEF AnswerInv, RanInv
    <2>3. ASSUME NEW s \in stored'
          PROVE  /\ s.by \in Ids'
                 /\ past'[s.by].user = s.user /\ past'[s.by].tool = s.tool /\ past'[s.by].key = s.key
                 /\ past'[s.by].ran /\ SaysOk(s.by)'
      BY <1>1, <1>2, <1>4 DEF AnswerInv, RanInv
    <2> QED
      BY <2>1, <2>2, <2>3 DEF RanInv
  <1>8. ASSUME NEW n \in Ids
        PROVE  Agrees(n)' /\ Stands(n)'
    <2>1. past'[n] = past[n] /\ Agrees(n) /\ Stands(n)
      BY <1>1 DEF AnswerInv
    <2>2. Agrees(n)'
      BY <1>4, <2>1 DEF Agrees
    <2>3. \A o \in Ids : SameRequest(o, n) => SameRequest(o, n)'
      BY <1>1 DEF SameRequest
    <2>4. Stands(n)'
      BY <1>1, <1>4, <2>1, <2>3 DEF Stands
    <2> QED
      BY <2>2, <2>4
  <1>9. Agrees(m)' /\ Stands(m)'
    BY <1>1, <1>3 DEF Agrees, Stands
  <1>10. \A n \in Ids' : Agrees(n)' /\ Stands(n)'
    BY <1>1, <1>8, <1>9
  <1> QED
    BY <1>6, <1>7, <1>10 DEF AnswerInv

\* A process's list of switched-off users changes only between its calls.
LEMMA AnswerInvSwitchOff ==
  ASSUME TypeInv, HandInv, AnswerInv, NEW i \in Instances, NEW u \in Users, SwitchOff(i, u)
  PROVE  AnswerInv'
  <1>1. call' = call /\ past' = past /\ stored' = stored /\ log' = log /\ call[i].step = "none"
    BY DEF SwitchOff, At
  <1>2. /\ \A n : SaysOk(n)' = SaysOk(n) /\ Entries(n)' = Entries(n)
        /\ \A n, b : LastSays(n, b)' = LastSays(n, b)
        /\ Ids' = Ids
    BY <1>1, LogRests DEF Ids
  <1>3. HandsInv'
    <2> SUFFICES ASSUME NEW j \in Instances, call[j] # Idle
                 PROVE  /\ past[call[j].id].barred = (past[call[j].id].user \in known'[j])
                        /\ HandOk(j)'
      BY <1>1 DEF HandsInv
    <2>1. j # i
      BY <1>1 DEF HandInv
    <2>2. known'[j] = known[j]
      BY <2>1 DEF SwitchOff, TypeInv
    <2>3. HandOk(j)'
      BY <1>1, <1>2 DEF AnswerInv, HandsInv, HandOk
    <2> QED
      BY <2>2, <2>3 DEF AnswerInv, HandsInv
  <1>4. RanInv'
    BY <1>1, <1>2 DEF AnswerInv, RanInv
  <1>5. \A n \in Ids' : Agrees(n)' /\ Stands(n)'
    BY <1>1, <1>2 DEF AnswerInv, Agrees, Stands, SameRequest
  <1> QED
    BY <1>3, <1>4, <1>5 DEF AnswerInv

LEMMA AnswerInvRest ==
  ASSUME AnswerInv, UNCHANGED <<call, past, stored, log, known>>
  PROVE  AnswerInv'
  <1>1. /\ \A n : SaysOk(n)' = SaysOk(n) /\ Entries(n)' = Entries(n)
        /\ \A n, b : LastSays(n, b)' = LastSays(n, b)
        /\ Ids' = Ids
    BY LogRests DEF Ids
  <1>2. HandsInv'
    BY <1>1 DEF AnswerInv, HandsInv, HandOk
  <1>3. RanInv'
    BY <1>1 DEF AnswerInv, RanInv
  <1>4. \A n \in Ids' : Agrees(n)' /\ Stands(n)'
    BY <1>1 DEF AnswerInv, Agrees, Stands, SameRequest
  <1> QED
    BY <1>2, <1>3, <1>4 DEF AnswerInv

\* The last entry is the one no other comes after.
LEMMA LastIsLast ==
  ASSUME TypeInv, NEW n, NEW b, LastSays(n, b)
  PROVE  Entries(n) # {} /\ log[Last(Entries(n))].ok = b
  <1>1. PICK k \in Entries(n) : (\A l \in Entries(n) : l <= k) /\ log[k].ok = b
    BY DEF LastSays
  <1>2. Entries(n) \subseteq Nat
    BY DEF Entries, TypeInv
  <1>3. /\ Last(Entries(n)) \in Entries(n)
        /\ \A l \in Entries(n) : l <= Last(Entries(n))
    BY <1>1 DEF Last
  <1>4. Last(Entries(n)) = k
    BY <1>1, <1>2, <1>3
  <1> QED
    BY <1>1, <1>4

\* Who is told ok is told so for a tool that ran for someone allowed, once in the log,
\* and the last entry of a call says what its caller was told.
THEOREM AnswersAreHonest == Spec => []AnswersAgree
  <1> DEFINE Inv == TypeInv /\ HandInv /\ LimiterInv /\ AnswerInv
  <1>1. Init => Inv
    <2>1. Init => AnswerInv
      BY DEF Init, AnswerInv, HandsInv, RanInv, Ids
    <2> QED
      BY <2>1, InitInvariant
  <1>2. Inv /\ [Next]_vars => Inv'
    <2> SUFFICES ASSUME Inv, [Next]_vars
                 PROVE  AnswerInv'
      BY CoreNext DEF Core
    <2>0. TypeInv'
      BY CoreNext DEF Core
    <2>1. CASE UNCHANGED vars
      BY <2>1, AnswerInvRest DEF vars
    <2>2. ASSUME NEW i \in Instances, NEW u \in Users, NEW t \in Called, NEW p \in Projects,
                 NEW k \in Keys \union {NoKey},
                 Begin(i, u, t, p, k), Begun(i, Fresher(i, u, t, p, k))
          PROVE  AnswerInv'
      BY <2>2, AnswerInvBegin
    <2>3. ASSUME NEW i \in Instances, Step(i) \/ Crash(i)
          PROVE  AnswerInv'
      <3>1. Acts(i)
        BY <2>3, StepActs
      <3>2. PICK m : m = call[i].id
        OBVIOUS
      <3>3. AnswerStep(i, m)
        BY <2>3, <3>2, StepAnswers
      <3> QED
        BY <2>0, <3>1, <3>2, <3>3, AnswerInvStep
    <2>4. ASSUME NEW i \in Instances, NEW u \in Users, SwitchOff(i, u)
          PROVE  AnswerInv'
      BY <2>4, AnswerInvSwitchOff
    <2>5. CASE Tick
      BY <2>5, AnswerInvRest DEF Tick
    <2> QED
      BY <2>1, <2>2, <2>3, <2>4, <2>5, NextCases
  <1>3. Inv => AnswersAgree
    <2> SUFFICES ASSUME Inv
                 PROVE  OkStandsOnARun /\ AuditAgreesWithAnswers
      BY DEF AnswersAgree
    <2>1. OkStandsOnARun
      <3> SUFFICES ASSUME NEW n \in Ids, past[n].fate \in {"ok", "replayed"}
                   PROVE  \E m \in Ids :
                            /\ m = n \/ (past[n].fate = "replayed" /\ SameRequest(m, n))
                            /\ past[m].ran /\ ~past[m].barred
                            /\ Audited(past[n].tool) =>
                                 /\ [id |-> m, ok |-> TRUE] \in {log[k] : k \in DOMAIN log}
                                 /\ [id |-> n, ok |-> TRUE] \in {log[k] : k \in DOMAIN log}
        BY DEF OkStandsOnARun
      <3>1. PICK m \in Ids :
              /\ m = n \/ (past[n].fate = "replayed" /\ SameRequest(m, n))
              /\ past[m].ran
              /\ Audited(past[n].tool) => SaysOk(m) /\ SaysOk(n)
        BY DEF AnswerInv, Stands
      <3>2. ~past[m].barred
        BY <3>1 DEF AnswerInv, RanInv
      <3>3. \A x : SaysOk(x) => [id |-> x, ok |-> TRUE] \in {log[k] : k \in DOMAIN log}
        BY DEF SaysOk
      <3> QED
        BY <3>1, <3>2, <3>3
    <2>2. AuditAgreesWithAnswers
      <3> SUFFICES ASSUME NEW n \in Ids
                   PROVE  LET c == past[n] IN
                          /\ c.fate \in {"ok", "replayed", "error"} /\ Audited(c.tool) /\ c.noted =>
                               Entries(n) # {} /\ log[Last(Entries(n))].ok = (c.fate # "error")
                          /\ c.fate = "refused" => Entries(n) = {}
                          /\ c.traces # {} => \E k \in Entries(n) : log[k].ok
        BY DEF AuditAgreesWithAnswers
      <3>1. Agrees(n)
        BY DEF AnswerInv
      <3>2. SaysOk(n) => \E k \in Entries(n) : log[k].ok
        BY DEF SaysOk, Entries
      <3> QED
        BY <3>1, <3>2, LastIsLast DEF Agrees
    <2> QED
      BY <2>1, <2>2
  <1> QED
    BY <1>1, <1>2, <1>3, PTL DEF Spec
=============================================================================
