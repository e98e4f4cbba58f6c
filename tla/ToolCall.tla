------------------------------ MODULE ToolCall ------------------------------
(***************************************************************************)
(* The path every project tool takes through server.py: identify, count    *)
(* against two limits, check the role, look for an earlier answer to the   *)
(* same key, run the tool, write the audit entry, leave traces (timeline,  *)
(* search, rules), remember the answer.                                    *)
(*                                                                         *)
(* A gateway process runs a tool synchronously on its event loop, so it    *)
(* has one call in hand; several processes (one per stdio client, or       *)
(* several HTTP instances) share the SQLite files.  Each may die at any    *)
(* step, and the client may then send the call again, with its key.        *)
(***************************************************************************)
EXTENDS ToolTable, Naturals, Sequences, FiniteSets

CONSTANTS
    Instances,      \* gateway processes on one data directory
    Users, Projects,
    RoleOf,         \* RoleOf[u]: u's role, the same on every project
    Keys, NoKey,    \* idempotency keys a client may send, and sending none
    Called,         \* the tools clients call
    UserLimit,      \* calls per window: 60 in the code
    ProjectLimit,   \* 120 in the code
    Window,         \* the length of the window: 60 s in the code
    Lag,            \* how long a process may sit between reading the clock and the lock
    MaxTime, MaxCalls   \* bounds

ASSUME LimitsAssumption == {UserLimit, ProjectLimit, Window, Lag} \subseteq Nat /\ Lag < Window
ASSUME KeysAssumption   == Users \intersect Projects = {}    \* "user:..." and "project:..."
ASSUME CalledAssumption == \A t \in Called : \E r \in Table : r.tool = t

VARIABLES
    now,        \* time.time()
    slots,      \* rate_events: [key, ts, id], the id only to tell rows apart
    stored,     \* idempotency_result: [user, tool, key, by]
    log,        \* audit: sequence of [id, ok]
    disabled,   \* users switched off in acl.yaml
    known,      \* known[i]: the same in the Acl process i has in memory
    call,       \* call[i]: what process i has in hand
    past        \* observer: what became of each call, in the order they came

vars == <<now, slots, stored, log, disabled, known, call, past>>

Idle == [id |-> 0, step |-> "none", at |-> 0]
Ids  == DOMAIN past

Init ==
    /\ now      = 0
    /\ slots    = {}
    /\ stored   = {}
    /\ log      = <<>>
    /\ disabled = {}
    /\ known    = [i \in Instances |-> {}]
    /\ call     = [i \in Instances |-> Idle]
    /\ past     = <<>>

\* The call process i has in hand moves on to a step, or ends.
Mine(i)      == past[call[i].id]
Goto(i, s)   == call' = [call EXCEPT ![i].step = s]
Finish(i, r) == /\ call' = [call EXCEPT ![i] = Idle]
                /\ past' = [past EXCEPT ![call[i].id] = r]
Ended(i, fate) == Finish(i, [Mine(i) EXCEPT !.fate = fate])
At(i, s)     == call[i].step = s

------------------------------------------------------------------------
(* The steps of a call *)

\* A client calls a tool; the wrapper identifies the user and reads the clock.
Begin(i, u, t, p, k) ==
    /\ At(i, "none")
    /\ Len(past) < MaxCalls
    /\ k # NoKey => t \in Keyed
    /\ past' = Append(past,
         [user |-> u, tool |-> t, project |-> p, key |-> k, fate |-> "open",
          took |-> {}, ran |-> FALSE, queued |-> FALSE, noted |-> TRUE, traces |-> {},
          barred |-> u \in known[i], beside |-> {call[j].id : j \in Instances} \ {0}])
    /\ call' = [call EXCEPT ![i] =
         IF Limited(t) THEN [id |-> Len(past'), step |-> "user", at |-> now]
                       ELSE [id |-> Len(past'), step |-> "run", at |-> 0]]
    /\ UNCHANGED <<now, slots, stored, log, disabled, known>>

\* keeps rows a moment too long
FreshMutant(key, at) == {s \in slots : s.key = key => s.at + Window >= at}

\* The rows of rate_events that are left when key's expired ones have gone.
Fresh(key, at) == {s \in slots : s.key = key => s.at + Window > at}

\* a check that counts before it takes the lock: what others add meanwhile is missed
CheckLateMutant(i, key, limit, next) ==
    LET c == call[i] IN
    IF Cardinality({s \in slots : s.key = key /\ s.at + Window > c.at /\ s.at < c.at}) < limit
    THEN /\ slots' = Fresh(key, c.at) \union {[key |-> key, at |-> c.at, id |-> c.id]}
         /\ call' = [call EXCEPT ![i] = [id |-> c.id, step |-> next,
                                      at |-> IF next = "project" THEN now ELSE 0]]
         /\ past' = [past EXCEPT ![c.id].took = @ \union {<<key, now>>}]
    ELSE /\ slots' = Fresh(key, c.at)
         /\ Ended(i, "refused")

\* SQLiteRateLimiter.check: the expired rows go, what is left is counted, and the
\* new row goes in, in one transaction.
Count(key, at) == Cardinality({s \in Fresh(key, at) : s.key = key})
Check(i, key, limit, next) ==
    LET c == call[i] IN
    IF Count(key, c.at) < limit
    THEN /\ slots' = Fresh(key, c.at) \union {[key |-> key, at |-> c.at, id |-> c.id]}
         /\ call' = [call EXCEPT ![i] = [id |-> c.id, step |-> next,
                                      at |-> IF next = "project" THEN now ELSE 0]]
         /\ past' = [past EXCEPT ![c.id].took = @ \union {<<key, now>>}]
    ELSE /\ slots' = Fresh(key, c.at)
         /\ Ended(i, "refused")

CheckUser(i) ==
    /\ At(i, "user")
    /\ Check(i, Mine(i).user, UserLimit, "project")
    /\ UNCHANGED <<now, stored, log, disabled, known>>

\* A call refused here has used up one of its user's.
CheckProject(i) ==
    /\ At(i, "project")
    /\ Check(i, Mine(i).project, ProjectLimit, "role")
    /\ UNCHANGED <<now, stored, log, disabled, known>>

\* Acl.enforce, on the list this process has in memory.
Allowed(i) ==
    /\ Mine(i).user \notin known[i]
    /\ Rank(RoleOf[Mine(i).user]) >= Rank(RowOf(Mine(i).tool).need)

\* The few wrappers that check the role themselves do so before the audited part.
CheckRole(i) ==
    /\ At(i, "role")
    /\ IF CheckedFirst(Mine(i).tool) /\ ~Allowed(i)
       THEN Ended(i, "refused")
       ELSE Goto(i, IF Mine(i).key = NoKey THEN "run" ELSE "lookup") /\ UNCHANGED past
    /\ UNCHANGED <<now, slots, stored, log, disabled, known>>

Logged(i, ok) == log' = Append(log, [id |-> call[i].id, ok |-> ok])

\* forgets whose key it is
EarlierOfAnyMutant(i) == {s \in stored : s.key = Mine(i).key}

\* IdempotencyStore.get: the answer to the same user, tool and key, whatever the
\* project and the arguments were then and are now.
Earlier(i) == {s \in stored : /\ s.user = Mine(i).user /\ s.tool = Mine(i).tool
                              /\ s.key = Mine(i).key}

Lookup(i) ==
    /\ At(i, "lookup")
    /\ IF Earlier(i) = {}
       THEN Goto(i, "run") /\ UNCHANGED <<log, past>>
       ELSE Logged(i, TRUE) /\ Ended(i, "replayed")
    /\ UNCHANGED <<now, slots, stored, disabled, known>>

\* The audit log cannot be written while an answer is being replayed.
LookupFails(i) ==
    /\ At(i, "lookup") /\ Earlier(i) # {}
    /\ Finish(i, [Mine(i) EXCEPT !.fate = "error", !.noted = FALSE])
    /\ UNCHANGED <<now, slots, stored, log, disabled, known>>

\* The tool itself: it checks the role (unless the wrapper has), then does its work
\* or queues it for approval; it may raise instead, or after it has done its work.
Run(i) ==
    /\ At(i, "run")
    /\ Allowed(i)
    /\ \E queued \in IF Mine(i).tool \in Keyed THEN BOOLEAN ELSE {FALSE} :
         past' = [past EXCEPT ![call[i].id].ran = TRUE, ![call[i].id].queued = queued]
    /\ \/ Goto(i, "audit")
       \/ Goto(i, "fail")
    /\ UNCHANGED <<now, slots, stored, log, disabled, known>>

RunRefused(i) ==
    /\ At(i, "run")
    /\ Goto(i, "fail")
    /\ UNCHANGED <<now, slots, stored, log, disabled, known, past>>

\* The audit entry of a tool that returned, or the end of one that has none.
Audit(i) ==
    /\ At(i, "audit")
    /\ IF Audited(Mine(i).tool)
       THEN Logged(i, TRUE) /\ Goto(i, "traces") /\ UNCHANGED past
       ELSE Ended(i, "ok") /\ UNCHANGED log
    /\ UNCHANGED <<now, slots, stored, disabled, known>>

AuditFails(i) ==
    /\ At(i, "audit") /\ Audited(Mine(i).tool)
    /\ Goto(i, "fail")
    /\ UNCHANGED <<now, slots, stored, log, disabled, known, past>>

\* Timeline, search index and rules: each may fail and is then passed over.
TracesOf(c) ==
    {x \in {"timeline", "search", "event"} :
        \/ x = "timeline" /\ c.tool \in OnTimeline /\ ~c.queued
        \/ x = "search"   /\ c.tool \in Indexed
        \/ x = "event"    /\ c.tool \in Published}

LeaveTraces(i) ==
    /\ At(i, "traces")
    /\ \E left \in SUBSET TracesOf(Mine(i)) :
         past' = [past EXCEPT ![call[i].id].traces = left]
    /\ Goto(i, "record")
    /\ UNCHANGED <<now, slots, stored, log, disabled, known>>

\* queued answers are not worth remembering
RecordDoneOnlyMutant(i) ==
    /\ At(i, "record")
    /\ stored' = IF Mine(i).key = NoKey \/ Mine(i).queued THEN stored
                 ELSE stored \union {[user |-> Mine(i).user, tool |-> Mine(i).tool,
                                      key |-> Mine(i).key, by |-> call[i].id]}
    /\ Ended(i, "ok")
    /\ UNCHANGED <<now, slots, log, disabled, known>>

\* INSERT OR IGNORE: of two answers to one key the first stays.
Record(i) ==
    /\ At(i, "record")
    /\ stored' = IF Mine(i).key = NoKey \/ Earlier(i) # {} THEN stored
                 ELSE stored \union {[user |-> Mine(i).user, tool |-> Mine(i).tool,
                                      key |-> Mine(i).key, by |-> call[i].id]}
    /\ Ended(i, "ok")
    /\ UNCHANGED <<now, slots, log, disabled, known>>

RecordFails(i) ==
    /\ At(i, "record") /\ Mine(i).key # NoKey
    /\ Goto(i, "fail")
    /\ UNCHANGED <<now, slots, stored, log, disabled, known, past>>

\* The except branch: an entry that says no, and the exception goes on.  The entry
\* may be the second one of this call, and may itself not get written.
Fail(i) ==
    /\ At(i, "fail")
    /\ \/ Audited(Mine(i).tool) /\ Logged(i, FALSE) /\ Ended(i, "error")
       \/ UNCHANGED log /\ Finish(i, [Mine(i) EXCEPT !.fate = "error", !.noted = FALSE])
    /\ UNCHANGED <<now, slots, stored, disabled, known>>

------------------------------------------------------------------------
(* Everything around it *)

\* The process dies and comes back: the files are as they were, acl.yaml is read
\* again.
Crash(i) ==
    /\ call[i] # Idle
    /\ Ended(i, "died")
    /\ known' = [known EXCEPT ![i] = disabled]
    /\ UNCHANGED <<now, slots, stored, log, disabled>>

\* An admin switches a user off through one process, between two calls of its (its
\* event loop is busy during one); that process alone reloads its list.
SwitchOff(i, u) ==
    /\ At(i, "none")
    /\ u \notin disabled
    /\ disabled' = disabled \union {u}
    /\ known' = [known EXCEPT ![i] = disabled']
    /\ UNCHANGED <<now, slots, stored, log, call, past>>

Tick ==
    /\ now < MaxTime
    /\ \A i \in Instances : call[i].step \in {"user", "project"} => now < call[i].at + Lag
    /\ now' = now + 1
    /\ UNCHANGED <<slots, stored, log, disabled, known, call, past>>

Step(i) ==
    \/ CheckUser(i) \/ CheckProject(i) \/ CheckRole(i)
    \/ Lookup(i) \/ LookupFails(i) \/ Run(i) \/ RunRefused(i)
    \/ Audit(i) \/ AuditFails(i) \/ LeaveTraces(i)
    \/ Record(i) \/ RecordFails(i) \/ Fail(i)

Next ==
    \/ \E i \in Instances, u \in Users, t \in Called, p \in Projects, k \in Keys \union {NoKey} :
         Begin(i, u, t, p, k)
    \/ \E i \in Instances : Step(i) \/ Crash(i)
    \/ \E i \in Instances, u \in Users : SwitchOff(i, u)
    \/ Tick

Spec == Init /\ [][Next]_vars

------------------------------------------------------------------------
(* What must hold *)

\* Calls of key's that were let through in the Window - Lag moments from t on.  (A
\* process may have read the clock up to Lag before it got the lock.)
Admitted(key, t) ==
    {n \in Ids : \E x \in past[n].took : x[1] = key /\ x[2] >= t /\ x[2] + Lag < t + Window}

\* The limits hold over all processes together, whatever they do at the same time
\* and however often they restart: SQLiteRateLimiter's docstring.
WithinQuota ==
    \A t \in 0..MaxTime :
        /\ \A u \in Users : Cardinality(Admitted(u, t)) <= UserLimit
        /\ \A p \in Projects : Cardinality(Admitted(p, t)) <= ProjectLimit

\* Nobody is turned away for calls that are over: with no process waiting at the
\* lock, a call that a limit refuses meets UserLimit of its user's, or ProjectLimit of
\* its project's, in the window before it; refused calls do not use up the limit
\* that refused them, though they have used up one of their user's.
RefusedOnlyWhenFull ==
    [][\A i \in Instances :
         At(i, "user") \/ At(i, "project") =>
           LET key == IF At(i, "user") THEN Mine(i).user ELSE Mine(i).project
               limit == IF At(i, "user") THEN UserLimit ELSE ProjectLimit IN
           past'[call[i].id].fate = "refused" =>
             Cardinality({n \in Ids : \E x \in past[n].took :
                            x[1] = key /\ x[2] + Window > call[i].at}) >= limit]_vars

SameRequest(a, b) ==
    /\ past[a].user = past[b].user /\ past[a].tool = past[b].tool
    /\ past[a].key = past[b].key /\ past[a].key # NoKey

\* A client that got its answer may ask again with the same key as often as it
\* likes, of any process: the tool does not run again, and nothing is queued twice.
\* (safety/idempotency.py: a retry "can't repeat the external side effect".)  Only a
\* call that was under way at the same time, died, or reported an error may repeat it.
AnsweredKeyRunsOnce ==
    \A a, b \in Ids :
        /\ a < b /\ SameRequest(a, b) /\ a \notin past[b].beside
        /\ past[a].fate \in {"ok", "replayed"}
        => ~past[b].ran

\* Who is told "ok" is told so for a tool that ran, for this user, tool and key, on
\* behalf of someone the process did not know to be switched off, and the log says so.
OkStandsOnARun ==
    \A n \in Ids :
        past[n].fate \in {"ok", "replayed"} =>
            \E m \in Ids :
                /\ m = n \/ (past[n].fate = "replayed" /\ SameRequest(m, n))
                /\ past[m].ran /\ ~past[m].barred
                /\ Audited(past[n].tool) =>
                     /\ [id |-> m, ok |-> TRUE] \in {log[k] : k \in DOMAIN log}
                     /\ [id |-> n, ok |-> TRUE] \in {log[k] : k \in DOMAIN log}

Entries(n) == {k \in DOMAIN log : log[k].id = n}
Last(S) == CHOOSE k \in S : \A l \in S : l <= k

\* The audit log agrees with what callers were told: the last entry of a call that
\* ended says what the answer said, a call turned away by a limit has none, and
\* traces are left only where there is an entry that says ok.  Missing entries mean
\* a process that died or a log that could not be written.
AuditAgreesWithAnswers ==
    \A n \in Ids :
        LET c == past[n] IN
        /\ c.fate \in {"ok", "replayed", "error"} /\ Audited(c.tool) /\ c.noted =>
             Entries(n) # {} /\ log[Last(Entries(n))].ok = (c.fate # "error")
        /\ c.fate = "refused" => Entries(n) = {}
        /\ c.traces # {} => \E k \in Entries(n) : log[k].ok

\* What callers were told, what ran and what the log says agree.
AnswersAgree == OkStandsOnARun /\ AuditAgreesWithAnswers
=============================================================================
