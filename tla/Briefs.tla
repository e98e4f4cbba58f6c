----------------------------- MODULE Briefs -----------------------------
(***************************************************************************)
(* The daily brief of one user: what is set up, when it is due, and what   *)
(* it says of changes since the last one.                                  *)
(*                                                                         *)
(* Several gateway processes share the notify database.  In a process the  *)
(* scheduler, the tools and the web handlers all run on the event loop and *)
(* none of them waits in between, so that a process does one of these jobs *)
(* at a time; between processes every statement on the database is a step  *)
(* of its own.  A job's step may fail, and a process may die anywhere.     *)
(*                                                                         *)
(* A day has the two times of day 0 and 1; the clock counts them.  There  *)
(* is one project, which the user sees and the brief covers all along; an  *)
(* item is changed once, so that a change is told apart by its time.       *)
(***************************************************************************)
EXTENDS Naturals, FiniteSets

CONSTANTS
    Procs,
    Channels,                 \* of the user's brief
    Choices,                  \* the ways the brief is set up: all of Prefs in the code
    Lines,                    \* of changes in a brief, for one project: 10 in the code
    MaxTime, MaxConfigs, MaxChanges     \* bounds

ASSUME BoundsAssumption  == {MaxTime, MaxConfigs, MaxChanges, Lines} \subseteq Nat

Times  == 0..MaxTime
Day(t) == t \div 2
Never  == MaxTime + 3        \* later than any time a brief is set to: no row in brief_schedule

Prefs == [on : BOOLEAN, time : 0..1, quiet : BOOLEAN]       \* quiet: at time 0 of each day
Off   == [on |-> FALSE, time |-> 0, quiet |-> FALSE]

ASSUME ChoicesAssumption == Choices \subseteq Prefs

VARIABLES
    now,
    prefs,      \* notify_prefs
    next,       \* brief_schedule.next_run
    lastRun,    \* brief_schedule.last_run: Never as long as it is null
    sent,       \* brief_sent: the days
    configs,    \* number of times the user has set the brief up
    job,        \* job[p]: what process p is doing
    changes,    \* when backlog items were changed
    \* what has been seen from outside:
    told,       \* the changes that have been in a brief that arrived
    cut,        \* those a scheduled brief that arrived has left out: too many, or not read
    fired,      \* fired[t]: the scheduled briefs that were sent for time t
    since,      \* the first run, or the last that overlapped it: from then on briefs name changes
    smooth      \* every scheduled brief so far went out and arrived

briefVars == <<prefs, next, lastRun, sent, configs>>
seenVars  == <<told, cut, fired, since, smooth>>
vars == <<now, prefs, next, lastRun, sent, configs, job, changes, told, cut, fired, since, smooth>>

Begun(op, step, at, old, pr) ==
    [op |-> op, step |-> step, at |-> at, old |-> old, prefs |-> pr,
     news |-> {}, rest |-> {}, first |-> FALSE, arrived |-> FALSE]

NoJob == Begun("none", "none", 0, 0, Off)

Init ==
    /\ now = 0 /\ changes = {}
    /\ prefs = Off /\ next = Never /\ lastRun = Never /\ sent = {} /\ configs = 0
    /\ job = [p \in Procs |-> NoJob]
    /\ told = {} /\ cut = {} /\ fired = [t \in Times |-> 0] /\ since = Never /\ smooth = TRUE

Idle(p)    == job[p] = NoJob
End(p)     == job' = [job EXCEPT ![p] = NoJob]
Goto(p, s) == job' = [job EXCEPT ![p].step = s]
At(p, op, s) == job[p].op \in op /\ job[p].step = s

Tick   == now < MaxTime /\ now' = now + 1 /\ UNCHANGED <<briefVars, seenVars, job, changes>>

\* Somebody changes a backlog item.
Change ==
    /\ Cardinality(changes) < MaxChanges
    /\ changes' = changes \union {now}
    /\ now \notin changes
    /\ UNCHANGED <<now, briefVars, seenVars, job>>

------------------------------------------------------------------------
(* Setting the brief up *)

\* next_brief_epoch: the first such time of day after t.
NextBrief(time, t) == CHOOSE u \in (t + 1)..(t + 2) : u % 2 = time

\* brief_configure, and the same from the browser: first the preferences ...
Configure(p, pr) ==
    /\ Idle(p)
    /\ configs < MaxConfigs
    /\ configs' = configs + 1
    /\ prefs' = pr
    /\ job' = [job EXCEPT ![p] = Begun("configure", "schedule", 0, 0, pr)]
    /\ UNCHANGED <<now, next, lastRun, sent, seenVars, changes>>

\* ... then the time of the next brief.
SetSchedule(p) ==
    /\ At(p, {"configure"}, "schedule")
    /\ next' = NextBrief(job[p].prefs.time, now)
    /\ End(p)
    /\ UNCHANGED <<now, prefs, lastRun, sent, configs, seenVars, changes>>

------------------------------------------------------------------------
(* The scheduler and the delivery of a brief *)

\* run_due finds the row due.
FindDue(p) ==
    /\ Idle(p)
    /\ next <= now
    /\ job' = [job EXCEPT ![p] = Begun("brief", "prefs", now, next, Off)]
    /\ UNCHANGED <<now, briefVars, seenVars, changes>>

ReadPrefs(p) ==
    /\ At(p, {"brief"}, "prefs")
    /\ job' = [job EXCEPT ![p] = Begun("brief", "claim", job[p].at, job[p].old, prefs)]
    /\ UNCHANGED <<now, briefVars, seenVars, changes>>

\* claims a row that another process has moved on
ClaimMutant(p) ==
    LET j == job[p] IN
    /\ At(p, {"brief"}, "claim")
    /\ next' = NextBrief(j.prefs.time, j.at)
    /\ IF j.prefs.on THEN Goto(p, "check") ELSE End(p)
    /\ UNCHANGED <<now, prefs, lastRun, sent, configs, seenVars, changes>>

\* NotifyStore.claim: UPDATE ... WHERE next_run = old.
Claim(p) ==
    LET j == job[p] IN
    /\ At(p, {"brief"}, "claim")
    /\ IF next = j.old
       THEN /\ next' = NextBrief(j.prefs.time, j.at)
            /\ IF j.prefs.on THEN Goto(p, "check") ELSE End(p)
       ELSE End(p) /\ UNCHANGED next
    /\ UNCHANGED <<now, prefs, lastRun, sent, configs, seenVars, changes>>

\* The brief is over without having arrived.
ToMark(p) ==
    job' = [job EXCEPT ![p] = [Begun("brief", "mark", job[p].at, 0, Off) EXCEPT !.first = job[p].first]]

\* deliver: not twice a day, and not in the quiet hours.
CheckDue(p) ==
    LET j == job[p]
        skip == Day(j.at) \in sent \/ (j.prefs.quiet /\ j.at % 2 = 0) IN
    /\ At(p, {"brief"}, "check")
    /\ IF skip THEN ToMark(p) ELSE job' = [job EXCEPT ![p] = Begun("brief", "build", j.at, j.old, Off)]
    /\ UNCHANGED <<now, briefVars, seenVars, changes>>

\* brief_send_now goes on from there, whatever was sent and whatever the hour.
SendNow(p) ==
    /\ Idle(p)
    /\ configs > 0
    /\ job' = [job EXCEPT ![p] = Begun("now", "build", now, 0, Off)]
    /\ UNCHANGED <<now, briefVars, seenVars, changes>>

\* The brief names what changed since the last run; last_run has whole seconds, so
\* that a change in the very second of a run is named twice.  Of too many changes it
\* names the first in the order of the files, and if reading them raises none at all.
Build(p) ==
    LET j == job[p]
        fresh == IF lastRun = Never THEN {} ELSE {c \in changes : c >= lastRun} IN
    /\ At(p, {"brief", "now"}, "build")
    /\ \E news \in SUBSET fresh :
         /\ \/ news = {}
            \/ news = fresh /\ Cardinality(fresh) <= Lines
            \/ Cardinality(news) = Lines
         /\ job' = [job EXCEPT ![p] = [j EXCEPT !.news  = news,
                                               !.rest  = fresh \ news,
                                               !.first = (j.op = "brief" /\ lastRun = Never),
                                               !.step  = "send"]]
    /\ UNCHANGED <<now, briefVars, seenVars, changes>>

\* Each channel is tried, and none again.
Send(p) ==
    LET j == job[p] IN
    /\ At(p, {"brief", "now"}, "send")
    /\ \E reached \in SUBSET Channels :
         /\ told' = IF reached # {} THEN told \union j.news ELSE told
         /\ cut'  = IF reached # {} /\ j.op = "brief" THEN cut \union j.rest ELSE cut
         /\ job' = [job EXCEPT ![p] =
              [Begun(j.op, "record", j.at, 0, Off) EXCEPT !.first   = j.first,
                                                          !.arrived = (j.op = "brief" /\ reached # {})]]
    /\ fired' = IF j.op = "brief" THEN [fired EXCEPT ![j.old] = @ + 1] ELSE fired
    /\ UNCHANGED <<now, briefVars, since, smooth, changes>>

\* brief_sent gets its row whether or not anything arrived.
RecordSent(p) ==
    /\ At(p, {"brief", "now"}, "record")
    /\ sent' = sent \union {Day(job[p].at)}
    /\ IF job[p].op = "now" THEN End(p) ELSE Goto(p, "mark")
    /\ UNCHANGED <<now, prefs, next, lastRun, configs, seenVars, changes>>

\* marks the time when the brief was done
MarkRunMutant(p) ==
    LET j == job[p] IN
    /\ At(p, {"brief"}, "mark")
    /\ lastRun' = now
    /\ since' = IF j.first \/ lastRun = Never THEN now ELSE since
    /\ smooth' = (smooth /\ j.arrived)
    /\ End(p)
    /\ UNCHANGED <<now, prefs, next, sent, configs, told, cut, fired, changes>>

\* Whatever became of the brief, last_run is when its tick began.
MarkRun(p) ==
    LET j == job[p] IN
    /\ At(p, {"brief"}, "mark")
    /\ lastRun' = j.at
    /\ since' = IF lastRun = Never \/ (j.first /\ j.at > since) THEN j.at ELSE since
    /\ smooth' = (smooth /\ j.arrived)
    /\ End(p)
    /\ UNCHANGED <<now, prefs, next, sent, configs, told, cut, fired, changes>>

\* What raises in between leaves the row marked all the same.
DeliveryFails(p) ==
    /\ job[p].op \in {"brief", "now"} /\ job[p].step \in {"check", "build", "record"}
    /\ IF job[p].op = "now" THEN End(p) ELSE ToMark(p)
    /\ UNCHANGED <<now, briefVars, seenVars, changes>>

BriefStep(p) ==
    \/ SetSchedule(p) \/ ReadPrefs(p) \/ Claim(p) \/ CheckDue(p) \/ Build(p) \/ Send(p)
    \/ RecordSent(p) \/ MarkRun(p) \/ DeliveryFails(p)

------------------------------------------------------------------------
Crash(p) ==
    /\ ~Idle(p)
    /\ End(p)
    /\ UNCHANGED <<now, briefVars, seenVars, changes>>

Next ==
    \/ Tick \/ Change
    \/ \E p \in Procs :
         \/ \E pr \in Choices : Configure(p, pr)
         \/ FindDue(p) \/ SendNow(p) \/ BriefStep(p)
         \/ Crash(p)

Spec == Init /\ [][Next]_vars

------------------------------------------------------------------------
(* What must hold *)

Steps == {"none", "schedule", "prefs", "claim", "check", "build", "send", "record", "mark"}

\* However many schedulers find a row due, and whatever is set up anew meanwhile: for
\* each time that a brief was set to, one is sent at most.
OneBriefPerSlot == \A t \in Times : fired[t] <= 1

\* As long as scheduled briefs go out and arrive, each change since the first run is in
\* one, or was before one that had no line left for it or could not read it: none is
\* outside what the briefs look back over, also when runs overlap, end late or die.
NoChangeFallsBetween ==
    smooth => \A c \in changes :
                lastRun # Never /\ since <= c /\ c < lastRun => c \in told \union cut

------------------------------------------------------------------------
(* What the schedulers rely on *)

Jobs == [op : {"none", "configure", "brief", "now"}, step : Steps, at : Times, old : 0..Never,
         prefs : Prefs, news : SUBSET Times, rest : SUBSET Times, first : BOOLEAN,
         arrived : BOOLEAN]

BriefTypes ==
    /\ now \in Times /\ changes \subseteq Times /\ next \in 0..Never /\ prefs \in Prefs
    /\ job \in [Procs -> Jobs] /\ fired \in [Times -> Nat]

\* p has the brief for time t to itself, and has yet to send it.
Holds(p, t) == job[p].op = "brief" /\ job[p].step \in {"check", "build", "send"} /\ job[p].old = t

\* The row's time is past every brief that is sent or under way, and the time that a process
\* has found due is no later than now: the row does not come back to a time it has left.
SlotsInv ==
    /\ \A p \in Procs : job[p].op = "brief" => job[p].at <= now
    /\ \A p \in Procs : job[p].op = "brief" /\ job[p].step # "mark" => job[p].old <= job[p].at
    /\ \A t \in Times : fired[t] # 0 => t < next /\ t <= now
    /\ \A p \in Procs, t \in Times : Holds(p, t) =>
         t < next /\ fired[t] = 0 /\ \A q \in Procs : Holds(q, t) => q = p

IInv == BriefTypes /\ SlotsInv /\ OneBriefPerSlot
=============================================================================
