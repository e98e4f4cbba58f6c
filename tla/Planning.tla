---------------------------- MODULE Planning ----------------------------
(***************************************************************************)
(* The planning engine: the facts of one project, its scenarios, and the   *)
(* plans that are computed from the one and stored under the other.        *)
(*                                                                         *)
(* A process runs its tools one at a time, but several processes share the *)
(* database, and a tool's statements are transactions of their own: those  *)
(* of another process fall in between.                                     *)
(*                                                                         *)
(* Hours are counted in half-days of four, and offsets from the start of   *)
(* the project likewise; dates are whole days.  A reader of the schedule   *)
(* sees dates, rounded from half-days the way Python rounds.               *)
(***************************************************************************)
EXTENDS Integers, Sequences, FiniteSets, Bags, FiniteSetsExt, SequencesExt

CONSTANTS
    Processes,
    Installations,      \* Installations[n]: facts that may be there when n more events are looked at
    Shapes,             \* the tasks that may be added
    Links,              \* the dependencies that may be added
    Persons,            \* the resources that may be added
    Leaves,             \* the exceptions of availability that may be added
    Changes,            \* the changes a what-if may make
    MaxTasks, MaxScenarios, MaxEvents     \* bounds

NoEstimate == -1
NoSkill    == "none"
DependencyType == {"FS", "SS", "FF", "SF"}

\* What the schemas let into the store.
TaskInput       == [est : Int, skill : STRING, prio : Int]
DependencyInput == [pred : Nat, succ : Nat, type : DependencyType, lag : Int]
ResourceInput   == [cap : Nat \ {0}, skills : SUBSET STRING, active : BOOLEAN]
AvailabilityInput == {l \in [who : Nat, from : Nat, to : Nat, hours : Nat] : l.from <= l.to}

\* What a what-if may change: a task's estimate (to a negative one too), skill or
\* priority, and whether a resource is active.
IsChange(c) ==
    \/ /\ c.entity = "task"
       /\ \/ c.field \in {"est", "prio"} /\ c.value \in Int
          \/ c.field = "skill" /\ c.value \in STRING
    \/ c.entity = "resource" /\ c.field = "active" /\ c.value \in BOOLEAN

ASSUME ShapesAssumption == Shapes \subseteq TaskInput /\ \A t \in Shapes : t.est >= NoEstimate
ASSUME LinksAssumption  == Links \subseteq DependencyInput
ASSUME PeopleAssumption == Persons \subseteq ResourceInput /\ Leaves \subseteq AvailabilityInput
ASSUME ChangesAssumption == \A c \in Changes : IsChange(c)
ASSUME BoundsAssumption == {MaxTasks, MaxScenarios, MaxEvents} \subseteq Nat

VARIABLES
    facts,      \* tasks, people and leaves in the order of their ids; dependencies
    scenarios,  \* with the changes and the rows stored under each
    job,        \* what a process has read and has yet to write
    events,     \* number of facts entered, plans begun and crashes so far
    \* what has been seen from outside:
    raced       \* a dependency was added over others than had been checked

planningVars == <<facts, scenarios, job, events, raced>>

IdleProcess == [step |-> "idle", scenario |-> 0, link |-> <<>>, change |-> <<>>,
         rows |-> <<>>, sched |-> <<>>, alone |-> TRUE]

PlanningInit ==
    /\ \E n \in DOMAIN Installations : facts \in Installations[n] /\ events = MaxEvents - n
    /\ scenarios = <<>>
    /\ job = [p \in Processes |-> IdleProcess]
    /\ raced = FALSE

\* f with v at x.
With(f, x, v) == [y \in DOMAIN f \union {x} |-> IF y = x THEN v ELSE f[y]]

IsIdle(p) == job[p] = IdleProcess
At(p, s)  == job[p].step = s

------------------------------------------------------------------------
(* The task graph *)

Edges(deps) == {<<d.pred, d.succ>> : d \in deps}

\* Everything a task reaches along the edges: the least set that has it and that no
\* edge leaves.
Reachable(edges, from) ==
    LET nodes == {from} \union {e[2] : e \in edges}
        closed == {s \in SUBSET nodes : from \in s /\ \A e \in edges : e[1] \in s => e[2] \in s}
    IN  {t \in nodes : \A s \in closed : t \in s}

CreatesCycleMutant(edges, pred, succ) == pred = succ \/ <<succ, pred>> \in edges    \* neighbours only
CreatesCycle(edges, pred, succ) == pred \in Reachable(edges, succ)

\* Kahn's algorithm consumes every task: no set of tasks waits for itself.
Acyclic(f) ==
    \A s \in SUBSET DOMAIN f.tasks :
        s # {} => \E t \in s : \A d \in f.deps : d.succ = t => d.pred \notin s

\* The tables of a project: a dependency is between tasks that are there.
IsProject(f) ==
    /\ DOMAIN f = {"tasks", "deps", "people", "leaves"}
    /\ f.tasks \in Seq(TaskInput)
    /\ f.deps \subseteq DependencyInput /\ IsFiniteSet(f.deps)
    /\ \A d \in f.deps : {d.pred, d.succ} \subseteq DOMAIN f.tasks
    /\ f.people \in Seq(ResourceInput)
    /\ f.leaves \in Seq(AvailabilityInput)

\* The facts that are there were entered the way they are entered here, one call at a time.
ASSUME InstallationsAssumption ==
    \A n \in DOMAIN Installations : \A f \in Installations[n] : IsProject(f) /\ Acyclic(f)

------------------------------------------------------------------------
(* The critical path *)

Duration(f, t) == IF f.tasks[t].est <= 0 THEN 0 ELSE f.tasks[t].est

\* The earliest start a predecessor leaves its successor, and the latest
\* finish a successor leaves its predecessor.
SuccessorFloor(d, predStart, predFinish, duration) ==
    CASE d.type = "FS" -> predFinish + d.lag
      [] d.type = "SS" -> predStart + d.lag
      [] d.type = "FF" -> predFinish + d.lag - duration
      [] d.type = "SF" -> predStart + d.lag - duration

PredecessorCeilingMutant(d, succStart, succFinish, duration) ==      \* SS bounds a finish by a start
    CASE d.type = "FS" -> succStart - d.lag
      [] d.type = "SS" -> succStart - d.lag
      [] d.type = "FF" -> succFinish - d.lag
      [] d.type = "SF" -> succFinish - d.lag + duration
PredecessorCeiling(d, succStart, succFinish, duration) ==
    CASE d.type = "FS" -> succStart - d.lag
      [] d.type = "SS" -> succStart - d.lag + duration
      [] d.type = "FF" -> succFinish - d.lag
      [] d.type = "SF" -> succFinish - d.lag + duration

\* The forward pass, with no task starting before notBefore[t].
EarliestStart(f, notBefore) ==
    LET es[t \in DOMAIN f.tasks] ==
            Max({notBefore[t]} \union
                {SuccessorFloor(d, es[d.pred], es[d.pred] + Duration(f, d.pred), Duration(f, t)) :
                    d \in {x \in f.deps : x.succ = t}})
    IN  es

Anytime(f) == [t \in DOMAIN f.tasks |-> 0]

ProjectDuration(f, es) == Max({0} \union {es[t] + Duration(f, t) : t \in DOMAIN f.tasks})

\* The backward pass.
LatestFinish(f, duration) ==
    LET lf[t \in DOMAIN f.tasks] ==
            Min({duration} \union
                {PredecessorCeiling(d, lf[d.succ] - Duration(f, d.succ), lf[d.succ], Duration(f, t)) :
                    d \in {x \in f.deps : x.pred = t}})
    IN  lf

\* Half a day is rounded to the even day.
ToDate(h) == IF h % 4 = 3 THEN (h + 1) \div 2 ELSE h \div 2

ComputeSchedule(f) ==
    LET es == EarliestStart(f, Anytime(f))
        lf == LatestFinish(f, ProjectDuration(f, es))
    IN  [t \in DOMAIN f.tasks |->
            [start |-> ToDate(es[t]), finish |-> ToDate(es[t] + Duration(f, t)),
             slack |-> lf[t] - Duration(f, t) - es[t]]]

IsCritical(sched, t) == sched[t].slack <= 0

------------------------------------------------------------------------
(* Who does what, when *)

\* The first exception that covers the day, by its start, then by its id.
DailyCapacity(f, r, day) ==
    LET covering == {i \in DOMAIN f.leaves :
                        f.leaves[i].who = r /\ f.leaves[i].from <= day /\ day <= f.leaves[i].to}
        first == CHOOSE i \in covering : \A k \in covering :
                    f.leaves[i].from < f.leaves[k].from \/ (f.leaves[i].from = f.leaves[k].from /\ i <= k)
    IN  IF covering = {} THEN f.people[r].cap ELSE f.leaves[first].hours

Total(hours) == MapThenSumSet(LAMBDA x : hours[x], DOMAIN hours)

CapacityIn(f, r, from, to) == Total([d \in from..to |-> DailyCapacity(f, r, d)])

\* The ledger says what each task placed so far takes of each day.
FreeOnMutant(f, ledger, r, day) == DailyCapacity(f, r, day)      \* the ledger is not asked
FreeOn(f, ledger, r, day) ==
    LET used == {x \in ledger : x.resource = r /\ x.day = day}
    IN  Max({DailyCapacity(f, r, day) - Total([x \in used |-> x.hours]), 0})

\* With resource r a task takes what is free, day by day, until nothing is left to do.
Takes(f, ledger, t, r) ==
    LET walk[at \in Nat \X Nat] ==
            LET day  == at[1]
                left == at[2]
                take == Min({FreeOn(f, ledger, r, day), left})
            IN  IF left = 0 THEN {}
                ELSE (IF take = 0 THEN {} ELSE {[task |-> t, resource |-> r, day |-> day, hours |-> take]})
                     \union walk[<<day + 1, left - take>>]
    IN  walk

SimulatePlacement(f, ledger, t, r, ready) ==
    LET takes == IF f.tasks[t].est <= 0 THEN {} ELSE Takes(f, ledger, t, r)[<<ready, f.tasks[t].est>>]
        days  == IF takes = {} THEN {ready} ELSE {x.day : x \in takes}
    IN  [resource |-> r, start |-> Min(days), end |-> Max(days), takes |-> takes]

\* The floor of the critical path, pushed by the FS predecessors placed before.
ReadyDateFor(f, sched, ends, t) ==
    Max({sched[t].start} \union {ends[d.pred] + 1 : d \in {x \in f.deps : x.succ = t /\ x.type = "FS"}})

Eligible(f, t) ==
    {r \in DOMAIN f.people : f.people[r].active /\ f.tasks[t].skill \in f.people[r].skills \union {NoSkill}}

\* Of the eligible the first to end the task, by id where several do.
PlaceTask(f, sched, sofar, t) ==
    LET ready  == ReadyDateFor(f, sched, sofar.ends, t)
        trials == {SimulatePlacement(f, sofar.ledger, t, r, ready) : r \in Eligible(f, t)}
        best   == CHOOSE x \in trials : \A y \in trials :
                    x.end < y.end \/ (x.end = y.end /\ x.resource <= y.resource)
        row    == [task |-> t, resource |-> best.resource, start |-> best.start, end |-> best.end,
                   hours |-> f.tasks[t].est]
    IN  IF f.tasks[t].est = NoEstimate \/ Eligible(f, t) = {}
        THEN [sofar EXCEPT !.ends = With(@, t, ready)]
        ELSE [ends |-> With(sofar.ends, t, best.end), rows |-> Append(sofar.rows, row),
              ledger |-> sofar.ledger \union best.takes]

\* List scheduling: in dependency order, the critical first, then by priority.
GoesBefore(f, sched, t, u) ==
    \/ IsCritical(sched, t) /\ ~IsCritical(sched, u)
    \/ /\ IsCritical(sched, t) <=> IsCritical(sched, u)
       /\ \/ f.tasks[t].prio < f.tasks[u].prio
          \/ f.tasks[t].prio = f.tasks[u].prio /\ t <= u

PlaceNext(f, sched, sofar) ==
    LET ready == {t \in DOMAIN f.tasks \ DOMAIN sofar.ends :
                     \A d \in f.deps : d.succ = t => d.pred \in DOMAIN sofar.ends}
    IN  PlaceTask(f, sched, sofar, CHOOSE t \in ready : \A u \in ready : GoesBefore(f, sched, t, u))

Allocations(f, sched) ==
    LET placed[n \in 0..Len(f.tasks)] ==
            IF n = 0 THEN [ends |-> <<>>, rows |-> <<>>, ledger |-> {}]
            ELSE PlaceNext(f, sched, placed[n - 1])
    IN  placed[Len(f.tasks)].rows

\* What a scenario sees of the facts: its changes lie over them, the last of each field
\* on top.
OnTop(changes, entity, id, field, old) ==
    LET to == {i \in DOMAIN changes :
                  changes[i].entity = entity /\ changes[i].id = id /\ changes[i].field = field}
    IN  IF to = {} THEN old ELSE changes[Max(to)].value

Overlaid(f, changes) ==
    LET task(t) == [est   |-> OnTop(changes, "task", t, "est", f.tasks[t].est),
                    skill |-> OnTop(changes, "task", t, "skill", f.tasks[t].skill),
                    prio  |-> OnTop(changes, "task", t, "prio", f.tasks[t].prio)]
        person(r) == [f.people[r] EXCEPT !.active = OnTop(changes, "resource", r, "active", @)]
    IN  [f EXCEPT !.tasks = [t \in DOMAIN f.tasks |-> task(t)],
                  !.people = [r \in DOMAIN f.people |-> person(r)]]

------------------------------------------------------------------------
(* The facts *)

\* What the store's methods make of them.
InsertTask(f, t)          == [f EXCEPT !.tasks = Append(@, t)]
UpdateTask(f, t, est)     == [f EXCEPT !.tasks[t].est = est]
InsertResource(f, r)      == [f EXCEPT !.people = Append(@, r)]
GiveSkill(f, r, skill)    == [f EXCEPT !.people[r].skills = @ \union {skill}]
InsertAvailability(f, l)  == [f EXCEPT !.leaves = Append(@, l)]
UpsertDependency(f, d) ==
    [f EXCEPT !.deps = {x \in @ : <<x.pred, x.succ>> # <<d.pred, d.succ>>} \union {d}]

\* A tool's ids are of the project: the facts hold no others.
OwnedTask(t)     == t \in DOMAIN facts.tasks
OwnedResource(r) == r \in DOMAIN facts.people

\* One call enters a fact.  Plans on the disk and under way are now of old facts.
Enter(p, new) ==
    /\ facts' = new
    /\ scenarios' = [s \in DOMAIN scenarios |-> [scenarios[s] EXCEPT !.whole = FALSE]]
    /\ job' = [q \in Processes |-> IF q = p \/ IsIdle(q) THEN IdleProcess ELSE [job[q] EXCEPT !.alone = FALSE]]

Counted == events < MaxEvents /\ events' = events + 1

AddTask(p) ==
    /\ IsIdle(p) /\ Counted /\ Len(facts.tasks) < MaxTasks
    /\ \E t \in Shapes : Enter(p, InsertTask(facts, t))
    /\ UNCHANGED raced

EstimateTask(p) ==
    /\ IsIdle(p) /\ Counted
    /\ \E t \in DOMAIN facts.tasks, shape \in Shapes :
          shape.est # NoEstimate /\ Enter(p, UpdateTask(facts, t, shape.est))
    /\ UNCHANGED raced

AddResource(p) ==
    /\ IsIdle(p) /\ Counted /\ \E r \in Persons : Enter(p, InsertResource(facts, r))
    /\ UNCHANGED raced

SetSkill(p) ==
    /\ IsIdle(p) /\ Counted
    /\ \E r \in DOMAIN facts.people, t \in Shapes :
          t.skill # NoSkill /\ Enter(p, GiveSkill(facts, r, t.skill))
    /\ UNCHANGED raced

AddAvailability(p) ==
    /\ IsIdle(p) /\ Counted
    /\ \E l \in Leaves : OwnedResource(l.who) /\ Enter(p, InsertAvailability(facts, l))
    /\ UNCHANGED raced

\* dependency_add: the cycle is looked for in what was there ...
CheckDependency(p) ==
    /\ IsIdle(p) /\ Counted
    /\ \E d \in Links :
          /\ OwnedTask(d.pred) /\ OwnedTask(d.succ)
          /\ ~CreatesCycle(Edges(facts.deps), d.pred, d.succ)
          /\ job' = [job EXCEPT ![p] = [IdleProcess EXCEPT !.step = "insert", !.link = <<d, Edges(facts.deps)>>]]
    /\ UNCHANGED <<facts, scenarios, raced>>

\* ... and the row is inserted, or takes its type and lag, in what is.
AddDependency(p) ==
    /\ At(p, "insert")
    /\ Enter(p, UpsertDependency(facts, job[p].link[1]))
    /\ raced' = (raced \/ job[p].link[2] # Edges(facts.deps))
    /\ UNCHANGED events

------------------------------------------------------------------------
(* Scenarios and their plans *)

\* A new scenario.  Its name, kind and parent, that only reports read, are left out.
Empty == [changes |-> <<>>, alloc |-> EmptyBag, sched |-> <<>>, whole |-> FALSE, on |-> <<>>]

AddScenario(p) ==
    /\ IsIdle(p) /\ Len(scenarios) < MaxScenarios
    /\ scenarios' = Append(scenarios, Empty)
    /\ UNCHANGED <<facts, job, events, raced>>

\* plan_commit freezes a clone, in one transaction: it takes the rows and not
\* the changes they were made under.
Frozen(s) == [scenarios[s] EXCEPT !.changes = <<>>]
CommitScenario(p) ==
    /\ IsIdle(p) /\ Len(scenarios) < MaxScenarios
    /\ \E s \in DOMAIN scenarios : scenarios' = Append(scenarios, Frozen(s))
    /\ UNCHANGED <<facts, job, events, raced>>

\* allocate reads everything and computes; a cycle is an error before any
\* write.  Its reads are several: one that falls between two of them counts
\* here as made after all, and the plan as none of the current facts.
Computed(p, s) ==
    LET f     == Overlaid(facts, scenarios[s].changes)
        sched == ComputeSchedule(f)
        others == {q \in Processes \ {p} : job[q].scenario = s}
    IN  /\ Acyclic(f)
        /\ job' = [q \in Processes |->
                      IF q = p THEN [IdleProcess EXCEPT !.step = "clear", !.scenario = s, !.rows = Allocations(f, sched),
                                                 !.sched = sched, !.alone = others = {}]
                      ELSE IF q \in others THEN [job[q] EXCEPT !.alone = FALSE] ELSE job[q]]
        /\ UNCHANGED <<facts, scenarios, raced>>

Allocate(p) == IsIdle(p) /\ Counted /\ \E s \in DOMAIN scenarios : Computed(p, s)

ClearAllocation(p) ==
    /\ At(p, "clear")
    /\ scenarios' = [scenarios EXCEPT ![job[p].scenario].alloc = EmptyBag, ![job[p].scenario].whole = FALSE]
    /\ job' = [job EXCEPT ![p].step = "clear schedule"]
    /\ UNCHANGED <<facts, events, raced>>

ClearSchedule(p) ==
    /\ At(p, "clear schedule")
    /\ scenarios' = [scenarios EXCEPT ![job[p].scenario].sched = <<>>]
    /\ job' = [job EXCEPT ![p].step = "rows"]
    /\ UNCHANGED <<facts, events, raced>>

\* Rows of two allocations stand beside each other.
AddAllocation(p) ==
    /\ At(p, "rows") /\ job[p].rows # <<>>
    /\ scenarios' = [scenarios EXCEPT ![job[p].scenario].alloc = @ (+) SetToBag({Head(job[p].rows)})]
    /\ job' = [job EXCEPT ![p].rows = Tail(@)]
    /\ UNCHANGED <<facts, events, raced>>

\* The rows of the schedule follow, by task; each replaces one that is there.
SetScheduleRow(p) ==
    /\ At(p, "rows") /\ job[p].rows = <<>>
    /\ LET s    == job[p].scenario
           left == DOMAIN job[p].sched
           t    == Min(left)
       IN  IF left = {}
           THEN /\ scenarios' = [scenarios EXCEPT ![s].whole = job[p].alone, ![s].on = scenarios[s].changes]
                /\ job' = [job EXCEPT ![p] = IdleProcess]
           ELSE /\ scenarios' = [scenarios EXCEPT ![s].sched = With(@, t, job[p].sched[t])]
                /\ job' = [job EXCEPT ![p].sched = [u \in left \ {t} |-> @[u]]]
    /\ UNCHANGED <<facts, events, raced>>

\* pm_whatif: a scenario of its own, its changes, and a plan under them.
AskWhatIf(p) ==
    /\ IsIdle(p) /\ Counted /\ Len(scenarios) < MaxScenarios /\ scenarios # <<>>
    /\ \E c \in Changes :
          /\ IF c.entity = "task" THEN OwnedTask(c.id) ELSE OwnedResource(c.id)
          /\ job' = [job EXCEPT ![p] = [IdleProcess EXCEPT !.step = "change", !.scenario = Len(scenarios) + 1, !.change = <<c>>]]
    /\ scenarios' = Append(scenarios, Empty)
    /\ UNCHANGED <<facts, raced>>

AddChange(p) ==
    /\ At(p, "change")
    /\ LET s == job[p].scenario
       IN scenarios' = [scenarios EXCEPT ![s].changes = @ \o job[p].change, ![s].whole = FALSE]
    /\ job' = [job EXCEPT ![p].step = "whatif", ![p].change = <<>>]
    /\ UNCHANGED <<facts, events, raced>>

WhatIf(p) ==
    /\ At(p, "whatif")
    /\ \/ Computed(p, job[p].scenario)
       \/ ~Acyclic(facts) /\ job' = [job EXCEPT ![p] = IdleProcess] /\ UNCHANGED <<facts, scenarios, raced>>
    /\ UNCHANGED events

\* The process dies between two statements.
Crash(p) ==
    /\ ~IsIdle(p) /\ Counted
    /\ job' = [job EXCEPT ![p] = IdleProcess]
    /\ UNCHANGED <<facts, scenarios, raced>>

PlanningNext ==
    \E p \in Processes :
        \/ AddTask(p) \/ EstimateTask(p) \/ AddResource(p) \/ SetSkill(p) \/ AddAvailability(p)
        \/ CheckDependency(p) \/ AddDependency(p)
        \/ AddScenario(p) \/ CommitScenario(p) \/ Allocate(p)
        \/ ClearAllocation(p) \/ ClearSchedule(p) \/ AddAllocation(p) \/ SetScheduleRow(p)
        \/ AskWhatIf(p) \/ AddChange(p) \/ WhatIf(p) \/ Crash(p)

PlanningSpec == PlanningInit /\ [][PlanningNext]_planningVars

------------------------------------------------------------------------
(* Properties *)

\* The task graph stays one that can be scheduled, unless a dependency went
\* in over others than it had been checked against (pm/store.py:346).
GraphStaysAcyclic == raced \/ Acyclic(facts)

HoursIn(rows, r, from, to) ==
    LET inside == {x \in rows : x.resource = r /\ from <= x.start /\ x.end <= to}
    IN  Total([x \in inside |-> x.hours])

\* A stored plan that one allocation made alone of the facts as they are can
\* be carried out: every task that has an estimate and somebody to do it is
\* given to one of them, nobody gets more work to do between two days than the
\* days hold, and nothing starts before what it waits for ends
\* (pm/allocate.py:153).
PlansAreFeasible ==
    \A s \in DOMAIN scenarios : scenarios[s].whole =>
        LET f == Overlaid(facts, scenarios[s].on)
            rows == BagToSet(scenarios[s].alloc)
            of(t) == {x \in rows : x.task = t}
        IN  /\ \A x \in rows : scenarios[s].alloc[x] = 1
            /\ \A t \in DOMAIN f.tasks :
                  IF f.tasks[t].est = NoEstimate \/ Eligible(f, t) = {} THEN of(t) = {}
                  ELSE \E x \in rows : of(t) = {x} /\ x.hours = f.tasks[t].est /\ x.resource \in Eligible(f, t)
            /\ \A r \in DOMAIN f.people, from \in {x.start : x \in rows}, to \in {x.end : x \in rows} :
                  from <= to => HoursIn(rows, r, from, to) <= CapacityIn(f, r, from, to)
            /\ \A d \in f.deps : d.type = "FS" =>
                  \A x \in of(d.pred), y \in of(d.succ) : x.end < y.start

\* The slack of a task in such a plan is what it can be late by: started that
\* much later the project ends when it did, half a day more and it does not
\* (pm/schedule.py:91).
SlackIsHonest ==
    \A s \in DOMAIN scenarios : scenarios[s].whole =>
        LET f  == Overlaid(facts, scenarios[s].on)
            es == EarliestStart(f, Anytime(f))
            endWith(t, start) == ProjectDuration(f, EarliestStart(f, [Anytime(f) EXCEPT ![t] = start]))
        IN  /\ DOMAIN scenarios[s].sched = DOMAIN f.tasks
            /\ \A t \in DOMAIN f.tasks :
                  LET late == es[t] + scenarios[s].sched[t].slack
                  IN  endWith(t, late) = endWith(t, 0) /\ endWith(t, late + 1) > endWith(t, 0)

=============================================================================
