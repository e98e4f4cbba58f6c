------------------------------- MODULE Rules -------------------------------
(***************************************************************************)
(* Automation rules: what is to be done on an event.  An event - a webhook *)
(* call, or a tool call that changed a backlog item - is evaluated by the  *)
(* process it reaches, and reaches several when it is sent again.  The     *)
(* processes share the rules database, one statement a step.               *)
(***************************************************************************)
EXTENDS Naturals, FiniteSets, Sequences

CONSTANTS
    Procs, RuleIds,
    Own, Foreign,             \* events: of Memaix's own, and with what others send
    Plans                     \* what a rule may be made to do: sequences of actions

Events == Own \union Foreign
Actions == {"email_send", "notify", "other"}      \* other: something in a project

ASSUME EventsAssumption == Own \intersect Foreign = {}
ASSUME PlansAssumption == Plans \subseteq Seq(Actions) \ {<<>>}

VARIABLES
    rules,      \* a rule's [trigger, acts, state], or None
    runs,       \* rule_runs: ok, failed, or no row
    job,        \* what a process evaluates: the event, the rules left, the rule it is at
    \* what has been seen from outside:
    acted       \* acted[r][e][i]: how often rule r has done its i-th action on event e

ruleVars == <<rules, runs, job, acted>>

None  == [trigger |-> "none", acts |-> <<>>, state |-> "none"]
NoJob == [event |-> "none", todo |-> {}, rule |-> "none", step |-> "none", at |-> 0, ok |-> TRUE]
Reserving(e, todo) ==
    [event |-> e, todo |-> todo, rule |-> "none", step |-> "reserve", at |-> 0, ok |-> TRUE]

RulesInit ==
    /\ rules = [r \in RuleIds |-> None] /\ runs = [r \in RuleIds |-> [e \in Events |-> "none"]]
    /\ job = [p \in Procs |-> NoJob]
    /\ acted = [r \in RuleIds |-> [e \in Events |-> [i \in 1..2 |-> 0]]]

------------------------------------------------------------------------
(* Setting up *)

Outgoing(acts) == \E i \in DOMAIN acts : acts[i] \in {"email_send", "notify"}

NewRule(trigger, acts) == [trigger |-> trigger, acts |-> acts, state |-> "on"]

\* rule_add: what goes out takes an owner.
AddRule(r, trigger, acts, role) ==
    /\ rules[r] = None
    /\ Outgoing(acts) => role = "owner"
    /\ rules' = [rules EXCEPT ![r] = NewRule(trigger, acts)]
    /\ UNCHANGED <<runs, job, acted>>

\* The runs stay, also those of a rule that is deleted.
Switched(r, how) == rules' = [rules EXCEPT ![r].state = how] /\ UNCHANGED runs

\* rule_set_enabled, rule_delete.
SwitchRule(r, how) ==
    /\ rules[r].state \in {"on", "off"} \ {how}
    /\ Switched(r, how)
    /\ UNCHANGED <<job, acted>>

------------------------------------------------------------------------
(* Evaluating an event *)

Trigger(e) == IF e \in Own THEN "internal" ELSE "webhook"

TriggerMatches(r, e) == rules[r].trigger = Trigger(e)

ListRules == {r \in RuleIds : rules[r].state = "on"}

\* The event comes in, for the first time or once more; the enabled rules are read.
Evaluate(p, e) ==
    LET hits == {r \in ListRules : TriggerMatches(r, e)} IN
    /\ job[p] = NoJob
    /\ hits # {}
    /\ job' = [job EXCEPT ![p] = Reserving(e, hits)]
    /\ UNCHANGED <<rules, runs, acted>>

\* A tool call that moved an item; it may be repeated.
Publish(p, e) == e \in Own /\ Evaluate(p, e)

\* rule_webhook: the same event as every other call with its token and body.
Webhook(p, e) == e \in Foreign /\ Evaluate(p, e)

\* The next of the rules, or done.
Onward(p, todo) ==
    job' = [job EXCEPT ![p] = IF todo = {} THEN NoJob ELSE Reserving(job[p].event, todo)]

\* It is at action number at of rule r; ok: all went well so far.
AtAction(p, r, step, at, ok) ==
    job' = [job EXCEPT ![p] = [event |-> job[p].event, todo |-> job[p].todo, rule |-> r,
                               step |-> step, at |-> at, ok |-> ok]]

\* lets a run through that is recorded as failed
ReserveMutant(p, r) ==
    LET j == job[p] IN
    /\ j.step = "reserve" /\ r \in j.todo
    /\ IF runs[r][j.event] # "ok"
       THEN /\ runs' = [runs EXCEPT ![r][j.event] = "ok"]
            /\ AtAction(p, r, "act", 1, TRUE)
       ELSE Onward(p, j.todo \ {r}) /\ UNCHANGED runs
    /\ UNCHANGED <<rules, acted>>

\* try_reserve: one INSERT, which fails the second time; it says ok before anything is done.
Reserve(p, r) ==
    LET j == job[p] IN
    /\ j.step = "reserve" /\ r \in j.todo
    /\ IF runs[r][j.event] = "none"
       THEN /\ runs' = [runs EXCEPT ![r][j.event] = "ok"]
            /\ AtAction(p, r, "act", 1, TRUE)
       ELSE Onward(p, j.todo \ {r}) /\ UNCHANGED runs
    /\ UNCHANGED <<rules, acted>>

\* A notification goes out only for what Memaix's own triggers bring.
MayNotify(r) == rules[r].trigger = "internal"

\* No session is unlocked for a rule, so that it sends no mail.
MayAct(r, action) ==
    CASE action = "email_send" -> FALSE
      [] action = "notify"     -> MayNotify(r)
      [] action = "other"      -> TRUE

\* run_action: it may fail, also after it has been done, and does not stop the others.
Act(p) ==
    LET j == job[p]
        last == j.at = Len(rules[j.rule].acts) IN
    /\ j.step = "act"
    /\ \E did, ok \in BOOLEAN :
         /\ ok => did
         /\ did => MayAct(j.rule, rules[j.rule].acts[j.at])
         /\ acted' = [acted EXCEPT ![j.rule][j.event][j.at] = IF did THEN @ + 1 ELSE @]
         /\ IF last THEN AtAction(p, j.rule, "detail", 0, j.ok /\ ok)
                    ELSE AtAction(p, j.rule, "act", j.at + 1, j.ok /\ ok)
    /\ UNCHANGED <<rules, runs>>

RecordDetail(p) ==
    LET j == job[p] IN
    /\ j.step = "detail"
    /\ runs' = [runs EXCEPT ![j.rule][j.event] = IF j.ok THEN "ok" ELSE "failed"]
    /\ Onward(p, j.todo \ {j.rule})
    /\ UNCHANGED <<rules, acted>>

\* The process ends, or the database fails under it: the rules left get nothing.
Die(p) ==
    /\ job[p] # NoJob
    /\ job' = [job EXCEPT ![p] = NoJob]
    /\ UNCHANGED <<rules, runs, acted>>

RulesNext ==
    \/ \E p \in Procs :
         \/ \E e \in Events : Publish(p, e) \/ Webhook(p, e)
         \/ \E r \in RuleIds : Reserve(p, r)
         \/ Act(p) \/ RecordDetail(p) \/ Die(p)
    \/ \E r \in RuleIds, trigger \in {"internal", "webhook"}, acts \in Plans, role \in {"owner", "collaborator"} :
         AddRule(r, trigger, acts, role)
    \/ \E r \in RuleIds, how \in {"on", "off", "gone"} : SwitchRule(r, how)

------------------------------------------------------------------------
(* What the processes rely on *)

RunTypes ==
    /\ rules \in [RuleIds -> [trigger : {"none", "internal", "webhook"}, acts : Plans \union {<<>>},
                              state : {"none", "on", "off", "gone"}]]
    /\ runs \in [RuleIds -> [Events -> {"none", "ok", "failed"}]]
    /\ job \in [Procs -> [event : Events \union {"none"}, todo : SUBSET RuleIds,
                          rule : RuleIds \union {"none"}, step : {"none", "reserve", "act", "detail"},
                          at : Nat, ok : BOOLEAN]]
    /\ acted \in [RuleIds -> [Events -> [1..2 -> Nat]]]

Running(p) == job[p].step \in {"act", "detail"}

\* The rules a process has left are there for its event; the one it is at has its run and
\* its actions from here on still to do.
JobInv(p) ==
    LET j == job[p] IN
    /\ j.step # "none" => j.event \in Events
                          /\ \A r \in j.todo : rules[r].acts \in Plans /\ TriggerMatches(r, j.event)
    /\ Running(p) => j.rule \in j.todo /\ runs[j.rule][j.event] # "none"
    /\ j.step = "act" => /\ j.at \in 1..Len(rules[j.rule].acts)
                         /\ \A i \in 1..2 : i >= j.at => acted[j.rule][j.event][i] = 0

RunIsAlone ==
    \A p, q \in Procs :
        Running(p) /\ Running(q) /\ job[p].rule = job[q].rule /\ job[p].event = job[q].event => p = q

\* Nothing is done without a run; a rule that is there keeps its trigger and its actions.
RunsComeFirst ==
    \A r \in RuleIds :
        /\ rules[r].state # "none" => rules[r].acts \in Plans
        /\ \A e \in Events, i \in 1..2 :
             acted[r][e][i] # 0 => runs[r][e] # "none" /\ rules[r].acts \in Plans

------------------------------------------------------------------------

\* Every action of a rule is done at most once for an event, by however many processes the
\* event is evaluated, repeated and died on; and with the lock on, what others send sets
\* off neither mail nor a notification.
ActsOnce ==
    \A r \in RuleIds, e \in Events, i \in 1..2 :
        /\ acted[r][e][i] <= 1
        /\ acted[r][e][i] = 1 => \/ rules[r].acts[i] = "other"
                                \/ (rules[r].acts[i] = "notify" /\ e \in Own)

RunInv == RunTypes /\ (\A p \in Procs : JobInv(p)) /\ RunIsAlone /\ RunsComeFirst /\ ActsOnce
=============================================================================
