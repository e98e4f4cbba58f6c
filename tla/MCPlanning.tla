---------------------------- MODULE MCPlanning ----------------------------
EXTENDS Planning, TLC

Task(est, skill, prio) == [est |-> est, skill |-> skill, prio |-> prio]
Dep(pred, succ, type, lag) == [pred |-> pred, succ |-> succ, type |-> type, lag |-> lag]
Person(cap, skills) == [cap |-> cap, skills |-> skills, active |-> TRUE]
Leave(who, from, to, hours) == [who |-> who, from |-> from, to |-> to, hours |-> hours]
Project(tasks, deps, people, leaves) == [tasks |-> tasks, deps |-> deps, people |-> people, leaves |-> leaves]

MCShapes  == {Task(3, NoSkill, 3), Task(1, "weld", 1)}
MCLinks   == {Dep(1, 2, "FS", 0), Dep(2, 3, "SS", 1), Dep(3, 1, "FF", 2), Dep(2, 1, "SF", 3)}
MCPersons == {Person(1, {"weld"})}
MCLeaves  == {Leave(1, 1, 2, 1)}
MCChanges == {[entity |-> "task", id |-> 1, field |-> "est", value |-> 5],
              [entity |-> "task", id |-> 1, field |-> "est", value |-> -2],
              [entity |-> "resource", id |-> 1, field |-> "active", value |-> FALSE]}

Two   == <<Person(2, {"weld"}), Person(1, {})>>
Crew  == {<<Person(2, {})>>, Two}
Mixed == <<Task(3, "weld", 3), Task(1, NoSkill, 3), Task(NoEstimate, NoSkill, 1)>>

AtMostOne(deps) == {{}} \union {{d} : d \in deps}

MCInstallations ==
    (3 :> {Project(<<Task(2, NoSkill, 3), Task(1, "weld", 1)>>, {}, Two, <<>>),
           Project(Mixed, {Dep(1, 2, "FS", 0), Dep(2, 3, "SS", 1)}, <<Person(1, {"weld"})>>, <<Leave(1, 0, 1, 0)>>)})
    @@
    (1 :> {Project(<<Task(a, NoSkill, 3), Task(b, NoSkill, 3), Task(2, "weld", 1)>>, deps, people, leaves) :
              a \in {1, 4}, b \in {0, 3}, people \in Crew, leaves \in {<<>>, <<Leave(1, 1, 3, 1), Leave(1, 0, 2, 0)>>},
              deps \in {x \union y \union z : x \in AtMostOne({Dep(1, 2, "FS", 1), Dep(1, 2, "SS", 2), Dep(1, 2, "SF", 5)}),
                                              y \in AtMostOne({Dep(2, 3, "FS", 0), Dep(2, 3, "FF", 1)}),
                                              z \in AtMostOne({Dep(1, 3, "SS", -1)})}})

Twins == Permutations(Processes)
=============================================================================
