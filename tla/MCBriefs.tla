---- MODULE MCBriefs ----
EXTENDS Briefs, TLC

\* On, at the second time of each day, with the first one quiet; or off.
MCChoices == {[on |-> TRUE, time |-> 1, quiet |-> TRUE], Off}

\* The gateways are interchangeable.
Symmetry == Permutations(Procs)

\* What the changes can still matter for: NoChangeFallsBetween asks whether a brief has told
\* a change or left it out, not which, and once a brief has not arrived it asks nothing.  No
\* guard looks at any of this, nor at the last run, but that of Change, at the number of
\* changes.
Settled(j) ==
    IF smooth THEN [j EXCEPT !.news = IF j.op = "brief" THEN j.news \union j.rest ELSE j.news,
                             !.rest = {}]
              ELSE [j EXCEPT !.news = {}, !.rest = {}, !.first = FALSE, !.arrived = FALSE]

\* Only of the day it is now, or on which a job began, does it matter that a brief was sent.
SentStill == {d \in sent : d = Day(now) \/ \E p \in Procs : ~Idle(p) /\ d = Day(job[p].at)}

\* States that differ only in what does not matter any more are looked at once.
SafetyView ==
    <<now, prefs, next, SentStill, configs, fired, smooth, [p \in Procs |-> Settled(job[p])],
      IF smooth THEN <<lastRun, changes, told \union cut, since>> ELSE <<>> >>
====
