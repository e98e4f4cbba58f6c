----------------------------- MODULE BriefsProofs -----------------------------
(***************************************************************************)
(* Proofs about the daily brief, for any number of processes, channels,    *)
(* changes and ways to set it up.                                          *)
(***************************************************************************)
EXTENDS Briefs, TLAPS

LEMMA NextIsLater ==
  ASSUME NEW time \in 0..1, NEW t \in Nat
  PROVE  NextBrief(time, t) \in (t + 1)..(t + 2)
  <1>1. \E u \in (t + 1)..(t + 2) : u % 2 = time
    <2>1. CASE (t + 1) % 2 = time
      BY <2>1
    <2>2. CASE (t + 2) % 2 = time
      BY <2>2
    <2> QED
      BY <2>1, <2>2
  <1> QED
    BY <1>1 DEF NextBrief

LEMMA Bounds == MaxTime \in Nat /\ Never \in Nat /\ Times \subseteq 0..Never /\ Times \subseteq Nat
  BY BoundsAssumption DEF Never, Times

LEMMA OffIsPref == Off \in Prefs
  BY DEF Off, Prefs

LEMMA NoJobIsJob == NoJob \in Jobs /\ NoJob.op = "none"
  BY Bounds DEF NoJob, Begun, Jobs, Steps, Off, Prefs, Times

LEMMA InitInv == Init => IInv
  <1> SUFFICES ASSUME Init PROVE IInv
    OBVIOUS
  <1>1. BriefTypes
    BY NoJobIsJob, Bounds DEF Init, BriefTypes, Off, Prefs, Times
  <1>2. SlotsInv /\ OneBriefPerSlot
    BY NoJobIsJob DEF Init, SlotsInv, Holds, OneBriefPerSlot
  <1> QED
    BY <1>1, <1>2 DEF IInv

\* A process that goes on leaves the slots in order, if the brief it holds is one the row
\* is past and nobody else holds, if it sends only what it holds, and if the row's time
\* stays past what it was past.
LEMMA SlotsKept ==
  ASSUME IInv, NEW p \in Procs, BriefTypes', now' = now,
         \A q \in Procs : q # p => job'[q] = job[q],
         job'[p].op = "brief" => job'[p].at <= now /\ (job'[p].step # "mark" => job'[p].old <= job'[p].at),
         \A t \in Times : Holds(p, t)' =>
             t < next' /\ fired'[t] = 0 /\ \A q \in Procs : Holds(q, t) => q = p,
         \A t \in Times : fired'[t] = fired[t] \/ (fired'[t] = 1 /\ Holds(p, t)),
         \A t \in Times : t < next /\ t <= now => t < next'
  PROVE  IInv'
  <1>1. ASSUME NEW t \in Times, NEW q \in Procs, Holds(q, t)
        PROVE  t <= now /\ t < next
    <2>1. job[q].op = "brief" /\ job[q].step # "mark" /\ job[q].old = t
      BY <1>1 DEF Holds
    <2>2. job[q].old <= job[q].at /\ job[q].at <= now /\ t < next
      BY <1>1, <2>1 DEF IInv, SlotsInv
    <2>3. job[q].at \in Nat /\ now \in Nat /\ t \in Nat
      BY Bounds DEF IInv, BriefTypes, Jobs
    <2> QED
      BY <2>1, <2>2, <2>3
  <1>2. \A q \in Procs, t \in Times : q # p => (Holds(q, t)' <=> Holds(q, t))
    BY DEF Holds
  <1>3. /\ \A q \in Procs : job'[q].op = "brief" => job'[q].at <= now'
        /\ \A q \in Procs : job'[q].op = "brief" /\ job'[q].step # "mark" => job'[q].old <= job'[q].at
    BY DEF IInv, SlotsInv
  <1>4. \A t \in Times : fired'[t] # 0 => t < next' /\ t <= now'
    BY <1>1 DEF IInv, SlotsInv
  <1>5. ASSUME NEW q \in Procs, NEW t \in Times, Holds(q, t)'
        PROVE  t < next' /\ fired'[t] = 0 /\ \A u \in Procs : Holds(u, t)' => u = q
    <2>1. CASE q = p
      BY <1>2, <1>5, <2>1
    <2>2. CASE q # p
      <3>1. Holds(q, t) /\ ~Holds(p, t)' /\ ~Holds(p, t)
        BY <1>2, <1>5, <2>2 DEF IInv, SlotsInv
      <3>2. t < next' /\ fired'[t] = 0
        BY <1>1, <3>1 DEF IInv, SlotsInv
      <3> QED
        BY <1>2, <3>1, <3>2 DEF IInv, SlotsInv
    <2> QED
      BY <2>1, <2>2
  <1>6. OneBriefPerSlot'
    BY DEF IInv, OneBriefPerSlot
  <1> QED
    BY <1>3, <1>4, <1>5, <1>6 DEF IInv, SlotsInv

\* What a process does to itself alone.
LEMMA JobMoves ==
  ASSUME IInv, NEW p \in Procs, NEW j \in Jobs, job' = [job EXCEPT ![p] = j],
         now' = now, changes' = changes, next' \in 0..Never, prefs' \in Prefs, fired' \in [Times -> Nat]
  PROVE  BriefTypes' /\ job'[p] = j /\ \A q \in Procs : q # p => job'[q] = job[q]
  BY DEF IInv, BriefTypes

LEMMA Typed == IInv => /\ \A p \in Procs : job[p] \in Jobs
                       /\ now \in Times /\ changes \subseteq Times /\ next \in 0..Never /\ prefs \in Prefs
                       /\ fired \in [Times -> Nat] /\ job \in [Procs -> Jobs]
  BY DEF IInv, BriefTypes

\* Processes that do not hold a brief after their step, and leave next and fired alone.
LEMMA HoldsNothing ==
  ASSUME IInv, NEW p \in Procs, NEW j \in Jobs, job' = [job EXCEPT ![p] = j],
         j.op = "brief" => j.at <= now /\ (j.step # "mark" => j.old <= j.at),
         \A t \in Times : j.op = "brief" /\ j.step \in {"check", "build", "send"} /\ j.old = t => Holds(p, t),
         UNCHANGED <<now, changes, next, fired>>, prefs' \in Prefs
  PROVE  IInv'
  <1>1. BriefTypes' /\ job'[p] = j /\ \A q \in Procs : q # p => job'[q] = job[q]
    BY Typed, JobMoves
  <1>2. \A t \in Times : Holds(p, t)' =>
          t < next' /\ fired'[t] = 0 /\ \A q \in Procs : Holds(q, t) => q = p
    <2>1. \A t \in Times : Holds(p, t)' => Holds(p, t)
      BY <1>1 DEF Holds
    <2> QED
      BY <2>1 DEF IInv, SlotsInv
  <1> QED
    BY <1>1, <1>2, SlotsKept

\* A brief keeps the time it is for and the time it was begun.
LEMMA GoesOn ==
  ASSUME IInv, NEW p \in Procs, NEW j \in Jobs, job' = [job EXCEPT ![p] = j],
         UNCHANGED <<now, changes, next, prefs, fired>>,
         \/ j.op # "brief"
         \/ job[p].op = "brief" /\ j.at = job[p].at /\ j.step = "mark"
         \/ /\ job[p].op = "brief" /\ job[p].step # "mark" /\ j.at = job[p].at /\ j.old = job[p].old
            /\ j.step \in {"check", "build", "send"} => job[p].step \in {"check", "build", "send"}
  PROVE  IInv'
  <1>1. j.op = "brief" => j.at <= now /\ (j.step # "mark" => j.old <= j.at)
    BY DEF IInv, SlotsInv
  <1>2. \A t \in Times : j.op = "brief" /\ j.step \in {"check", "build", "send"} /\ j.old = t => Holds(p, t)
    BY DEF Holds
  <1> QED
    BY <1>1, <1>2, Typed, HoldsNothing

LEMMA EndKeeps ==
  ASSUME IInv, NEW p \in Procs, End(p), UNCHANGED <<now, changes, next, prefs, fired>>
  PROVE  IInv'
  BY NoJobIsJob, GoesOn DEF End

LEMMA AreSteps ==
  /\ "none" \in Steps /\ "schedule" \in Steps /\ "prefs" \in Steps
  /\ "claim" \in Steps /\ "check" \in Steps /\ "build" \in Steps
  /\ "send" \in Steps /\ "record" \in Steps /\ "mark" \in Steps
  BY DEF Steps

LEMMA BegunIsJob ==
  ASSUME NEW op \in {"none", "configure", "brief", "now"}, NEW step \in Steps, NEW at \in Times,
         NEW old \in 0..Never, NEW pr \in Prefs, NEW j, j = Begun(op, step, at, old, pr)
  PROVE  j \in Jobs /\ j.op = op /\ j.step = step /\ j.at = at /\ j.old = old
  BY DEF Begun, Jobs

LEMMA FirstIsJob ==
  ASSUME NEW r \in Jobs, NEW b \in BOOLEAN
  PROVE  LET j == [r EXCEPT !.first = b] IN
           j \in Jobs /\ j.op = r.op /\ j.step = r.step /\ j.at = r.at /\ j.old = r.old
  BY DEF Jobs

LEMMA ToMarkKeeps ==
  ASSUME IInv, NEW p \in Procs, ToMark(p), job[p].op = "brief", UNCHANGED <<now, changes, next, prefs, fired>>
  PROVE  IInv'
  <1> DEFINE r == Begun("brief", "mark", job[p].at, 0, Off)
             j == [r EXCEPT !.first = job[p].first]
  <1>1. job[p].at \in Times /\ job[p].first \in BOOLEAN /\ Off \in Prefs /\ 0 \in 0..Never
    BY Typed, Bounds DEF Jobs, Off, Prefs
  <1>2. r \in Jobs /\ r.op = "brief" /\ r.step = "mark" /\ r.at = job[p].at
    BY <1>1, BegunIsJob, AreSteps
  <1> HIDE DEF r
  <1>3. j \in Jobs /\ j.op = "brief" /\ j.step = "mark" /\ j.at = job[p].at
    BY <1>1, <1>2, FirstIsJob
  <1>4. job' = [job EXCEPT ![p] = j]
    BY DEF ToMark, r
  <1> HIDE DEF j
  <1> QED
    BY <1>1, <1>3, <1>4, GoesOn

LEMMA BuildKeeps ==
  ASSUME IInv, NEW p \in Procs, Build(p)
  PROVE  IInv'
  <1> DEFINE fresh == IF lastRun = Never THEN {} ELSE {c \in changes : c >= lastRun}
  <1>0. PICK news \in SUBSET fresh :
          job' = [job EXCEPT ![p] = [job[p] EXCEPT !.news  = news,
                                                   !.rest  = fresh \ news,
                                                   !.first = (job[p].op = "brief" /\ lastRun = Never),
                                                   !.step  = "send"]]
    BY DEF Build
  <1> DEFINE r == job[p]
             rest == fresh \ news
             b == (job[p].op = "brief" /\ lastRun = Never)
             j == [r EXCEPT !.news = news, !.rest = rest, !.first = b, !.step = "send"]
  <1>1. r \in Jobs /\ news \in SUBSET Times /\ rest \in SUBSET Times /\ b \in BOOLEAN
    BY Typed
  <1>2. job' = [job EXCEPT ![p] = j] /\ r.step = "build" /\ UNCHANGED <<now, changes, next, prefs, fired>>
    BY <1>0 DEF Build, At, briefVars, seenVars
  <1>4. j = [r EXCEPT !.news = news, !.rest = rest, !.first = b, !.step = "send"]
    OBVIOUS
  <1> HIDE DEF r, rest, b, j
  <1>3. j \in Jobs /\ j.op = r.op /\ j.step = "send" /\ j.at = r.at /\ j.old = r.old
    BY <1>1, <1>4 DEF Jobs, Steps
  <1> QED
    BY <1>2, <1>3, GoesOn DEF r

LEMMA SendKeeps ==
  ASSUME IInv, NEW p \in Procs, Send(p)
  PROVE  IInv'
  <1>1. PICK reached \in SUBSET Channels :
          job' = [job EXCEPT ![p] =
              [Begun(job[p].op, "record", job[p].at, 0, Off) EXCEPT !.first   = job[p].first,
                     !.arrived = (job[p].op = "brief" /\ reached # {})]]
    BY DEF Send
  <1> DEFINE r == Begun(job[p].op, "record", job[p].at, 0, Off)
             arrived == (job[p].op = "brief" /\ reached # {})
             j == [r EXCEPT !.first = job[p].first, !.arrived = arrived]
  <1>2. /\ job[p].op \in {"brief", "now"} /\ job[p].step = "send" /\ job[p] \in Jobs
        /\ UNCHANGED <<now, changes, next, prefs>>
        /\ fired' = IF job[p].op = "brief" THEN [fired EXCEPT ![job[p].old] = @ + 1] ELSE fired
    BY Typed DEF Send, At, briefVars
  <1>3. job[p].at \in Times /\ job[p].first \in BOOLEAN /\ Off \in Prefs /\ 0 \in 0..Never
    BY <1>2, Bounds DEF Jobs, Off, Prefs
  <1>4. r \in Jobs /\ r.op = job[p].op /\ r.step = "record" /\ r.at = job[p].at /\ r.old = 0
    BY <1>2, <1>3, BegunIsJob, AreSteps
  <1>5. arrived \in BOOLEAN
    OBVIOUS
  <1>6. job' = [job EXCEPT ![p] = j]
    BY <1>1
  <1>10. j = [r EXCEPT !.first = job[p].first, !.arrived = arrived]
    OBVIOUS
  <1> HIDE DEF r, arrived, j
  <1>7. j \in Jobs /\ j.op = job[p].op /\ j.step = "record" /\ j.at = job[p].at /\ j.old = 0
    <2>1. r \in Jobs /\ job[p].first \in BOOLEAN
      BY <1>3, <1>4
    <2>2. j \in Jobs /\ j.op = r.op /\ j.step = r.step /\ j.at = r.at /\ j.old = r.old
      BY <1>5, <1>10, <2>1 DEF Jobs
    <2> QED
      BY <1>4, <2>2
  <1>8. CASE job[p].op # "brief"
    <2>1. fired' = fired
      BY <1>2, <1>8
    <2> QED
      BY <1>2, <1>6, <1>7, <1>8, <2>1, GoesOn
  <1>9. CASE job[p].op = "brief"
    <2>1. job[p].old <= job[p].at /\ job[p].at <= now
      BY <1>2, <1>9 DEF IInv, SlotsInv
    <2>2. job[p].old \in Times /\ Holds(p, job[p].old)
      BY <1>2, <1>3, <1>9, <2>1, Bounds DEF Holds, Jobs, Times
    <2>3. fired' \in [Times -> Nat] /\ fired[job[p].old] = 0 /\ fired'[job[p].old] = 1
          /\ \A t \in Times : t # job[p].old => fired'[t] = fired[t]
      BY <1>2, <1>9, <2>2, Typed DEF IInv, SlotsInv
    <2>4. BriefTypes' /\ job'[p] = j /\ \A q \in Procs : q # p => job'[q] = job[q]
      BY <1>2, <1>6, <1>7, <2>3, Typed, JobMoves
    <2>5. j.old <= j.at
      BY <1>3, <1>7, Bounds DEF Times
    <2>6. \A t \in Times : ~Holds(p, t)'
      BY <1>7, <2>4 DEF Holds
    <2>7. \A t \in Times : fired'[t] = fired[t] \/ (fired'[t] = 1 /\ Holds(p, t))
      BY <2>2, <2>3
    <2>8. next' = next /\ now' = now
      BY <1>2
    <2> QED
      BY <1>7, <2>1, <2>4, <2>5, <2>6, <2>7, <2>8, SlotsKept
  <1> QED
    BY <1>8, <1>9

LEMMA ClaimKeeps ==
  ASSUME IInv, NEW p \in Procs, Claim(p)
  PROVE  IInv'
  <1> DEFINE old == job[p].old
             time == job[p].prefs.time
  <1>1. /\ job[p].op = "brief" /\ job[p].step = "claim" /\ job[p] \in Jobs
        /\ UNCHANGED <<now, prefs, changes, fired>>
    BY Typed DEF Claim, At, seenVars
  <1>2. CASE next # old
    BY <1>1, <1>2, EndKeeps DEF Claim
  <1>3. CASE next = old
    <2>1. /\ next' = NextBrief(time, job[p].at)
          /\ job' = [job EXCEPT ![p].step = "check"] \/ job' = [job EXCEPT ![p] = NoJob]
      BY <1>3 DEF Claim, Goto, End
    <2>2. /\ old <= job[p].at /\ job[p].at <= now /\ job[p].at \in Times /\ time \in 0..1 /\ now \in Times
          /\ old \in 0..Never
      BY <1>1, Typed DEF IInv, SlotsInv, Jobs, Prefs
    <2>3. next' \in (job[p].at + 1)..(job[p].at + 2)
      BY <2>1, <2>2, Bounds, NextIsLater
    <2>4. next' \in 0..Never /\ next' > job[p].at /\ old < next' /\ old \in Times
      BY <2>2, <2>3, BoundsAssumption DEF Never, Times
    <2>5. \A t \in Times : t < next /\ t <= now => t < next'
      BY <1>3, <2>2, <2>4 DEF Times
    <2>6. \A q \in Procs : ~Holds(q, old)
      BY <1>3, <2>2, <2>4 DEF IInv, SlotsInv
    <2>7. fired[old] = 0
      <3>1. fired[old] # 0 => old < old
        BY <1>3, <2>4 DEF IInv, SlotsInv
      <3> QED
        BY <2>2, <3>1
    <2> DEFINE j == [job[p] EXCEPT !.step = "check"]
    <2>8. j \in Jobs /\ j.op = "brief" /\ j.step = "check" /\ j.at = job[p].at /\ j.old = old
      BY <1>1 DEF Jobs, Steps
    <2>9. job' = [job EXCEPT ![p] = j] \/ job' = [job EXCEPT ![p] = NoJob]
      BY <2>1
    <2> HIDE DEF j, old, time
    <2>10. /\ BriefTypes' /\ \A q \in Procs : q # p => job'[q] = job[q]
           /\ job'[p] = j \/ job'[p] = NoJob
      BY <1>1, <2>4, <2>8, <2>9, Typed, NoJobIsJob, JobMoves
    <2>11. job'[p].op = "brief" => job'[p].at <= now /\ (job'[p].step # "mark" => job'[p].old <= job'[p].at)
      BY <2>2, <2>8, <2>10, NoJobIsJob
    <2>12. \A t \in Times : Holds(p, t)' => t = old
      BY <2>8, <2>10, NoJobIsJob DEF Holds
    <2>13. \A t \in Times : Holds(p, t)' =>
             t < next' /\ fired'[t] = 0 /\ \A q \in Procs : Holds(q, t) => q = p
      BY <1>1, <2>4, <2>6, <2>7, <2>12
    <2> QED
      BY <1>1, <2>5, <2>10, <2>11, <2>13, SlotsKept
  <1> QED
    BY <1>2, <1>3

LEMMA SetScheduleKeeps ==
  ASSUME IInv, NEW p \in Procs, SetSchedule(p)
  PROVE  IInv'
  <1>1. /\ job[p].op = "configure" /\ job[p] \in Jobs /\ job' = [job EXCEPT ![p] = NoJob]
        /\ next' = NextBrief(job[p].prefs.time, now) /\ UNCHANGED <<now, prefs, changes, fired>>
    BY Typed DEF SetSchedule, At, End, seenVars
  <1>2. job[p].prefs.time \in 0..1 /\ now \in Nat /\ now \in Times
    BY <1>1, Typed, Bounds DEF Jobs, Prefs
  <1>3. next' \in (now + 1)..(now + 2)
    BY <1>1, <1>2, NextIsLater
  <1>4. next' \in 0..Never /\ \A t \in Times : t <= now => t < next'
    BY <1>2, <1>3, BoundsAssumption DEF Never, Times
  <1>5. BriefTypes' /\ job'[p] = NoJob /\ \A q \in Procs : q # p => job'[q] = job[q]
    BY <1>1, <1>4, Typed, NoJobIsJob, JobMoves
  <1>6. \A t \in Times : ~Holds(p, t)'
    BY <1>5, NoJobIsJob DEF Holds
  <1> QED
    BY <1>1, <1>4, <1>5, <1>6, NoJobIsJob, SlotsKept

LEMMA StepInv == IInv /\ [Next]_vars => IInv'
  <1> SUFFICES ASSUME IInv, [Next]_vars PROVE IInv'
    OBVIOUS
  <1> USE Typed
  <1>1. CASE Tick \/ Change \/ UNCHANGED vars
    <2>1. /\ now' \in Times /\ now <= now' /\ changes' \in SUBSET Times
          /\ UNCHANGED <<next, prefs, job, fired>>
      BY <1>1, BoundsAssumption DEF Tick, Change, vars, briefVars, seenVars, Times
    <2>2. \A p \in Procs : job[p].at \in Nat
      BY Bounds DEF Jobs
    <2>3. now \in Nat /\ now' \in Nat /\ \A t \in Times : t \in Nat
      BY <2>1, Bounds
    <2>4. BriefTypes'
      BY <2>1 DEF IInv, BriefTypes
    <2>5. /\ \A p \in Procs : job'[p].op = "brief" => job'[p].at <= now'
          /\ \A t \in Times : fired'[t] # 0 => t < next' /\ t <= now'
      BY <2>1, <2>2, <2>3 DEF IInv, SlotsInv
    <2>6. \A p \in Procs, t \in Times : Holds(p, t)' <=> Holds(p, t)
      BY <2>1 DEF Holds
    <2> QED
      BY <2>1, <2>4, <2>5, <2>6 DEF IInv, SlotsInv, OneBriefPerSlot
  <1>2. ASSUME NEW p \in Procs, NEW pr \in Choices, Configure(p, pr) PROVE IInv'
    <2>1. /\ prefs' \in Prefs /\ UNCHANGED <<now, changes, next, fired>>
          /\ job' = [job EXCEPT ![p] = Begun("configure", "schedule", 0, 0, pr)]
      BY <1>2, ChoicesAssumption DEF Configure, seenVars
    <2>2. pr \in Prefs /\ 0 \in Times /\ 0 \in 0..Never
      BY Bounds, ChoicesAssumption DEF Times
    <2> DEFINE j == Begun("configure", "schedule", 0, 0, pr)
    <2>3. j \in Jobs /\ j.op = "configure"
      BY <2>2, AreSteps DEF Begun, Jobs
    <2> HIDE DEF j
    <2> QED
      BY <2>1, <2>3, HoldsNothing DEF j
  <1>3. ASSUME NEW p \in Procs, FindDue(p) PROVE IInv'
    <2> DEFINE j == Begun("brief", "prefs", now, next, Off)
    <2>1. /\ UNCHANGED <<now, changes, next, fired, prefs>> /\ job' = [job EXCEPT ![p] = j] /\ next <= now
      BY <1>3 DEF FindDue, briefVars, seenVars
    <2>2. j \in Jobs /\ j.op = "brief" /\ j.step = "prefs" /\ j.at = now /\ j.old = next
      <3>1. "prefs" \in Steps
        BY DEF Steps
      <3> QED
        BY <3>1, OffIsPref, BegunIsJob
    <2>3. now <= now
      BY Bounds DEF Times
    <2> HIDE DEF j
    <2> QED
      BY <2>1, <2>2, <2>3, HoldsNothing
  <1>4. ASSUME NEW p \in Procs, SendNow(p) PROVE IInv'
    <2> DEFINE j == Begun("now", "build", now, 0, Off)
    <2>1. UNCHANGED <<now, changes, next, fired, prefs>> /\ job' = [job EXCEPT ![p] = j]
      BY <1>4 DEF SendNow, briefVars, seenVars
    <2>2. j \in Jobs /\ j.op = "now"
      <3>1. "build" \in Steps /\ 0 \in 0..Never
        BY Bounds DEF Steps
      <3> QED
        BY <3>1, OffIsPref, BegunIsJob
    <2> HIDE DEF j
    <2> QED
      BY <2>1, <2>2, HoldsNothing
  <1>5. ASSUME NEW p \in Procs, ReadPrefs(p) PROVE IInv'
    <2> DEFINE j == Begun("brief", "claim", job[p].at, job[p].old, prefs)
    <2>1. /\ UNCHANGED <<now, changes, next, fired, prefs>> /\ job' = [job EXCEPT ![p] = j]
          /\ job[p].op = "brief" /\ job[p].step = "prefs"
      BY <1>5 DEF ReadPrefs, At, briefVars, seenVars
    <2>2. j \in Jobs /\ j.op = "brief" /\ j.step = "claim" /\ j.at = job[p].at /\ j.old = job[p].old
      <3>1. job[p].at \in Times /\ job[p].old \in 0..Never
        BY DEF Jobs
      <3> QED
        BY <3>1, BegunIsJob, AreSteps
    <2> HIDE DEF j
    <2> QED
      BY <2>1, <2>2, GoesOn
  <1>6. ASSUME NEW p \in Procs, CheckDue(p) PROVE IInv'
    <2> DEFINE j == Begun("brief", "build", job[p].at, job[p].old, Off)
    <2>1. /\ UNCHANGED <<now, changes, next, fired, prefs>>
          /\ ToMark(p) \/ job' = [job EXCEPT ![p] = j]
          /\ job[p].op = "brief" /\ job[p].step = "check"
      BY <1>6 DEF CheckDue, At, briefVars, seenVars
    <2>2. j \in Jobs /\ j.op = "brief" /\ j.step = "build" /\ j.at = job[p].at /\ j.old = job[p].old
      <3>1. job[p].at \in Times /\ job[p].old \in 0..Never /\ Off \in Prefs
        BY OffIsPref DEF Jobs
      <3>2. "build" \in Steps
        BY DEF Steps
      <3> QED
        BY <3>1, <3>2, BegunIsJob
    <2> HIDE DEF j
    <2> QED
      BY <2>1, <2>2, GoesOn, ToMarkKeeps
  <1>7. ASSUME NEW p \in Procs, RecordSent(p) PROVE IInv'
    <2> DEFINE j == [job[p] EXCEPT !.step = "mark"]
    <2>1. /\ UNCHANGED <<now, changes, next, fired, prefs>>
          /\ End(p) \/ (job[p].op = "brief" /\ job' = [job EXCEPT ![p].step = "mark"])
      BY <1>7 DEF RecordSent, At, Goto, seenVars
    <2>2. j \in Jobs /\ j.at = job[p].at /\ j.step = "mark"
      BY DEF Jobs, Steps
    <2>3. job' = [job EXCEPT ![p].step = "mark"] => job' = [job EXCEPT ![p] = j]
      OBVIOUS
    <2> HIDE DEF j
    <2> QED
      BY <2>1, <2>2, <2>3, GoesOn, EndKeeps
  <1>8. ASSUME NEW p \in Procs, MarkRun(p) \/ Crash(p) PROVE IInv'
    BY <1>8, EndKeeps DEF MarkRun, Crash, briefVars, seenVars
  <1>9. ASSUME NEW p \in Procs, DeliveryFails(p) PROVE IInv'
    BY <1>9, EndKeeps, ToMarkKeeps DEF DeliveryFails, briefVars, seenVars
  <1> QED
    BY <1>1, <1>2, <1>3, <1>4, <1>5, <1>6, <1>7, <1>8, <1>9,
       ClaimKeeps, SetScheduleKeeps, BuildKeeps, SendKeeps DEF Next, BriefStep

\* However many processes find a row due, claim it, set the brief up anew and die: no time
\* that a brief was set to brings two of them.
THEOREM OnePerSlot == Spec => []OneBriefPerSlot
  <1>1. IInv => OneBriefPerSlot
    BY DEF IInv
  <1> QED
    BY <1>1, InitInv, StepInv, PTL DEF Spec

------------------------------------------------------------------------
(* What the briefs say *)

\* p has a brief with the changes in it: it is about to be sent, or has arrived.
Reports(p) ==
    /\ job[p].op = "brief" /\ ~job[p].first
    /\ job[p].step = "send" \/ (job[p].step \in {"record", "mark"} /\ job[p].arrived)

\* The change c is in a brief that has arrived, or left out of it, or is so in the one that
\* p is about to send.
Named(p, c) == c \in told \union cut \/ (job[p].step = "send" /\ c \in job[p].news \union job[p].rest)

\* A brief that names changes names, or leaves to those before it, each one from the first
\* run on and up to its own beginning, whichever run it has taken for the last.
NewsInv ==
    /\ lastRun \in 0..Never /\ since \in 0..Never
    /\ lastRun # Never => lastRun <= now
    /\ \A p \in Procs : Reports(p) => lastRun # Never
    /\ smooth => \A p \in Procs, c \in changes :
         Reports(p) /\ since <= c /\ c < job[p].at => Named(p, c)
    /\ NoChangeFallsBetween

LEMMA InitNews == Init => NewsInv
  BY NoJobIsJob, Bounds DEF Init, NewsInv, Reports, NoChangeFallsBetween

LEMMA NewsTyped ==
  ASSUME IInv, NewsInv
  PROVE  /\ now \in Nat /\ lastRun \in Nat /\ since \in Nat /\ Never \in Nat /\ changes \subseteq Nat
         /\ \A p \in Procs : job[p].at \in Nat /\ job[p] \in Jobs
         /\ \A p \in Procs : job[p].op = "brief" => job[p].at <= now
         /\ \A c \in changes : c <= MaxTime /\ c < Never
  BY Typed, Bounds DEF NewsInv, IInv, SlotsInv, Jobs, Times, Never

\* A process that goes on, and marks no run: it is enough that what it has read, if it is
\* to be in a brief that counts, is complete.
LEMMA NewsKept ==
  ASSUME NewsInv, NEW p \in Procs, UNCHANGED <<now, changes, lastRun, since, smooth>>,
         told \subseteq told', cut \subseteq cut', \A q \in Procs : q # p => job'[q] = job[q],
         Reports(p)' => lastRun # Never,
         smooth /\ Reports(p)' =>
           \A c \in changes : since <= c /\ c < job'[p].at => Named(p, c)'
  PROVE  NewsInv'
  <1>1. \A q \in Procs : q # p => (Reports(q)' <=> Reports(q))
    BY DEF Reports
  <1>2. \A q \in Procs, c \in changes : q # p /\ Named(q, c) => Named(q, c)'
    BY DEF Named
  <1>3. \A q \in Procs : Reports(q)' => lastRun' # Never
    BY <1>1 DEF NewsInv
  <1>4. smooth' => \A q \in Procs, c \in changes' :
          Reports(q)' /\ since' <= c /\ c < job'[q].at => Named(q, c)'
    <2> SUFFICES ASSUME smooth, NEW q \in Procs, NEW c \in changes,
                        Reports(q)', since <= c, c < job'[q].at
                 PROVE  Named(q, c)'
      OBVIOUS
    <2>1. CASE q = p
      BY <2>1
    <2>2. CASE q # p
      BY <1>1, <1>2, <2>2 DEF NewsInv
    <2> QED
      BY <2>1, <2>2
  <1>5. NoChangeFallsBetween'
    BY DEF NewsInv, NoChangeFallsBetween
  <1> QED
    BY <1>3, <1>4, <1>5 DEF NewsInv

\* ... which holds of a process that does not have a brief with changes afterwards.
LEMMA SilentKeeps ==
  ASSUME IInv, NewsInv, NEW p \in Procs, NEW j, job' = [job EXCEPT ![p] = j],
         UNCHANGED <<now, changes, lastRun, since, smooth>>, told \subseteq told', cut \subseteq cut',
         j.op = "brief" => j.first \/ (j.step # "send" /\ ~(j.step \in {"record", "mark"} /\ j.arrived))
  PROVE  NewsInv'
  <1>1. job'[p] = j /\ \A q \in Procs : q # p => job'[q] = job[q]
    BY Typed
  <1>2. ~Reports(p)'
    BY <1>1 DEF Reports
  <1> QED
    BY <1>1, <1>2, NewsKept

\* What a process begins, and whatever ends.
LEMMA BegunKeepsNews ==
  ASSUME IInv, NewsInv, NEW p \in Procs, NEW op, NEW step, NEW at, NEW old, NEW pr,
         job' = [job EXCEPT ![p] = Begun(op, step, at, old, pr)], step # "send",
         UNCHANGED <<now, changes, lastRun, since, smooth, told, cut>>
  PROVE  NewsInv'
  <1> DEFINE j == Begun(op, step, at, old, pr)
  <1>1. j.step = step /\ j.arrived = FALSE /\ job' = [job EXCEPT ![p] = j]
    BY DEF Begun
  <1> HIDE DEF j
  <1> QED
    BY <1>1, SilentKeeps

LEMMA EndKeepsNews ==
  ASSUME IInv, NewsInv, NEW p \in Procs, End(p),
         UNCHANGED <<now, changes, lastRun, since, smooth, told, cut>>
  PROVE  NewsInv'
  BY NoJobIsJob, SilentKeeps DEF End

LEMMA ToMarkKeepsNews ==
  ASSUME IInv, NewsInv, NEW p \in Procs, ToMark(p),
         UNCHANGED <<now, changes, lastRun, since, smooth, told, cut>>
  PROVE  NewsInv'
  <1> DEFINE r == Begun("brief", "mark", job[p].at, 0, Off)
             j == [r EXCEPT !.first = job[p].first]
  <1>1. r.step = "mark" /\ r.arrived = FALSE
    BY DEF Begun
  <1>2. job[p].at \in Times /\ job[p].first \in BOOLEAN /\ Off \in Prefs /\ 0 \in 0..Never
    BY Typed, Bounds DEF Jobs, Off, Prefs
  <1>3. r \in Jobs
    BY <1>2, BegunIsJob, AreSteps
  <1>4. job' = [job EXCEPT ![p] = j]
    BY DEF ToMark
  <1> HIDE DEF r
  <1>5. j.step = "mark" /\ j.arrived = FALSE
    BY <1>1, <1>3 DEF Jobs
  <1> HIDE DEF j
  <1> QED
    BY <1>4, <1>5, SilentKeeps

\* What a brief reads and what was told before it make up all there is to tell.
LEMMA BuildKeepsNews ==
  ASSUME IInv, NewsInv, NEW p \in Procs, Build(p)
  PROVE  NewsInv'
  <1> PICK r \in Jobs : r = job[p]
    BY Typed
  <1> PICK fresh \in SUBSET Times : fresh = IF lastRun = Never THEN {} ELSE {c \in changes : c >= lastRun}
    BY Typed
  <1> PICK b \in BOOLEAN : b = (r.op = "brief" /\ lastRun = Never)
    OBVIOUS
  <1>0. PICK news \in SUBSET fresh :
          job' = [job EXCEPT ![p] = [r EXCEPT !.news = news, !.rest = fresh \ news, !.first = b,
                                              !.step = "send"]]
    BY DEF Build
  <1> PICK rest \in SUBSET Times : rest = fresh \ news
    OBVIOUS
  <1> DEFINE j == [r EXCEPT !.news = news, !.rest = rest, !.first = b, !.step = "send"]
  <1>1. job' = [job EXCEPT ![p] = j] /\ UNCHANGED <<now, changes, lastRun, since, smooth, told, cut>>
    BY <1>0 DEF Build, briefVars, seenVars
  <1>2. /\ j.op = r.op /\ j.news = news /\ j.rest = rest /\ j.first = b /\ j.step = "send"
        /\ j.at = r.at /\ news \union rest = fresh
    BY DEF Jobs
  <1> HIDE DEF j
  <1>3. job'[p] = j /\ \A q \in Procs : q # p => job'[q] = job[q]
    BY <1>1, Typed
  <1>4. Reports(p)' => lastRun # Never
    BY <1>2, <1>3 DEF Reports
  <1>5. ASSUME smooth, Reports(p)', NEW c \in changes, since <= c
        PROVE  Named(p, c)'
    <2>1. lastRun # Never /\ c \in Nat /\ lastRun \in Nat
      BY <1>4, <1>5, NewsTyped
    <2>2. CASE c < lastRun
      BY <1>1, <1>5, <2>1, <2>2 DEF NewsInv, NoChangeFallsBetween, Named
    <2>3. CASE c >= lastRun
      BY <1>2, <1>3, <2>1, <2>3 DEF Named
    <2> QED
      BY <2>1, <2>2, <2>3
  <1> QED
    BY <1>1, <1>3, <1>4, <1>5, NewsKept

LEMMA SendKeepsNews ==
  ASSUME IInv, NewsInv, NEW p \in Procs, Send(p)
  PROVE  NewsInv'
  <1> PICK q \in Jobs : q = job[p]
    BY Typed
  <1>1. PICK reached \in SUBSET Channels :
          /\ told' = IF reached # {} THEN told \union q.news ELSE told
          /\ cut' = IF reached # {} /\ q.op = "brief" THEN cut \union q.rest ELSE cut
          /\ job' = [job EXCEPT ![p] =
               [Begun(q.op, "record", q.at, 0, Off) EXCEPT !.first   = q.first,
                                                           !.arrived = (q.op = "brief" /\ reached # {})]]
    BY DEF Send
  <1> PICK b \in BOOLEAN : b = (q.op = "brief" /\ reached # {})
    OBVIOUS
  <1> DEFINE r == Begun(q.op, "record", q.at, 0, Off)
             j == [r EXCEPT !.first = q.first, !.arrived = b]
  <1>2. q.op \in {"brief", "now"} /\ q.step = "send" /\ UNCHANGED <<now, changes, lastRun, since, smooth>>
    BY DEF Send, At, briefVars
  <1>3. r.op = q.op /\ r.step = "record" /\ r.at = q.at
    BY DEF Begun
  <1>4. r \in Jobs
    <2>1. q.at \in Times /\ Off \in Prefs /\ 0 \in 0..Never
      BY OffIsPref, Bounds DEF Jobs
    <2> QED
      BY <1>2, <2>1, BegunIsJob, AreSteps
  <1>5. job' = [job EXCEPT ![p] = j]
    BY <1>1
  <1> HIDE DEF r
  <1>6. j.op = q.op /\ j.step = "record" /\ j.at = q.at /\ j.first = q.first /\ j.arrived = b
    BY <1>3, <1>4 DEF Jobs
  <1> HIDE DEF j
  <1>7. job'[p] = j /\ \A s \in Procs : s # p => job'[s] = job[s]
    BY <1>5, Typed
  <1>8. Reports(p)' => Reports(p) /\ b
    BY <1>2, <1>6, <1>7 DEF Reports
  <1>9. b => told' = told \union q.news /\ cut' = cut \union q.rest
    BY <1>1
  <1>10. ASSUME smooth, Reports(p)', NEW c \in changes, since <= c, c < job'[p].at
         PROVE  Named(p, c)'
    BY <1>6, <1>7, <1>8, <1>9, <1>10 DEF NewsInv, Named
  <1>11. told \subseteq told' /\ cut \subseteq cut' /\ (Reports(p)' => lastRun # Never)
    BY <1>1, <1>8 DEF NewsInv
  <1> QED
    BY <1>2, <1>7, <1>10, <1>11, NewsKept

LEMMA RecordSentKeepsNews ==
  ASSUME IInv, NewsInv, NEW p \in Procs, RecordSent(p)
  PROVE  NewsInv'
  <1>1. job[p].step = "record" /\ UNCHANGED <<now, changes, lastRun, since, smooth, told, cut>>
    BY DEF RecordSent, At, seenVars
  <1>2. CASE End(p)
    BY <1>1, <1>2, EndKeepsNews
  <1>3. CASE ~End(p)
    <2> DEFINE j == [job[p] EXCEPT !.step = "mark"]
    <2>1. job' = [job EXCEPT ![p] = j]
      BY <1>3 DEF RecordSent, Goto
    <2>2. j.op = job[p].op /\ j.at = job[p].at /\ j.first = job[p].first /\ j.arrived = job[p].arrived
          /\ j.step = "mark"
      BY Typed DEF Jobs
    <2> HIDE DEF j
    <2>3. job'[p] = j /\ \A q \in Procs : q # p => job'[q] = job[q]
      BY <2>1, Typed
    <2>4. Reports(p)' => Reports(p)
      BY <1>1, <2>2, <2>3 DEF Reports
    <2>5. \A c \in changes : Named(p, c) => Named(p, c)'
      BY <1>1 DEF Named
    <2>6. smooth /\ Reports(p)' =>
            \A c \in changes : since <= c /\ c < job'[p].at => Named(p, c)'
      BY <2>2, <2>3, <2>4, <2>5 DEF NewsInv
    <2>7. Reports(p)' => lastRun # Never
      BY <2>4 DEF NewsInv
    <2> QED
      BY <1>1, <2>3, <2>6, <2>7, NewsKept
  <1> QED
    BY <1>2, <1>3

LEMMA ClaimKeepsNews ==
  ASSUME IInv, NewsInv, NEW p \in Procs, Claim(p)
  PROVE  NewsInv'
  <1>1. job[p].step = "claim" /\ UNCHANGED <<now, changes, lastRun, since, smooth, told, cut>>
    BY DEF Claim, At, seenVars
  <1>2. CASE End(p)
    BY <1>1, <1>2, EndKeepsNews
  <1>3. CASE ~End(p)
    <2> DEFINE j == [job[p] EXCEPT !.step = "check"]
    <2>1. job' = [job EXCEPT ![p] = j]
      BY <1>3 DEF Claim, Goto
    <2>2. j.step = "check"
      BY Typed DEF Jobs
    <2> HIDE DEF j
    <2> QED
      BY <1>1, <2>1, <2>2, SilentKeeps
  <1> QED
    BY <1>2, <1>3

\* The run that is marked last is one whose brief told all that came before it, or the
\* first, or one that spoils the record.
LEMMA MarkRunKeepsNews ==
  ASSUME IInv, NewsInv, NEW p \in Procs, MarkRun(p)
  PROVE  NewsInv'
  <1> PICK q \in Jobs : q = job[p]
    BY Typed
  <1>1. /\ q.op = "brief" /\ q.step = "mark" /\ lastRun' = q.at
        /\ since' = IF lastRun = Never \/ (q.first /\ q.at > since) THEN q.at ELSE since
        /\ smooth' = (smooth /\ q.arrived) /\ End(p) /\ UNCHANGED <<now, changes, told, cut>>
    BY DEF MarkRun, At
  <1>2. /\ q.at \in Nat /\ q.at <= now /\ lastRun \in Nat /\ since \in Nat /\ Never \in Nat /\ now \in Nat
        /\ q.at \in Times /\ changes \subseteq Nat
    BY <1>1, NewsTyped DEF Jobs
  <1>3. q.at \in 0..Never /\ q.at # Never /\ now # Never
    BY <1>2, Typed, BoundsAssumption DEF Times, Never
  <1>4. lastRun' \in 0..Never /\ since' \in 0..Never /\ lastRun' # Never /\ lastRun' <= now'
    BY <1>1, <1>2, <1>3 DEF NewsInv
  <1>5. \A s \in Procs : Reports(s)' => s # p /\ Reports(s) /\ job'[s] = job[s]
    BY <1>1, NoJobIsJob, Typed DEF End, Reports
  <1>6. ASSUME NEW s \in Procs, Reports(s)', lastRun = Never
        PROVE  FALSE
    BY <1>5, <1>6 DEF NewsInv
  <1>7. lastRun # Never => since <= since'
    BY <1>1, <1>2
  <1>8. ASSUME smooth', NEW s \in Procs, NEW c \in changes, Reports(s)', since' <= c, c < job'[s].at
        PROVE  Named(s, c)'
    <2>1. smooth /\ c < job[s].at
      BY <1>1, <1>5, <1>8
    <2>3. lastRun # Never
      BY <1>6, <1>8
    <2>4. since <= c
      BY <1>1, <1>2, <1>8, <2>3
    <2>2. Named(s, c)
      BY <1>5, <1>8, <2>1, <2>4 DEF NewsInv
    <2> QED
      BY <1>1, <1>5, <1>8, <2>2 DEF Named
  <1>9. ASSUME smooth', NEW c \in changes, since' <= c, c < lastRun'
        PROVE  c \in told' \union cut'
    <2>1. c \in Nat /\ smooth /\ q.arrived /\ c < q.at
      BY <1>1, <1>2, <1>9
    <2>2. lastRun # Never /\ ~q.first /\ since' = since
      BY <1>1, <1>2, <1>9
    <2>3. Reports(p)
      BY <1>1, <2>1, <2>2 DEF Reports
    <2>4. Named(p, c)
      BY <1>9, <2>1, <2>2, <2>3 DEF NewsInv
    <2> QED
      BY <1>1, <2>4 DEF Named
  <1>10. NoChangeFallsBetween'
    BY <1>1, <1>9 DEF NoChangeFallsBetween
  <1>11. smooth' => \A s \in Procs, c \in changes' :
           Reports(s)' /\ since' <= c /\ c < job'[s].at => Named(s, c)'
    BY <1>1, <1>8
  <1> QED
    BY <1>4, <1>10, <1>11 DEF NewsInv

\* A change comes now: after all that a brief under way is to tell.
LEMMA TimeKeepsNews ==
  ASSUME IInv, NewsInv, Tick \/ Change \/ UNCHANGED vars
  PROVE  NewsInv'
  <1>1. /\ now' \in Nat /\ now <= now' /\ changes' \subseteq changes \union {now}
        /\ UNCHANGED <<job, lastRun, since, smooth, told, cut>> /\ now \in Nat
    BY NewsTyped DEF Tick, Change, vars, briefVars, seenVars
  <1>2. lastRun' # Never => lastRun' <= now'
    BY <1>1, NewsTyped DEF NewsInv
  <1>3. \A p \in Procs : Reports(p)' <=> Reports(p)
    BY <1>1 DEF Reports
  <1>4. \A p \in Procs, c \in changes' : Reports(p) /\ c < job[p].at => c \in changes
    BY <1>1, NewsTyped DEF Reports
  <1>5. smooth => \A p \in Procs, c \in changes' :
          Reports(p)' /\ since <= c /\ c < job[p].at => Named(p, c)'
    BY <1>1, <1>3, <1>4 DEF NewsInv, Named
  <1>6. NoChangeFallsBetween'
    BY <1>1, NewsTyped DEF NewsInv, NoChangeFallsBetween
  <1> QED
    BY <1>1, <1>2, <1>3, <1>5, <1>6 DEF NewsInv

LEMMA StepNews == IInv /\ NewsInv /\ [Next]_vars => NewsInv'
  <1> SUFFICES ASSUME IInv, NewsInv, [Next]_vars PROVE NewsInv'
    OBVIOUS
  <1>1. ASSUME NEW p \in Procs, NEW pr \in Choices, Configure(p, pr) PROVE NewsInv'
    BY <1>1, BegunKeepsNews DEF Configure, seenVars
  <1>2. ASSUME NEW p \in Procs, FindDue(p) \/ SendNow(p) \/ ReadPrefs(p) PROVE NewsInv'
    BY <1>2, BegunKeepsNews DEF FindDue, SendNow, ReadPrefs, briefVars, seenVars
  <1>3. ASSUME NEW p \in Procs, CheckDue(p) PROVE NewsInv'
    <2>1. ToMark(p) \/ job' = [job EXCEPT ![p] = Begun("brief", "build", job[p].at, job[p].old, Off)]
      BY <1>3 DEF CheckDue
    <2>2. UNCHANGED <<now, changes, lastRun, since, smooth, told, cut>>
      BY <1>3 DEF CheckDue, briefVars, seenVars
    <2> QED
      BY <2>1, <2>2, BegunKeepsNews, ToMarkKeepsNews
  <1>4. ASSUME NEW p \in Procs, SetSchedule(p) \/ Crash(p) PROVE NewsInv'
    BY <1>4, EndKeepsNews DEF SetSchedule, Crash, briefVars, seenVars
  <1>5. ASSUME NEW p \in Procs, DeliveryFails(p) PROVE NewsInv'
    BY <1>5, EndKeepsNews, ToMarkKeepsNews DEF DeliveryFails, briefVars, seenVars
  <1> QED
    BY <1>1, <1>2, <1>3, <1>4, <1>5, TimeKeepsNews, ClaimKeepsNews, BuildKeepsNews, SendKeepsNews,
       RecordSentKeepsNews, MarkRunKeepsNews DEF Next, BriefStep

\* As long as scheduled briefs arrive, what changed between two runs is in one, or was before
\* one that had no line left for it or could not read it: however runs of several processes
\* overlap, finish out of order or die, the reader of the last run and the time it is marked
\* with leave no gap.
THEOREM NothingFallsBetween == Spec => []NoChangeFallsBetween
  <1>1. NewsInv => NoChangeFallsBetween
    BY DEF NewsInv
  <1> QED
    BY <1>1, InitInv, StepInv, InitNews, StepNews, PTL DEF Spec
=============================================================================
