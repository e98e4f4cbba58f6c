---------------------------- MODULE AccessProofs ----------------------------
(***************************************************************************)
(* Proofs about acl.yaml, its writers, the invitations and the login page, *)
(* for any number of users, projects and threads and any bounds.           *)
(***************************************************************************)
EXTENDS Access, TLAPS

\* What parses: a list with users in it.
Lists    == UNION {[S -> Person] : S \in (SUBSET Users) \ {{}}}
Text     == Lists \union {Torn}
Giving   == {"member", "invite"}
Writing  == Giving \union {"grants", "accept", "disabled"}
InFile   == {"load", "write", "writing", "revoke"}
Ops      == Writing \union {"reset", "none"}
Somebody == Users \union {"none"}
Link     == [id : 0..MaxTokens, by : Somebody, reset : BOOLEAN]
Project  == Projects \union {"none"}
Values   == Roles \union {"on", "off"}
Steps    == InFile \union {"issue", "reload", "none"}
Job      == [op : Ops, actor : Somebody, was : Person, project : Project, user : Somebody,
             value : Values, grants : [Projects -> Roles], link : Link, step : Steps, data : Text, mixed : BOOLEAN]

\* What a job carries fits what it does.
JobFits(j) ==
    /\ j.step # "none" => j.user \in Users
    /\ j.op \in Giving => j.project \in Projects /\ j.value \in Roles
    /\ j.step \in InFile => j.op \in Writing
    /\ j.step \in {"write", "writing"} => j.data \in Lists
    /\ j.step = "revoke" => j.op = "accept"

TypeInv ==
    /\ file \in Text /\ last \in Text /\ acl \in Text
    /\ version \in Nat /\ tokens \in 0..MaxTokens
    /\ backups \in Text \X Text \X Text
    /\ invites \in [Users -> Link]
    /\ job \in [Workers -> Job] /\ \A w \in Workers : JobFits(job[w])
    /\ login \in [users : Text, mtime : Nat, seen : Nat]
    /\ spent \in SUBSET Nat

\* As long as writers take turns, the file, if it is whole, is the list that their changes
\* make; who is about to write has loaded it, and who writes alone writes what follows.
InTurn(w) ==
    /\ job[w].step = "write" => job[w].data = last
    /\ job[w].step = "writing" /\ ~job[w].mixed => job[w].data = Changed(last, job[w])
TurnInv ==
    last # Torn =>
        /\ file # Torn => file = last
        /\ \A w \in Workers : InTurn(w)
        /\ file = Torn /\ (\E w \in Workers : job[w].step = "write") =>
             \E v \in Workers : job[v].step = "writing"
        /\ file = Torn /\ ~Overlapping => backups[1] = last

\* login-app is never ahead of the file, and has it whole if it has its mtime.
LoginInv ==
    /\ login.mtime <= version /\ login.seen <= version
    /\ file # Torn /\ login.mtime = version => login.users = file

\* A link is handed out once; an open one, and one being accepted, is not spent.
LinkInv ==
    /\ spent \subseteq 1..tokens
    /\ \A u \in Users : invites[u] # NoLink => invites[u].id \in (1..tokens) \ spent
    /\ \A u, v \in Users : u # v /\ invites[u] # NoLink => invites[u].id # invites[v].id
    /\ \A w \in Workers : job[w].op = "accept" =>
         /\ w = Loop /\ job[w].link.id \in 1..tokens
         /\ job[w].step \in InFile => job[w].link.id \notin spent
         /\ \A u \in Users : invites[u].id = job[w].link.id => u = job[w].user

------------------------------------------------------------------------
(* Lists and what is made of them *)

LEMMA ListIs ==
  ASSUME NEW d
  PROVE  d \in Lists <=> \E S \in (SUBSET Users) \ {{}} : d \in [S -> Person]
  BY DEF Lists

LEMMA TornIsNoList == Torn \notin Lists
  <1>1. DOMAIN Torn = {}
    BY DEF Torn
  <1>2. \A d \in Lists : DOMAIN d # {}
    BY ListIs
  <1> QED
    BY <1>1, <1>2

LEMMA NewcomerIsPerson == Newcomer \in Person /\ NoGrants \in [Projects -> Roles]
  BY BoundsAssumption DEF Newcomer, NoGrants, Person, Roles, NoPassword

LEMMA NoLinkIsLink == NoLink \in Link /\ NoLink.id = 0
  BY BoundsAssumption DEF NoLink, Link, Somebody

LEMMA AreSteps ==
  /\ "load" \in Steps /\ "write" \in Steps /\ "writing" \in Steps /\ "revoke" \in Steps
  /\ "issue" \in Steps /\ "reload" \in Steps /\ "none" \in Steps
  BY DEF Steps, InFile

LEMMA NoJobIsJob ==
  /\ NoJob \in Job /\ JobFits(NoJob) /\ NoJob.step = "none" /\ NoJob.op = "none"
  <1>1. NoJob.step = "none" /\ NoJob.op = "none" /\ NoJob.data = Torn
    BY DEF NoJob, Doing, Torn
  <1>2. NoJob \in Job
    <2>1. Torn \in Text
      BY DEF Text
    <2> QED
      BY <2>1, NoLinkIsLink, NewcomerIsPerson, AreSteps
         DEF NoJob, Doing, Job, Ops, Somebody, Project, Values, Roles, Torn
  <1> QED
    BY <1>1, <1>2 DEF JobFits, InFile, Giving

LEMMA WithIsList ==
  ASSUME NEW d \in Lists, NEW u \in Users
  PROVE  With(d, u) \in Lists /\ u \in DOMAIN With(d, u)
  <1>1. PICK S \in (SUBSET Users) \ {{}} : d \in [S -> Person]
    BY ListIs
  <1>2. With(d, u) \in [S \union {u} -> Person]
    BY <1>1, NewcomerIsPerson DEF With
  <1>3. S \union {u} \in (SUBSET Users) \ {{}}
    BY <1>1
  <1> QED
    BY <1>2, <1>3, ListIs

\* A list in which what it says of one user is replaced is a list.
LEMMA ReplacedIsList ==
  ASSUME NEW d \in Lists, NEW e, NEW u, DOMAIN e = DOMAIN d,
         \A v \in DOMAIN d : v # u => e[v] = d[v],
         u \in DOMAIN d => e[u] \in Person,
         e = [v \in DOMAIN d |-> e[v]]
  PROVE  e \in Lists
  <1>1. PICK S \in (SUBSET Users) \ {{}} : d \in [S -> Person]
    BY ListIs
  <1>2. \A v \in S : e[v] \in Person
    BY <1>1
  <1>3. e \in [S -> Person]
    BY <1>1, <1>2
  <1> QED
    BY <1>3, ListIs

LEMMA PersonOf ==
  ASSUME NEW d \in Lists, NEW u \in DOMAIN d
  PROVE  d[u] \in Person
  BY ListIs

LEMMA ChangedIsList ==
  ASSUME NEW d \in Lists, NEW j \in Job, JobFits(j), j.user \in Users, j.op \in Writing
  PROVE  Changed(d, j) \in Lists
  <1>1. With(d, j.user) \in Lists /\ j.user \in DOMAIN With(d, j.user)
    BY WithIsList
  <1>2. CASE j.op \in Giving
    <2> DEFINE e == With(d, j.user)
               p == [e[j.user] EXCEPT !.grants = [@ EXCEPT ![j.project] = j.value]]
    <2>1. e[j.user] \in Person
      BY <1>1, PersonOf
    <2>2. j.project \in Projects /\ j.value \in Roles
      BY <1>2 DEF JobFits
    <2>3. p \in Person
      BY <2>1, <2>2 DEF Person
    <2>4. Changed(d, j) = [e EXCEPT ![j.user] = p]
      BY <1>2 DEF Changed, Granted, Giving
    <2> HIDE DEF e, p
    <2> QED
      BY <1>1, <2>3, <2>4, ReplacedIsList DEF e
  <1>2a. CASE j.op = "grants"
    <2> DEFINE e == With(d, j.user)
               p == [e[j.user] EXCEPT !.grants = j.grants]
    <2>1. e[j.user] \in Person /\ j.grants \in [Projects -> Roles]
      BY <1>1, PersonOf DEF Job
    <2>2. p \in Person
      BY <2>1 DEF Person
    <2>3. Changed(d, j) = [e EXCEPT ![j.user] = p]
      BY <1>2a DEF Changed
    <2> HIDE DEF e, p
    <2> QED
      BY <1>1, <2>2, <2>3, ReplacedIsList DEF e
  <1>3. CASE j.op = "accept"
    <2> DEFINE p == [d[j.user] EXCEPT !.password = j.link.id]
    <2>1. j.link.id \in 0..MaxTokens
      BY DEF Job, Link
    <2>2. j.user \in DOMAIN d => p \in Person
      BY <2>1, PersonOf DEF Person
    <2>3. Changed(d, j) = [d EXCEPT ![j.user] = p]
      BY <1>3 DEF Changed
    <2> HIDE DEF p
    <2> QED
      BY <2>2, <2>3, ReplacedIsList
  <1>4. CASE j.op = "disabled"
    <2> DEFINE e == With(d, j.user)
               p == [e[j.user] EXCEPT !.disabled = (j.value = "off")]
    <2>1. e[j.user] \in Person
      BY <1>1, PersonOf
    <2>2. p \in Person
      BY <2>1 DEF Person
    <2>3. Changed(d, j) = [e EXCEPT ![j.user] = p]
      BY <1>4 DEF Changed
    <2> HIDE DEF e, p
    <2> QED
      BY <1>1, <2>2, <2>3, ReplacedIsList DEF e
  <1> QED
    BY <1>2, <1>2a, <1>3, <1>4 DEF Writing

------------------------------------------------------------------------
(* Types.  Every operation begins in the same way. *)

Enters(w, j) ==
    /\ job[w] = NoJob /\ j \in Job /\ JobFits(j) /\ j.step \in {"load", "issue"}
    /\ j.op = "accept" => w = Loop /\ j.user \in Users /\ j.link # NoLink /\ invites[j.user] = j.link
    /\ job' = [job EXCEPT ![w] = j]
    /\ UNCHANGED <<file, version, backups, acl, invites, tokens, login, last, spent>>

Entering == \E w \in Workers : \E j \in Job : Enters(w, j)

LEMMA BeginEnters ==
  ASSUME NEW w \in Workers, NEW j \in Job, JobFits(j), j.step \in {"load", "issue"}, Begin(w, j),
         j.op = "accept" => w = Loop /\ j.user \in Users /\ j.link # NoLink /\ invites[j.user] = j.link
  PROVE  Entering
  BY DEF Begin, Enters, Entering

LEMMA DoingFits ==
  ASSUME NEW op \in Ops, NEW a \in Somebody, NEW p \in Project, NEW u \in Users, NEW v \in Values,
         NEW link \in Link, NEW step \in {"load", "issue"}, NEW j, j = Doing(op, a, p, u, v, link, step),
         op \in Giving => p \in Projects /\ v \in Roles, step = "load" => op \in Writing
  PROVE  /\ j \in Job /\ JobFits(j) /\ j.op = op /\ j.user = u /\ j.link = link /\ j.step = step
         /\ \A person \in Person :
              /\ [j EXCEPT !.was = person] \in Job /\ JobFits([j EXCEPT !.was = person])
              /\ [j EXCEPT !.was = person].op = op /\ [j EXCEPT !.was = person].step = step
  <1>1. step \in Steps /\ u \in Somebody /\ Torn \in Text
    BY AreSteps DEF Somebody, Text
  <1>2. j.op = op /\ j.project = p /\ j.user = u /\ j.value = v /\ j.link = link /\ j.step = step
    BY DEF Doing
  <1>3. j \in Job
    BY <1>1, NewcomerIsPerson DEF Doing, Job, Torn
  <1>4. JobFits(j)
    BY <1>2 DEF JobFits, InFile
  <1>5. ASSUME NEW person \in Person
        PROVE  /\ [j EXCEPT !.was = person] \in Job /\ JobFits([j EXCEPT !.was = person])
               /\ [j EXCEPT !.was = person].op = op /\ [j EXCEPT !.was = person].step = step
    <2> DEFINE k == [j EXCEPT !.was = person]
    <2>1. k \in Job
      BY <1>3 DEF Job
    <2>2. k.op = op /\ k.project = p /\ k.user = u /\ k.value = v /\ k.step = step
      BY <1>2, <1>3 DEF Job
    <2>3. JobFits(k)
      BY <2>2 DEF JobFits, InFile
    <2> QED
      BY <2>1, <2>2, <2>3
  <1> QED
    BY <1>2, <1>3, <1>4, <1>5

\* What anybody may ask for, at any of the doors.
Asked ==
    \/ \E w \in Workers, a \in Users, p \in Projects, u \in Users :
         \/ \E role \in Given : SetMember(w, a, p, u, role) \/ Invite(w, a, p, u, role)
         \/ ResetLink(w, a, p, u)
    \/ \E u \in Users : Accept(u, invites[u])
    \/ \E a, u \in Users :
         \/ \E off \in BOOLEAN : SetDisabled(a, u, off)
         \/ \E grants \in [Projects -> Given \union {"none"}] : SetGrants(a, u, grants)

LEMMA FileIsText ==
  ASSUME TypeInv
  PROVE  /\ file # Torn => file \in Lists
         /\ last # Torn => last \in Lists
         /\ Torn \in Text /\ Lists \subseteq Text
  BY DEF TypeInv, Text

LEMMA AskedEnters ==
  ASSUME TypeInv, Asked
  PROVE  Entering
  <1>1. Given \subseteq Roles /\ Loop \in Workers /\ NoLink \in Link /\ "none" \in Roles
        /\ Users \subseteq Somebody /\ "none" \in Project /\ Projects \subseteq Project
        /\ Roles \subseteq Values /\ {"none", "on", "off"} \subseteq Values
    BY GivenAssumption, NoLinkIsLink DEF Workers, Roles, Somebody, Project, Values
  <1>1a. /\ \A op \in {"grants", "accept", "disabled"} : op \in Ops /\ op \in Writing /\ op \notin Giving
         /\ \A op \in Giving : op \in Ops /\ op \in Writing
         /\ "reset" \in Ops /\ "reset" \notin Giving
    BY DEF Ops, Writing, Giving
  <1>2. ASSUME NEW w \in Workers, NEW a \in Users, NEW p \in Projects, NEW u \in Users,
               NEW role \in Given, NEW op \in {"member", "invite"}, file # Torn, a \in DOMAIN file,
               Begin(w, [Doing(op, a, p, u, role, NoLink, "load") EXCEPT !.was = file[a]])
        PROVE  Entering
    <2>1. PICK j : j = Doing(op, a, p, u, role, NoLink, "load")
      OBVIOUS
    <2>2. PICK person \in Person : person = file[a]
      BY <1>2, FileIsText, PersonOf
    <2>3. PICK k : k = [j EXCEPT !.was = person]
      OBVIOUS
    <2>4. k \in Job /\ JobFits(k) /\ k.op = op /\ k.step = "load"
      BY <1>1, <2>1, <2>3, <1>1a, DoingFits DEF Giving
    <2>5. Begin(w, k)
      BY <1>2, <2>1, <2>2, <2>3
    <2> QED
      BY <2>4, <2>5, BeginEnters
  <1>3. ASSUME NEW w \in Workers, NEW a \in Users, NEW p \in Projects, NEW u \in Users,
               NEW role \in Given, SetMember(w, a, p, u, role) \/ Invite(w, a, p, u, role)
        PROVE  Entering
    BY <1>2, <1>3 DEF SetMember, Invite, MayManage, Live
  <1>4. ASSUME NEW w \in Workers, NEW a \in Users, NEW p \in Projects, NEW u \in Users,
               ResetLink(w, a, p, u)
        PROVE  Entering
    <2>1. PICK j : j = Doing("reset", a, p, u, "none", NoLink, "issue")
      OBVIOUS
    <2>2. j \in Job /\ JobFits(j) /\ j.op = "reset" /\ j.step = "issue"
      BY <1>1, <2>1, <1>1a, DoingFits
    <2> QED
      BY <1>4, <2>1, <2>2, BeginEnters DEF ResetLink
  <1>5. ASSUME NEW u \in Users, Accept(u, invites[u])
        PROVE  Entering
    <2>1. invites[u] \in Link /\ invites[u].by \in Somebody
      BY DEF TypeInv, Link
    <2>2. PICK j : j = Doing("accept", invites[u].by, "none", u, "none", invites[u], "load")
      OBVIOUS
    <2>3. j \in Job /\ JobFits(j) /\ j.user = u /\ j.link = invites[u] /\ j.step = "load"
      BY <1>1, <2>1, <2>2, <1>1a, DoingFits
    <2> QED
      BY <1>1, <1>5, <2>2, <2>3, BeginEnters DEF Accept
  <1>6. ASSUME NEW a \in Users, NEW u \in Users, NEW off \in BOOLEAN, SetDisabled(a, u, off)
        PROVE  Entering
    <2>1. PICK v \in {"on", "off"} : Begin(Loop, Doing("disabled", a, "none", u, v, NoLink, "load"))
      BY <1>6 DEF SetDisabled
    <2>2. PICK j : j = Doing("disabled", a, "none", u, v, NoLink, "load")
      OBVIOUS
    <2>3. j \in Job /\ JobFits(j) /\ j.op = "disabled" /\ j.step = "load"
      BY <1>1, <2>2, <1>1a, DoingFits
    <2> QED
      BY <1>1, <2>1, <2>2, <2>3, BeginEnters
  <1>7. ASSUME NEW a \in Users, NEW u \in Users, NEW grants \in [Projects -> Given \union {"none"}],
               SetGrants(a, u, grants)
        PROVE  Entering
    <2>1. PICK j : j = Doing("grants", a, "none", u, "none", NoLink, "load")
      OBVIOUS
    <2>2. grants \in [Projects -> Roles]
      BY <1>1
    <2>3. PICK k : k = [j EXCEPT !.grants = grants]
      OBVIOUS
    <2>4. j \in Job /\ JobFits(j) /\ j.op = "grants" /\ j.user = u /\ j.step = "load"
      BY <1>1, <1>1a, <2>1, DoingFits
    <2>5. k \in Job /\ k.op = "grants" /\ k.user = u /\ k.step = "load"
      BY <2>2, <2>3, <2>4 DEF Job
    <2>6. JobFits(k)
      BY <1>1a, <2>4, <2>5 DEF JobFits, InFile
    <2> QED
      BY <1>1, <1>7, <2>1, <2>3, <2>5, <2>6, BeginEnters DEF SetGrants
  <1> QED
    BY <1>3, <1>4, <1>5, <1>6, <1>7 DEF Asked

\* Types are kept when one worker's job changes to a job that fits.
LEMMA JobKeepsTypes ==
  ASSUME TypeInv, NEW w \in Workers, NEW j \in Job, JobFits(j), job' = [job EXCEPT ![w] = j]
  PROVE  job' \in [Workers -> Job] /\ \A v \in Workers : JobFits(job'[v])
  BY DEF TypeInv

LEMMA EnterKeepsTypes ==
  ASSUME TypeInv, Entering
  PROVE  TypeInv'
  <1>1. PICK w \in Workers : \E j \in Job : Enters(w, j)
    BY DEF Entering
  <1>2. PICK j \in Job : Enters(w, j)
    BY <1>1
  <1>3. job' \in [Workers -> Job] /\ \A v \in Workers : JobFits(job'[v])
    BY <1>2, JobKeepsTypes DEF Enters
  <1> QED
    BY <1>2, <1>3 DEF Enters, TypeInv

\* A job that only moves on to its next step still fits.
LEMMA GotoFits ==
  ASSUME TypeInv, NEW w \in Workers, NEW s \in {"issue", "reload", "revoke", "none"},
         Goto(w, s), job[w].step # "none", s = "revoke" => job[w].op = "accept"
  PROVE  /\ job' \in [Workers -> Job] /\ \A v \in Workers : JobFits(job'[v])
         /\ job'[w].step = s /\ job'[w].op = job[w].op /\ job'[w].user = job[w].user
         /\ job'[w].link = job[w].link /\ \A v \in Workers \ {w} : job'[v] = job[v]
  <1> DEFINE j == [job[w] EXCEPT !.step = s]
  <1>1. job[w] \in Job /\ JobFits(job[w])
    BY DEF TypeInv
  <1>2. j \in Job /\ j.step = s /\ j.op = job[w].op /\ j.user = job[w].user /\ j.link = job[w].link
        /\ j.project = job[w].project /\ j.value = job[w].value
    BY <1>1, AreSteps DEF Job
  <1>3. job' = [job EXCEPT ![w] = j]
    BY DEF Goto
  <1> HIDE DEF j
  <1>4. JobFits(j)
    BY <1>1, <1>2 DEF JobFits, InFile, Writing
  <1> QED
    BY <1>2, <1>3, <1>4, JobKeepsTypes DEF TypeInv

LEMMA EndFits ==
  ASSUME TypeInv, NEW w \in Workers, End(w)
  PROVE  /\ job' \in [Workers -> Job] /\ \A v \in Workers : JobFits(job'[v])
         /\ job'[w] = NoJob /\ \A v \in Workers \ {w} : job'[v] = job[v]
  BY NoJobIsJob, JobKeepsTypes DEF End, TypeInv

\* What a job in the file knows.
LEMMA InFileKnows ==
  ASSUME TypeInv, NEW w \in Workers
  PROVE  /\ job[w] \in Job /\ JobFits(job[w])
         /\ job[w].step # "none" => job[w].user \in Users
         /\ job[w].step \in InFile => job[w].op \in Writing
         /\ job[w].step \in {"write", "writing"} => job[w].data \in Lists
         /\ job[w].step = "revoke" => job[w].op = "accept"
  BY DEF TypeInv, JobFits

LEMMA LoadMoves ==
  ASSUME TypeInv, NEW w \in Workers, Load(w), file # Torn
  PROVE  /\ job' \in [Workers -> Job] /\ \A v \in Workers : JobFits(job'[v])
         /\ job'[w].step = "write" /\ job'[w].data = file
         /\ job'[w].op = job[w].op /\ job'[w].user = job[w].user /\ job'[w].link = job[w].link
         /\ \A v \in Workers \ {w} : job'[v] = job[v]
  <1> DEFINE j == [job[w] EXCEPT !.data = file, !.step = "write"]
  <1>1. job[w] \in Job /\ JobFits(job[w]) /\ file \in Lists /\ file \in Text /\ job[w].step = "load"
    BY InFileKnows, FileIsText DEF Load
  <1>2. j \in Job /\ j.step = "write" /\ j.data = file /\ j.op = job[w].op /\ j.user = job[w].user
        /\ j.link = job[w].link /\ j.project = job[w].project /\ j.value = job[w].value
    BY <1>1, AreSteps DEF Job
  <1>3. job' = [job EXCEPT ![w] = j]
    BY <1>1 DEF Load
  <1> HIDE DEF j
  <1>4. JobFits(j)
    BY <1>1, <1>2 DEF JobFits, InFile
  <1> QED
    BY <1>2, <1>3, <1>4, JobKeepsTypes DEF TypeInv

LEMMA LoadKeepsTypes ==
  ASSUME TypeInv, NEW w \in Workers, Load(w)
  PROVE  TypeInv'
  <1>1. last' \in Text
    BY DEF Load, TypeInv
  <1>2. job' \in [Workers -> Job] /\ \A v \in Workers : JobFits(job'[v])
    <2>1. CASE file # Torn
      BY <2>1, LoadMoves
    <2>2. CASE file = Torn
      BY <2>2, EndFits DEF Load
    <2> QED
      BY <2>1, <2>2
  <1> QED
    BY <1>1, <1>2 DEF Load, TypeInv

\* Who else is over the file when w begins to write.
Others(w) == {v \in Workers \ {w} : job[v].step = "writing"}

LEMMA WriteStarts ==
  ASSUME TypeInv, NEW w \in Workers, StartWrite(w), Fits(job[w].data, job[w])
  PROVE  /\ job' \in [Workers -> Job] /\ \A v \in Workers : JobFits(job'[v])
         /\ job'[w].step = "writing" /\ job'[w].data = Changed(job[w].data, job[w])
         /\ job'[w].mixed = (Others(w) # {})
         /\ \A v \in Workers : /\ job'[v].op = job[v].op /\ job'[v].user = job[v].user
                               /\ job'[v].link = job[v].link /\ job'[v].project = job[v].project
                               /\ job'[v].value = job[v].value /\ job'[v].grants = job[v].grants
         /\ \A v \in Others(w) : /\ job'[v].step = "writing" /\ job'[v].data = job[v].data
                                 /\ job'[v].mixed
         /\ \A v \in Workers \ ({w} \union Others(w)) : job'[v] = job[v]
         /\ file' = Torn /\ version' = version + 1 /\ backups' = Rotate(backups, file)
         /\ UNCHANGED <<acl, invites, tokens, login, last, spent>>
  <1> PICK r \in Job : r = job[w]
    BY InFileKnows
  <1> PICK d : d = Changed(job[w].data, job[w])
    OBVIOUS
  <1> PICK m \in BOOLEAN : m = (Others(w) # {})
    OBVIOUS
  <1> DEFINE k == [r EXCEPT !.data = d, !.step = "writing", !.mixed = m]
             other(v) == [job[v] EXCEPT !.mixed = TRUE]
  <1>1. /\ job[w] \in Job /\ JobFits(job[w]) /\ job[w].step = "write"
        /\ job[w].data \in Lists /\ job[w].op \in Writing /\ job[w].user \in Users
    BY InFileKnows DEF StartWrite, InFile
  <1>2. d \in Lists /\ d \in Text
    BY <1>1, ChangedIsList, FileIsText
  <1>3. k \in Job /\ k.step = "writing" /\ k.data = d /\ k.mixed = m
        /\ k.op = r.op /\ k.user = r.user /\ k.link = r.link
        /\ k.project = r.project /\ k.value = r.value /\ k.grants = r.grants
    <2>1. k \in Job
      BY <1>2, AreSteps DEF Job
    <2>2. k.step = "writing" /\ k.data = d /\ k.mixed = m /\ k.op = r.op /\ k.user = r.user
      BY DEF Job
    <2>3. k.link = r.link /\ k.project = r.project /\ k.value = r.value /\ k.grants = r.grants
      BY DEF Job
    <2> QED
      BY <2>1, <2>2, <2>3
  <1>4. ASSUME NEW v \in Workers
        PROVE  /\ other(v) \in Job /\ other(v).step = job[v].step /\ other(v).data = job[v].data
               /\ other(v).mixed /\ other(v).op = job[v].op /\ other(v).user = job[v].user
               /\ other(v).link = job[v].link /\ other(v).project = job[v].project
               /\ other(v).value = job[v].value /\ other(v).grants = job[v].grants
    <2> PICK q \in Job : q = job[v]
      BY InFileKnows
    <2> DEFINE x == [q EXCEPT !.mixed = TRUE]
    <2>1. x \in Job
      BY DEF Job
    <2>2. x.step = q.step /\ x.data = q.data /\ x.mixed /\ x.op = q.op /\ x.user = q.user
      BY DEF Job
    <2>3. x.link = q.link /\ x.project = q.project /\ x.value = q.value /\ x.grants = q.grants
      BY DEF Job
    <2> QED
      BY <2>1, <2>2, <2>3
  <1>5. job' = [v \in Workers |-> IF v = w THEN k ELSE IF v \in Others(w) THEN other(v) ELSE job[v]]
    BY DEF StartWrite, Others
  <1>6. file' = Torn /\ version' = version + 1 /\ backups' = Rotate(backups, file)
        /\ UNCHANGED <<acl, invites, tokens, login, last, spent>>
    BY DEF StartWrite
  <1>7. \A v \in Workers : job[v] \in Job /\ JobFits(job[v])
    BY InFileKnows
  <1>8. \A v \in Others(w) : v # w /\ job[v].step = "writing"
    BY DEF Others
  <1> HIDE DEF k, other
  <1>9. JobFits(k)
    BY <1>1, <1>2, <1>3 DEF JobFits, InFile
  <1>10. \A v \in Workers : JobFits(other(v))
    BY <1>4, <1>7 DEF JobFits
  <1>11. job' \in [Workers -> Job] /\ \A v \in Workers : JobFits(job'[v])
    BY <1>3, <1>4, <1>5, <1>7, <1>9, <1>10
  <1>12. job'[w] = k
    BY <1>5
  <1>13. \A v \in Others(w) : job'[v] = other(v)
    BY <1>5, <1>8 DEF Others
  <1>14. \A v \in Workers \ ({w} \union Others(w)) : job'[v] = job[v]
    BY <1>5
  <1>15. \A v \in Workers : /\ job'[v].op = job[v].op /\ job'[v].user = job[v].user
                            /\ job'[v].link = job[v].link /\ job'[v].project = job[v].project
                            /\ job'[v].value = job[v].value /\ job'[v].grants = job[v].grants
    BY <1>3, <1>4, <1>12, <1>13, <1>14
  <1> QED
    BY <1>3, <1>4, <1>6, <1>8, <1>11, <1>12, <1>13, <1>14, <1>15 DEF Others

LEMMA StartWriteKeepsTypes ==
  ASSUME TypeInv, NEW w \in Workers, StartWrite(w)
  PROVE  TypeInv'
  <1>1. CASE Fits(job[w].data, job[w])
    <2>1. /\ job' \in [Workers -> Job] /\ \A v \in Workers : JobFits(job'[v])
          /\ file' = Torn /\ version' = version + 1 /\ backups' = Rotate(backups, file)
          /\ UNCHANGED <<acl, invites, tokens, login, last, spent>>
      BY <1>1, WriteStarts
    <2>2. backups' \in Text \X Text \X Text
      BY <2>1 DEF Rotate, TypeInv
    <2>3. file' \in Text
      BY <2>1, FileIsText
    <2> QED
      BY <2>1, <2>2, <2>3 DEF TypeInv
  <1>2. CASE ~Fits(job[w].data, job[w])
    <2>1. End(w) /\ UNCHANGED <<file, version, backups, acl, invites, tokens, login, last, spent>>
      BY <1>2 DEF StartWrite
    <2> QED
      BY <2>1, EndFits DEF TypeInv
  <1> QED
    BY <1>1, <1>2

LEMMA NextSteps ==
  ASSUME TypeInv, NEW w \in Workers, FinishWrite(w)
  PROVE  /\ NextStep(job[w]) \in {"issue", "reload", "revoke"}
         /\ NextStep(job[w]) = "revoke" => job[w].op = "accept"
  <1> DEFINE j == job[w]
  <1>1. CASE j.op = "accept"
    BY <1>1 DEF NextStep
  <1>2. CASE j.op = "invite" /\ j.data[j.user].password = NoPassword
    BY <1>2 DEF NextStep
  <1>3. CASE j.op # "accept" /\ ~(j.op = "invite" /\ j.data[j.user].password = NoPassword)
    BY <1>3 DEF NextStep
  <1> QED
    BY <1>1, <1>2, <1>3

LEMMA FinishWriteMoves ==
  ASSUME TypeInv, NEW w \in Workers, FinishWrite(w)
  PROVE  /\ job' \in [Workers -> Job] /\ \A v \in Workers : JobFits(job'[v])
         /\ job'[w].step \in {"issue", "reload", "revoke"}
         /\ job'[w].op = job[w].op /\ job'[w].user = job[w].user /\ job'[w].link = job[w].link
         /\ \A v \in Workers \ {w} : job'[v] = job[v]
  <1>1. Goto(w, NextStep(job[w])) /\ job[w].step # "none"
    BY DEF FinishWrite
  <1> QED
    BY <1>1, GotoFits, NextSteps

LEMMA FinishWriteKeepsTypes ==
  ASSUME TypeInv, NEW w \in Workers, FinishWrite(w)
  PROVE  TypeInv'
  <1>1. /\ job[w] \in Job /\ JobFits(job[w]) /\ job[w].step = "writing"
        /\ job[w].data \in Lists /\ job[w].op \in Writing /\ job[w].user \in Users
    BY InFileKnows DEF FinishWrite, InFile
  <1>2. file' \in Text
    BY <1>1, FileIsText DEF FinishWrite
  <1>3. last' \in Text
    BY <1>1, FileIsText, ChangedIsList DEF FinishWrite
  <1>4. job' \in [Workers -> Job] /\ \A v \in Workers : JobFits(job'[v])
    BY FinishWriteMoves
  <1> QED
    BY <1>2, <1>3, <1>4 DEF FinishWrite, TypeInv

LEMMA IssueMoves ==
  ASSUME TypeInv, NEW w \in Workers, Issue(w)
  PROVE  /\ job' \in [Workers -> Job] /\ \A v \in Workers : JobFits(job'[v])
         /\ job'[w].step \in {"none", "reload"}
         /\ job'[w].op = "accept" => job[w].op = "accept"
         /\ job'[w].op = "accept" => job'[w].user = job[w].user /\ job'[w].link = job[w].link
         /\ \A v \in Workers \ {w} : job'[v] = job[v]
  <1>1. job[w].step = "issue"
    BY DEF Issue
  <1>2. CASE job[w].op = "reset"
    BY <1>2, EndFits, NoJobIsJob DEF Issue, Rest
  <1>3. CASE job[w].op # "reset"
    <2>1. Goto(w, "reload")
      BY <1>3 DEF Issue, Rest
    <2> QED
      BY <1>1, <2>1, GotoFits
  <1> QED
    BY <1>2, <1>3

LEMMA IssueKeepsTypes ==
  ASSUME TypeInv, NEW w \in Workers, Issue(w)
  PROVE  TypeInv'
  <1>1. job[w] \in Job /\ job[w].user \in Users /\ job[w].actor \in Somebody
    BY InFileKnows DEF Issue, Job
  <1>2. tokens' \in 0..MaxTokens
    BY BoundsAssumption DEF Issue, TypeInv
  <1>3. invites' \in [Users -> Link]
    BY <1>1, <1>2 DEF Issue, TypeInv, Link
  <1> QED
    BY <1>2, <1>3, IssueMoves DEF Issue, TypeInv

LEMMA RevokeKeepsTypes ==
  ASSUME TypeInv, NEW w \in Workers, Revoke(w)
  PROVE  TypeInv'
  <1>1. job[w] \in Job /\ job[w].user \in Users /\ job[w].link.id \in Nat
    BY InFileKnows DEF Revoke, Job, Link
  <1>2. invites' \in [Users -> Link] /\ spent' \in SUBSET Nat
    BY <1>1, NoLinkIsLink DEF Revoke, TypeInv
  <1>3. Goto(w, "reload") /\ job[w].step # "none"
    BY DEF Revoke
  <1> QED
    BY <1>2, <1>3, GotoFits DEF Revoke, TypeInv

LEMMA ReloadKeepsTypes ==
  ASSUME TypeInv, NEW w \in Workers, Reload(w)
  PROVE  TypeInv'
  BY EndFits DEF Reload, TypeInv

LEMMA CrashKeepsTypes ==
  ASSUME TypeInv, Crash
  PROVE  TypeInv'
  <1>1. job' \in [Workers -> Job] /\ \A w \in Workers : JobFits(job'[w])
    BY NoJobIsJob DEF Crash
  <1> QED
    BY <1>1, FileIsText DEF Crash, TypeInv

LEMMA RestoreKeepsTypes ==
  ASSUME TypeInv, Restore
  PROVE  TypeInv'
  <1>1. file' \in Text
    BY DEF Restore, Good, TypeInv
  <1> QED
    BY <1>1 DEF Restore, TypeInv

LEMMA LoginKeepsTypes ==
  ASSUME TypeInv, StatFile \/ ReadFile
  PROVE  TypeInv'
  <1>1. login' \in [users : Text, mtime : Nat, seen : Nat]
    BY DEF StatFile, ReadFile, TypeInv
  <1> QED
    BY <1>1 DEF StatFile, ReadFile, TypeInv

LEMMA AtFirstIsList == AtFirst \in Lists
  <1> DEFINE Who == Admins \union Owners
             Own(u) == [p \in Projects |-> IF u \in Owners THEN "owner" ELSE "none"]
             Person1(u) == [Newcomer EXCEPT !.admin = u \in Admins, !.grants = Own(u)]
  <1>1. Who \in (SUBSET Users) \ {{}}
    BY UsersAssumption, AdminAssumption
  <1>2. ASSUME NEW u \in Who
        PROVE  Person1(u) \in Person
    <2>1. Own(u) \in [Projects -> Roles]
      BY DEF Roles
    <2>2. (u \in Admins) \in BOOLEAN
      OBVIOUS
    <2> HIDE DEF Own
    <2> QED
      BY <2>1, <2>2, NewcomerIsPerson DEF Person
  <1>3. AtFirst = [u \in Who |-> Person1(u)]
    BY DEF AtFirst
  <1> HIDE DEF Who, Person1
  <1>4. AtFirst \in [Who -> Person]
    BY <1>2, <1>3
  <1> QED
    BY <1>1, <1>4, ListIs

LEMMA InitTypes == Init => TypeInv
  <1> SUFFICES ASSUME Init PROVE TypeInv
    OBVIOUS
  <1>1. AtFirst \in Text
    BY AtFirstIsList DEF Text
  <1>2. job \in [Workers -> Job] /\ \A w \in Workers : JobFits(job[w])
    BY NoJobIsJob DEF Init
  <1>3. invites \in [Users -> Link] /\ tokens \in 0..MaxTokens
    BY NoLinkIsLink, BoundsAssumption DEF Init
  <1> QED
    BY <1>1, <1>2, <1>3 DEF Init, TypeInv

\* The steps of the system, with the doors taken together.
LEMMA NextCases ==
  Next <=> \/ Asked
           \/ \E w \in Workers : WriterStep(w)
           \/ Crash \/ Restore \/ StatFile \/ ReadFile
  BY DEF Next, Asked

LEMMA NextKeepsTypes ==
  ASSUME TypeInv, [Next]_vars
  PROVE  TypeInv'
  <1>1. CASE Asked
    BY <1>1, AskedEnters, EnterKeepsTypes
  <1>2. ASSUME NEW w \in Workers, WriterStep(w)
        PROVE  TypeInv'
    BY <1>2, LoadKeepsTypes, StartWriteKeepsTypes, FinishWriteKeepsTypes, IssueKeepsTypes,
       RevokeKeepsTypes, ReloadKeepsTypes DEF WriterStep
  <1>3. CASE UNCHANGED vars
    BY <1>3 DEF vars, TypeInv
  <1> QED
    BY <1>1, <1>2, <1>3, NextCases, CrashKeepsTypes, RestoreKeepsTypes, LoginKeepsTypes

\* The types of every reachable state: a file, a backup or a list in memory is a list of
\* users or torn, no link beyond the bound is handed out, and every job fits its operation.
THEOREM Types == Spec => []TypeInv
  <1>1. TypeInv /\ [Next]_vars => TypeInv'
    BY NextKeepsTypes
  <1> QED
    BY <1>1, InitTypes, PTL DEF Spec

------------------------------------------------------------------------
(* Writers that take turns *)

\* A change is the same whatever step its job is at.
LEMMA ChangedIgnores ==
  ASSUME NEW d, NEW i, NEW j, i.op = j.op, i.user = j.user, i.project = j.project,
         i.value = j.value, i.grants = j.grants, i.link = j.link
  PROVE  Changed(d, i) = Changed(d, j)
  BY DEF Changed, Granted

\* A step of one worker that is not over the file, and does not come to be, changes nothing.
LEMMA AsideKeepsTurns ==
  ASSUME TurnInv, NEW w \in Workers, UNCHANGED <<file, last, backups>>,
         \A v \in Workers \ {w} : job'[v] = job[v],
         job[w].step # "writing", job'[w].step \notin {"write", "writing"}
  PROVE  TurnInv'
  <1> SUFFICES ASSUME last' # Torn
               PROVE  /\ file' # Torn => file' = last'
                      /\ \A v \in Workers : InTurn(v)'
                      /\ file' = Torn /\ (\E v \in Workers : job'[v].step = "write") =>
                           \E v \in Workers : job'[v].step = "writing"
                      /\ file' = Torn /\ ~Overlapping' => backups'[1] = last'
    BY DEF TurnInv
  <1>1. last # Torn
    OBVIOUS
  <1>2. \A v \in Workers : InTurn(v)'
    BY <1>1 DEF TurnInv, InTurn
  <1>3. file' = Torn /\ (\E v \in Workers : job'[v].step = "write") =>
          \E v \in Workers : job'[v].step = "writing"
    BY <1>1 DEF TurnInv
  <1>4. Overlapping => Overlapping'
    BY DEF Overlapping
  <1> QED
    BY <1>1, <1>2, <1>3, <1>4 DEF TurnInv

LEMMA EnterKeepsTurns ==
  ASSUME TypeInv, TurnInv, Entering
  PROVE  TurnInv'
  <1>1. PICK w \in Workers : \E j \in Job : Enters(w, j)
    BY DEF Entering
  <1>2. PICK j \in Job : Enters(w, j)
    BY <1>1
  <1>3. /\ job'[w] = j /\ \A v \in Workers \ {w} : job'[v] = job[v]
        /\ job[w].step = "none" /\ j.step \in {"load", "issue"}
        /\ UNCHANGED <<file, last, backups>>
    BY <1>2, NoJobIsJob DEF Enters, TypeInv
  <1> QED
    BY <1>3, AsideKeepsTurns

LEMMA LoadKeepsTurns ==
  ASSUME TypeInv, TurnInv, NEW w \in Workers, Load(w)
  PROVE  TurnInv'
  <1>1. CASE file = Torn
    <2>1. /\ job'[w] = NoJob /\ \A v \in Workers \ {w} : job'[v] = job[v]
          /\ job[w].step = "load" /\ UNCHANGED <<file, last, backups>>
      BY <1>1, EndFits DEF Load
    <2> QED
      BY <2>1, NoJobIsJob, AsideKeepsTurns
  <1>2. CASE file # Torn
    <2>1. /\ job'[w].step = "write" /\ job'[w].data = file
          /\ \A v \in Workers \ {w} : job'[v] = job[v]
      BY <1>2, LoadMoves
    <2>2. UNCHANGED <<file, backups>> /\ file' # Torn
          /\ last' = IF last = Torn /\ Alone(w) THEN file ELSE last
      BY <1>2 DEF Load
    <2>3. CASE last # Torn
      <3>1. \A v \in Workers : InTurn(v)'
        BY <1>2, <2>1, <2>2, <2>3 DEF TurnInv, InTurn
      <3> QED
        BY <2>2, <2>3, <3>1 DEF TurnInv
    <2>4. CASE last = Torn /\ Alone(w)
      <3>1. \A v \in Workers \ {w} : job'[v].step \notin {"write", "writing"}
        BY <2>1, <2>4 DEF Alone
      <3>2. \A v \in Workers : InTurn(v)'
        BY <2>1, <2>2, <2>4, <3>1 DEF InTurn
      <3> QED
        BY <2>2, <2>4, <3>2 DEF TurnInv
    <2>5. CASE last = Torn /\ ~Alone(w)
      BY <2>2, <2>5 DEF TurnInv
    <2> QED
      BY <2>3, <2>4, <2>5
  <1> QED
    BY <1>1, <1>2

LEMMA StartWriteKeepsTurns ==
  ASSUME TypeInv, TurnInv, NEW w \in Workers, StartWrite(w)
  PROVE  TurnInv'
  <1>1. CASE ~Fits(job[w].data, job[w])
    <2>1. /\ job'[w] = NoJob /\ \A v \in Workers \ {w} : job'[v] = job[v]
          /\ job[w].step = "write" /\ UNCHANGED <<file, last, backups>>
      BY <1>1, EndFits DEF StartWrite
    <2> QED
      BY <2>1, NoJobIsJob, AsideKeepsTurns
  <1>2. CASE Fits(job[w].data, job[w])
    <2>1. /\ job'[w].step = "writing" /\ job'[w].data = Changed(job[w].data, job[w])
          /\ job'[w].mixed = (Others(w) # {})
          /\ \A v \in Others(w) : job'[v].step = "writing" /\ job'[v].mixed
          /\ \A v \in Workers \ ({w} \union Others(w)) : job'[v] = job[v]
          /\ file' = Torn /\ backups' = Rotate(backups, file) /\ last' = last
      BY <1>2, WriteStarts
    <2>2. \A d : Changed(d, job'[w]) = Changed(d, job[w])
      BY <1>2, WriteStarts, ChangedIgnores
    <2>3. job[w].step = "write"
      BY DEF StartWrite
    <2> SUFFICES ASSUME last # Torn
                 PROVE  /\ \A v \in Workers : InTurn(v)'
                        /\ ~Overlapping' => backups'[1] = last
      BY <2>1 DEF TurnInv
    <2>4. /\ file # Torn => file = last
          /\ \A v \in Workers : InTurn(v)
          /\ file = Torn => \E v \in Workers : job[v].step = "writing"
      BY <2>3 DEF TurnInv
    <2>5. InTurn(w)'
      BY <2>1, <2>2, <2>3, <2>4 DEF InTurn
    <2>6. \A v \in Others(w) : InTurn(v)'
      BY <2>1 DEF InTurn
    <2>7. \A v \in Workers \ ({w} \union Others(w)) : InTurn(v)'
      BY <2>1, <2>4 DEF InTurn
    <2>8. ASSUME ~Overlapping'
          PROVE  backups'[1] = last
      <3>1. ~job'[w].mixed
        BY <2>1, <2>8 DEF Overlapping
      <3>2. Others(w) = {}
        BY <2>1, <3>1
      <3>3. file # Torn
        BY <2>3, <2>4, <3>2 DEF Others
      <3> QED
        BY <2>1, <2>4, <3>3 DEF Rotate
    <2> QED
      BY <2>5, <2>6, <2>7, <2>8
  <1> QED
    BY <1>1, <1>2

LEMMA FinishWriteKeepsTurns ==
  ASSUME TypeInv, TurnInv, NEW w \in Workers, FinishWrite(w)
  PROVE  TurnInv'
  <1> SUFFICES ASSUME last' # Torn
               PROVE  file' = last' /\ file' # Torn /\ \A v \in Workers : InTurn(v)'
    BY DEF TurnInv
  <1>1. /\ Alone(w) /\ ~job[w].mixed /\ last # Torn /\ last' = Changed(last, job[w])
        /\ job[w].step = "writing"
    BY DEF FinishWrite
  <1>2. InTurn(w)
    BY <1>1 DEF TurnInv
  <1>3. file' = job[w].data
    BY <1>1 DEF FinishWrite
  <1>4. file' = last'
    BY <1>1, <1>2, <1>3 DEF InTurn
  <1>5. /\ job'[w].step \notin {"write", "writing"}
        /\ \A v \in Workers \ {w} : job'[v].step \notin {"write", "writing"}
    BY <1>1, FinishWriteMoves DEF Alone
  <1>6. \A v \in Workers : InTurn(v)'
    BY <1>5 DEF InTurn
  <1> QED
    BY <1>4, <1>6

LEMMA IssueKeepsTurns ==
  ASSUME TypeInv, TurnInv, NEW w \in Workers, Issue(w)
  PROVE  TurnInv'
  <1>1. /\ job[w].step # "writing" /\ job'[w].step \notin {"write", "writing"}
        /\ \A v \in Workers \ {w} : job'[v] = job[v]
        /\ UNCHANGED <<file, last, backups>>
    BY IssueMoves DEF Issue
  <1> QED
    BY <1>1, AsideKeepsTurns

LEMMA RevokeKeepsTurns ==
  ASSUME TypeInv, TurnInv, NEW w \in Workers, Revoke(w)
  PROVE  TurnInv'
  <1>1. Goto(w, "reload") /\ job[w].step = "revoke" /\ UNCHANGED <<file, last, backups>>
    BY DEF Revoke
  <1>2. job'[w].step = "reload" /\ \A v \in Workers \ {w} : job'[v] = job[v]
    BY <1>1, GotoFits
  <1> QED
    BY <1>1, <1>2, AsideKeepsTurns

LEMMA ReloadKeepsTurns ==
  ASSUME TypeInv, TurnInv, NEW w \in Workers, Reload(w)
  PROVE  TurnInv'
  <1>1. End(w) /\ job[w].step = "reload" /\ UNCHANGED <<file, last, backups>>
    BY DEF Reload
  <1>2. job'[w].step = "none" /\ \A v \in Workers \ {w} : job'[v] = job[v]
    BY <1>1, EndFits, NoJobIsJob
  <1> QED
    BY <1>1, <1>2, AsideKeepsTurns

\* Nobody is over the file when nobody has a job.
LEMMA IdleTurns ==
  ASSUME \A w \in Workers : job[w] = NoJob
  PROVE  ~Overlapping /\ \A w \in Workers : job[w].step = "none" /\ InTurn(w)
  BY NoJobIsJob DEF Overlapping, InTurn

LEMMA CrashKeepsTurns ==
  ASSUME TypeInv, TurnInv, Crash
  PROVE  TurnInv'
  <1> SUFFICES ASSUME last' # Torn
               PROVE  TurnInv'
    BY DEF TurnInv
  <1>1. ~Overlapping /\ last' = last /\ UNCHANGED <<file, backups>>
    BY DEF Crash
  <1>2. \A w \in Workers : job'[w] = NoJob
    BY DEF Crash
  <1>3. \A w \in Workers : job'[w].step = "none"
    BY <1>2, NoJobIsJob
  <1>4. \A w \in Workers : InTurn(w)'
    BY <1>3 DEF InTurn
  <1> QED
    BY <1>1, <1>3, <1>4 DEF TurnInv

LEMMA RestoreKeepsTurns ==
  ASSUME TypeInv, TurnInv, Restore
  PROVE  TurnInv'
  <1>1. PICK k \in Good : (\A l \in Good : k <= l) /\ file' = backups[k]
    BY DEF Restore
  <1>2. /\ file = Torn /\ job' = job /\ backups[k] # Torn /\ \A w \in Workers : job[w] = NoJob
        /\ last' = IF last = Torn THEN file' ELSE last
    BY <1>1 DEF Restore, Good
  <1>3. ~Overlapping /\ \A w \in Workers : job[w].step = "none"
    BY <1>2, IdleTurns
  <1>4. last # Torn => file' = last
    <2> SUFFICES ASSUME last # Torn PROVE file' = last
      OBVIOUS
    <2>1. backups[1] = last
      BY <1>2, <1>3 DEF TurnInv
    <2>2. 1 \in Good
      BY <2>1 DEF Good
    <2>3. k \in 1..3 /\ k <= 1
      BY <1>1, <2>2 DEF Good
    <2> QED
      BY <1>1, <2>1, <2>3
  <1>5. file' = last' /\ file' # Torn
    BY <1>1, <1>2, <1>4
  <1>6. \A w \in Workers : InTurn(w)'
    BY <1>2, <1>3 DEF InTurn
  <1> QED
    BY <1>5, <1>6 DEF TurnInv

LEMMA NextKeepsTurns ==
  ASSUME TypeInv, TurnInv, [Next]_vars
  PROVE  TurnInv'
  <1>1. CASE Asked
    BY <1>1, AskedEnters, EnterKeepsTurns
  <1>2. ASSUME NEW w \in Workers, WriterStep(w)
        PROVE  TurnInv'
    BY <1>2, LoadKeepsTurns, StartWriteKeepsTurns, FinishWriteKeepsTurns, IssueKeepsTurns,
       RevokeKeepsTurns, ReloadKeepsTurns DEF WriterStep
  <1>3. CASE StatFile \/ ReadFile \/ UNCHANGED vars
    <2>1. UNCHANGED <<file, last, backups, job>>
      BY <1>3 DEF StatFile, ReadFile, vars
    <2> QED
      BY <2>1 DEF TurnInv, InTurn, Overlapping
  <1> QED
    BY <1>1, <1>2, <1>3, NextCases, CrashKeepsTurns, RestoreKeepsTurns

LEMMA InitTurns == Init => TurnInv
  <1> SUFFICES ASSUME Init PROVE TurnInv
    OBVIOUS
  <1>1. file = last /\ file # Torn /\ \A w \in Workers : job[w] = NoJob
    BY AtFirstIsList, TornIsNoList DEF Init
  <1> QED
    BY <1>1, IdleTurns DEF TurnInv

\* Writers that take turns lose nothing, however often the gateway dies between them.
THEOREM TurnsAreKept == Spec => []TurnsLoseNothing
  <1>1. TypeInv /\ TurnInv /\ [Next]_vars => TurnInv'
    BY NextKeepsTurns
  <1>2. TurnInv => TurnsLoseNothing
    BY DEF TurnInv, TurnsLoseNothing
  <1> QED
    BY <1>1, <1>2, Types, InitTurns, PTL DEF Spec

\* A write that the gateway does not survive leaves the previous list as the newest backup.
THEOREM BackupIsKept == Spec => []PreviousIsKept
  <1>1. TypeInv /\ TurnInv /\ [Next]_vars => TurnInv'
    BY NextKeepsTurns
  <1>2. TurnInv => PreviousIsKept
    BY DEF TurnInv, PreviousIsKept
  <1> QED
    BY <1>1, <1>2, Types, InitTurns, PTL DEF Spec

------------------------------------------------------------------------
(* The login page *)

\* The steps that leave the file and login-app's copy alone.
LEMMA AsideOfLogin ==
  ASSUME Asked \/ (\E w \in Workers : Load(w) \/ Issue(w) \/ Revoke(w) \/ Reload(w)) \/ Crash,
         TypeInv
  PROVE  UNCHANGED <<file, version, login>>
  <1>1. CASE Asked
    BY <1>1, AskedEnters DEF Entering, Enters
  <1> QED
    BY <1>1 DEF Load, Issue, Revoke, Reload, Crash

LEMMA NextKeepsLogin ==
  ASSUME TypeInv, LoginInv, [Next]_vars
  PROVE  LoginInv'
  <1>1. version \in Nat /\ login \in [users : Text, mtime : Nat, seen : Nat]
    BY DEF TypeInv
  <1>2. CASE UNCHANGED <<file, version, login>>
    BY <1>2 DEF LoginInv
  \* A new version of the file is none that login-app has.
  <1>3. CASE version' = version + 1 /\ UNCHANGED login
    BY <1>1, <1>3 DEF LoginInv
  <1>4. ASSUME NEW w \in Workers, StartWrite(w) \/ FinishWrite(w)
        PROVE  LoginInv'
    <2>1. CASE StartWrite(w) /\ ~Fits(job[w].data, job[w])
      BY <1>2, <2>1 DEF StartWrite
    <2>2. CASE StartWrite(w) /\ Fits(job[w].data, job[w])
      BY <1>3, <2>2 DEF StartWrite
    <2>3. CASE FinishWrite(w)
      BY <1>3, <2>3 DEF FinishWrite
    <2> QED
      BY <1>4, <2>1, <2>2, <2>3
  <1>5. CASE Restore
    BY <1>3, <1>5 DEF Restore
  <1>6. CASE StatFile
    <2>1. /\ login' = [login EXCEPT !.seen = version] /\ UNCHANGED <<file, version>>
      BY <1>6 DEF StatFile
    <2>2. login'.seen = version /\ login'.mtime = login.mtime /\ login'.users = login.users
      BY <1>1, <2>1
    <2> QED
      BY <1>1, <2>1, <2>2 DEF LoginInv
  <1>7. CASE ReadFile
    <2>1. CASE file = Torn
      <3>1. /\ login' = [login EXCEPT !.seen = login.mtime] /\ UNCHANGED <<file, version>>
        BY <1>7, <2>1 DEF ReadFile
      <3>2. login'.seen = login.mtime /\ login'.mtime = login.mtime /\ login'.users = login.users
        BY <1>1, <3>1
      <3> QED
        BY <1>1, <3>1, <3>2 DEF LoginInv
    <2>2. CASE file # Torn
      <3>1. /\ login'.users = file /\ login'.mtime = login.seen /\ login'.seen = login.seen
            /\ UNCHANGED <<file, version>>
        BY <1>7, <2>2 DEF ReadFile
      <3> QED
        BY <1>1, <3>1 DEF LoginInv
    <2> QED
      BY <2>1, <2>2
  <1>8. CASE Asked \/ Crash
    BY <1>2, <1>8, AsideOfLogin
  <1>9. ASSUME NEW w \in Workers, WriterStep(w)
        PROVE  LoginInv'
    BY <1>2, <1>4, <1>9, AsideOfLogin DEF WriterStep
  <1>10. CASE UNCHANGED vars
    BY <1>2, <1>10 DEF vars
  <1> QED
    BY <1>5, <1>6, <1>7, <1>8, <1>9, <1>10, NextCases

\* login-app has the list of users that belongs to the file's mtime, or looks again: a
\* rewrite of the file always gives it an mtime that login-app does not have.
THEOREM LoginIsCurrent == Spec => []LoginAppNotStuck
  <1>1. Init => LoginInv
    BY DEF Init, LoginInv
  <1>2. TypeInv /\ LoginInv /\ [Next]_vars => LoginInv'
    BY NextKeepsLogin
  <1>3. LoginInv => LoginAppNotStuck
    BY DEF LoginInv, LoginAppNotStuck
  <1> QED
    BY <1>1, <1>2, <1>3, Types, PTL DEF Spec

------------------------------------------------------------------------
(* Invitations *)

\* What LinkInv asks of a job that accepts an invitation.
Accepting(w) ==
    job[w].op = "accept" =>
      /\ w = Loop /\ job[w].link.id \in 1..tokens
      /\ job[w].step \in InFile => job[w].link.id \notin spent
      /\ \A u \in Users : invites[u].id = job[w].link.id => u = job[w].user

LEMMA LinkInvParts ==
  LinkInv <=>
    /\ spent \subseteq 1..tokens
    /\ \A u \in Users : invites[u] # NoLink => invites[u].id \in (1..tokens) \ spent
    /\ \A u, v \in Users : u # v /\ invites[u] # NoLink => invites[u].id # invites[v].id
    /\ \A w \in Workers : Accepting(w)
  BY DEF LinkInv, Accepting

\* A step that hands out no link, spends none and begins no acceptance.
LEMMA AsideKeepsLinks ==
  ASSUME LinkInv, UNCHANGED <<spent, tokens, invites>>,
         \A w \in Workers : job'[w].op = "accept" =>
           /\ job[w].op = "accept" /\ job'[w].link = job[w].link /\ job'[w].user = job[w].user
           /\ job'[w].step \in InFile => job[w].step \in InFile
  PROVE  LinkInv'
  BY DEF LinkInv

LEMMA EnterKeepsLinks ==
  ASSUME TypeInv, LinkInv, Entering
  PROVE  LinkInv'
  <1>1. PICK w \in Workers : \E j \in Job : Enters(w, j)
    BY DEF Entering
  <1>2. PICK j \in Job : Enters(w, j)
    BY <1>1
  <1>3. /\ job'[w] = j /\ \A v \in Workers \ {w} : job'[v] = job[v]
        /\ UNCHANGED <<spent, tokens, invites>>
    BY <1>2 DEF Enters, TypeInv
  <1>4. \A v \in Workers \ {w} : Accepting(v)'
    BY <1>3, LinkInvParts DEF Accepting
  <1>5. Accepting(w)'
    <2> SUFFICES ASSUME j.op = "accept" PROVE Accepting(w)'
      BY <1>3 DEF Accepting
    <2>1. /\ w = Loop /\ j.user \in Users /\ invites[j.user] = j.link /\ invites[j.user] # NoLink
      BY <1>2 DEF Enters
    <2>2. j.link.id \in (1..tokens) \ spent
      BY <2>1 DEF LinkInv
    <2>3. \A u \in Users : invites[u].id = j.link.id => u = j.user
      BY <2>1 DEF LinkInv
    <2> QED
      BY <1>3, <2>1, <2>2, <2>3 DEF Accepting
  <1>6. \A v \in Workers : Accepting(v)'
    BY <1>4, <1>5
  <1> QED
    BY <1>3, <1>6 DEF LinkInv, Accepting

LEMMA LoadKeepsLinks ==
  ASSUME TypeInv, LinkInv, NEW w \in Workers, Load(w)
  PROVE  LinkInv'
  <1>1. UNCHANGED <<spent, tokens, invites>> /\ job[w].step \in InFile
    BY DEF Load, InFile
  <1>2. CASE file = Torn
    BY <1>1, <1>2, EndFits, NoJobIsJob, AsideKeepsLinks DEF Load
  <1>3. CASE file # Torn
    BY <1>1, <1>3, LoadMoves, AsideKeepsLinks
  <1> QED
    BY <1>2, <1>3

LEMMA StartWriteKeepsLinks ==
  ASSUME TypeInv, LinkInv, NEW w \in Workers, StartWrite(w)
  PROVE  LinkInv'
  <1>1. UNCHANGED <<spent, tokens, invites>> /\ job[w].step \in InFile
    BY DEF StartWrite, InFile
  <1>2. CASE ~Fits(job[w].data, job[w])
    <2>1. End(w)
      BY <1>2 DEF StartWrite
    <2> QED
      BY <1>1, <2>1, EndFits, NoJobIsJob, AsideKeepsLinks
  <1>3. CASE Fits(job[w].data, job[w])
    <2>1. \A v \in Workers : job'[v].op = job[v].op /\ job'[v].user = job[v].user
                             /\ job'[v].link = job[v].link
      BY <1>3, WriteStarts
    <2>2. \A v \in Workers : job'[v].step = job[v].step \/ v = w
      BY <1>3, WriteStarts DEF Others
    <2> QED
      BY <1>1, <2>1, <2>2, AsideKeepsLinks
  <1> QED
    BY <1>2, <1>3

LEMMA FinishWriteKeepsLinks ==
  ASSUME TypeInv, LinkInv, NEW w \in Workers, FinishWrite(w)
  PROVE  LinkInv'
  <1>1. UNCHANGED <<spent, tokens, invites>> /\ job[w].step \in InFile
    BY DEF FinishWrite, InFile
  <1> QED
    BY <1>1, FinishWriteMoves, AsideKeepsLinks

LEMMA IssueKeepsLinks ==
  ASSUME TypeInv, LinkInv, NEW w \in Workers, Issue(w)
  PROVE  LinkInv'
  <1> DEFINE l == [id |-> tokens', by |-> job[w].actor, reset |-> job[w].op = "reset"]
  <1>1. /\ job[w].user \in Users /\ job[w].step = "issue"
    BY InFileKnows DEF Issue
  <1>2. /\ tokens \in Nat /\ tokens' = tokens + 1 /\ spent' = spent
        /\ invites' = [invites EXCEPT ![job[w].user] = l] /\ invites \in [Users -> Link]
    BY DEF Issue, TypeInv
  <1>3. l.id = tokens + 1
    BY <1>2
  <1> HIDE DEF l
  <1>4. /\ invites'[job[w].user] = l
        /\ \A u \in Users : u # job[w].user => invites'[u] = invites[u]
    BY <1>1, <1>2
  <1>5. \A u \in Users : invites[u].id \in 0..tokens
    BY <1>2, NoLinkIsLink DEF LinkInv
  <1>6. spent' \subseteq 1..tokens'
    BY <1>2 DEF LinkInv
  <1>7. \A u \in Users : invites'[u] # NoLink => invites'[u].id \in (1..tokens') \ spent'
    BY <1>2, <1>3, <1>4 DEF LinkInv
  <1>8. ASSUME NEW u \in Users, NEW v \in Users, u # v, invites'[u] # NoLink
        PROVE  invites'[u].id # invites'[v].id
    <2>1. CASE u = job[w].user
      BY <1>2, <1>3, <1>4, <1>5, <1>8, <2>1
    <2>2. CASE v = job[w].user
      BY <1>2, <1>3, <1>4, <1>5, <1>8, <2>2
    <2>3. CASE u # job[w].user /\ v # job[w].user
      BY <1>4, <1>8, <2>3 DEF LinkInv
    <2> QED
      BY <2>1, <2>2, <2>3
  <1>9. ASSUME NEW v \in Workers, job'[v].op = "accept"
        PROVE  /\ v = Loop /\ job'[v].link.id \in 1..tokens'
               /\ job'[v].step \in InFile => job'[v].link.id \notin spent'
               /\ \A u \in Users : invites'[u].id = job'[v].link.id => u = job'[v].user
    <2>1. /\ job[v].op = "accept" /\ job'[v].link = job[v].link /\ job'[v].user = job[v].user
          /\ job'[v].step \in InFile => job[v].step \in InFile
      BY <1>9, IssueMoves DEF InFile
    <2>2. /\ v = Loop /\ job[v].link.id \in 1..tokens
          /\ job[v].step \in InFile => job[v].link.id \notin spent
          /\ \A u \in Users : invites[u].id = job[v].link.id => u = job[v].user
      BY <2>1 DEF LinkInv
    <2>3. \A u \in Users : invites'[u].id = job[v].link.id => u = job[v].user
      BY <1>2, <1>3, <1>4, <2>2
    <2> QED
      BY <1>2, <2>1, <2>2, <2>3
  <1> QED
    BY <1>6, <1>7, <1>8, <1>9 DEF LinkInv

LEMMA RevokeKeepsLinks ==
  ASSUME TypeInv, LinkInv, NEW w \in Workers, Revoke(w)
  PROVE  LinkInv'
  <1>1. /\ job[w].user \in Users /\ job[w].op = "accept" /\ job[w].step = "revoke"
    BY InFileKnows DEF Revoke
  <1>2. /\ spent' = spent \union {job[w].link.id} /\ tokens' = tokens
        /\ invites' = [invites EXCEPT ![job[w].user] = NoLink] /\ invites \in [Users -> Link]
        /\ Goto(w, "reload")
    BY DEF Revoke, TypeInv
  <1>3. /\ job'[w].step = "reload" /\ job'[w].op = "accept" /\ job'[w].link = job[w].link
        /\ job'[w].user = job[w].user /\ \A v \in Workers \ {w} : job'[v] = job[v]
    BY <1>1, <1>2, GotoFits
  <1>4. /\ w = Loop /\ job[w].link.id \in 1..tokens
        /\ \A u \in Users : invites[u].id = job[w].link.id => u = job[w].user
    BY <1>1 DEF LinkInv
  <1>5. /\ invites'[job[w].user] = NoLink
        /\ \A u \in Users : u # job[w].user => invites'[u] = invites[u]
    BY <1>1, <1>2
  <1>6. spent' \subseteq 1..tokens'
    BY <1>2, <1>4 DEF LinkInv
  <1>7. \A u \in Users : invites'[u] # NoLink => invites'[u].id \in (1..tokens') \ spent'
    BY <1>2, <1>4, <1>5 DEF LinkInv
  <1>8. \A u, v \in Users : u # v /\ invites'[u] # NoLink => invites'[u].id # invites'[v].id
    <2> SUFFICES ASSUME NEW u \in Users, NEW v \in Users, u # v, invites'[u] # NoLink
                 PROVE  invites'[u].id # invites'[v].id
      OBVIOUS
    <2>1. invites'[u] = invites[u] /\ invites[u].id \in 1..tokens
      BY <1>5 DEF LinkInv
    <2>2. CASE v = job[w].user
      BY <1>5, <2>1, <2>2, NoLinkIsLink
    <2>3. CASE v # job[w].user
      BY <1>5, <2>1, <2>3 DEF LinkInv
    <2> QED
      BY <2>2, <2>3
  <1>9. \A v \in Workers : job'[v].op = "accept" => v = w
    BY <1>3, <1>4 DEF LinkInv
  <1>10. \A u \in Users : invites'[u].id = job'[w].link.id => u = job'[w].user
    BY <1>3, <1>4, <1>5
  <1>11. job'[w].step \notin InFile
    BY <1>3 DEF InFile
  <1>12. \A v \in Workers : job'[v].op = "accept" =>
           /\ v = Loop /\ job'[v].link.id \in 1..tokens'
           /\ job'[v].step \in InFile => job'[v].link.id \notin spent'
           /\ \A u \in Users : invites'[u].id = job'[v].link.id => u = job'[v].user
    BY <1>2, <1>3, <1>4, <1>9, <1>10, <1>11
  <1> QED
    BY <1>6, <1>7, <1>8, <1>12 DEF LinkInv

LEMMA ReloadKeepsLinks ==
  ASSUME TypeInv, LinkInv, NEW w \in Workers, Reload(w)
  PROVE  LinkInv'
  <1>1. UNCHANGED <<spent, tokens, invites>> /\ End(w)
    BY DEF Reload
  <1> QED
    BY <1>1, EndFits, NoJobIsJob, AsideKeepsLinks

LEMMA NextKeepsLinks ==
  ASSUME TypeInv, LinkInv, [Next]_vars
  PROVE  LinkInv'
  <1>1. CASE Asked
    BY <1>1, AskedEnters, EnterKeepsLinks
  <1>2. ASSUME NEW w \in Workers, WriterStep(w)
        PROVE  LinkInv'
    BY <1>2, LoadKeepsLinks, StartWriteKeepsLinks, FinishWriteKeepsLinks, IssueKeepsLinks,
       RevokeKeepsLinks, ReloadKeepsLinks DEF WriterStep
  <1>3. CASE Crash
    <2>1. UNCHANGED <<spent, tokens, invites>> /\ \A w \in Workers : job'[w] = NoJob
      BY <1>3 DEF Crash
    <2> QED
      BY <2>1, NoJobIsJob, AsideKeepsLinks
  <1>4. CASE Restore \/ StatFile \/ ReadFile \/ UNCHANGED vars
    <2>1. UNCHANGED <<spent, tokens, invites, job>>
      BY <1>4 DEF Restore, StatFile, ReadFile, vars
    <2> QED
      BY <2>1, AsideKeepsLinks
  <1> QED
    BY <1>1, <1>2, <1>3, <1>4, NextCases

LEMMA InitLinks == Init => LinkInv
  <1> SUFFICES ASSUME Init PROVE LinkInv
    OBVIOUS
  <1>1. /\ spent = {} /\ tokens = 0 /\ \A u \in Users : invites[u] = NoLink
        /\ \A w \in Workers : job[w].op = "none"
    BY NoJobIsJob DEF Init
  <1> QED
    BY <1>1 DEF LinkInv

\* A link that its user has been told has done its work is never written again: tokens are
\* handed out once, only the loop accepts them, and nobody else holds a spent one.
THEOREM LinksAreUsedOnce == Spec => LinksAreSingleUse
  <1>1. ASSUME LinkInv, NEW w \in Workers, job[w].op = "accept", FinishWrite(w)
        PROVE  job[w].link.id \notin spent
    <2>1. job[w].step \in InFile
      BY <1>1 DEF FinishWrite, InFile
    <2> QED
      BY <1>1, <2>1 DEF LinkInv
  <1>2. LinkInv =>
          [\A w \in Workers :
             job[w].op = "accept" /\ FinishWrite(w) => job[w].link.id \notin spent]_vars
    BY <1>1
  <1>3. TypeInv /\ LinkInv /\ [Next]_vars => LinkInv'
    BY NextKeepsLinks
  <1> QED
    BY <1>2, <1>3, Types, InitLinks, PTL DEF Spec, LinksAreSingleUse
=============================================================================
