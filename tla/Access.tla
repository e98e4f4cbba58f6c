------------------------------- MODULE Access -------------------------------
(***************************************************************************)
(* Who may do what: acl.yaml, everyone who rewrites it, the invitations    *)
(* that lead to a password, and the login page that reads the file from    *)
(* another container.                                                      *)
(*                                                                         *)
(* The gateway is one process with an event loop ("loop") and a pool of    *)
(* threads, where approvals given in the browser run.  Every AclWriter has *)
(* a lock of its own, so that the loop and the threads each load the file, *)
(* change what they loaded, and write it back over one another.  The file  *)
(* is rewritten in place, because login-app has it mounted by inode: until *)
(* a write is finished, or after a crash inside it, it is torn.            *)
(***************************************************************************)
EXTENDS Naturals, Sequences, FiniteSets

CONSTANTS
    Users, Admins, Owners,    \* at first: admins, and members who own all projects
    Projects,
    Given,                    \* the roles that changes give: all of Roles in the code
    Threads,                  \* of the web server's pool
    MaxVersions, MaxTokens    \* bounds on writes of the file and on links handed out

Loop    == "loop"
Workers == {Loop} \union Threads
Roles   == {"none", "reader", "owner"}
NoPassword == 0               \* a password is named by the link it was set through
Person  == [admin : BOOLEAN, disabled : BOOLEAN, password : 0..MaxTokens,
            grants : [Projects -> Roles]]
Torn    == <<>>               \* what does not parse: a list without users, which no real one is

ASSUME UsersAssumption  == Admins \union Owners \subseteq Users /\ Admins \intersect Owners = {}
ASSUME AdminAssumption  == Admins # {}      \* bootstrap.py makes one
ASSUME GivenAssumption  == Given \subseteq Roles
ASSUME BoundsAssumption == {MaxVersions, MaxTokens} \subseteq Nat

VARIABLES
    file,       \* acl.yaml: the users in it, or Torn
    version,    \* its mtime
    backups,    \* .bak1, .bak2, .bak3
    acl,        \* the gateway's cached Acl
    invites,    \* invites[u]: the open link of user u, if any
    tokens,     \* number of links handed out so far
    job,        \* job[w]: what worker w is doing
    login,      \* login-app's copy: [users, mtime], and the mtime it has just seen
    last,       \* observer: what file must say, as long as writers take turns; else Torn
    spent       \* observer: the links whose users were told that their password is set

vars == <<file, version, backups, acl, invites, tokens, job, login, last, spent>>

NoLink == [id |-> 0, by |-> "none", reset |-> FALSE]
NoGrants == [p \in Projects |-> "none"]
Newcomer == [admin |-> FALSE, disabled |-> FALSE, password |-> NoPassword, grants |-> NoGrants]

\* What a worker has in hand: the request with its actor as the list read at its start
\* has it (`was`), and the list it is about to write (`data`).
Doing(op, a, p, u, v, link, step) ==
    [op |-> op, actor |-> a, was |-> Newcomer, project |-> p, user |-> u, value |-> v,
     grants |-> NoGrants, link |-> link, step |-> step, data |-> <<>>, mixed |-> FALSE]
NoJob == Doing("none", "none", "none", "none", "none", NoLink, "none")

AtFirst == [u \in Admins \union Owners |->
              [Newcomer EXCEPT !.admin = u \in Admins,
                               !.grants = [p \in Projects |-> IF u \in Owners THEN "owner" ELSE "none"]]]

Init ==
    /\ file    = AtFirst
    /\ version = 0
    /\ backups = <<AtFirst, AtFirst, AtFirst>>
    /\ acl     = AtFirst
    /\ invites = [u \in Users |-> NoLink]
    /\ tokens  = 0
    /\ job     = [w \in Workers |-> NoJob]
    /\ login   = [users |-> AtFirst, mtime |-> 0, seen |-> 0]
    /\ last    = AtFirst
    /\ spent   = {}

Goto(w, s)  == job' = [job EXCEPT ![w].step = s]
End(w)      == job' = [job EXCEPT ![w] = NoJob]
Rest(w, s)  == IF s = "none" THEN End(w) ELSE Goto(w, s)

------------------------------------------------------------------------
(* What an actor may ask for, in the list d *)

Live(d, a)    == a \in DOMAIN d /\ ~d[a].disabled
MayManage(d, a, p) == Live(d, a) /\ (d[a].admin \/ d[a].grants[p] = "owner")
IsAdmin(d, u) == u \in DOMAIN d /\ d[u].admin

\* A non-admin may hand out a login only for users all of whose projects are its own.
OwnsAll(actor, other) ==
    \A p \in Projects : other.grants[p] # "none" => actor.grants[p] = "owner"

OtherOwners(d, u, p) == {v \in DOMAIN d \ {u} : ~d[v].admin /\ d[v].grants[p] = "owner"}

------------------------------------------------------------------------
(* The operations: each starts on a fresh copy of the list, or on the cached one *)

\* (Not begun when the bounds would not let it finish.)
Begin(w, j) ==
    /\ job[w] = NoJob
    /\ IF j.op = "reset" THEN tokens < MaxTokens ELSE version + 2 <= MaxVersions
    /\ job' = [job EXCEPT ![w] = j]
    /\ UNCHANGED <<file, version, backups, acl, invites, tokens, login, last, spent>>

\* project_member_set, once approved.
SetMember(w, a, p, u, role) ==
    /\ file # Torn
    /\ MayManage(file, a, p) /\ u \in DOMAIN file /\ ~IsAdmin(file, u)
    /\ Begin(w, [Doing("member", a, p, u, role, NoLink, "load") EXCEPT !.was = file[a]])

\* user_invite, once approved.
Invite(w, a, p, u, role) ==
    /\ file # Torn
    /\ MayManage(file, a, p) /\ role # "none" /\ ~IsAdmin(file, u)
    /\ Begin(w, [Doing("invite", a, p, u, role, NoLink, "load") EXCEPT !.was = file[a]])

\* user_reset_link, once approved: no change to the file, a new link only.
ResetLink(w, a, p, u) ==
    /\ file # Torn
    /\ MayManage(file, a, p) /\ u \in DOMAIN file /\ ~IsAdmin(file, u)
    /\ file[u].grants[p] # "none"
    /\ IsAdmin(file, a) \/ OwnsAll(file[a], file[u])
    /\ Begin(w, Doing("reset", a, p, u, "none", NoLink, "issue"))

\* POST to /app/invite/<token>: the link is looked up, with its issuer, and is good
\* until the password is in the file.
Accept(u, link) ==
    /\ link # NoLink /\ invites[u] = link
    /\ Begin(Loop, Doing("accept", link.by, "none", u, "none", link, "load"))

\* The admin pages check the cached list: nobody switches off oneself, nor the last
\* admin that is on.
SetDisabled(a, u, off) ==
    /\ acl # Torn
    /\ Live(acl, a) /\ IsAdmin(acl, a) /\ u \in DOMAIN acl
    /\ off => u # a /\ (IsAdmin(acl, u) => \E v \in DOMAIN acl \ {u} : IsAdmin(acl, v) /\ Live(acl, v))
    /\ Begin(Loop, Doing("disabled", a, "none", u, IF off THEN "off" ELSE "on", NoLink, "load"))

\* The page sends all that the user is to have, in place of all the user has.
SetGrants(a, u, grants) ==
    /\ acl # Torn
    /\ Live(acl, a) /\ IsAdmin(acl, a) /\ u \in DOMAIN acl
    /\ Begin(Loop, [Doing("grants", a, "none", u, "none", NoLink, "load") EXCEPT !.grants = grants])

------------------------------------------------------------------------
(* Rewriting acl.yaml: load, change, back up, write *)

\* No other writer has the file in hand.
Alone(w) == \A v \in Workers \ {w} : job[v].step \notin {"write", "writing"}

\* changes the list the gateway has in memory
LoadCachedMutant(w) ==
    /\ job[w].step = "load"
    /\ IF acl = Torn THEN End(w) /\ UNCHANGED last
       ELSE /\ job' = [job EXCEPT ![w].data = acl, ![w].step = "write"]
            /\ last' = IF last = Torn /\ Alone(w) THEN file ELSE last
    /\ UNCHANGED <<file, version, backups, acl, invites, tokens, login, spent>>

\* The file is read whole; what does not parse raises.
Load(w) ==
    /\ job[w].step = "load"
    /\ IF file = Torn THEN End(w) /\ UNCHANGED last
       ELSE /\ job' = [job EXCEPT ![w].data = file, ![w].step = "write"]
            /\ last' = IF last = Torn /\ Alone(w) THEN file ELSE last
    /\ UNCHANGED <<file, version, backups, acl, invites, tokens, login, spent>>

With(d, u) == [v \in DOMAIN d \union {u} |-> IF v \in DOMAIN d THEN d[v] ELSE Newcomer]
Granted(d, j) == [With(d, j.user) EXCEPT ![j.user].grants[j.project] = j.value]

\* _apply_member: a project's last owner who is not an admin may only be removed by
\* an admin, as the actor was when the list was read for the request.
MemberFits(d, j) ==
    /\ j.user \in DOMAIN d /\ ~d[j.user].admin
    /\ \/ j.was.admin
       \/ d[j.user].grants[j.project] # "owner" \/ j.value = "owner"
       \/ OtherOwners(d, j.user, j.project) # {}

\* _apply_invite: who has a password just gets the role; for others a link follows, if
\* the actor, as it was then, is an admin or owns what the user has now.
InviteFits(d, j) ==
    /\ ~IsAdmin(d, j.user)
    /\ \/ j.user \notin DOMAIN d \/ j.was.admin
       \/ d[j.user].password # NoPassword
       \/ OwnsAll(j.was, d[j.user])

\* accept_invite's apply: the issuer must still own what the user has, and only a
\* reset link replaces a password.
AcceptFits(d, j) ==
    /\ Live(d, j.user) /\ ~d[j.user].admin
    /\ \/ j.link.reset /\ j.actor = j.user
       \/ Live(d, j.actor) /\ (d[j.actor].admin \/ OwnsAll(d[j.actor], d[j.user]))
    /\ j.link.reset \/ d[j.user].password = NoPassword

Fits(d, j) ==
    /\ j.op = "member" => MemberFits(d, j)
    /\ j.op = "invite" => InviteFits(d, j)
    /\ j.op = "accept" => AcceptFits(d, j)

Changed(d, j) ==
    CASE j.op \in {"member", "invite"} -> Granted(d, j)
      [] j.op = "grants"   -> [With(d, j.user) EXCEPT ![j.user].grants = j.grants]
      [] j.op = "accept"   -> [d EXCEPT ![j.user].password = j.link.id]
      [] j.op = "disabled" -> [With(d, j.user) EXCEPT ![j.user].disabled = (j.value = "off")]

\* moves the backups on, and forgets to copy the file
RotateOnlyMutant(b, f) == <<b[1], b[1], b[2]>>

\* bak2 becomes bak3, bak1 bak2, and the file as it is now bak1.
Rotate(b, f) == <<f, b[1], b[2]>>

\* The change, the backup, and the first byte over the old text.
StartWrite(w) ==
    LET j == job[w]
        others == {v \in Workers \ {w} : job[v].step = "writing"} IN
    /\ j.step = "write"
    /\ version + 1 < MaxVersions
    /\ IF Fits(j.data, j)
       THEN /\ backups' = Rotate(backups, file)
            /\ file' = Torn
            /\ version' = version + 1
            /\ job' = [v \in Workers |->
                  IF v = w THEN [j EXCEPT !.data = Changed(j.data, j), !.step = "writing", !.mixed = others # {}]
                  ELSE IF v \in others THEN [job[v] EXCEPT !.mixed = TRUE] ELSE job[v]]
       ELSE End(w) /\ UNCHANGED <<file, version, backups>>
    /\ UNCHANGED <<acl, invites, tokens, login, last, spent>>

\* A link follows only if the user had no password in the list that was written.
NextStep(j) ==
    CASE j.op = "accept" -> "revoke"
      [] j.op = "invite" /\ j.data[j.user].password = NoPassword -> "issue"
      [] OTHER -> "reload"

\* Truncate, flush, fsync.  Two writers at once may each end up over the other, or
\* leave a mixture that does not parse.
FinishWrite(w) ==
    LET j == job[w] IN
    /\ j.step = "writing"
    /\ version < MaxVersions
    /\ file' \in IF j.mixed THEN {j.data, Torn} ELSE {j.data}
    /\ version' = version + 1
    /\ last' = IF Alone(w) /\ ~j.mixed /\ last # Torn THEN Changed(last, j) ELSE Torn
    /\ Goto(w, NextStep(j))
    /\ UNCHANGED <<backups, acl, invites, tokens, login, spent>>

\* InviteStore.issue: one open link per user; a new one replaces the old.
Issue(w) ==
    LET j == job[w] IN
    /\ j.step = "issue"
    /\ tokens < MaxTokens
    /\ tokens' = tokens + 1
    /\ invites' = [invites EXCEPT ![j.user] = [id |-> tokens', by |-> j.actor, reset |-> j.op = "reset"]]
    /\ Rest(w, IF j.op = "reset" THEN "none" ELSE "reload")
    /\ UNCHANGED <<file, version, backups, acl, login, last, spent>>

\* leaves links for resetting a password open
RevokeMutant(w) ==
    /\ job[w].step = "revoke"
    /\ invites' = [invites EXCEPT ![job[w].user] = IF job[w].link.reset THEN @ ELSE NoLink]
    /\ spent' = spent \union {job[w].link.id}
    /\ Goto(w, "reload")
    /\ UNCHANGED <<file, version, backups, acl, tokens, login, last>>

\* The link is spent once its password is in the file.
Revoke(w) ==
    /\ job[w].step = "revoke"
    /\ invites' = [invites EXCEPT ![job[w].user] = NoLink]
    /\ spent' = spent \union {job[w].link.id}
    /\ Goto(w, "reload")
    /\ UNCHANGED <<file, version, backups, acl, tokens, login, last>>

\* server.reload_acl: a file that does not parse leaves the gateway without a list.
Reload(w) ==
    /\ job[w].step = "reload"
    /\ acl' = file
    /\ End(w)
    /\ UNCHANGED <<file, version, backups, invites, tokens, login, last, spent>>

\* Two writers are over the file at once.
Overlapping == \E w \in Workers : job[w].step = "writing" /\ job[w].mixed

\* The gateway dies and starts again, if the file lets it.
Crash ==
    /\ \E w \in Workers : job[w] # NoJob
    /\ job' = [w \in Workers |-> NoJob]
    /\ acl' = file
    /\ last' = IF Overlapping THEN Torn ELSE last
    /\ UNCHANGED <<file, version, backups, invites, tokens, login, spent>>

\* An operator puts the newest backup that parses in place of a torn file.
Good == {k \in 1..3 : backups[k] # Torn}
Restore ==
    /\ file = Torn /\ \A w \in Workers : job[w] = NoJob
    /\ version < MaxVersions
    /\ \E k \in Good : (\A l \in Good : k <= l) /\ file' = backups[k]
    /\ acl' = file'
    /\ version' = version + 1
    /\ last' = IF last = Torn THEN file' ELSE last
    /\ UNCHANGED <<backups, invites, tokens, job, login, spent>>

------------------------------------------------------------------------
(* login-app *)

\* takes note of the mtime before it has read the text
StatFileMutant ==
    /\ login.seen = login.mtime /\ version # login.mtime
    /\ login' = [login EXCEPT !.seen = version, !.mtime = version]
    /\ UNCHANGED <<file, version, backups, acl, invites, tokens, job, last, spent>>

\* AclLoginState.refresh: first the mtime, then, if it is a new one, the text.
StatFile ==
    /\ login.seen = login.mtime /\ version # login.mtime
    /\ login' = [login EXCEPT !.seen = version]
    /\ UNCHANGED <<file, version, backups, acl, invites, tokens, job, last, spent>>

\* A text that does not parse is skipped, and looked at again next time.
ReadFile ==
    /\ login.seen # login.mtime
    /\ login' = IF file = Torn THEN [login EXCEPT !.seen = login.mtime]
                ELSE [users |-> file, mtime |-> login.seen, seen |-> login.seen]
    /\ UNCHANGED <<file, version, backups, acl, invites, tokens, job, last, spent>>

WriterStep(w) == Load(w) \/ StartWrite(w) \/ FinishWrite(w) \/ Issue(w) \/ Revoke(w) \/ Reload(w)

Next ==
    \/ \E w \in Workers, a \in Users, p \in Projects, u \in Users :
         \/ \E role \in Given : SetMember(w, a, p, u, role) \/ Invite(w, a, p, u, role)
         \/ ResetLink(w, a, p, u)
    \/ \E u \in Users : Accept(u, invites[u])
    \/ \E a, u \in Users :
         \/ \E off \in BOOLEAN : SetDisabled(a, u, off)
         \/ \E grants \in [Projects -> Given \union {"none"}] : SetGrants(a, u, grants)
    \/ \E w \in Workers : WriterStep(w)
    \/ Crash \/ Restore
    \/ StatFile \/ ReadFile

Spec == Init /\ [][Next]_vars

------------------------------------------------------------------------
(* What must hold *)

\* As long as no two writers have had the file in hand at once, acl.yaml, when it is whole,
\* is what all changes that were carried out make of it, one after the other, through
\* crashes and restored backups: none is lost, and none is made on a list out of date.
TurnsLoseNothing == last # Torn /\ file # Torn => file = last

\* Wherever the gateway dies in a write that no other one overlaps, the newest backup is
\* the file as all writes before it have left it ("a crash mid-write always leaves a good
\* previous version to restore"; three overlapping writers may leave three torn ones).
PreviousIsKept == file = Torn /\ last # Torn /\ ~Overlapping => backups[1] = last

\* invites.py: "single-use invitation tokens".  Once its user has been told that the
\* password is set, a link sets no other, whatever the list looks like by then; a link
\* whose request died before that may be used again.
LinksAreSingleUse ==
    [][\A w \in Workers :
         job[w].op = "accept" /\ FinishWrite(w) => job[w].link.id \notin spent]_vars

\* login-app never takes an old text for that of the mtime it has: once the file rests,
\* the next refresh makes its list of users, passwords and switched-off accounts current.
LoginAppNotStuck ==
    file # Torn /\ login.mtime = version /\ login.seen = version => login.users = file

=============================================================================
