---------------------------- MODULE Accounts ----------------------------
(***************************************************************************)
(* The accounts one user has linked: their tokens, the projects they may   *)
(* serve, and the jobs that link, refresh, share and unlink them.          *)
(*                                                                         *)
(* Every gateway process has the token database to itself for one          *)
(* statement or transaction at a time; what a job read is old by the time  *)
(* it writes, as other processes, and the thread pool that runs half of    *)
(* the web handlers, work in between.  A job is one call or request.       *)
(*                                                                         *)
(* A grant is what the provider keeps of one consent: its refresh token    *)
(* works until the user withdraws it there.  Accounts are numbers, in the  *)
(* order list_accounts gives them.                                         *)
(***************************************************************************)
EXTENDS Naturals, FiniteSets, FiniteSetsExt

CONSTANTS
    Accounts,
    Provider,                 \* Provider[a]
    Projects,                 \* the projects the user can reach
    Jobs,
    Links,                    \* ids of link states
    Asks,                     \* Asks[a]: the shares asked for, a capability and a set of projects
    MaxGrants, MaxScopeSets, MaxFaults     \* bounds

OAuth == {"google", "microsoft"}
Every == "*"
Capabilities == {"mail", "calendar"}      \* account_scope_set takes any word; these are asked for

ASSUME AccountsAssumption ==
    Accounts \subseteq Nat \ {0} /\ IsFiniteSet(Accounts) /\ Provider \in [Accounts -> OAuth \union {"imap"}]
ASSUME AsksAssumption     ==
    Asks \in [Accounts -> SUBSET (Capabilities \X SUBSET (Projects \union {Every}))]
ASSUME GrantsAssumption   == {MaxGrants, MaxScopeSets, MaxFaults} \subseteq Nat /\ MaxGrants > 0

VARIABLES
    rows,       \* user_tokens
    scopes,     \* account_scopes: pairs of a capability and a project
    marked,     \* schema_meta: the grants of old accounts have been written
    links,      \* oauth_pending: the states that can still be redeemed
    job,
    alive,      \* the grants the provider still honours
    given,      \* number of consents so far
    scopeSets,  \* number of account_scope_set calls so far
    faults,     \* number of crashes, of refreshes that failed though the grant lives, and of
                \* rows that could not be read at a re-link
    \* what has been seen from outside:
    want        \* the user's last word on each account, unless a job has written
                \* over what another did since it read, or what it could not read

accountVars == <<rows, scopes, marked, links, job, alive, given, scopeSets, faults, want>>
storeVars == <<rows, scopes, marked>>
worldVars == <<alive, given, scopeSets, faults>>

Unlinked == [refresh |-> 0, fresh |-> FALSE, status |-> "unlinked"]
NoJob    == [step |-> "none", kept |-> FALSE, account |-> 0, refresh |-> 0, todo |-> {}, ask |-> <<"none", {}>>]

Nothing  == [known |-> TRUE, linked |-> FALSE, refresh |-> 0, scopes |-> {}]
Unknown  == [Nothing EXCEPT !.known = FALSE]

\* A token as it is stored: its expires_in made an instant, the row active.
Stamped(refresh) == [refresh |-> refresh, fresh |-> TRUE, status |-> "active"]

\* The capabilities an account of a provider can be shared for.
Serves(provider) == IF provider = "google" THEN {"mail", "calendar"} ELSE {"mail"}
\* What each served before accounts had scopes.
Legacy(provider) == IF provider = "google" THEN {"calendar"} ELSE {"mail"}

\* An installation from before accounts had scopes, with some linked.
AccountsInit ==
    /\ \E old \in SUBSET Accounts :
          rows = [a \in Accounts |-> CASE a \notin old -> Unlinked
                                       [] a \in old /\ Provider[a] \in OAuth -> Stamped(1)
                                       [] OTHER -> Stamped(0)]
    /\ scopes = [a \in Accounts |-> {}] /\ marked = FALSE
    /\ links = {} /\ job = [j \in Jobs |-> NoJob]
    /\ alive = {1} /\ given = 1 /\ scopeSets = 0 /\ faults = 0
    /\ want = [a \in Accounts |-> [Nothing EXCEPT !.linked = rows[a] # Unlinked, !.refresh = rows[a].refresh]]

AtRest(j)   == job[j] = NoJob /\ marked
At(j, s)    == job[j].step = s
End(j)      == job' = [job EXCEPT ![j] = NoJob]

\* The user's word on account a is new, unless the write overwrites another's.
Say(a, overwrites, new) ==
    want' = [want EXCEPT ![a] = IF @.known /\ ~overwrites THEN new ELSE Unknown]

\* A call goes on to the next account it refreshes; after the last it serves
\* what GetAll gives and leaves the store alone.
Onwards(j, todo) ==
    job' = [job EXCEPT ![j] = IF todo = {} THEN NoJob ELSE [NoJob EXCEPT !.step = "look", !.todo = todo]]

------------------------------------------------------------------------
(* The token store *)

Linked == {a \in Accounts : rows[a] # Unlinked}

Upsert(a, token) == rows' = [rows EXCEPT ![a] = token]

\* mark_needs_relink: an update that finds no row changes nothing.
MarkNeedsRelink(a) ==
    rows' = [rows EXCEPT ![a] = IF @ = Unlinked THEN @ ELSE [@ EXCEPT !.status = "needs_relink"]]

DeleteMutant(a) ==      \* the grants are left behind
    rows' = [rows EXCEPT ![a] = Unlinked] /\ UNCHANGED scopes
Delete(a) == rows' = [rows EXCEPT ![a] = Unlinked] /\ scopes' = [scopes EXCEPT ![a] = {}]

\* All of one capability's projects are replaced; the wildcard stands alone.
WantedMutant(projects) == projects      \* beside the wildcard
Wanted(projects) == IF Every \in projects THEN {Every} ELSE projects
Rescoped(granted, ask) ==
    {g \in granted : g[1] # ask[1]} \union ({ask[1]} \X Wanted(ask[2]))

IsAllowed(a, cap, project) == {<<cap, project>>, <<cap, Every>>} \intersect scopes[a] # {}

\* What an account that is linked at the first start may go on serving.
Backfill == [a \in Accounts |-> IF a \in Linked THEN Legacy(Provider[a]) \X {Every} ELSE {}]

\* A process opens the store.
Start ==
    /\ ~marked /\ marked' = TRUE
    /\ scopes' = [a \in Accounts |-> scopes[a] \union Backfill[a]]
    /\ want' = [a \in Accounts |-> [want[a] EXCEPT !.scopes = Backfill[a]]]
    /\ UNCHANGED <<rows, links, job, worldVars>>

------------------------------------------------------------------------
(* Linking *)

\* account_link: a new state, good for ten minutes.
AskLink(l) ==
    /\ marked /\ l \notin links /\ given < MaxGrants /\ links' = links \union {l}
    /\ UNCHANGED <<storeVars, job, worldVars, want>>

\* After them it is as good as gone: purged, or refused when it is redeemed.
LinkAges(l) ==
    /\ l \in links /\ links' = links \ {l}
    /\ UNCHANGED <<storeVars, job, worldVars, want>>

\* The provider sends the user's browser back: the state is spent, also if it
\* was made for another provider than the callback's.
Callback(j, l) ==
    /\ AtRest(j) /\ l \in links /\ links' = links \ {l}
    /\ \/ UNCHANGED job
       \/ job' = [job EXCEPT ![j] = [NoJob EXCEPT !.step = "exchange"]]
    /\ UNCHANGED <<storeVars, worldVars, want>>

\* On a re-link, what the answer lacks is kept, if the row can be read.
Merged(refresh, old) == IF refresh = 0 THEN old.refresh ELSE refresh

\* The account is the one the user chose at the provider, as id_token says.
Chosen == {a \in Accounts : Provider[a] \in OAuth}

\* The code is exchanged, and the row of the account read.  The provider may
\* give no refresh token, or no answer.
Exchange(j) ==
    /\ At(j, "exchange")
    /\ \/ End(j) /\ UNCHANGED <<alive, given, faults>>
       \/ /\ given < MaxGrants
          /\ \E a \in Chosen, refresh \in {0, given + 1}, read \in BOOLEAN :
                /\ alive' = alive \union ({refresh} \ {0}) /\ given' = given + 1
                /\ ~read => refresh = 0 /\ faults < MaxFaults
                /\ faults' = IF read THEN faults ELSE faults + 1
                /\ job' = [job EXCEPT ![j].step = "store", ![j].account = a,
                                      ![j].kept = refresh = 0,      \* the row's
                                      ![j].refresh = Merged(refresh, IF read THEN rows[a] ELSE Unlinked)]
    /\ UNCHANGED <<storeVars, links, scopeSets, want>>

StoreLink(j) ==
    LET a == job[j].account refresh == job[j].refresh IN
    /\ At(j, "store") /\ Upsert(a, Stamped(refresh)) /\ End(j)
    /\ Say(a, job[j].kept /\ rows[a].refresh # refresh,
           [want[a] EXCEPT !.linked = TRUE, !.refresh = refresh])
    /\ UNCHANGED <<scopes, marked, links, worldVars>>

\* account_link_imap: a password, which does not expire.
LinkPassword(a) ==
    /\ marked /\ Provider[a] = "imap" /\ Upsert(a, Stamped(0))
    /\ Say(a, FALSE, [want[a] EXCEPT !.linked = TRUE])
    /\ UNCHANGED <<scopes, marked, links, job, worldVars>>

\* One transaction; an account that is not linked is an error after it.
Unlink(a) ==
    /\ marked /\ Delete(a)
    /\ want' = [want EXCEPT ![a] = Nothing]
    /\ UNCHANGED <<marked, links, job, worldVars>>

------------------------------------------------------------------------
(* Sharing *)

\* account_scope_set: the account has to be linked and the projects the user's; whether
\* its provider serves the capability nobody asks ...
AskScope(j, a, ask) ==
    /\ AtRest(j) /\ a \in Linked /\ scopeSets < MaxScopeSets
    /\ scopeSets' = scopeSets + 1
    /\ job' = [job EXCEPT ![j] = [NoJob EXCEPT !.step = "scope", !.account = a, !.ask = ask]]
    /\ UNCHANGED <<storeVars, links, alive, given, faults, want>>

\* ... and the rows are written, whatever became of the account.
SetScope(j) ==
    LET a == job[j].account
        ask == job[j].ask IN
    /\ At(j, "scope") /\ scopes' = [scopes EXCEPT ![a] = Rescoped(@, ask)] /\ End(j)
    /\ Say(a, a \notin Linked, [want[a] EXCEPT !.scopes = Rescoped(@, ask)])
    /\ UNCHANGED <<rows, marked, links, worldVars>>

------------------------------------------------------------------------
(* Serving *)

First(provider) == {a \in Linked : Provider[a] = provider
                        /\ \A b \in Linked : Provider[b] = provider => a <= b}

\* The accounts a mail call looks after first: of Microsoft's only one.
Reached == First("microsoft") \union {a \in Linked : Provider[a] = "google"}

\* The accounts of a provider that may serve the project and are not known dead.
ScopedAccounts(cap, project) ==
    {a \in Linked : rows[a].status # "needs_relink" /\ IsAllowed(a, cap, project)}

\* The sources of a capability: every scoped account a connector is there for.
GetAll(cap, project) == {a \in ScopedAccounts(cap, project) : cap \in Serves(Provider[a])}

Begin(j, todo) ==
    /\ AtRest(j) /\ todo # {}
    /\ job' = [job EXCEPT ![j] = [NoJob EXCEPT !.step = "look", !.todo = todo]]
    /\ UNCHANGED <<storeVars, links, worldVars, want>>

\* _mail_backend.
BeginMail(j) == Begin(j, Reached)

\* _resolve_calendar_dav takes the first Google account, whatever it is shared for.
BeginCalendar(j) == Begin(j, First("google"))

\* The next account's token is read: one that is about to expire is refreshed.
LookActiveMutant(j) ==      \* flagged accounts are not tried again
    LET a == Min(job[j].todo) IN
    /\ At(j, "look")
    /\ IF rows[a].status # "active" \/ rows[a].fresh
       THEN Onwards(j, job[j].todo \ {a})
       ELSE job' = [job EXCEPT ![j].step = "answer", ![j].account = a, ![j].refresh = rows[a].refresh]
    /\ UNCHANGED <<storeVars, links, worldVars, want>>
Look(j) ==
    LET a == Min(job[j].todo) IN
    /\ At(j, "look")
    /\ IF rows[a] = Unlinked \/ rows[a].fresh
       THEN Onwards(j, job[j].todo \ {a})
       ELSE job' = [job EXCEPT ![j].step = "answer", ![j].account = a, ![j].refresh = rows[a].refresh]
    /\ UNCHANGED <<storeVars, links, worldVars, want>>

\* The provider answers, or nothing does: any exception is a failed refresh.
Answer(j) ==
    /\ At(j, "answer")
    /\ \/ /\ job[j].refresh \in alive
          /\ job' = [job EXCEPT ![j].step = "keep"] /\ UNCHANGED faults
       \/ /\ job[j].refresh \notin alive
          /\ job' = [job EXCEPT ![j].step = "flag"] /\ UNCHANGED faults
       \/ /\ job[j].refresh \in alive /\ faults < MaxFaults
          /\ faults' = faults + 1
          /\ job' = [job EXCEPT ![j].step = "flag"]
    /\ UNCHANGED <<storeVars, links, alive, given, scopeSets, want>>

\* The new access token is stored with the refresh token that was read.
Keep(j) ==
    LET a == job[j].account refresh == job[j].refresh IN
    /\ At(j, "keep") /\ Upsert(a, Stamped(refresh)) /\ Onwards(j, job[j].todo \ {a})
    /\ Say(a, rows[a] = Unlinked \/ rows[a].refresh # refresh, want[a])
    /\ UNCHANGED <<scopes, marked, links, worldVars>>

Flag(j) ==
    LET a == job[j].account IN
    /\ At(j, "flag") /\ MarkNeedsRelink(a) /\ Onwards(j, job[j].todo \ {a})
    /\ Say(a, rows[a] # Unlinked /\ rows[a].refresh # job[j].refresh, want[a])
    /\ UNCHANGED <<scopes, marked, links, worldVars>>

------------------------------------------------------------------------
(* Around the gateway *)

\* An access token is about to expire.
Expire(a) ==
    /\ Provider[a] \in OAuth /\ rows[a].fresh /\ rows' = [rows EXCEPT ![a].fresh = FALSE]
    /\ UNCHANGED <<scopes, marked, links, job, worldVars, want>>

\* The user withdraws a grant at the provider.
Withdraw(g) ==
    /\ g \in alive /\ alive' = alive \ {g}
    /\ UNCHANGED <<storeVars, links, job, given, scopeSets, faults, want>>

\* The process a job is in dies.
Crash(j) ==
    /\ job[j] # NoJob /\ End(j)
    /\ faults < MaxFaults /\ faults' = faults + 1
    /\ UNCHANGED <<storeVars, links, alive, given, scopeSets, want>>

Linking == \E l \in Links : AskLink(l) \/ LinkAges(l) \/ \E j \in Jobs : Callback(j, l)
Sharing == \E a \in Accounts :
              \/ LinkPassword(a) \/ Unlink(a) \/ Expire(a)
              \/ \E j \in Jobs, ask \in Asks[a] : AskScope(j, a, ask)
Step(j) == Exchange(j) \/ StoreLink(j) \/ SetScope(j)
              \/ Look(j) \/ Answer(j) \/ Keep(j) \/ Flag(j)

AccountsNext ==
    \/ Start \/ Linking \/ Sharing
    \/ \E g \in 1..MaxGrants : Withdraw(g)
    \/ \E j \in Jobs : Step(j) \/ BeginMail(j) \/ BeginCalendar(j) \/ Crash(j)

\* Steps that have begun go on, time passes, and the user keeps asking for mail.
Fairness ==
    /\ WF_accountVars(Start)
    /\ \A j \in Jobs : WF_accountVars(Step(j)) /\ SF_accountVars(BeginMail(j))
    /\ \A a \in Accounts : WF_accountVars(Expire(a))

AccountsSpec == AccountsInit /\ [][AccountsNext]_accountVars /\ Fairness

------------------------------------------------------------------------
(* Properties *)

Rows == [refresh : 0..MaxGrants, fresh : BOOLEAN, status : {"unlinked", "active", "needs_relink"}]

\* What the variables hold.  In the store's table the wildcard of a capability
\* never has other projects beside it.
AccountsTyped ==
    /\ rows \in [Accounts -> Rows]
    /\ \A a \in Accounts : scopes[a] \in SUBSET (Capabilities \X (Projects \union {Every}))
    /\ \A a \in Accounts : \A g \in scopes[a] :
          g[2] = Every => \A h \in scopes[a] : h[1] = g[1] => h = g
    /\ marked \in BOOLEAN /\ links \subseteq Links
    /\ alive \subseteq 1..given /\ given <= MaxGrants

\* The store holds the user's last word on every account, through refreshes,
\* restarts, unlinks and re-links: an unlinked account is gone with its grants, a
\* re-linked one has the new consent's token and no project of its predecessor.
\* The exception is a job that wrote over what another did since it read, or over a
\* row it could not read, up to the next unlink (a refresh may bring an unlinked
\* account back).
StoreIsTheUsers ==
    \A a \in Accounts : want[a].known =>
        /\ (a \in Linked) = want[a].linked
        /\ rows[a].refresh = want[a].refresh
        /\ scopes[a] = want[a].scopes

\* An account that stays linked, shared with a project and looked after, with a
\* grant that lives, serves the project's mail again and again, whatever flags a
\* failed refresh or an overlapping one has left.
LiveGrantServes ==
    \A a \in Accounts, p \in Projects :
        <>[](a \in Reached /\ rows[a].refresh \in alive /\ IsAllowed(a, "mail", p))
            => []<>(a \in GetAll("mail", p))

========================================================================
