--------------------------- MODULE BriefChannels ---------------------------
(***************************************************************************)
(* Where the briefs of one user go.  The assistant may set the channels up *)
(* in a chat, the user in the browser; a scheduled brief, a brief asked    *)
(* for and a rule's notification all use what is stored.                   *)
(*                                                                         *)
(* The processes share the notify database, one statement a step; each of  *)
(* these jobs holds a process's event loop to its end.                     *)
(***************************************************************************)
EXTENDS CodeChannels

CONSTANTS
    Workers,                  \* processes
    Mailboxes,                \* the projects with a mailbox
    Specs,                    \* channels that somebody may try to set up
    Legacy                    \* what may be stored from before channels were checked: sets of them

\* fit: the server and the port are those that may be posted to, over https where it must be
MailChannel == [type : {"email"}, from : Mailboxes, to : Names]
PostChannel == [type : {"ntfy", "webhook"}, place : Place, fit : BOOLEAN]

ASSUME SpecsAssumption ==
    /\ Specs \subseteq MailChannel \union PostChannel
    /\ Legacy \subseteq SUBSET (MailChannel \union PostChannel)

VARIABLES
    stored,     \* notify_prefs.channels
    owns,       \* the projects that the user owns
    task,       \* task[p]: what process p is doing: [step, chs]
    \* what has been seen from outside:
    vouched,    \* the places that the user, or an owner in an unlocked session, has ever set
    astray      \* a brief has gone to another place, or from a mailbox not the user's

channelVars == <<stored, owns, task, vouched, astray>>

NoTask == [step |-> "none", chs |-> {}]

\* Where what is sent through the channel turns up, and from whom.
Lands(c) == IF c.type = "email" THEN <<c.from, c.to>> ELSE <<c.place.kind, c.place.id>>

ChannelsInit ==
    /\ stored \in Legacy /\ vouched = {Lands(c) : c \in stored}
    /\ owns \in SUBSET Mailboxes
    /\ task = [p \in Workers |-> NoTask] /\ astray = FALSE

------------------------------------------------------------------------
(* Checks *)

MaySendFrom(c) == c.type = "email" => c.from \in owns

\* _destination, _discord_id, check_ntfy_url: what would not be posted to.
Postable(c) == c.type # "email" => c.fit

\* one address, whatever it is sent from
IdentityMutant(c) ==
    IF c.type = "email" THEN <<"email", c.to>>
    ELSE IF c.place.kind = "discord" THEN <<"discord", c.place.id>>
    ELSE <<c.type, c.place.kind, c.place.id, c.place.written>>

\* Two channels with one identity lead to one place; not the other way round.
ChannelIdentity(c) ==
    IF c.type = "email" THEN <<"email", c.from, c.to>>
    ELSE IF c.place.kind = "discord" THEN <<"discord", c.place.id>>
    ELSE <<c.type, c.place.kind, c.place.id, c.place.written>>

\* One that would not be posted to has an identity of its own each time.
Known(c, chs) == Postable(c) /\ \E d \in chs : Postable(d) /\ ChannelIdentity(c) = ChannelIdentity(d)

\* With the lock on, an assistant adds destinations only in an owner's unlocked session.
Guarded(chs, unlocked) == (\A c \in chs : Known(c, stored)) \/ (unlocked /\ owns # {})

------------------------------------------------------------------------
(* Setting up *)

Free(p)  == task[p] = NoTask
Do(p, step, chs) == task' = [task EXCEPT ![p] = [step |-> step, chs |-> chs]]

\* brief_configure without channels: switched on or off, at another time, ...
Tune(p) == Free(p) /\ Do(p, "keep", {}) /\ UNCHANGED <<stored, owns, vouched, astray>>

\* brief_configure with channels.
Offer(p, chs, unlocked) ==
    /\ Free(p)
    /\ \A c \in chs : Postable(c) /\ MaySendFrom(c)
    /\ Guarded(chs, unlocked)
    /\ Do(p, "merge", chs)
    /\ vouched' = IF unlocked /\ owns # {} THEN vouched \union {Lands(c) : c \in chs} ELSE vouched
    /\ UNCHANGED <<stored, owns, astray>>

\* api_brief_set: it is the user who asks.
Browse(p, chs) ==
    /\ Free(p)
    /\ \A c \in chs : Postable(c) /\ MaySendFrom(c)
    /\ Do(p, "merge", chs)
    /\ vouched' = vouched \union {Lands(c) : c \in chs}
    /\ UNCHANGED <<stored, owns, astray>>

\* set_prefs reads what it is to keep ...
Merge(p) ==
    /\ task[p].step \in {"keep", "merge"}
    /\ Do(p, "write", IF task[p].step = "keep" THEN stored ELSE task[p].chs)
    /\ UNCHANGED <<stored, owns, vouched, astray>>

\* ... and writes it all.
Write(p) ==
    /\ task[p].step = "write"
    /\ stored' = task[p].chs
    /\ Do(p, "none", {})
    /\ UNCHANGED <<owns, vouched, astray>>

------------------------------------------------------------------------
(* Sending *)

\* A brief that is due, or a rule's notification.
Take(p) ==
    /\ Free(p)
    /\ stored # {}
    /\ Do(p, "deliver", stored)
    /\ UNCHANGED <<stored, owns, vouched, astray>>

\* brief_send_now refuses altogether while one of the mailboxes is not the user's.
TakeNow(p) == (\A c \in stored : MaySendFrom(c)) /\ Take(p)

\* leaves it to the tools to check the owner
AcceptedMutant(chs) == {c \in chs : Postable(c)}

\* build_channels: checked anew, as the channel may be older than the checks and the grant.
Accepted(chs) == {c \in chs : Postable(c) /\ MaySendFrom(c)}

Distribute(p) ==
    /\ task[p].step = "deliver"
    /\ \E reached \in SUBSET Accepted(task[p].chs) :
         astray' = (astray \/ \E c \in reached : Lands(c) \notin vouched \/ ~Postable(c) \/ ~MaySendFrom(c))
    /\ Do(p, "none", {})
    /\ UNCHANGED <<stored, owns, vouched>>

------------------------------------------------------------------------
\* The user becomes an owner of a project, or no longer is.
Regrant(m) ==
    /\ owns' = IF m \in owns THEN owns \ {m} ELSE owns \union {m}
    /\ UNCHANGED <<stored, task, vouched, astray>>

Halt(p) == ~Free(p) /\ Do(p, "none", {}) /\ UNCHANGED <<stored, owns, vouched, astray>>

ChannelsNext ==
    \/ \E p \in Workers :
         \/ Tune(p) \/ Merge(p) \/ Write(p) \/ Take(p) \/ TakeNow(p) \/ Distribute(p) \/ Halt(p)
         \/ \E chs \in SUBSET Specs : Browse(p, chs) \/ \E unlocked \in BOOLEAN : Offer(p, chs, unlocked)
    \/ \E m \in Mailboxes : Regrant(m)

------------------------------------------------------------------------

\* However briefs are set up from the chat and the browser, by several processes at once,
\* and whatever was stored before channels were checked or ownership was lost: a brief
\* goes only where its user, or an owner in an unlocked session, once said that it should,
\* only from a mailbox that the user owns now, and never to where it must not be posted.
BriefsStayHome == ~astray

\* Whatever is stored, or on its way into the store or out of it, was said by the user.
StoredInv ==
    /\ stored \subseteq MailChannel \union PostChannel
    /\ task \in [Workers -> [step : {"none", "keep", "merge", "write", "deliver"},
                             chs : SUBSET (MailChannel \union PostChannel)]]
    /\ \A c \in stored : Lands(c) \in vouched
    /\ \A p \in Workers : \A c \in task[p].chs : Lands(c) \in vouched
    /\ BriefsStayHome
=============================================================================
