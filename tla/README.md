# Memaix gateway: specifications

TLA+ models of the Memaix gateway (`gateway/src/memaix_gateway`), the service that
gives language models access to a person's mail, calendar, notes and projects. The
models are translated from the code; the documents in `docs/` are used only for what
the program is *supposed* to do, where a property or a remark compares the two.

## 1. The system

| Part | State it keeps | Operations | Interacts with |
|---|---|---|---|
| **Outbox** `outbox/` | `pending_actions` in SQLite: status, decider, result | queue, list, approve, reject, execute, expire | mail, calendar and membership tools queue into it; MCP, web, board and the elicitation dialog decide; the executor calls the tool again with `_confirmed` |
| **Timeline** `timeline/` | `actions` in SQLite: an inverse call per action, status | record, undo (claim, invert, mark, link) | the tool call path records; undo calls back into memory, calendar, backlog, board |
| **Memory** `backends/memory_store.py`, `gitvault.py` | per vault: note files, SQLite rows with full-text search, git repository | write, append, set status, revert, history | timeline undo, PM documents, backlog and onboarding share the repository |
| **Backlog and board** `tools/backlog.py`, `board/` | one file per item with a version | add, score, comment, set status, assign, move | vault lock; timeline rows for adds and moves; the Deck sync |
| **Tool call path** `server.py` | per process: the access list | rate limit, access, audit, idempotency, timeline, search index, around every tool | everything |
| **Safety** `safety/` | idempotency cache, rate windows, audit log | get/record, check, log | tool call path |
| **Booking** `booking/` | consent records and bookings in SQLite, per-link locks, cached free/busy | slots, create, reschedule, cancel, remind, purge, watch links | calendars, mail |
| **Rules** `rules/` | rules, runs reserved per event | add, switch, evaluate, reserve, act | webhooks, internal events, outbox, channels |
| **Notify** `notify/` | preferences, next brief, sent-log | configure, due, claim, deliver | scheduler, channels, rules |
| **Access** `acl.py`, `access_admin.py`, `invites.py`, `web/acl_writer.py` | `acl.yaml` with backups, invitation tokens | set member, invite, reset, accept, kill switch, grants | everything; the login page reads the file; membership tools go through the outbox |
| **Mail** `tools/email.py`, `mail_client.py`, `mail_unlock.py` | in memory: short numbers per session, codes, unlocked sessions | overview, list, search, read, flag, move, draft, send, unlock, lock | linked accounts, channels for codes |
| **Auth** `auth/`, `backends/token_store.py`, `connectors/` | encrypted tokens, scopes, flags, link states | link, refresh, share, unlink, resolve | providers, mail and calendar tools |
| **PM engine** `pm/`, `tools/pm_engine.py` | tasks, dependencies, people, leaves, scenarios in SQLite | enter facts, plan, commit, what-if, report | vault for its documents |
| **Nextcloud sync** `nextcloud/` | links and stamps of cards and notes | `deck_sync`, `notes_sync` | backlog, memory, Nextcloud |
| **Search, LLM agent, link watch, CLI, deployment** | see `PROJECT.json` | | |

How it runs. MCP tools and `async def` web handlers run on one event loop, one at a
time between awaits; `def` web handlers (`web/api/outbox.py`, `web/api/timeline.py`)
run in threads of a pool beside it; several gateway processes - one per stdio client, or
HTTP instances - share the SQLite files. Nothing is resumed after a crash: there is no
recovery scan in any store.

What is hard: two actors deciding or undoing the same row; lists, tokens, numbers and
clocks that are old by the time they are used; effects in the outside world that happen
and then raise; a crash between a claim and what it claims; several stores (file, row,
index, history) that are one thing to the user; unlocked and locked writers of the same
file; several processes on one database. The hazards in `PROJECT.json` list each at its
line, with the properties that watch it.

## 2. The modules

| Module | What it is |
|---|---|
| `Outbox`, `OutboxPromise`, `MCOutbox`, `OutboxProofs` | rows of `pending_actions` and the handlers that queue, decide and execute them; what an outbox promises; TLC's instance; theorems, also about `Accounts` |
| `Timeline`, `MCTimeline`, `TimelineProofs` | rows of `actions`, the items and events they are about, the item tools, and undo; theorems, also about `Planning` |
| `MemoryVault` | a vault's notes, documents and items in the work tree, SQLite, the git index and the history |
| `CloudSync` | the syncs of Deck cards with items and of Nextcloud's notes with the vault's |
| `MCMemoryVault`, `MemoryVaultProofs` | TLC's instance of `MemoryVault` and `CloudSync` together; theorems about each |
| `ToolTable`, `ToolCall`, `MCToolCall`, `ToolCallProofs` | the registered tools; the path each call takes through limits, role, cache, audit and traces |
| `Access`, `MCAccess`, `AccessProofs` | `acl.yaml`, everyone who rewrites it, invitations, and the login page |
| `Briefs`, `MCBriefs`, `BriefsProofs` | one user's daily brief: set up, due, claimed, delivered |
| `CodeChannels`, `SendLock` | where unlock codes may go; the lock on sending mail |
| `Rules` | automation rules, their runs and actions |
| `BriefChannels` | where briefs and notifications may go, and who says so |
| `Sending`, `MCSending`, `SendingProofs` | what leaves Memaix: the composition of the four modules above; theorems, also about `MailBoxes` |
| `MailBoxes`, `MCMailBoxes` | numbers and ids of messages over several mailboxes |
| `Accounts`, `MCAccounts` | linked accounts: tokens, scopes, refreshes |
| `Planning`, `MCPlanning` | facts, critical path, allocation, scenarios and what-if; theorems in `TimelineProofs` |
| `Booking`, `MCBooking`, `BookingProofs` | a host's calendar, the consent store's row per booking, the booking pages, reminders and the retention purge |

Each SQLite statement or transaction, and each file write, is one step wherever another
process, thread or a crash can fall next to it. What runs on one event loop without
awaiting is one step where only other tasks of that loop could interfere.

### Outbox

State: the columns of `pending_actions` (`status`, `tool`, `requester`, `decidedBy`,
`result`), whether the clock has passed `expires_at` (`past`), the disabled users, the audit
entries about each row, and a record per request in flight (`req`). `effects` is an observer
that counts how often the world saw the action happen, `off` one of the rows whose requester
was disabled at the claim and has been since. Each SQLite statement is one step; between two
of them anything may happen.

| Action | Code |
|---|---|
| `Enqueue`, `EnqueueAndOffer` | the gated tools and `ActionQueue.enqueue`; the asynchronous MCP tools go on to `_maybe_elicit_approval` |
| `OfferDialog`, `DismissDialog`, `AnswerDialog` | `resolve_via_elicitation` |
| `Decide`, `RefuseLocked` | `outbox_approve`, `outbox_reject`, `api_outbox_approve`, `api_outbox_reject`, `api_outbox_decide` up to the role check |
| `Claim` | `claim_for_decision` |
| `ReadList` | the membership tools' reading of the access list, and their check of the requester |
| `Execute` | `execute_pending`; it may be refused, fail, happen, or happen and then raise |
| `RecordResult`, `AuditDecision` | `record_result`, the audit entry and the answer |
| `Fail` | the process dies or SQLite raises anywhere on the way |
| `TimePasses`, `ExpireDue`, `ToggleUser` | the clock, `expire_due` (if something calls it: `Sweeps`), the kill switch |

Ordinary tools check the requester with the access list the handler started with; the
membership tools read it again (`tools/access.py:_fresh_acl`), which is why
`DisabledRequesterChangesNothing` is claimed only of those. `AclWriter` loads the list once
more for the change and nobody looks the requester up in that one: a kill switch thrown
between the two comes too late, and the property does not claim otherwise.

### Timeline

State: which items and events exist, an item's status and version, the columns of
`actions`, the vault's lock, and the call each handler is in. One handler, `Loop`, is
the event loop; the others are undo requests in the thread pool. `inverted` and `left`
are observers: how often a row's inverse took effect, and the version the recorded
action left.

| Action | Code |
|---|---|
| `AddItem`, `SetStatus`, `Score`, `Comment`, `Assign` | `tools/backlog.py`: the last three take the lock, read, and write the whole file back (`Rewrite`) |
| `MoveItem`, `Write` | the board's move through `write_status`, which takes no lock |
| `CreateEvent`, `DeleteEvent` | `calendar_create`, `calendar_delete` |
| `Record` | `ActionsStore.record` |
| `BeginUndo`, `ClaimUndo`, `InvertCreate`, `InvertMove`, `InvertAdd`, `MarkFailed`, `LogUndo`, `LinkUndo` | `timeline/undo.py` and the store's methods, one statement a step |
| `Fail` | the process dies or SQLite raises anywhere on the way |

`backlog_set_status` reads and checks under the lock and writes in a second step;
`write_status` does the same without the lock, so the two can overlap. Rows without an
inverse are left out; the row an undo itself gets is `logged[r]`. The inverse of
`backlog_add` enforces the owner role inside the tool although undo asks for a
collaborator, so a collaborator's attempt ends in `undo_failed` and spends the row.

`Timeline` implements `OutboxPromise` too, with an undo in place of an approved action:
claimed by one caller, taking effect at most once, with a final outcome.

### MemoryVault

State: each file on disk, each note's row, the index, the unmerged files, the trees of the
history and `write[w]`, the writes under way. Files are notes, PM documents and backlog
items: notes go through `MemoryStore`, documents are written and committed, items are
written and committed by nobody until a sprint stamps them. A text is the set of its lines:
`Lines` are those that differ between versions, `Body` stands for the rest.

| Action | Code |
|---|---|
| `WriteNote`, `AppendNote` | `memory_write`, `memory_set_status`, `MemoryStore.append` up to the file |
| `BeginNote`, `Free` | `write_lock`, one to each process; documents (`BeginDoc`) and items take none |
| `WriteDb`, `GitAdd`, `GitCommit`, `CommitRefused`, `Return` | the rest of `MemoryStore.write` and `gitvault.commit` |
| `SetMethodology`, `StatusReport`, `RaidAdd`, `PlanSprint`, `Stamp`, `EditItem` | the PM documents and the items, in the same repository |
| `CompleteOnboarding`, `Sweep` | onboarding's commit, which sweeps up what was left |
| `Revert`, `RevertConflicts` | `memory_revert` and the timeline's undo of a memory row |
| `Crash` | the process or a step of a write failing |

Git is external and modelled from how it answers these commands: `commit` records
everything staged, refuses while anything is unmerged, and with nothing staged is a
no-op or - when another tracked file is dirty - an error; `revert` needs a clean index
and clean files, merges what it can and leaves the rest in conflict. `settled` (notes
nothing has gone wrong with since their last write) and the snapshot handed out are
observers. A write's file step is part of `Begin`, and one step: before it a write has done
nothing anybody can see. Writes and undos overlap as the code lets them: those of notes hold
the write lock of their process, which other processes do not see and PM documents, items and
onboarding do not take. A git command is one step; where two of them meet on git's own locks,
one fails, which is `Crash`. `crossed` marks a write during which another process wrote or
took back the same note: of that nothing is promised but that no reader meets markers.

### CloudSync

State: the cards of a Deck stack (or Nextcloud's notes), their copies (items, or the
vault's notes) with link and stamp, the runs under way with the lists each asked for,
and both clocks: Nextcloud stamps whole seconds. `kind` says which of the two syncs it
is. `unsent` and `lost` are observers: edits made while nothing was under way that have
yet to arrive, and those written over without a word.

`ListCards`, `ListCopies`, `PullNew`, `Link`, `Decide`, `PullIntoItem`, `PullIntoNote`,
`ReadNote`, `Push`, `ReadFile`, `Restamp`, `Skip` are the steps of `deck_sync` and
`notes_sync`; `EditCard`, `RemoveCard`, `EditCopy`, `TouchCopy` are people; `Fails` is
Nextcloud, the disk or the process. Memory writes, many steps in `MemoryVault`, are one
here.

### ToolTable and ToolCall

`ToolTable` holds a row per registered tool: which of the four ways through `server.py`
its wrapper takes, the role it asks for, whether it changes anything. `ToolCall` is the
path itself: `Begin`, `CheckUser`, `CheckProject` (the SQLite limiter: delete, count and
insert in one transaction, with the clock read before), `CheckRole`, `Lookup`, `Run` and
`RunRefused`, `Audit`, `LeaveTraces`, `Record`, `Fail`, and `Crash`. Each process has one
call in hand and its own copy of the access list; `SwitchOff` reaches only the process
it is made in. `past` is an observer: what became of each call.

### Access

State: `acl.yaml` (or `Torn`), its mtime and three backups, the gateway's cached list,
the open link of each user, what each worker is doing, and the login page's copy. An
operation (`SetMember`, `Invite`, `ResetLink`, `Accept`, `SetDisabled`, `SetGrants`)
checks the list it looks at and goes on through `Load`, `StartWrite` (the check on what
was loaded, the backups, and the first byte over the old text), `FinishWrite`, and then
`Issue`, `Revoke` and `Reload`. Each `AclWriter` has a lock of its own, so the event loop
and an approval in a thread write over one another: then `FinishWrite` leaves either
list or one that does not parse. `StatFile` and `ReadFile` are `login-app/auth.py`.
`Restore` is an operator. `last` and `spent` are observers: `last` is what the changes
carried out so far make of the file, one after the other, for as long as no two writers have
had it in hand at once; from then on it is `Torn`, until the file rests and is loaded again.

### Briefs

State: one user's preferences, the time of the next brief, the time of the last run, the
sent log, and the job each process is in. `Configure` and `SetSchedule` are two
statements; a due brief goes through `FindDue`, `ReadPrefs`, `Claim`, `CheckDue` (quiet
hours, switched off, sent already), `Build`, `Send`, `RecordSent`, `MarkRun`; `SendNow`
starts at the build. `Build` names `Lines` changes at most (10 in the code), and none at all
if reading them raises. `DeliveryFails` and `Crash` fall anywhere. A day has two times; one
project is covered all along, and each item changes once.
`told`, `cut`, `fired`, `since` and `smooth` are observers: `cut` is what a scheduled brief
that arrived left out.

### Sending: CodeChannels, SendLock, Rules, BriefChannels

`CodeChannels` translates the checks of `mail_unlock.py` on where codes may go. An
address is kept as far as `canonical_address` looks at it, a topic or webhook as what it
names and how that is written: in a way the identities see through (scheme, capitals, other
hosts of Discord, a slash at the end) or in one that they take for another place (`apart`).
`SameBox`, `SamePlace` and `Open` say, independently of the code, where a message really ends
up and whether the assistant could read it there.
`SendLock` has the codes, stamps and sessions of `SendUnlockStore`: `Request`, `Enter`,
`Lock`, `SendFrom`, `Restart`. What reached the owner (`phone`), what could be read
(`shown`) and who unlocked what (`grants`) are observers, and so is `stray`.

`Rules` has a rule's life (`AddRule`, `SwitchRule`), the two ways an event arrives
(`Publish`, `Webhook`), and its evaluation: `Reserve`, `Act`, `RecordDetail`, `Die`.
`BriefChannels` has the stored channels, the check on new ones (`Guarded`,
`ChannelIdentity`), the two ways of setting them (`Offer` and `Tune` in a chat, `Browse`
in the browser), and their use by briefs, rules and briefs asked for (`Take`, `TakeNow`,
`Distribute`). `Sending` composes them; they share no variable.

### MailBoxes

State: each mailbox's status and messages, the book of numbers of each session, in the
order of use, and an id some list has given. `Overview`, `SetFlags`, `Move`,
`SendFromBox`, `Refuse` work by number, `List`, `Read`, `ActOnId`, `ReplyDraft` by id;
`Arrive`, `Leave`, `SetStatus` and `RestartAll` happen elsewhere. Of several mailboxes each
may fail, or fail after it did what it was asked (`Outcomes`). An overview hands out its
numbers in the order of mailboxes and rows; `Number` says in one go which number that
gives each message. `meaning`, `moved`, `wrong` and `quiet` are observers.

### Accounts

State: the rows of `user_tokens`, `account_scopes`, the link states, the job of each
call, and at the provider the grants still honoured. `AskLink`, `Callback`, `Exchange`,
`StoreLink` link; `LinkPassword`, `Unlink`, `AskScope` and `SetScope` are the tools;
`BeginMail`, `BeginCalendar`, `Look`, `Answer`, `Keep`, `Flag` the refreshes before an
account is used. `Expire`, `Withdraw` and `Crash` are the world. `want` is an observer:
the user's last word on each account, until a job writes over what another did since it
read, or over what it could not read. The browser's handlers make the same calls as the tools.

### Planning

Facts (tasks with estimates, people with skills and leaves, dependencies), scenarios
with their changes and stored rows, and what each process has read and has yet to write.
`ComputeSchedule` (critical path), `Allocations` (list scheduling, one `PlaceNext` after
another; a task takes hours day by day, `Takes`) and `Overlaid` (what-if: the last change of
a field lies on top, `OnTop`) are pure operators, and those that recurse are recursive
functions, over tasks or over a day and the hours left to do; the actions are the tools,
statement by statement. Hours are counted
in half-days, dates rounded the way Python rounds. `raced` is an observer: a dependency
went in over others than it had been checked against.

### Booking

State: the calendar (`when`: each event's window, or nothing), whether the host's account
is linked and the host may use it (`access`), the columns of `booking_consent` (`status`,
`booked`, `sent`, `purged`), the reschedules that wait for their body (`pending`) and `loop`,
what the event loop is in the middle of. All of booking runs on the event loop, and a handler
does not await anything between its re-check and its last write: two handlers never interleave
there, which is what keeps bookings apart (the per-host lock adds nothing to it). Such a
stretch is still cut in two at each of its writes, because a crash can fall there, because
each write can raise, the calendar's also with its effect, and because the host uses the
calendar from elsewhere. Observers: `blind` (bookings written on a re-check that part of the
calendar did not answer, or put where they are by the host), `apart` (bookings whose last move
did not reach the row), `mailed` and `reopened` (per booking and offset, the reminders sent
for its present start, and the claims of them that were lost or taken back).

| Action | Code |
|---|---|
| `BookSlot`, `RecordBooking`, `RollBack` | `_create_booking`, `_book_slot`: re-check and event, `_record_booking`, and a Google Meet link that did not come (`_resolve_google_meet_detail`) |
| `AskReschedule`, `RefuseReschedule`, `MoveEvent`, `RecordMove` | `booking_reschedule` up to the body, `_reschedule_booking`, `_move_event`, `update_booking` |
| `CancelEvent`, `FailCancel`, `RecordCancel` | `booking_cancel`, and its deletion raising with effect |
| `FailRecord`, `FailClaim`, `FailMark`, `FailTick` | the store raising: for a visitor, after a reminder, after a deletion, before a reminder |
| `RemindTick`, `PassRow`, `SendReminder`, `ClaimReminder` | `send_due_reminders`, `_send_and_claim`, `mark_reminder_sent` |
| `PurgeTick`, `PurgeEvent`, `SkipRow`, `MarkPurged` | `consent_purge_loop`, `purge_due`, `mark_purged` |
| `HostAdds`, `HostMoves`, `HostDeletes`, `AccessChanges` | the host's own calendar, account and role |
| `Tick`, `Crash` | the clock; the end of the process |

`Available` is the re-check (`calendar_find_free` over the slot and a minute more, then
`_slot_covers`), `Gaps` the sweep it rests on, `OpenOn` the working hours and the cap.
`MissingIsFileNotFound` says what deleting an event that is gone raises: the CalDAV
adapter's `FileNotFoundError`, or the built-in calendar's `KeyError` and Google's
`HTTPError`. `Quiet` says that a calendar that does not answer reads as empty: a Google
account's calendars, of which each one that times out is skipped, a service account's, and
each of several that are merged; a CalDAV calendar alone raises. That no adapter updates an
event that is gone is what the CalDAV and built-in adapters do, and an assumption about Google,
whose server is asked to change an event it may only have marked as cancelled.

Left out: the other mails, meeting forms but for the roll-back, time zones, recurring
events, the answer cache of `/slots`, links being edited or deleted, rate limits. A
booker books once; another booking is another booker.

## 3. What the runs show

| Run | Instance | Checks |
|---|---|---|
| `outbox` | 1 row, 2 requests, 2 users, one tool of each family, expiry on | `OnlyApprovedHappensOnce`, `AuditAgrees`, `DisabledRequesterChangesNothing`, implements `OutboxPromise` (`KeepsThePromise`), `ApprovedIsResolved` |
| `timeline` | 1 item, 1 event, 2 rows, an owner and a collaborator, the loop and a thread | implements `OutboxPromise` (`KeepsThePromise`), `ClaimedUndoResolves` |
| `toolcall` | 2 processes, 2 users, 1 key, limits of 1 in a window of 2, 2 calls of a queueing tool and of one checked before | `WithinQuota`, `RefusedOnlyWhenFull`, `AnsweredKeyRunsOnce`, `AnswersAgree` |
| `access` | an admin, an owner, a newcomer, the loop and a thread, 4 writes, 1 link | `TurnsLoseNothing`, `PreviousIsKept`, `LinksAreSingleUse`, `LoginAppNotStuck` |
| `briefs` | 2 processes, 5 times, 2 settings, 2 changes, 1 line | `OneBriefPerSlot`, `NoChangeFallsBetween` |
| `sending` | 2 sessions, 3 codes, 4 choices of channels; 2 rules on 2 events in 2 processes; 2 workers and 4 channels | `SendsAreUnlocked`, `LimitedGuesses`, `ActsOnce`, `BriefsStayHome` |
| `mailboxes` | 2 sessions with 1 book, 2 mailboxes, 3 messages, 3 numbers | `NumbersStand`, `IdsStand`, `NoQuietGaps` |
| `accounts` | a Google account and a mailbox, 2 jobs, 2 grants, 1 fault | `AccountsTyped`, `StoreIsTheUsers`, `LiveGrantServes` |
| `planning` | 2 processes, 3 tasks, 2 scenarios; almost four hundred projects to begin with | `GraphStaysAcyclic`, `PlansAreFeasible`, `SlackIsHonest` |
| `memory` | 1 note, 1 document, 1 item, 2 lines, 4 commits, 4 writes, 2 at once in 1 or 2 processes; beside it 1 card, 2 copies, 2 runs, 2 edits | `SnapshotHoldsText`, `SettledAgree`, `ReadersSeeNoMarkers`, `NoEditVanishes`, `EditsArrive` |
| `booking` | 2 bookings, 1 host meeting, 2 days of 2 minutes, Google, the clock still | `NoDoubleBooking`, `RecheckIsExact`, `CancelledStaysCancelled` |
| `booking_upkeep` | 1 booking, 1 reminder, 6 minutes, 2 crashes, lost claims or same-start moves, CalDAV | `RepeatsHaveCauses`, `RetentionHonoured` |

Every property has a mutant in `PROJECT.json`: a plausible slip in one definition that
makes the run fail. Two statements a document makes and the code does not keep stand at
the end of `Outbox` (`ExpiredIsNotApproved`, `LinksAreNotStored`) and two at the end of
`Timeline` (`UndoRefusesLaterChange`, `CheckedWriteIsCurrent`); they are in no run, because
TLC finds each of them violated.

### What the models showed besides

Several properties name an exception; this is what is behind it, and what else came up
while the code was translated.

*Outbox.* Expired rows stay approvable: the claim (`outbox/queue.py:135`) never looks at
`expires_at`, and as shipped nothing calls `expire_due`; `docs/FEATURE-APPROVAL-OUTBOX.md:297`
says otherwise. The board stores a result with its one-time link (`board/routes.py:562`),
which `outbox/execute.py:31` says is never persisted.

*Timeline.* Undoing a board move overwrites a later status (`timeline/undo.py:29`), where
`docs/FEATURE-UNDO-TIMELINE.md:250` promises a conflict. `write_status` takes no lock: a
checked write may land on a version it did not check (`tools/backlog.py:8`), and a
collaborator's comment or score that overlaps a web undo puts the old status back.

*Memory.* Undo does not reach the row readers are served from
(`backends/memory_store.py:277`, against `docs/FEATURE-UNDO-TIMELINE.md:246`). A write that
changes nothing, or whose commit is followed by another before HEAD is read, answers with
the id of an unrelated commit (`gitvault.py:236`), whose undo takes that one back. The write
lock is a process's own (`backends/memory_store.py:55`): two processes at one note at once
may leave its file, row and commit with different texts until it is written again, and hand
out an id at which it has the other's; `SnapshotHoldsText` and `SettledAgree` except such
writes (`crossed`). Items are committed only when a sprint stamps them; from then on each
change to one makes no-op writes fail with "no changes added". RAID log, playbook and stamp
keep conflict markers they read, and commit them. A status report quotes the note's row.

*CloudSync.* An edit made during a run, or on Nextcloud's side in the second of the last
sync, is passed over: the baseline is the time of the stamp and not of the listing. A call
that fails half-way loses the conflicts it would have reported. `_stamp` reads and writes
the item's file without the backlog's lock and leaves its version alone, so that undo's
check does not notice. A status or score counts as a change, so that an older text may win
a (reported) conflict. A crash between copy and link leaves an orphan, and two processes may
link two copies to one card. `create_card` and `create_note` have no caller, and the branch
for notes deleted on this side cannot be reached.

*ToolCall.* A replayed answer ignores project and arguments and precedes the role check of
the tool. What is remembered of a queued call is that it is pending. Other processes keep
the old access list until they restart. `pm_status_report` writes on a reader's behalf. The
limiter kept in memory forgets its window with the process. A call that died or was under
way at the same time may run again under its key: `AnsweredKeyRunsOnce` says for which calls
it may not.

*Access.* Because each `AclWriter` has a lock of its own, overlapping writes can lose a
password or a kill switch, or leave the file torn: `TurnsLoseNothing` is claimed only of
writers that took turns. Three writers one inside the other leave three torn backups, where
`web/acl_writer.py:104` has a crash mid-write always leave a good previous version:
`PreviousIsKept` says it of writes that no other one overlaps. `_apply_invite` lacks the
check of `_apply_member` and may demote a project's last owner (`access_admin.py:100`,
against `:71`). `InviteStore.consume` has no caller.

*Briefs.* `mark_run` moves `last_run` also for a brief that failed or was skipped
(`docs/FEATURE-PROACTIVE-BRIEF.md:104` says "since the last brief"): `NoChangeFallsBetween`
holds as long as briefs arrive. And it says that a change is within what some brief looked
back over, not that it was named: an eleventh change (`brief.py:125`), or all of them if the
backlog cannot be read (`brief.py:127`), is left out without a word, and no later brief
names it. The sent row is written even if nothing arrived, and a brief asked for makes the
scheduled one of that slot a duplicate. `set_prefs` reads and then writes back what it was
not given: with two processes a change of the time can bring back channels that were just
removed.

*Sending.* `ntfy_identity` keeps an explicit port (`mail_unlock.py:289`), and neither
identity takes off a dot after the host (`:299`): a topic or webhook so written in a brief's
channel and not in the code's, or the other way round, passes for another place.
`SendsAreUnlocked` and `CheckedChannelsAreClosed` except exactly that (`WrittenApart`).
Mailboxes are compared when a code is asked for: linking one while a code is pending lets
the assistant read it there, which the model leaves out. A channel may fail after the code
got through; the session is then locked. A rule's run says ok before anything is done, and a
run that died keeps saying so. A webhook with a body like an earlier one never fires again.
Rule actions publish no events; a notification passes by the outbox and checks no role
later.

*MailBoxes.* Numbers are lost when another session's book evicts theirs. An id without a
label may lead elsewhere once a second mailbox is linked: `IdsStand` is about ids with one.
`email_overview` leaves accounts that wait for a new link out without a word; `NoQuietGaps`
is about lists and searches. Moving a message that is gone counts as done.

*Accounts.* A refresh writes a whole row: it brings back an account unlinked meanwhile, and
one that read an older grant overwrites a newer token. A scope set while the account is being
unlinked is inherited by the next link. A refresh that fails after a re-link flags the fresh
account. A re-link that cannot read the old row and is given no refresh token loses the one
there was (`server_http.py:332`). A share is stored for any capability, whether or not the
account's provider serves it (`tools/account.py:278`); what lists accounts to serve filters
them. Of Microsoft accounts only the first is refreshed. Calendar tools take the first
Google account whatever it is shared for (`_resolve_calendar_dav`), though
`connectors/registry.py:79` filters.

*Planning.* Two processes can close a cycle together (`pm/store.py:346`), on which every
later plan fails; a crash or a second planner leaves half a plan or doubled rows. A committed
plan is planned anew by `pm_allocate` like any other; a what-if of a what-if loses the first
one's changes; the slack and the FS order are kept, but lags and the other kinds of
dependency are given up once people are short. Half a day of lag may be rounded away.

*Booking.* A slot that ends when a meeting starts is offered by `/times` and refused (409)
when it is booked. A booking cancelled while the calendar is unlinked keeps its event; a
reschedule under way may then bring it back (`CancelledStaysCancelled` asks that the event
be gone). A calendar that does not answer the re-check, one of several or a single Google
account's, lets a booking be written over a meeting or another booking; `NoDoubleBooking`
excepts those bookings (`blind`). A booking whose `calendar_update` raised after taking
effect, whose `update_booking` raised, or whose event the host moved keeps its old times in
its row, by which it is reminded of and purged. A host who is disabled or loses the role
keeps every booking's row from the purge (`Stuck`). `purge_due` catches only
`FileNotFoundError` (`booking/purge.py:56`): with the built-in or Google's calendar, set
`MissingIsFileNotFound = FALSE`, a cancelled booking keeps the visitor's address for ever.
Reminders are claimed after they are sent, though `consent_store.py` says before, and one
whose mail fails is claimed all the same; a claim that raises is logged and the mail goes
out again at the next tick, and so it does when the booking is moved to the time it has.

### Bounds

In `Outbox` rows are independent of one another - no action reads two - so one row with two
requests shows every race there is between two deciders; two users suffice for an owner, a
non-owner, and someone who is not the requester. In `Timeline` two rows allow an add and a
move of the same item, and `MaxVersion` = 2 lets an item change after it was recorded. In
`ToolCall` two calls on one key are the least that can race or retry, and with limits of one
the second already meets a full window; each tool way is represented by one tool. In
`Access` four versions are two writes, one inside the other or after it, and three users
give every combination of admin, owner and newcomer. In `Briefs` five times are two and a
half days: a slot, the slot after, and changes between; two of them are one more than the
brief has lines. There `SafetyView` leaves out what no property asks about any more. In
`Sending` the parts share nothing, so the run looks at them one at a time (`ApartSpec`); two
of everything that can race, three codes for two requests a window, and channels chosen to
differ in every way `canonical_address` and the identities tell apart. In `MailBoxes` one
book for two sessions makes each eviction happen, and two mailboxes with equal uids make
every confusion possible. In `Accounts` two grants are a consent and a re-consent; one fault
is a crash, a refresh that fails though its grant lives or a row that cannot be read; the
Google account is shared for mail, the mailbox for a calendar that it does not have. In
`Planning` many small projects are laid out to begin with, of which one or three more events
are looked at, so that every kind of dependency, leave, tie and lag is met.

In `MemoryVault` a conflict needs three commits and its solution a fourth; the document
stands for any neighbour of the note. Of four writes the second and the third may overlap,
in one process or two (`InOrder`): what is before them and what is left after them are met
too. Vault and syncs are looked at one at a time (`ApartNext`); a second run of a sync
begins when people have not begun or are done with editing (`Overlap`), since an edit during
a run is not promised anything. In `Booking` two days of two minutes have a slot each; the
host's meeting may lie across both, and any two bookings may want one slot, with no cap
between them. Six minutes take one booking from before its reminder past retention, and two
faults can repeat one reminder twice. `SafetyView` leaves observers out of the states told
apart that no property of the run reads.

Symmetry is used only where no liveness is checked. Deadlock is not checked where the bounds
let a model stop: rows used up, versions and clocks at their end.

### Fairness

`FairSpec` of `Outbox` and `Timeline` gives each request weak fairness on its own next step,
because past its claim a handler is straight-line code with no condition to wait for, other
than the vault's lock in `Timeline`: there strong fairness on `InvertAdd` says that a thread
waiting for a `threading.Lock`, which is only held for a read and a write of one file, gets
it some time. `FairSpec` of `Booking` lets a stretch the event loop has begun go on (weak)
and asks strong fairness of `PurgeTick`, since other handlers take the loop in between:
asyncio runs ready tasks in turn, so the purge's task, which wakes every hour, gets to run;
and, for each booking, of `PurgeEvent` and `MarkPurged`, since a calendar or a store that
fails now and then (`SkipRow`, `FailMark`) answers some time when it is asked every hour.
Failures for good disable `PurgeEvent`, so that fairness does not rule them out:
`RetentionHonoured` excepts a booking that is `Stuck` again and again. `Accounts`: a job's
steps go on, access tokens expire, and strong fairness of `BeginMail` says that the user
keeps asking for mail - the code refreshes nothing by itself, and a user who never asks is
owed nothing. `CloudSync`: runs go on, and somebody syncs again and again, as the tools are
meant to be called; failures are bounded, as Nextcloud cannot fail for ever. Nobody is
obliged to decide, dismiss a dialog, undo, sweep, edit or fail.

`ApprovedIsResolved` and `ClaimedUndoResolves` name their exception: a request that died. The
code has no scan that would pick such a row up.

## 4. What is proved

Eight modules hold theorems, all checked by TLAPS for every value of the constants. Every
inductive invariant named here was an invariant of a TLC run before it was proved.

`OutboxProofs`, for any number of rows, requests and users, any roles, with or without a
sweep: `TypeCorrect`, `HappensOnce`, `AnswersAreTrue`, `AuditIsTrue`, `DecidersHaveRole`,
`DecisionsAreFinal`, `KillSwitchReachesExecutor`, and `Implements` (the refinement of
`OutboxPromise`). Assumptions: there are rows and users, `Gated` is a set of known tools and
`Rank` a role per user. The argument is `IInv`. None of the properties is inductive alone:
that a row happened at most once depends on what a handler at each of its steps may rely on
(`HandlerInv`: at "execute" the row is approved, by this handler's user, and has not happened;
at "record" it has if the outcome is ok), on what the row says of itself (`RowInv`), and on
there being only one handler between claim and record (`HolderIsAlone`). `KillSwitchInv` adds
that no handler is about to change anything for a row in `off`. The claim establishes
all three, since it takes a row that is pending, and a handler that holds a row keeps every
other claim from succeeding.

`TimelineProofs`, for any number of rows, items, events, users and threads: `TypeCorrect`,
`UndoneOnce`, `AnswersAreTrue`, `OwnersMoveItems`, `Implements`. The argument has the same
shape: `RowInv` for the rows, `CallInv` for what a call at each step relies on,
`UndoerIsAlone` for the claim. Even the types need it: an inverse writes an item because its
row's kind says that the row is about one (`IsAbout`). Who moves items follows from `CallInv`
too; a collaborator's edit writes the status it read, which is all that can be said of it.

`MemoryVaultProofs`, for any notes, documents, items and lines, any writers and processes and
any bounds: `Typed`, `SnapshotsHold`, `SettledNotesAgree`, `NoMarkersRead`. `IInv` adds to the
properties what a write that is not crossed relies on at each of its steps (`StepsInv`: after
the row file and row agree, after the staging the index has the text too, after the commit
HEAD), that two writes at one note hold locks of different processes and are both crossed
(`LocksInv`), and what a settled note looks like between writes (`Quiet`: file, row, index and
tip say the same, and it is not unmerged). Whoever commits meanwhile records the index, which
has the text from the staging on, and so does the snapshot; markers come only from a conflict,
which touches files and never rows.

About the syncs it holds `NothingVanishes`, for any cards, copies and runs, any bounds and any
number of ticks to Nextcloud's second. It assumes that no card is 0, which means "none",
and that a listing is finite. `SyncInv` follows an edit that waits. It shows by the stamps, and
its other side does not have it (`Waits`); every run began after it, so that the lists a run
works from show it as well (`Listed`); hence whoever comes to its card carries it over, or has
found both sides changed and says so (`Minded`). `LinkInv` keeps the pairs apart: a copy once
linked stays with its card, also when a stale record of an item is written back, and two runs
that pull new cards write to different copies. That a card's partner, the last of several, is
linked to it needs that a finite set of numbers has a largest one (`LargestOf`): of the sets of
those above each number, take one that no other lies strictly within.

`SendingProofs`, for any addresses, places, channels, sessions, processes, rules and limits:
`CheckedChannelsAreClosed` says that a channel the checks let through is `Open` to nobody but
the owner, unless it and a brief write one place apart - two spellings of one mailbox have one
canonical form, and a place is exposed if it is in any spelling the identities see through.
With it no code counts as shown (`shown = {}`), so that whoever types a
code got it from the owner's device: `SendsUnlocked`, from `SessionInv`. `GuessesLimited`
needs that the stamps kept cover every request that still counts (`StampsInv`) and that a
pending code knows the wrong answers to it. `RulesActOnce` rests on `RunIsAlone`: a run belongs
to the process that reserved it. `BriefsAtHome` rests on `StoredInv`: whatever is stored, or
about to be, somebody vouched for or was stored before.

`BriefsProofs`, for any number of processes and changes: `OnePerSlot`. The row's time is
past every brief that is sent or held (`SlotsInv`), so that a claim, which moves the row
from the time it was found due for, can succeed for a time only once, whatever is set up in
between. `NothingFallsBetween` rests on `NewsInv`: a brief that names changes names each one
from the first run up to its own beginning, or leaves it out for want of a line, or leaves
it to one before it, whichever run it has taken for the last; so it does no harm that runs
finish out of order.

`ToolCallProofs`, for any number of processes, users, projects and calls, any limits, window
and lag: `QuotaHolds`, `RefusalsAreDue`, `AnswersAreNotRepeated`, `AnswersAreHonest`. It
assumes that no user's name is a project's (`KeysAssumption`; in the code the limiter's keys
carry a prefix). `QuotaHolds` needs that the rows of the limiter's table and what calls took
are one to one (`SlotInv`, `TookInv`): a call refused by its project's limit has taken one of
its user's; a row is deleted only when no window that is still open counts it, since every
clock in use is at most `Lag` old (`LagInv`). Then what the table counts under a key is at
least what any window does, and the insert keeps it within the limit. `AnswersAreNotRepeated`
rests on `KeyInv`: an answer is in the cache before its caller has it, so that a later call
with its key finds it unless it began beside it. `AnswersAreHonest` rests on `AnswerInv`: at
each step a call's entries in the log say what has happened to it so far, and what is
remembered was run by somebody who was not barred.

`AccessProofs`, for any users, projects, threads and bounds: `Types`, `TurnsAreKept`,
`BackupIsKept`, `LoginIsCurrent`, `LinksAreUsedOnce`. It assumes that there is an admin at
first (`AdminAssumption`): without one the list could be empty, and an empty list reads like a
torn file. `TurnInv` says what a writer relies on while writers take turns: who has loaded the
file holds `last`, who is over it alone writes what follows from `last`, and a torn file has
`last` in its newest backup. A writer that joins another one marks both, and with that the
claim ends until the file is loaded by somebody alone. `LoginInv`: every rewrite moves the
mtime on, and login-app never has one that the file has not had; the text it has under the
file's mtime is the file. `LinkInv`: tokens are handed out once, only the loop accepts them,
and the one being accepted is spent only by its own request.

`BookingProofs`, for any number of bookings and host meetings, any schedule, hours, cap and
clock, any kind of calendar and any number of failures: `TypeCorrect`, `RecheckCorrect`,
`NeverDoubleBooked`, `RowsTrue`, `CancelHolds` and `RepeatsAnswered`. The key of
`NeverDoubleBooked` is the lemma `AvailableIsFree`: a gap of the sweep that covers a slot
leaves no busy event in it, wherever the events lie; a write that saw the whole calendar
then adds a window that overlaps no other, a write that did not makes its booking `blind`,
and every other action leaves the event of a booking that is not alone or removes it.
`RowsTrue` needs `HalfDone`: while a stretch is between its two writes the event is ahead of
its row, and what the second write will store is what the first put in the calendar, unless
the host has deleted or moved it since. `RepeatsAnswered` needs `MailsClaimed`: no reminder
is ahead of its lost and taken-back claims by more than the one claim that is on record or
in hand.

The invariants of three more modules are proved beside a module they share nothing with.

`Planning`, in `TimelineProofs`, for any processes, tasks, people, leaves, links and what-if
changes: `PlansCanBeMade`, `PlansCanBeCarriedOut`, `SlackIsTrue`. Assumptions: what may be
added is what the schemas let in, a change is of one of the fields `pm_whatif` allows
(`ChangesAssumption`), and the projects to begin with are ones whose facts were entered one
call at a time, finitely many of each kind (`InstallationsAssumption`).

*The graph.* `GraphInv` says that the tables are those of a project, that the graph can be
scheduled unless a link raced, and that a link which waits to be inserted closes no cycle in
the edges it was checked against. The step that matters is `AddingKeepsAcyclic`: what the
link's end reaches is a wall, closed under the edges, that does not hold the link's beginning
(`AWall`). Take tasks that each wait for another of them once the link is in; those outside
the wall did so before, as no edge leads out of it and the link leads in; and if there are
none outside, the link is not among theirs. `Reachable` is the least closed set, which is what
the search of `_creates_cycle` finds.

*Recursion.* Both passes of the critical path, the walk over the days, the list scheduling and
the sums are recursive functions, of which TLA+ says only what they are if there are such
functions at all. The library's induction theorems take operators, which no installed prover
can instantiate, so `Recursion` is proved here from nothing: if every set of arguments has one
none of the others comes before (`Defines`), and the value at an argument depends on what comes
before it, there is such a function. Partial solutions agree where they meet, their union is
one, and a first argument outside it would give a larger one. Acyclicity is just that
condition on the graph, read forwards for one pass and, for finitely many tasks, backwards for
the other. `SumIsAddedUp` does as much for the library's fold over a finite set: taking any
one member out leaves the sum of the others.

*The slack.* `ForwardPass` says that early starts are the least the dependencies allow,
`BackwardPass` that late finishes are the greatest. `SlackIsWhatATaskCanBeLateBy` then follows
from two facts. Delayed by its slack, a task pushes no task beyond its late finish, so the
project ends when it did. Delayed by more it is beyond its own, and there is a chain of
dependencies, each binding in the backward pass, along which that carries to the end; the
chain ends since the graph has no cycle.

*The plan.* `PlanSoFar(f, n, s)` holds of the list scheduling after n tasks: the tasks that
have an end are closed under predecessors; every row's hours are in the ledger, on days
between its start and its end and with its resource; everything in the ledger belongs to a
row; and nobody has more hours in it on a day than the day gives. `PlacedOneMore` keeps it:
the walk takes from each day no more than is free (`TakesServe`), adds up to the estimate,
and ends, because leaves do and everybody works at least half a day outside them
(`PeopleFacts`). While tasks are left, one has all its predecessors placed
(`PlacingGoesOn`), so the last plan has them all (`AllPlaced`). From the ledger
`CanBeCarriedOut` follows by adding up twice (`SumByKey`, `HoursFit`): the hours of the rows
between two days are hours in the ledger on those days, which are the days' hours at most.

*What is stored.* `StorageInv` connects the plan that was computed with the one in the
tables: a job that is alone with its scenario stores a prefix of the rows and has the rest
to store, and so with the dates (`StoredSoFar`); two such jobs are never on one scenario
(`Alone`); and a scenario that is marked whole holds the plan of the facts under the changes
it was made on (`Stored`). Every fact that is entered takes that mark, and a job's being
alone, away again.

`Accounts`, in `OutboxProofs`, for any finite set of accounts, any jobs, links, projects and
grants: `AccountsKeepTypes` and `StoreHoldsLastWord`, from `AccountsInv`. Neither is inductive
alone. A job that refreshes a token carries it over several steps, so what it carries must fit
its account all the while (`JobsFit`); an account with a password has no refresh token, in its
row or in such a job (`RowFits`); and nothing runs or is shared before the store is opened, so
that the backfill of scopes meets accounts nobody has shared (`BeforeOpening`). `Tells` then
holds account by account: a step changes one account's row, scopes and last word together, or
the word becomes unknown because the step wrote over another's, or over what it could not read.

`MailBoxes`, in `SendingProofs`, for any finite set of mailboxes and any sessions and sizes:
`NumbersMeanOne`, `IdsLeadHome`, `GapsAreNamed`. `NumbersInv` says that every number given is
below the book's next one, and that a number still in the book is of the message it was shown
for; an overview gives new messages the next numbers in turn, no two the same
(`EarlierHasFewer`). The other two rest on where an id with a label can lead (`LabelsLead`) and
on an only mailbox that fails raising instead of listing (`ListNamesAll`).

Every invariant and every action property that a run checks is a theorem. Only model-checked is
what depends on fairness: `ApprovedIsResolved`, `ClaimedUndoResolves`, `LiveGrantServes`,
`EditsArrive`, `RetentionHonoured`. Their proofs would need ENABLED, which the prover does not
reason about.

## 5. Not modelled

The link watch and calendar caches (monitoring, not read by a re-check), search ranking, the
LLM agent's loop (its calls take `ToolCall`'s path), configuration and command line,
Nextcloud provisioning and document templates, set-up and maintenance scripts. Of parts that
are modelled: creating a project with its roll-back, project fields and the second factor in
`Access`; time zones, recurring events and meeting forms in `Booking`; encryption and the
protocols of mail, calendars and providers; OAuth towards clients; logged hours, reports and
variance in `Planning`, which only append or read. `PROJECT.json` gives the reason beside each
component.
