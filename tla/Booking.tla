---------------------------- MODULE Booking ----------------------------
(***************************************************************************)
(* Booking a meeting with a host: the host's calendar, the consent store's *)
(* row per booking, and the two background loops that live off the rows,   *)
(* reminders and the retention purge.                                      *)
(*                                                                         *)
(* Every handler and loop runs on the one event loop of the gateway. What  *)
(* a handler does after its last await is not interleaved with another     *)
(* handler; it can be cut short by a crash between two writes, and while   *)
(* it runs the host uses the calendar directly. `loop' is that stretch of  *)
(* code. A reschedule awaits its body after reading its row: `pending'.    *)
(* A calendar or a store that raises may have done what it was asked.      *)
(* Each booker books once, so a booker names the row, the manage token and *)
(* the event; emails other than reminders are left out.                    *)
(***************************************************************************)
EXTENDS Naturals, FiniteSets

CONSTANTS
    Booker,        \* bookings there may be
    HostMeeting,   \* events the host puts in the calendar
    Lengths,       \* meeting lengths; the unit is the minute
    Granularity,   \* the grid offered times lie on
    DayLength, Days,
    OpenFrom, OpenTo,    \* the host's working hours, every day
    MaxPerDay,     \* the host's cap on bookings a day
    Offsets,       \* REMINDER_OFFSETS_MIN
    Grace,         \* GRACE_MIN
    Retention,     \* RETENTION_DAYS
    MissingIsFileNotFound,  \* what deleting an event that is gone raises: TRUE
                            \* of CalDAV; KeyError or HTTPError elsewhere
    Quiet,         \* a calendar that does not answer reads as an empty one:
                   \* Google's, and each of several; not CalDAV alone
    MaxNow,        \* bound: the clock stops there
    MaxFaults      \* bound: crashes, failed claims of a reminder, and moves
                   \* that keep the start

Event   == Booker \union HostMeeting
Horizon == Days * DayLength
Window  == {w \in [start : 0..Horizon, end : 0..Horizon] :
               \E n \in Lengths : w.end = w.start + n}
Nothing == [start |-> 0, end |-> 0]    \* no window

ASSUME BookerAssumption  == Booker # {} /\ Booker \intersect HostMeeting = {}
ASSUME LengthsAssumption == Lengths \subseteq Nat \ {0, 1} /\ Window # {}
ASSUME DaysAssumption    ==
    /\ {DayLength, Granularity} \subseteq Nat \ {0}
    /\ {Days, MaxPerDay, Grace, Retention, MaxNow, MaxFaults} \subseteq Nat
    /\ OpenFrom \in Nat /\ OpenTo \in Nat /\ OpenFrom < OpenTo /\ OpenTo <= DayLength
ASSUME FlagsAssumption   == MissingIsFileNotFound \in BOOLEAN /\ Quiet \in BOOLEAN
\* Two reminders of a booking are never due at once.
ASSUME OffsetsAssumption ==
    /\ Offsets # {} /\ Offsets \subseteq Nat
    /\ \A o, p \in Offsets : o < p => o + Grace <= p

VARIABLES
    now,
    when,       \* the calendar: when[e] is event e's window
    access,     \* the host's calendar is linked, and the host may use it
    status,     \* booking_consent.status, "none" before the INSERT
    booked,     \* meeting_start and meeting_end
    sent,       \* reminders_sent
    purged,     \* purged_at is set and the email scrubbed
    pending,    \* the bookings with a reschedule awaiting its body
    loop,       \* what the event loop is in the middle of
    faults,
    blind,      \* observer: bookings written on a re-check part of the
                \* calendar did not answer, or put there by the host
    apart,      \* observer: bookings whose last move did not reach the row
    mailed,     \* observer: mailed[b][o], reminders that went out for the
                \* meeting at its present start
    reopened    \* observer: reopened[b][o], claims of it that were lost or
                \* taken back

rows     == <<status, booked, sent, purged>>
mails    == <<mailed, reopened>>
vars     == <<now, when, access, status, booked, sent, purged, pending, loop,
              faults, blind, apart, mailed, reopened>>

Ops == {"idle", "record", "move", "cancel", "remind", "claim", "purge", "mark"}

Stretch == [op : Ops, b : Booker, w : Window \union {Nothing}, o : Offsets,
            todo : SUBSET Booker]

\* The events in the calendar.
there    == {e \in Event : when[e] # Nothing}

ABooker  == CHOOSE b \in Booker : TRUE
AnOffset == CHOOSE o \in Offsets : TRUE

Idle == [op |-> "idle", b |-> ABooker, w |-> Nothing, o |-> AnOffset, todo |-> {}]
On(op, b) == [Idle EXCEPT !.op = op, !.b = b]

\* A loop's tick goes on to the rows it has left.
Rest(op, todo) == IF todo = {} THEN Idle ELSE [Idle EXCEPT !.op = op, !.todo = todo]

Access == {"open", "unlinked", "denied"}

Active(b) == status[b] \notin {"none", "cancelled"}
NoMail    == [o \in Offsets |-> 0]

Init ==
    /\ now      = 0
    /\ when     = [e \in Event |-> Nothing]
    /\ access   = "open"
    /\ status   = [b \in Booker |-> "none"]
    /\ booked   = [b \in Booker |-> Nothing]
    /\ sent     = [b \in Booker |-> {}]
    /\ purged   = [b \in Booker |-> FALSE]
    /\ pending  = {}
    /\ loop     = Idle
    /\ faults   = 0
    /\ blind    = {}
    /\ apart    = {}
    /\ mailed   = [b \in Booker |-> NoMail]
    /\ reopened = [b \in Booker |-> NoMail]

------------------------------------------------------------------------
(* Free time *)

\* What the reading adapters may show: all there is, or what is in the calendars
\* that answered, bookings and the host's meetings being in one or in two.
Readings == IF Quiet THEN {Event, Booker, HostMeeting, {}} ELSE {Event}

\* b's event was written on a re-check that saw seen.
Rechecked(b, seen) == IF seen = Event THEN blind \ {b} ELSE blind \union {b}

\* The events seen that touch q, without those in x.
Busy(q, x, seen) ==
    {e \in (there \intersect seen) \ x : when[e].start < q.end /\ when[e].end > q.start}

\* calendar_find_free's sweep: from the query's start or the end of a busy event
\* to the next busy event or the query's end, where that is longer than n.
Gaps(q, n, x, seen) ==
    LET busy == Busy(q, x, seen)
    IN  {g \in [start : {q.start} \union {when[e].end : e \in busy},
                end   : {q.end} \union {when[e].start : e \in busy}] :
            /\ g.end > g.start + n
            /\ g.start >= q.start
            /\ \A e \in busy : when[e].start < g.end => when[e].end <= g.start}

DayOf(t) == t \div DayLength

\* The host's active bookings on day d, without those in x, as the store has them.
BookedOn(d, x) == {b \in Booker \ x : Active(b) /\ DayOf(booked[b].start) = d}

\* Day d's working hours hold w, and the day has room for one more.
OpenOn(d, w, x) ==
    /\ d * DayLength + OpenFrom <= w.start
    /\ w.end <= d * DayLength + OpenTo
    /\ Cardinality(BookedOn(d, x)) < MaxPerDay

\* asks about the slot and no more
AvailableUnpaddedMutant(w, x, seen) ==
    \E g \in Gaps(w, w.end - w.start, x, seen) :
        /\ g.start <= w.start
        /\ w.end <= g.end
        /\ \E d \in 0..(Days - 1) : OpenOn(d, w, x)

\* The re-check before a write: the query is a minute longer than w.
Available(w, x, seen) ==
    \E g \in Gaps([start |-> w.start, end |-> w.end + 1], w.end - w.start, x, seen) :
        /\ g.start <= w.start
        /\ w.end <= g.end
        /\ \E d \in 0..(Days - 1) : OpenOn(d, w, x)

\* What /times offers of the whole horizon: the grid's windows inside a gap.
Offered ==
    {w \in Window :
        /\ (w.start % DayLength) % Granularity = 0
        /\ \E g \in Gaps([start |-> 0, end |-> Horizon], w.end - w.start, {}, Event) :
               g.start <= w.start /\ w.end <= g.end
        /\ \E d \in 0..(Days - 1) : OpenOn(d, w, {})}

------------------------------------------------------------------------
(* The booking pages *)

\* booking_create, from the re-check to the event in the calendar. A create that
\* raises may have put it there.
BookSlot(b, w) ==
    /\ loop = Idle
    /\ access = "open"
    /\ status[b] = "none" /\ b \notin there
    /\ \E seen \in Readings :
          Available(w, {}, seen) /\ blind' = Rechecked(b, seen)
    /\ when'  = [when EXCEPT ![b] = w]
    /\ loop'  \in {[On("record", b) EXCEPT !.w = w], Idle}
    /\ apart' = apart \ {b}
    /\ UNCHANGED <<now, access, rows, pending, faults, mails>>

\* _record_booking.
RecordBooking ==
    /\ loop.op = "record"
    /\ status' = [status EXCEPT ![loop.b] = "confirmed"]
    /\ booked' = [booked EXCEPT ![loop.b] = loop.w]
    /\ loop'   = Idle
    /\ UNCHANGED <<now, when, access, sent, purged, pending, faults, blind, apart, mails>>

\* Google gave the event no Meet link: it is taken back, if that succeeds.
RollBack ==
    /\ loop.op = "record"
    /\ when' \in {when, [when EXCEPT ![loop.b] = Nothing]}
    /\ loop' = Idle
    /\ UNCHANGED <<now, access, rows, pending, faults, blind, apart, mails>>

\* booking_reschedule, up to the await of the body.
AskReschedule(b) ==
    /\ loop = Idle
    /\ Active(b)
    /\ pending' = pending \union {b}
    /\ UNCHANGED <<now, when, access, rows, loop, faults, blind, apart, mails>>

\* The body is bad, the slot taken, the calendar closed, the event gone, or the
\* update raised without effect.
RefuseReschedule(b) ==
    /\ loop = Idle
    /\ b \in pending
    /\ pending' = pending \ {b}
    /\ UNCHANGED <<now, when, access, rows, loop, faults, blind, apart, mails>>

\* A move that keeps the start is counted, to bound the reminders sent again.
CountMove(b, w) ==
    IF w.start = booked[b].start
    THEN faults < MaxFaults /\ faults' = faults + 1
    ELSE UNCHANGED faults

\* Event b is at w. The row comes next, or the update raised, with its effect.
Moved(b, w) ==
    /\ when'    = [when EXCEPT ![b] = w]
    /\ pending' = pending \ {b}
    /\ \/ loop' = [On("move", b) EXCEPT !.w = w] /\ apart' = apart \ {b}
       \/ loop' = Idle /\ apart' = apart \union {b}
    /\ UNCHANGED <<now, access, rows, mails>>

\* trusts the time the page offered
MoveUncheckedMutant(b, w) ==
    /\ loop = Idle
    /\ b \in pending
    /\ access = "open"
    /\ b \in there
    /\ blind' = blind \ {b}
    /\ CountMove(b, w)
    /\ Moved(b, w)

\* creates an event that is gone anew
MoveUpsertMutant(b, w) ==
    /\ loop = Idle
    /\ b \in pending
    /\ access = "open"
    /\ \E seen \in Readings :
          Available(w, {b}, seen) /\ blind' = Rechecked(b, seen)
    /\ CountMove(b, w)
    /\ Moved(b, w)

\* _move_event: no adapter updates an event that is gone.
MoveEvent(b, w) ==
    /\ loop = Idle
    /\ b \in pending
    /\ access = "open"
    /\ \E seen \in Readings :
          Available(w, {b}, seen) /\ blind' = Rechecked(b, seen)
    /\ b \in there
    /\ CountMove(b, w)
    /\ Moved(b, w)

\* Every offset in sent[b] is open again.
TakenBack(b) ==
    [o \in Offsets |-> reopened[b][o] + (IF o \in sent[b] THEN 1 ELSE 0)]

\* update_booking, whatever the row says by now. A meeting at another start has
\* had no reminders.
RecordMove ==
    /\ loop.op = "move"
    /\ status' = [status EXCEPT ![loop.b] = "rescheduled"]
    /\ booked' = [booked EXCEPT ![loop.b] = loop.w]
    /\ sent'   = [sent EXCEPT ![loop.b] = {}]
    /\ IF loop.w.start = booked[loop.b].start
       THEN /\ reopened' = [reopened EXCEPT ![loop.b] = TakenBack(loop.b)]
            /\ UNCHANGED mailed
       ELSE /\ reopened' = [reopened EXCEPT ![loop.b] = NoMail]
            /\ mailed'   = [mailed EXCEPT ![loop.b] = NoMail]
    /\ loop'   = Idle
    /\ UNCHANGED <<now, when, access, purged, pending, faults, blind, apart>>

\* lets no failed deletion pass
DeletesMutant(b) ==
    \/ access = "unlinked" /\ UNCHANGED when
    \/ access = "open" /\ b \in there /\ when' = [when EXCEPT ![b] = Nothing]

\* calendar_delete succeeds or its failure is passed over. An unlinked calendar
\* keeps the event; a host who may not use the project's calendar any more gets
\* an AccessDenied that nobody passes over.
Deletes(b) ==
    \/ access = "unlinked" /\ UNCHANGED when
    \/ /\ access = "open"
       /\ b \notin there => MissingIsFileNotFound
       /\ when' = [when EXCEPT ![b] = Nothing]

\* booking_cancel; where the deletion raises without effect, nothing is changed.
CancelEvent(b) ==
    /\ loop = Idle
    /\ Active(b)
    /\ Deletes(b)
    /\ loop' = On("cancel", b)
    /\ UNCHANGED <<now, access, rows, pending, faults, blind, apart, mails>>

\* The deletion raises, with its effect.
FailCancel(b) ==
    /\ loop = Idle
    /\ Active(b)
    /\ access = "open"
    /\ when' = [when EXCEPT ![b] = Nothing]
    /\ UNCHANGED <<now, access, rows, pending, loop, faults, blind, apart, mails>>

RecordCancel ==
    /\ loop.op = "cancel"
    /\ status'   = [status EXCEPT ![loop.b] = "cancelled"]
    /\ sent'     = [sent EXCEPT ![loop.b] = {}]
    /\ reopened' = [reopened EXCEPT ![loop.b] = TakenBack(loop.b)]
    /\ loop'     = Idle
    /\ UNCHANGED <<now, when, access, booked, purged, pending, faults, blind, apart, mailed>>

\* A booking whose move ends where the stretch stands does not reach its row.
CutShort == IF loop.op = "move" THEN apart \union {loop.b} ELSE apart

\* The store raises: the visitor gets an error.
FailRecord ==
    /\ loop.op \in {"record", "move", "cancel"}
    /\ apart' = CutShort
    /\ loop'  = Idle
    /\ UNCHANGED <<now, when, access, rows, pending, faults, blind, mails>>

------------------------------------------------------------------------
(* Reminders *)

\* reminders_due: a day after the earliest reminder's time a row is let go.
Remindable(b) ==
    /\ Active(b)
    /\ ~purged[b]
    /\ \E o \in Offsets : booked[b].start + o + DayLength > now

\* fire_at =< now is o + now >= start; Nat has no negative times.
Stale(b) == {o \in Offsets \ sent[b] : booked[b].start + Grace <= now + o}
Due(b)   == {o \in Offsets \ (sent[b] \union Stale(b)) : booked[b].start <= now + o}

RemindTick ==
    /\ loop = Idle
    /\ \E b \in Booker : Remindable(b)
    /\ loop' = Rest("remind", {b \in Booker : Remindable(b)})
    /\ UNCHANGED <<now, when, access, rows, pending, faults, blind, apart, mails>>

\* Stale offsets are closed. There is nothing due, no link to mail about, or an
\* exception before the mail.
PassRow(b) ==
    /\ loop.op = "remind" /\ b \in loop.todo
    /\ sent' = [sent EXCEPT ![b] = @ \union Stale(b)]
    /\ loop' = Rest("remind", loop.todo \ {b})
    /\ UNCHANGED <<now, when, access, status, booked, purged, pending, faults, blind,
                   apart, mails>>

\* Closing a stale offset raises, which ends the tick.
FailTick(b) ==
    /\ loop.op = "remind" /\ b \in loop.todo
    /\ \E closed \in (SUBSET Stale(b)) \ {Stale(b)} :
          sent' = [sent EXCEPT ![b] = @ \union closed]
    /\ loop' = Idle
    /\ UNCHANGED <<now, when, access, status, booked, purged, pending, faults, blind,
                   apart, mails>>

\* _send_reminder_email: the mail goes out, or its failure is swallowed.
SendReminder(b, o) ==
    /\ loop.op = "remind" /\ b \in loop.todo
    /\ o \in Due(b)
    /\ sent'   = [sent EXCEPT ![b] = @ \union Stale(b)]
    /\ mailed' \in {mailed, [mailed EXCEPT ![b][o] = @ + 1]}
    /\ loop'   = [On("claim", b) EXCEPT !.o = o, !.todo = loop.todo \ {b}]
    /\ UNCHANGED <<now, when, access, status, booked, purged, pending, faults, blind,
                   apart, reopened>>

\* claims nothing
ClaimMutant ==
    /\ loop.op = "claim"
    /\ loop' = Rest("remind", loop.todo)
    /\ UNCHANGED <<now, when, access, rows, pending, faults, blind, apart, mails>>

\* mark_reminder_sent, after the send.
ClaimReminder ==
    /\ loop.op = "claim"
    /\ sent' = [sent EXCEPT ![loop.b] = @ \union {loop.o}]
    /\ loop' = Rest("remind", loop.todo)
    /\ UNCHANGED <<now, when, access, status, booked, purged, pending, faults, blind,
                   apart, mails>>

\* The claim that loop.b and loop.o stand for is lost.
ClaimLost == [reopened EXCEPT ![loop.b][loop.o] = @ + 1]

\* mark_reminder_sent raises, which send_due_reminders logs.
FailClaim ==
    /\ loop.op = "claim"
    /\ faults < MaxFaults
    /\ faults'   = faults + 1
    /\ reopened' = ClaimLost
    /\ loop'     = Rest("remind", loop.todo)
    /\ UNCHANGED <<now, when, access, rows, pending, blind, apart, mailed>>

------------------------------------------------------------------------
(* The retention purge *)

Expired(b) == status[b] # "none" /\ booked[b].end + Retention < now

PurgeDue == {b \in Booker : Expired(b) /\ ~purged[b]}

PurgeTick ==
    /\ loop = Idle
    /\ PurgeDue # {}
    /\ loop' = Rest("purge", PurgeDue)
    /\ UNCHANGED <<now, when, access, rows, pending, faults, blind, apart, mails>>

PurgeEvent(b) ==
    /\ loop.op = "purge" /\ b \in loop.todo
    /\ Deletes(b)
    /\ loop' = [On("mark", b) EXCEPT !.todo = loop.todo \ {b}]
    /\ UNCHANGED <<now, access, rows, pending, faults, blind, apart, mails>>

\* Any other exception is logged and the row left for the next tick: the event
\* is gone, the host may not use the calendar, or it does not answer, having
\* deleted the event or not.
SkipRow(b) ==
    /\ loop.op = "purge" /\ b \in loop.todo
    /\ \/ UNCHANGED when
       \/ access = "open" /\ when' = [when EXCEPT ![b] = Nothing]
    /\ loop' = Rest("purge", loop.todo \ {b})
    /\ UNCHANGED <<now, access, rows, pending, faults, blind, apart, mails>>

MarkPurged ==
    /\ loop.op = "mark"
    /\ purged' = [purged EXCEPT ![loop.b] = TRUE]
    /\ loop'   = Rest("purge", loop.todo)
    /\ UNCHANGED <<now, when, access, status, booked, sent, pending, faults, blind,
                   apart, mails>>

\* mark_purged raises: the event is gone, the row stays for the next tick.
FailMark ==
    /\ loop.op = "mark"
    /\ loop' = Rest("purge", loop.todo)
    /\ UNCHANGED <<now, when, access, rows, pending, faults, blind, apart, mails>>

------------------------------------------------------------------------
(* The host, the clock and crashes *)

HostAdds(h, w) ==
    /\ h \notin there
    /\ when' = [when EXCEPT ![h] = w]
    /\ UNCHANGED <<now, access, rows, pending, loop, faults, blind, apart, mails>>

\* calendar_update, or the calendar's own pages: nothing is checked and no row
\* hears of it.
HostMoves(e, w) ==
    /\ e \in there
    /\ when'  = [when EXCEPT ![e] = w]
    /\ blind' = blind \union ({e} \intersect Booker)
    /\ apart' = apart \union ({e} \intersect Booker)
    /\ UNCHANGED <<now, access, rows, pending, loop, faults, mails>>

HostDeletes(e) ==
    /\ e \in there
    /\ when' = [when EXCEPT ![e] = Nothing]
    /\ UNCHANGED <<now, access, rows, pending, loop, faults, blind, apart, mails>>

\* The calendar is linked or unlinked; the host is disabled or loses the role.
AccessChanges ==
    /\ access' \in Access \ {access}
    /\ UNCHANGED <<now, when, rows, pending, loop, faults, blind, apart, mails>>

\* A stretch of code takes less than a minute.
Tick ==
    /\ loop = Idle
    /\ now < MaxNow
    /\ now' = now + 1
    /\ UNCHANGED <<when, access, rows, pending, loop, faults, blind, apart, mails>>

\* Requests die with the process; calendar and consent store are durable.
Crash ==
    /\ faults < MaxFaults
    /\ faults'   = faults + 1
    /\ apart'    = CutShort
    /\ reopened' = IF loop.op = "claim" THEN ClaimLost ELSE reopened
    /\ loop'     = Idle
    /\ pending'  = {}
    /\ UNCHANGED <<now, when, access, rows, blind, mailed>>

Pages ==
    \/ \E b \in Booker, w \in Window : BookSlot(b, w) \/ MoveEvent(b, w)
    \/ \E b \in Booker :
          AskReschedule(b) \/ RefuseReschedule(b) \/ CancelEvent(b) \/ FailCancel(b)
    \/ RecordBooking \/ RollBack \/ RecordMove \/ RecordCancel \/ FailRecord

Reminders ==
    \/ RemindTick \/ ClaimReminder \/ FailClaim
    \/ \E b \in Booker :
          PassRow(b) \/ FailTick(b) \/ \E o \in Offsets : SendReminder(b, o)

PurgeStep == \E b \in Booker : PurgeEvent(b) \/ SkipRow(b)
Purge     == PurgeTick \/ PurgeStep \/ MarkPurged \/ FailMark

Host ==
    \/ \E h \in HostMeeting, w \in Window : HostAdds(h, w)
    \/ \E e \in Event, w \in Window : HostMoves(e, w)
    \/ \E e \in Event : HostDeletes(e)
    \/ AccessChanges

Next == Pages \/ Reminders \/ Purge \/ Host \/ Tick \/ Crash

Spec == Init /\ [][Next]_vars

\* A stretch that is running goes on, asyncio gets to each loop's task, and of
\* a deletion that can succeed and a store that is asked every hour, one attempt
\* succeeds some time.
Running  == loop # Idle /\ (Pages \/ Reminders \/ Purge)
FairSpec ==
    /\ Spec /\ WF_vars(Running) /\ SF_vars(PurgeTick)
    /\ \A b \in Booker :
          SF_vars(PurgeEvent(b)) /\ SF_vars(loop.b = b /\ MarkPurged)

------------------------------------------------------------------------
(* Properties *)

\* Every variable keeps to its type.
TypeOK ==
    /\ now \in 0..MaxNow
    /\ when \in [Event -> Window \union {Nothing}]
    /\ access \in Access
    /\ status \in [Booker -> {"none", "confirmed", "rescheduled", "cancelled"}]
    /\ booked \in [Booker -> Window \union {Nothing}]
    /\ sent \in [Booker -> SUBSET Offsets]
    /\ purged \in [Booker -> BOOLEAN]
    /\ pending \subseteq Booker
    /\ loop \in Stretch
    /\ faults \in 0..MaxFaults
    /\ blind \subseteq Booker /\ apart \subseteq Booker
    /\ mailed \in [Booker -> [Offsets -> Nat]]
    /\ reopened \in [Booker -> [Offsets -> Nat]]

\* However bookings, moves, cancellations, calls and writes that fail with or
\* without effect, roll-backs and crashes interleave, two bookings' events overlap
\* in the calendar only if the host put one there, or one was written while part
\* of the calendar did not answer: _BOOKING_LOCKS and the re-check see to the rest.
NoDoubleBooking ==
    \A a, b \in (Booker \intersect there) \ blind :
        a = b \/ when[a].end <= when[b].start \/ when[b].end <= when[a].start

\* The sweep over the busy events, the minute of padding and the working hours
\* come to this: the slot is in hours on a day with room, nothing overlaps it,
\* and nothing starts the minute it ends.  So a time the page offers is one the
\* re-check lets through, but for a slot right before a meeting ("pad the query
\* window by a minute so an exact-fit free block still shows up" does not hold
\* of that one).
RecheckIsExact ==
    /\ \A w \in Window, x \in {{}} \union {{b} : b \in Booker} :
         Available(w, x, Event)
           <=> /\ \E d \in 0..(Days - 1) : OpenOn(d, w, x)
               /\ \A e \in there \ x : when[e].end <= w.start \/ when[e].start > w.end
    /\ \A w \in Offered :
         Available(w, {}, Event) \/ \E e \in there : when[e].start = w.end

\* An active booking's row says when its event is, what reminders and the purge go
\* by, unless its last move was cut short by a crash, by the store's raising or by
\* an update that raised with its effect, or the host moved the event.
RowsMatchCalendar ==
    \A b \in (Booker \intersect there) \ apart :
        Active(b) /\ ~(loop.op = "move" /\ loop.b = b) => booked[b] = when[b]

\* Each reminder after a booking's first for one start and offset answers to a
\* claim of its own that was lost, by a crash or by the store's raising, or taken
\* back, by update_booking's clearing reminders_sent.
RepeatsHaveCauses ==
    \A b \in Booker, o \in Offsets : mailed[b][o] <= 1 + reopened[b][o]

\* A reschedule that was under way when its booking was cancelled brings back
\* neither the booking nor its event, once the event is gone. (An event that the
\* cancellation could not delete, the calendar being unlinked, it may still move.)
CancelledStaysCancelled ==
    [][\A b \in Booker :
           status[b] = "cancelled" /\ b \notin there /\ ~(loop.op = "move" /\ loop.b = b)
               => status'[b] = "cancelled" /\ b \notin there']_vars

\* What keeps the purge from b's row for good: the host may not use the calendar,
\* or the event is gone and the adapter says so in a way purge_due does not know.
Stuck(b) ==
    \/ access = "denied"
    \/ access = "open" /\ b \notin there /\ ~MissingIsFileNotFound

\* A booking past retention is scrubbed, or moved to a later time, wherever the
\* purge was cut short, but for one that is stuck again and again.
RetentionHonoured ==
    \A b \in Booker :
        []<>Stuck(b) \/ (Expired(b) ~> (purged[b] \/ ~Expired(b)))

\* What the theorems' induction needs besides: what a stretch that was cut in two
\* left for its second half.
HalfDone ==
    /\ loop.op \in {"record", "move"} =>
          /\ loop.w \in Window
          /\ when[loop.b] \in {loop.w, Nothing} \/ loop.b \in apart
    /\ loop.op = "record" => status[loop.b] = "none"

\* A claim on record or in hand speaks for the last mail.
MailsClaimed ==
    \A b \in Booker, o \in Offsets :
        \/ mailed[b][o] <= reopened[b][o]
        \/ /\ \/ o \in sent[b]
              \/ loop.op = "claim" /\ loop.b = b /\ loop.o = o
           /\ mailed[b][o] <= 1 + reopened[b][o]

==========================================================================
