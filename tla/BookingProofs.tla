------------------------- MODULE BookingProofs -------------------------
(***************************************************************************)
(* Theorems about Booking, proved for every number of bookings, calendar,  *)
(* schedule and clock: the type invariant, what the re-check before a      *)
(* write amounts to, that it keeps bookings apart, when a row is its       *)
(* event's, and when reminders go out again.                                                              *)
(***************************************************************************)
EXTENDS Booking, TLAPS

USE BookerAssumption, LengthsAssumption, DaysAssumption, FlagsAssumption,
    OffsetsAssumption

LEMMA WindowFacts ==
    ASSUME NEW w \in Window
    PROVE  /\ w.start \in Nat /\ w.end \in Nat
           /\ w.start + 1 < w.end
           /\ w.start >= 0 /\ w # Nothing
  BY DEF Window, Nothing, Horizon

LEMMA IdleFacts ==
    /\ ABooker \in Booker
    /\ AnOffset \in Offsets
    /\ Idle \in Stretch
    /\ Idle.op = "idle"
  <1>1. ABooker \in Booker /\ AnOffset \in Offsets
    BY DEF ABooker, AnOffset
  <1> QED
    BY <1>1 DEF Idle, Stretch, Ops

\* What a tick goes on with is a stretch again.
LEMMA RestType ==
    ASSUME NEW op \in Ops, NEW todo \in SUBSET Booker
    PROVE  Rest(op, todo) \in Stretch
  BY IdleFacts DEF Rest, Stretch, Idle

LEMMA OnType ==
    ASSUME NEW op \in Ops, NEW b \in Booker, NEW w \in Window, NEW o \in Offsets,
           NEW todo \in SUBSET Booker
    PROVE  /\ On(op, b) \in Stretch
           /\ [On(op, b) EXCEPT !.w = w] \in Stretch
           /\ [On(op, b) EXCEPT !.todo = todo] \in Stretch
           /\ [On(op, b) EXCEPT !.o = o, !.todo = todo] \in Stretch
  BY IdleFacts DEF On, Stretch, Idle

------------------------------------------------------------------------
(* Type correctness *)

LEMMA TypeInit == Init => TypeOK
  BY IdleFacts DEF Init, TypeOK, NoMail, Access

LEMMA MovedType ==
    ASSUME TypeOK, NEW b \in Booker, NEW w \in Window, Moved(b, w), CountMove(b, w),
           blind' \subseteq Booker
    PROVE  TypeOK'
  <1>3. [On("move", b) EXCEPT !.w = w] \in Stretch
    BY OnType DEF Ops
  <1>1. loop' \in Stretch /\ apart' \subseteq Booker
    BY <1>3, IdleFacts DEF Moved, TypeOK
  <1>2. faults' \in 0..MaxFaults
    BY DEF CountMove, TypeOK
  <1> QED
    BY <1>1, <1>2 DEF Moved, mails, rows, TypeOK, Event

LEMMA TakenBackType ==
    ASSUME TypeOK, NEW b \in Booker
    PROVE  TakenBack(b) \in [Offsets -> Nat]
  BY DEF TypeOK, TakenBack

\* Counts kept per booking and offset stay such when one is changed, or a row.
LEMMA CountsType ==
    ASSUME NEW f \in [Booker -> [Offsets -> Nat]], NEW b \in Booker, NEW o \in Offsets,
           NEW g \in [Offsets -> Nat]
    PROVE  /\ [f EXCEPT ![b] = g] \in [Booker -> [Offsets -> Nat]]
           /\ [f EXCEPT ![b][o] = @ + 1] \in [Booker -> [Offsets -> Nat]]
  <1>1. [f[b] EXCEPT ![o] = @ + 1] \in [Offsets -> Nat]
    OBVIOUS
  <1> QED
    BY <1>1

LEMMA TypeStep == TypeOK /\ [Next]_vars => TypeOK'
  <1> SUFFICES ASSUME TypeOK, [Next]_vars
               PROVE  TypeOK'
    OBVIOUS
  <1> USE DEF TypeOK, mails
  <1>0. loop.b \in Booker /\ loop.o \in Offsets /\ loop.w \in Window \union {Nothing}
        /\ loop.todo \in SUBSET Booker
    BY DEF Stretch
  <1>1. ASSUME NEW b \in Booker, NEW w \in Window, BookSlot(b, w)
        PROVE  TypeOK'
    <2>2. [On("record", b) EXCEPT !.w = w] \in Stretch
      BY OnType DEF Ops
    <2>1. loop' \in Stretch
      BY <1>1, <2>2, IdleFacts DEF BookSlot
    <2> QED
      BY <1>1, <2>1 DEF BookSlot, Rechecked, rows, Event
  <1>2. CASE RecordBooking
    BY <1>2, <1>0, IdleFacts DEF RecordBooking
  <1>3. CASE RollBack
    BY <1>3, <1>0, IdleFacts DEF RollBack, rows
  <1>4. ASSUME NEW b \in Booker, AskReschedule(b) \/ RefuseReschedule(b)
        PROVE  TypeOK'
    BY <1>4 DEF AskReschedule, RefuseReschedule, rows
  <1>5. CASE FailRecord
    BY <1>5, <1>0, IdleFacts DEF FailRecord, CutShort, rows
  <1>6. ASSUME NEW b \in Booker, NEW w \in Window, MoveEvent(b, w)
        PROVE  TypeOK'
    BY <1>6, MovedType DEF MoveEvent, Rechecked
  <1>7. CASE RecordMove
    <2>1. mailed' \in [Booker -> [Offsets -> Nat]] /\ reopened' \in [Booker -> [Offsets -> Nat]]
      <3>1. TakenBack(loop.b) \in [Offsets -> Nat] /\ NoMail \in [Offsets -> Nat]
        BY <1>0, TakenBackType DEF NoMail
      <3>2. /\ [reopened EXCEPT ![loop.b] = TakenBack(loop.b)] \in [Booker -> [Offsets -> Nat]]
            /\ [reopened EXCEPT ![loop.b] = NoMail] \in [Booker -> [Offsets -> Nat]]
            /\ [mailed EXCEPT ![loop.b] = NoMail] \in [Booker -> [Offsets -> Nat]]
        BY <1>0, <3>1, CountsType
      <3> QED
        BY <1>7, <3>2 DEF RecordMove
    <2>2. loop' \in Stretch /\ sent' \in [Booker -> SUBSET Offsets]
      BY <1>7, <1>0, IdleFacts DEF RecordMove
    <2> QED
      BY <1>7, <1>0, <2>1, <2>2 DEF RecordMove
  <1>8. ASSUME NEW b \in Booker, CancelEvent(b) \/ FailCancel(b)
        PROVE  TypeOK'
    <2>1. On("cancel", b) \in Stretch
      BY OnType DEF Ops
    <2>2. CASE CancelEvent(b)
      BY <2>1, <2>2 DEF CancelEvent, Deletes, rows, Event
    <2>3. CASE FailCancel(b)
      BY <2>3 DEF FailCancel, rows, Event
    <2> QED
      BY <1>8, <2>2, <2>3
  <1>9. CASE RecordCancel
    BY <1>9, <1>0, IdleFacts, TakenBackType DEF RecordCancel
  <1>10. CASE RemindTick
    <2>1. Rest("remind", {b \in Booker : Remindable(b)}) \in Stretch
      BY RestType DEF Ops
    <2> QED
      BY <1>10, <2>1 DEF RemindTick, rows
  <1>11. ASSUME NEW b \in Booker, PassRow(b) \/ FailTick(b)
         PROVE  TypeOK'
    <2>1. Rest("remind", loop.todo \ {b}) \in Stretch
      BY <1>0, RestType DEF Ops
    <2>2. CASE PassRow(b)
      <3>1. sent' \in [Booker -> SUBSET Offsets]
        BY <2>2 DEF PassRow, Stale
      <3> QED
        BY <2>1, <2>2, <3>1 DEF PassRow
    <2>3. CASE FailTick(b)
      <3>1. PICK closed \in (SUBSET Stale(b)) \ {Stale(b)} :
                 sent' = [sent EXCEPT ![b] = @ \union closed]
        BY <2>3 DEF FailTick
      <3>2. closed \subseteq Offsets
        BY DEF Stale
      <3>3. sent' \in [Booker -> SUBSET Offsets]
        BY <3>1, <3>2
      <3> QED
        BY <2>3, <3>3, IdleFacts DEF FailTick
    <2> QED
      BY <1>11, <2>2, <2>3
  <1>12. ASSUME NEW b \in Booker, NEW o \in Offsets, SendReminder(b, o)
         PROVE  TypeOK'
    <2>1. [On("claim", b) EXCEPT !.o = o, !.todo = loop.todo \ {b}] \in Stretch
      BY <1>0, OnType DEF Ops, On
    <2>2. sent' \in [Booker -> SUBSET Offsets]
      BY <1>12 DEF SendReminder, Stale
    <2>3. mailed' \in [Booker -> [Offsets -> Nat]]
      <3>1. [mailed EXCEPT ![b][o] = @ + 1] \in [Booker -> [Offsets -> Nat]]
        BY CountsType
      <3> QED
        BY <1>12, <3>1 DEF SendReminder
    <2> QED
      BY <1>12, <2>1, <2>2, <2>3 DEF SendReminder
  <1>c. ClaimLost \in [Booker -> [Offsets -> Nat]]
    BY <1>0, CountsType DEF ClaimLost
  <1>13. CASE ClaimReminder \/ FailClaim
    <2>1. Rest("remind", loop.todo) \in Stretch
      BY <1>0, RestType DEF Ops
    <2>2. CASE ClaimReminder
      BY <2>1, <2>2, <1>0 DEF ClaimReminder
    <2>3. CASE FailClaim
      <3>1. faults' \in 0..MaxFaults
        BY <2>3 DEF FailClaim
      <3> QED
        BY <2>1, <2>3, <3>1, <1>c DEF FailClaim, rows
    <2> QED
      BY <1>13, <2>2, <2>3
  <1>14. CASE PurgeTick
    <2>1. Rest("purge", PurgeDue) \in Stretch
      BY RestType DEF Ops, PurgeDue
    <2> QED
      BY <1>14, <2>1 DEF PurgeTick, rows
  <1>15. ASSUME NEW b \in Booker, PurgeEvent(b)
         PROVE  TypeOK'
    <2>1. [On("mark", b) EXCEPT !.todo = loop.todo \ {b}] \in Stretch
      BY <1>0, OnType DEF Ops, On
    <2> QED
      BY <1>15, <2>1 DEF PurgeEvent, Deletes, rows, Event
  <1>16. ASSUME NEW b \in Booker, SkipRow(b)
         PROVE  TypeOK'
    <2>1. Rest("purge", loop.todo \ {b}) \in Stretch
      BY <1>0, RestType DEF Ops
    <2> QED
      BY <1>16, <2>1 DEF SkipRow, rows
  <1>17. CASE MarkPurged \/ FailMark
    <2>1. Rest("purge", loop.todo) \in Stretch
      BY <1>0, RestType DEF Ops
    <2> QED
      BY <1>17, <2>1, <1>0 DEF MarkPurged, FailMark, rows
  <1>18. CASE Host
    <2>1. /\ when' \in [Event -> Window \union {Nothing}] /\ access' \in Access
          /\ blind' \subseteq Booker /\ apart' \subseteq Booker
      <3>1. ASSUME NEW h \in HostMeeting, NEW w \in Window, HostAdds(h, w)
            PROVE  /\ when' \in [Event -> Window \union {Nothing}]
                   /\ UNCHANGED <<access, blind, apart>>
        BY <3>1 DEF HostAdds, Event
      <3>2. ASSUME NEW e \in Event, HostDeletes(e)
            PROVE  /\ when' \in [Event -> Window \union {Nothing}]
                   /\ UNCHANGED <<access, blind, apart>>
        BY <3>2 DEF HostDeletes
      <3>3. ASSUME AccessChanges
            PROVE  UNCHANGED <<when, blind, apart>> /\ access' \in Access
        BY <3>3 DEF AccessChanges
      <3>4. ASSUME NEW e \in Event, NEW w \in Window, HostMoves(e, w)
            PROVE  /\ when' \in [Event -> Window \union {Nothing}] /\ UNCHANGED access
                   /\ blind' \subseteq Booker /\ apart' \subseteq Booker
        BY <3>4 DEF HostMoves
      <3> QED
        BY <1>18, <3>1, <3>2, <3>3, <3>4 DEF Host
    <2>2. UNCHANGED <<now, rows, pending, loop, faults, mails>>
      BY <1>18 DEF Host, HostAdds, HostMoves, HostDeletes, AccessChanges
    <2> QED
      BY <2>1, <2>2 DEF rows
  <1>19. CASE Tick
    BY <1>19 DEF Tick, rows
  <1>20. CASE Crash
    BY <1>20, <1>0, <1>c, IdleFacts DEF Crash, CutShort, rows
  <1>21. CASE UNCHANGED vars
    BY <1>21 DEF vars
  <1> QED
    BY <1>1, <1>2, <1>3, <1>4, <1>5, <1>6, <1>7, <1>8, <1>9, <1>10, <1>11, <1>12,
       <1>13, <1>14, <1>15, <1>16, <1>17, <1>18, <1>19, <1>20, <1>21
    DEF Next, Pages, Reminders, Purge, PurgeStep

\* Booking pages, reminders, the purge, the host and crashes keep every variable
\* to its type.
THEOREM TypeCorrect == Spec => []TypeOK
  BY TypeInit, TypeStep, PTL DEF Spec

------------------------------------------------------------------------
(* The re-check *)

\* A window the sweep over the events seen lets through touches none of them,
\* and none begins the minute it ends.
LEMMA AvailableIsFree ==
    ASSUME TypeOK, NEW w \in Window, NEW x, Available(w, x, Event)
    PROVE  \A e \in there \ x : when[e].end <= w.start \/ when[e].start > w.end
  <1> DEFINE q == [start |-> w.start, end |-> w.end + 1]
             busy == Busy(q, x, Event)
  <1>1. PICK g \in Gaps(q, w.end - w.start, x, Event) : g.start <= w.start
    BY DEF Available
  <1>2. /\ g.start \in {q.start} \union {when[e].end : e \in busy}
        /\ g.end \in {q.end} \union {when[e].start : e \in busy}
        /\ g.end > g.start + (w.end - w.start)
        /\ g.start >= q.start
        /\ \A e \in busy : when[e].start < g.end => when[e].end <= g.start
    BY <1>1 DEF Gaps
  <1>3. w.start \in Nat /\ w.end \in Nat /\ w.start < w.end
    BY WindowFacts
  <1>4. ASSUME NEW e \in there
        PROVE  e \in Event /\ when[e].start \in Nat /\ when[e].end \in Nat
    BY WindowFacts DEF TypeOK, there, Nothing
  <1>5. busy = {e \in there \ x : when[e].start < w.end + 1 /\ when[e].end > w.start}
    BY DEF Busy, there
  <1>6. g.start \in Nat /\ g.end \in Nat
    BY <1>2, <1>3, <1>4, <1>5
  <1>7. g.start = w.start
    BY <1>1, <1>2, <1>3, <1>6
  <1>8. g.end = w.end + 1
    BY <1>2, <1>3, <1>4, <1>5, <1>6, <1>7
  <1>9. ASSUME NEW e \in there \ x, when[e].end > w.start, when[e].start <= w.end
        PROVE  FALSE
    BY <1>2, <1>3, <1>4, <1>5, <1>7, <1>8, <1>9
  <1> QED
    BY <1>3, <1>4, <1>9

\* The sweep, started at the window and ended a minute after it, lets a window
\* through exactly when it is in hours on a day with room, nothing overlaps it
\* and nothing starts the minute it ends.
LEMMA RecheckMeaning ==
    ASSUME TypeOK, NEW w \in Window, NEW x
    PROVE  Available(w, x, Event)
             <=> /\ \E d \in 0..(Days - 1) : OpenOn(d, w, x)
                 /\ \A e \in there \ x :
                        when[e].end <= w.start \/ when[e].start > w.end
  <1>1. Available(w, x, Event) => \E d \in 0..(Days - 1) : OpenOn(d, w, x)
    BY DEF Available
  <1>2. ASSUME NEW d \in 0..(Days - 1), OpenOn(d, w, x),
               \A e \in there \ x : when[e].end <= w.start \/ when[e].start > w.end
        PROVE  Available(w, x, Event)
    <2> DEFINE q == [start |-> w.start, end |-> w.end + 1]
    <2>1. w.start \in Nat /\ w.end \in Nat
      BY WindowFacts
    <2>2. ASSUME NEW e \in there
          PROVE  when[e].start \in Nat /\ when[e].end \in Nat
      BY WindowFacts DEF TypeOK, there, Nothing
    <2>3. Busy(q, x, Event) = {}
      BY <1>2, <2>1, <2>2 DEF Busy
    <2>4. q \in Gaps(q, w.end - w.start, x, Event)
      BY <2>1, <2>3 DEF Gaps
    <2> QED
      BY <1>2, <2>1, <2>4 DEF Available
  <1> QED
    BY <1>1, <1>2, AvailableIsFree

\* A window in a gap of the whole horizon overlaps no event.
LEMMA OfferedIsFree ==
    ASSUME TypeOK, NEW w \in Offered
    PROVE  /\ w \in Window
           /\ \E d \in 0..(Days - 1) : OpenOn(d, w, {})
           /\ \A e \in there : when[e].end <= w.start \/ when[e].start >= w.end
  <1> DEFINE q == [start |-> 0, end |-> Horizon]
             busy == Busy(q, {}, Event)
  <1>1. w \in Window /\ \E d \in 0..(Days - 1) : OpenOn(d, w, {})
    BY DEF Offered
  <1>2. PICK g \in Gaps(q, w.end - w.start, {}, Event) : g.start <= w.start /\ w.end <= g.end
    BY DEF Offered
  <1>3. /\ g.start \in {q.start} \union {when[e].end : e \in busy}
        /\ g.end \in {q.end} \union {when[e].start : e \in busy}
        /\ \A e \in busy : when[e].start < g.end => when[e].end <= g.start
    BY <1>2 DEF Gaps
  <1>4. w.start \in Nat /\ w.end \in Nat /\ Horizon \in Nat
    BY <1>1, WindowFacts DEF Horizon
  <1>5. ASSUME NEW e \in there
        PROVE  /\ when[e].start \in Nat /\ when[e].end \in Nat
               /\ when[e].start < when[e].end /\ when[e].end <= Horizon
    BY WindowFacts DEF TypeOK, there, Nothing, Window, Horizon
  <1>6. busy = there
    BY <1>4, <1>5 DEF Busy, there
  <1>7. g.start \in Nat /\ g.end \in Nat
    BY <1>3, <1>4, <1>5, <1>6
  <1> QED
    BY <1>1, <1>2, <1>3, <1>4, <1>5, <1>6, <1>7

LEMMA RecheckHolds == TypeOK => RecheckIsExact
  <1> SUFFICES ASSUME TypeOK
               PROVE  RecheckIsExact
    OBVIOUS
  <1>1. ASSUME NEW w \in Offered, \A e \in there : when[e].start # w.end
        PROVE  Available(w, {}, Event)
    <2>1. w.start \in Nat /\ w.end \in Nat
      BY OfferedIsFree, WindowFacts
    <2>2. ASSUME NEW e \in there
          PROVE  when[e].start \in Nat /\ when[e].end \in Nat
      BY WindowFacts DEF TypeOK, there, Nothing
    <2>3. \A e \in there \ {} : when[e].end <= w.start \/ when[e].start > w.end
      BY <1>1, <2>1, <2>2, OfferedIsFree
    <2> QED
      BY <2>3, OfferedIsFree, RecheckMeaning
  <1> QED
    BY <1>1, RecheckMeaning DEF RecheckIsExact

\* In every reachable state the re-check means what RecheckIsExact says.
THEOREM RecheckCorrect == Spec => []RecheckIsExact
  BY TypeCorrect, RecheckHolds, PTL

------------------------------------------------------------------------
(* Bookings do not overlap *)

Apart(a, b) == when[a].end <= when[b].start \/ when[b].end <= when[a].start

\* Only a placed event that was checked against all the others can break the
\* invariant.
LEMMA PlacedApart ==
    ASSUME TypeOK, NoDoubleBooking,
           NEW p \in Booker, NEW w \in Window, NEW x \in {{}, {p}}, NEW seen,
           Available(w, x, seen), blind' = Rechecked(p, seen),
           x = {} => p \notin there,
           when' = [when EXCEPT ![p] = w]
    PROVE  NoDoubleBooking'
  <1>1. p \notin blind' => \A e \in there \ x : when[e].end <= w.start \/ when[e].start > w.end
    BY AvailableIsFree DEF Rechecked
  <1>2. \A e \in Booker : e # p => (e \in blind <=> e \in blind')
    BY DEF Rechecked
  <1>3. ASSUME NEW e \in Booker, e \in there \/ e \in there'
        PROVE  /\ e # p => e \in there /\ when'[e] = when[e]
               /\ e = p => when'[e] = w
    BY <1>3 DEF there, TypeOK, Event
  <1>4. ASSUME NEW e \in Booker \intersect there', e # p, p \notin blind'
        PROVE  when'[e].end <= w.start \/ w.end <= when'[e].start
    <2>1. e \in there \ x /\ when'[e] = when[e] /\ when[e] \in Window
      BY <1>3, <1>4 DEF TypeOK, there
    <2> QED
      BY <1>1, <1>4, <2>1, WindowFacts
  <1> SUFFICES ASSUME NEW a \in (Booker \intersect there') \ blind',
                      NEW b \in (Booker \intersect there') \ blind',
                      a # b
               PROVE  Apart(a, b)'
    BY DEF NoDoubleBooking, Apart
  <1>5. CASE a = p
    BY <1>3, <1>4, <1>5 DEF Apart
  <1>6. CASE b = p
    BY <1>3, <1>4, <1>6 DEF Apart
  <1>7. CASE a # p /\ b # p
    <2>1. a \in there /\ b \in there /\ when'[a] = when[a] /\ when'[b] = when[b]
      BY <1>3, <1>7
    <2> QED
      BY <1>2, <1>7, <2>1 DEF NoDoubleBooking, Apart
  <1> QED
    BY <1>5, <1>6, <1>7

\* Taking events away, moving those that are blind or become so, or putting in the
\* host's own, breaks nothing.
LEMMA OthersApart ==
    ASSUME NoDoubleBooking, blind \subseteq blind',
           \A b \in Booker \ blind' : when'[b] \in {when[b], Nothing}
    PROVE  NoDoubleBooking'
  BY DEF NoDoubleBooking, there, Event

LEMMA ApartStep ==
    ASSUME TypeOK, NoDoubleBooking, [Next]_vars
    PROVE  NoDoubleBooking'
  <1>1. ASSUME NEW b \in Booker, NEW w \in Window, BookSlot(b, w)
        PROVE  NoDoubleBooking'
    BY <1>1, PlacedApart DEF BookSlot
  <1>2. ASSUME NEW b \in Booker, NEW w \in Window, MoveEvent(b, w)
        PROVE  NoDoubleBooking'
    BY <1>2, PlacedApart DEF MoveEvent, Moved
  <1>3. CASE \/ RollBack
             \/ \E b \in Booker : CancelEvent(b) \/ FailCancel(b) \/ PurgeEvent(b) \/ SkipRow(b)
    <2>1. (\A b \in Booker : when'[b] \in {when[b], Nothing}) /\ blind' = blind
      BY <1>3 DEF RollBack, CancelEvent, FailCancel, PurgeEvent, SkipRow, Deletes, TypeOK, Event
    <2> QED
      BY <2>1, OthersApart
  <1>4. CASE Host
    <2>1. ASSUME NEW h \in HostMeeting, NEW w \in Window, HostAdds(h, w)
          PROVE  (\A b \in Booker : when'[b] = when[b]) /\ blind' = blind
      BY <2>1 DEF HostAdds, TypeOK
    <2>2. ASSUME NEW e \in Event, NEW w \in Window, HostMoves(e, w)
          PROVE  (\A b \in Booker \ blind' : when'[b] = when[b]) /\ blind \subseteq blind'
      BY <2>2 DEF HostMoves, TypeOK, Event
    <2>3. CASE AccessChanges \/ \E e \in Event : HostDeletes(e)
      BY <2>3, OthersApart DEF AccessChanges, HostDeletes, TypeOK, Event
    <2> QED
      BY <1>4, <2>1, <2>2, <2>3, OthersApart DEF Host
  <1>5. CASE UNCHANGED <<when, blind>>
    <2>1. \A b \in Booker : when'[b] \in {when[b], Nothing}
      BY <1>5
    <2> QED
      BY <1>5, <2>1, OthersApart
  <1>6. CASE \/ RecordBooking \/ RecordMove \/ RecordCancel \/ FailRecord \/ Reminders
             \/ PurgeTick \/ MarkPurged \/ FailMark \/ Tick \/ Crash \/ UNCHANGED vars
             \/ \E b \in Booker : AskReschedule(b) \/ RefuseReschedule(b)
    <2>1. UNCHANGED <<when, blind>>
      BY <1>6 DEF RecordBooking, RecordMove, RecordCancel, FailRecord, Reminders, RemindTick,
         ClaimReminder, FailClaim, PassRow, FailTick, SendReminder, PurgeTick, MarkPurged,
         FailMark, Tick, Crash, vars, AskReschedule, RefuseReschedule
    <2> QED
      BY <2>1, <1>5
  <1> QED
    BY <1>1, <1>2, <1>3, <1>4, <1>6 DEF Next, Pages, Purge, PurgeStep

\* However bookings, moves, cancellations, failures and crashes interleave, and
\* whatever the host does in the calendar: two bookings' events overlap only if one
\* of them was put there by the host, or while part of the calendar did not answer.
THEOREM NeverDoubleBooked == Spec => []NoDoubleBooking
  <1>1. Init => NoDoubleBooking
    BY DEF Init, NoDoubleBooking, there, Event
  <1>2. TypeOK /\ NoDoubleBooking /\ [Next]_vars => NoDoubleBooking'
    BY ApartStep
  <1> QED
    BY <1>1, <1>2, TypeCorrect, PTL DEF Spec

------------------------------------------------------------------------
(* Rows and calendar *)

\* The invariant without the types and the mails.
RowsInv == HalfDone /\ RowsMatchCalendar

LEMMA RowsInit == Init => RowsInv
  BY IdleFacts DEF Init, RowsInv, HalfDone, RowsMatchCalendar, there, Event

\* A step that changes no booking's times, takes at most events away but those of
\* bookings it counts as apart, makes no booking active and starts no stretch of a
\* booking or a move; where it ends one, the booking is apart.
LEMMA QuietStep ==
    ASSUME TypeOK, RowsInv, UNCHANGED booked, apart \subseteq apart',
           \A b \in Booker \ apart' : when'[b] \in {when[b], Nothing},
           \A b \in Booker : status'[b] = status[b] \/ status'[b] = "cancelled",
           \/ UNCHANGED loop /\ UNCHANGED status
           \/ /\ loop'.op \notin {"record", "move"}
              /\ loop.op = "move" => loop.b \in apart'
    PROVE  RowsInv'
  <1>1. loop.b \in Booker
    BY DEF TypeOK, Stretch
  <1>2. HalfDone'
    BY <1>1 DEF RowsInv, HalfDone
  <1>3. RowsMatchCalendar'
    <2> SUFFICES ASSUME NEW b \in (Booker \intersect there') \ apart', Active(b)',
                        ~(loop'.op = "move" /\ loop'.b = b)
                 PROVE  booked'[b] = when'[b]
      BY DEF RowsMatchCalendar
    <2>1. b \in there /\ when'[b] = when[b] /\ b \notin apart
      BY DEF there, Event
    <2>2. Active(b) /\ ~(loop.op = "move" /\ loop.b = b)
      BY DEF Active
    <2> QED
      BY <2>1, <2>2 DEF RowsInv, RowsMatchCalendar
  <1> QED
    BY <1>2, <1>3 DEF RowsInv

\* Event c is placed, and its booking or move begins, or its row is left behind.
LEMMA PlacedRow ==
    ASSUME TypeOK, RowsInv, NEW c \in Booker, NEW w \in Window, NEW op \in {"record", "move"},
           UNCHANGED <<status, booked>>, loop.op = "idle",
           when' = [when EXCEPT ![c] = w],
           op = "record" => status[c] = "none" /\ apart' = apart \ {c}
                            /\ loop' \in {[On(op, c) EXCEPT !.w = w], Idle},
           op = "move" => \/ loop' = [On(op, c) EXCEPT !.w = w] /\ apart' = apart \ {c}
                          \/ loop' = Idle /\ apart' = apart \union {c}
    PROVE  RowsInv'
  <1>1. /\ when'[c] = w
        /\ \A b \in Booker \ {c} : when'[b] = when[b] /\ (b \in apart' <=> b \in apart)
    BY DEF TypeOK, Event
  <1>2. loop'.op \in {"record", "move"} => loop'.op = op /\ loop'.b = c /\ loop'.w = w
    BY IdleFacts DEF On, Idle
  <1>3. HalfDone'
    BY <1>1, <1>2 DEF HalfDone
  <1>4. ASSUME NEW b \in (Booker \intersect there') \ apart', Active(b)',
               ~(loop'.op = "move" /\ loop'.b = b)
        PROVE  booked'[b] = when'[b]
    <2>1. CASE b # c
      <3>1. b \in there /\ when'[b] = when[b] /\ b \notin apart /\ Active(b)
        BY <1>1, <1>4, <2>1 DEF there, Event, Active
      <3> QED
        BY <3>1 DEF RowsInv, RowsMatchCalendar
    <2>2. CASE b = c
      <3>1. op = "move"
        BY <1>4, <2>2 DEF Active
      <3>2. loop' = [On(op, c) EXCEPT !.w = w]
        BY <1>4, <2>2, <3>1
      <3>3. loop'.op = "move" /\ loop'.b = c
        BY <3>1, <3>2 DEF On, Idle
      <3> QED
        BY <1>4, <2>2, <3>3
    <2> QED
      BY <2>1, <2>2
  <1> QED
    BY <1>3, <1>4 DEF RowsInv, RowsMatchCalendar

LEMMA RowsStep == TypeOK /\ RowsInv /\ [Next]_vars => RowsInv'
  <1> SUFFICES ASSUME TypeOK, RowsInv, [Next]_vars
               PROVE  RowsInv'
    OBVIOUS
  <1>0. loop \in Stretch /\ loop.b \in Booker /\ Idle.op = "idle"
    BY IdleFacts DEF TypeOK, Stretch
  <1>r. ASSUME NEW op \in {"remind", "purge"}, NEW todo
        PROVE  Rest(op, todo).op \notin {"record", "move"}
    BY DEF Rest, Idle
  <1>1. ASSUME NEW b \in Booker, NEW w \in Window, BookSlot(b, w)
        PROVE  RowsInv'
    <2>1. /\ loop.op = "idle" /\ status[b] = "none" /\ UNCHANGED <<status, booked>>
          /\ when' = [when EXCEPT ![b] = w] /\ apart' = apart \ {b}
          /\ loop' \in {[On("record", b) EXCEPT !.w = w], Idle}
      BY <1>0, <1>1 DEF BookSlot, rows
    <2> QED
      BY <2>1, PlacedRow
  <1>2. CASE RecordBooking \/ RecordMove
    <2>1. /\ booked' = [booked EXCEPT ![loop.b] = loop.w]
          /\ \A c \in Booker \ {loop.b} : status'[c] = status[c]
          /\ UNCHANGED <<when, apart>>
          /\ loop'.op = "idle"
          /\ loop.op \in {"record", "move"}
      BY <1>0, <1>2 DEF RecordBooking, RecordMove, TypeOK
    <2>2. booked'[loop.b] = loop.w /\ \A c \in Booker \ {loop.b} : booked'[c] = booked[c]
      BY <1>0, <2>1 DEF TypeOK
    <2>3. when[loop.b] \in {loop.w, Nothing} \/ loop.b \in apart
      BY <2>1 DEF RowsInv, HalfDone
    <2>4. HalfDone'
      BY <2>1 DEF HalfDone
    <2>5. ASSUME NEW c \in (Booker \intersect there') \ apart', Active(c)'
          PROVE  booked'[c] = when'[c]
      <3>1. CASE c = loop.b
        BY <2>1, <2>2, <2>3, <2>5, <3>1 DEF there
      <3>2. CASE c # loop.b
        BY <2>1, <2>2, <2>5, <3>2 DEF RowsInv, RowsMatchCalendar, there, Active
      <3> QED
        BY <3>1, <3>2
    <2> QED
      BY <2>4, <2>5 DEF RowsInv, RowsMatchCalendar
  <1>3. ASSUME NEW b \in Booker, NEW w \in Window, MoveEvent(b, w)
        PROVE  RowsInv'
    <2>1. /\ loop.op = "idle" /\ UNCHANGED <<status, booked>>
          /\ when' = [when EXCEPT ![b] = w]
          /\ \/ loop' = [On("move", b) EXCEPT !.w = w] /\ apart' = apart \ {b}
             \/ loop' = Idle /\ apart' = apart \union {b}
      BY <1>0, <1>3 DEF MoveEvent, Moved, rows
    <2> QED
      BY <2>1, PlacedRow
  <1>4. CASE RecordCancel \/ FailRecord \/ Crash
    <2>1. /\ UNCHANGED <<booked, when>> /\ apart \subseteq apart'
          /\ \A b \in Booker : status'[b] = status[b] \/ status'[b] = "cancelled"
          /\ loop'.op = "idle" /\ (loop.op = "move" => loop.b \in apart')
      BY <1>0, <1>4 DEF RecordCancel, FailRecord, Crash, CutShort, rows, TypeOK
    <2> QED
      BY <2>1, QuietStep
  <1>5. CASE \/ RollBack \/ Reminders \/ Purge
             \/ \E b \in Booker : CancelEvent(b)
    <2>1. UNCHANGED <<status, booked, apart>> /\ loop.op # "move"
      BY <1>0, <1>5 DEF RollBack, Reminders, RemindTick, ClaimReminder, FailClaim, PassRow,
         FailTick, SendReminder, Purge, PurgeTick, PurgeStep, PurgeEvent, SkipRow, MarkPurged,
         FailMark, CancelEvent, rows
    <2>2. \A b \in Booker : when'[b] \in {when[b], Nothing}
      BY <1>5 DEF RollBack, Reminders, RemindTick, ClaimReminder, FailClaim, PassRow,
         FailTick, SendReminder, Purge, PurgeTick, PurgeStep, PurgeEvent, SkipRow, MarkPurged,
         FailMark, CancelEvent, Deletes, TypeOK, Event
    <2>3. loop'.op \notin {"record", "move"}
      <3>1. CASE \/ RemindTick \/ ClaimReminder \/ FailClaim \/ PurgeTick \/ MarkPurged
                 \/ FailMark \/ \E b \in Booker : PassRow(b) \/ SkipRow(b)
        <4>1. PICK op \in {"remind", "purge"}, todo \in SUBSET Booker : loop' = Rest(op, todo)
          BY <1>0, <3>1 DEF RemindTick, ClaimReminder, FailClaim, PurgeTick, MarkPurged,
             FailMark, PassRow, SkipRow, PurgeDue, Stretch
        <4> QED
          BY <1>r, <4>1
      <3>2. CASE RollBack \/ \E b \in Booker : FailTick(b)
        BY <1>0, <3>2 DEF RollBack, FailTick
      <3>3. ASSUME NEW b \in Booker, CancelEvent(b)
            PROVE  loop'.op = "cancel"
        BY <3>3 DEF CancelEvent, On, Idle
      <3>4. ASSUME NEW b \in Booker, PurgeEvent(b)
            PROVE  loop'.op = "mark"
        BY <3>4 DEF PurgeEvent, On, Idle
      <3>5. ASSUME NEW b \in Booker, NEW o \in Offsets, SendReminder(b, o)
            PROVE  loop'.op = "claim"
        BY <3>5 DEF SendReminder, On, Idle
      <3> QED
        BY <1>5, <3>1, <3>2, <3>3, <3>4, <3>5 DEF Reminders, Purge, PurgeStep
    <2> QED
      BY <2>1, <2>2, <2>3, QuietStep
  <1>6. CASE \/ Host \/ Tick \/ UNCHANGED vars
             \/ \E b \in Booker : AskReschedule(b) \/ RefuseReschedule(b) \/ FailCancel(b)
    <2>1. UNCHANGED <<status, booked, loop>> /\ apart \subseteq apart'
      BY <1>6 DEF Host, HostAdds, HostMoves, HostDeletes, AccessChanges, Tick, vars,
         AskReschedule, RefuseReschedule, FailCancel, rows
    <2>2. ASSUME NEW c \in Booker \ apart'
          PROVE  when'[c] \in {when[c], Nothing}
      <3>1. ASSUME NEW h \in HostMeeting, NEW w \in Window, HostAdds(h, w)
            PROVE  when'[c] = when[c]
        BY <3>1 DEF HostAdds, TypeOK
      <3>2. ASSUME NEW e \in Event, NEW w \in Window, HostMoves(e, w)
            PROVE  when'[c] = when[c]
        BY <2>2, <3>2 DEF HostMoves, TypeOK, Event
      <3>3. CASE \/ Tick \/ UNCHANGED vars \/ AccessChanges \/ \E e \in Event : HostDeletes(e)
                 \/ \E b \in Booker : AskReschedule(b) \/ RefuseReschedule(b) \/ FailCancel(b)
        BY <3>3 DEF Tick, vars, AccessChanges, HostDeletes, AskReschedule, RefuseReschedule,
           FailCancel, TypeOK, Event
      <3> QED
        BY <1>6, <3>1, <3>2, <3>3 DEF Host
    <2> QED
      BY <2>1, <2>2, QuietStep
  <1> QED
    BY <1>1, <1>2, <1>3, <1>4, <1>5, <1>6 DEF Next, Pages

\* An active booking's row has its event's times, but where its last move was cut
\* short, by a crash, a store that raised or an update that raised with its effect,
\* or the host moved the event.
THEOREM RowsTrue == Spec => []RowsMatchCalendar
  <1>1. TypeOK /\ RowsInv /\ [Next]_vars => RowsInv'
    BY RowsStep
  <1>2. RowsInv => RowsMatchCalendar
    BY DEF RowsInv
  <1> QED
    BY <1>1, <1>2, RowsInit, TypeCorrect, PTL DEF Spec

\* A cancelled booking whose event is gone stays cancelled, without an event,
\* whatever reschedules were under way.
THEOREM CancelHolds == Spec => CancelledStaysCancelled
  <1> DEFINE Stays ==
        \A b \in Booker :
            status[b] = "cancelled" /\ b \notin there /\ ~(loop.op = "move" /\ loop.b = b)
                => status'[b] = "cancelled" /\ b \notin there'
  <1>1. TypeOK /\ RowsInv /\ [Next]_vars => [Stays]_vars
    <2> SUFFICES ASSUME TypeOK, RowsInv, Next, NEW b \in Booker, status[b] = "cancelled",
                        b \notin there, ~(loop.op = "move" /\ loop.b = b)
                 PROVE  status'[b] = "cancelled" /\ b \notin there'
      BY DEF vars
    <2>0. /\ loop.b \in Booker
          /\ status \in [Booker -> {"none", "confirmed", "rescheduled", "cancelled"}]
          /\ when \in [Event -> Window \union {Nothing}]
          /\ b \in Event /\ when[b] = Nothing
      BY DEF TypeOK, Stretch, there, Event
    <2>1. status'[b] = "cancelled"
      <3>1. CASE RecordBooking
        BY <2>0, <3>1 DEF RecordBooking, RowsInv, HalfDone
      <3>2. CASE RecordMove
        BY <2>0, <3>2 DEF RecordMove
      <3>3. CASE RecordCancel
        BY <2>0, <3>3 DEF RecordCancel
      <3>4. CASE ~(RecordBooking \/ RecordMove \/ RecordCancel)
        <4>1. UNCHANGED status
          BY <3>4 DEF Next, Pages, BookSlot, MoveEvent, Moved, AskReschedule,
             RefuseReschedule, CancelEvent, FailCancel, RollBack, FailRecord, Reminders,
             RemindTick, ClaimReminder, FailClaim, PassRow, FailTick, SendReminder, Purge,
             PurgeTick, PurgeStep, PurgeEvent, SkipRow, MarkPurged, FailMark, Host, HostAdds,
             HostMoves, HostDeletes, AccessChanges, Tick, Crash, rows
        <4> QED
          BY <4>1
      <3> QED
        BY <3>1, <3>2, <3>3, <3>4
    <2>2. when'[b] = Nothing
      <3>1. ASSUME NEW c \in Booker, NEW w \in Window, BookSlot(c, w) \/ MoveEvent(c, w)
            PROVE  when'[b] = Nothing
        <4>1. c # b
          BY <3>1 DEF BookSlot, MoveEvent
        <4> QED
          BY <2>0, <3>1, <4>1 DEF BookSlot, MoveEvent, Moved
      <3>2. ASSUME NEW h \in HostMeeting, NEW w \in Window, HostAdds(h, w)
            PROVE  when'[b] = Nothing
        BY <2>0, <3>2 DEF HostAdds
      <3>5. ASSUME NEW e \in Event, NEW w \in Window, HostMoves(e, w)
            PROVE  when'[b] = Nothing
        BY <2>0, <3>5 DEF HostMoves, there
      <3>3. CASE \/ RollBack \/ AccessChanges \/ \E e \in Event : HostDeletes(e)
                 \/ \E c \in Booker :
                       CancelEvent(c) \/ FailCancel(c) \/ PurgeEvent(c) \/ SkipRow(c)
        BY <2>0, <3>3 DEF RollBack, AccessChanges, HostDeletes, CancelEvent, FailCancel,
           PurgeEvent, SkipRow, Deletes, Event
      <3>4. CASE \/ RecordBooking \/ RecordMove \/ RecordCancel \/ FailRecord \/ Reminders
                 \/ Tick \/ PurgeTick \/ MarkPurged \/ FailMark \/ Crash
                 \/ \E c \in Booker : AskReschedule(c) \/ RefuseReschedule(c)
        BY <2>0, <3>4 DEF RecordBooking, RecordMove, RecordCancel, FailRecord, Reminders,
           RemindTick, ClaimReminder, FailClaim, PassRow, FailTick, SendReminder, Tick,
           PurgeTick, MarkPurged, FailMark, Crash, AskReschedule, RefuseReschedule
      <3> QED
        BY <3>1, <3>2, <3>3, <3>4, <3>5 DEF Next, Pages, Host, Purge, PurgeStep
    <2> QED
      BY <2>1, <2>2 DEF there
  <1>2. TypeOK /\ RowsInv /\ [Next]_vars => RowsInv'
    BY RowsStep
  <1> QED
    BY <1>1, <1>2, RowsInit, TypeCorrect, PTL DEF Spec, CancelledStaysCancelled

------------------------------------------------------------------------
(* Reminders that go out again *)

LEMMA MailInit == Init => MailsClaimed
  BY DEF Init, MailsClaimed, NoMail

\* A step that leaves both counts of a reminder alone, forgets no claim of it that
\* is on record, and has none in hand or keeps it.
MailKept(b, o) ==
    /\ mailed'[b][o] = mailed[b][o] /\ reopened'[b][o] = reopened[b][o]
    /\ o \in sent[b] => o \in sent'[b]
    /\ loop.op # "claim" \/ UNCHANGED loop \/ <<loop.b, loop.o>> # <<b, o>> \/ o \in sent'[b]

\* The reminder's claim, on record or in hand, is given up and counted; or both
\* counts start anew.
MailCounted(b, o) ==
    \/ /\ mailed'[b][o] = mailed[b][o]
       /\ \/ reopened'[b][o] = reopened[b][o] + 1
          \/ reopened'[b][o] = reopened[b][o]
             /\ o \notin sent[b] /\ ~(loop.op = "claim" /\ loop.b = b /\ loop.o = o)
    \/ mailed'[b][o] = 0 /\ reopened'[b][o] = 0

MailClaimed(b, o) ==
    \/ mailed[b][o] <= reopened[b][o]
    \/ /\ o \in sent[b] \/ (loop.op = "claim" /\ loop.b = b /\ loop.o = o)
       /\ mailed[b][o] <= 1 + reopened[b][o]

LEMMA ClaimedStep ==
    ASSUME TypeOK, TypeOK', NEW b \in Booker, NEW o \in Offsets, MailClaimed(b, o),
           MailKept(b, o) \/ MailCounted(b, o)
    PROVE  MailClaimed(b, o)'
  <1> PICK m \in Nat, n \in Nat, k \in Nat, l \in Nat :
           /\ m = mailed[b][o] /\ n = mailed'[b][o]
           /\ k = reopened[b][o] /\ l = reopened'[b][o]
    BY DEF TypeOK
  <1>1. CASE MailKept(b, o)
    BY <1>1 DEF MailKept, MailClaimed
  <1>2. CASE MailCounted(b, o)
    <2>1. n <= l
      BY <1>2 DEF MailCounted, MailClaimed
    <2> QED
      BY <2>1 DEF MailClaimed
  <1> QED
    BY <1>1, <1>2

LEMMA MailStep == TypeOK /\ TypeOK' /\ MailsClaimed /\ [Next]_vars => MailsClaimed'
  <1> SUFFICES ASSUME TypeOK, TypeOK', MailsClaimed, [Next]_vars,
                      NEW b \in Booker, NEW o \in Offsets
               PROVE  MailClaimed(b, o)'
    BY DEF MailsClaimed, MailClaimed
  <1>0. /\ loop.b \in Booker /\ loop.o \in Offsets /\ Idle.op = "idle"
        /\ MailClaimed(b, o)
    BY IdleFacts DEF TypeOK, Stretch, MailsClaimed, MailClaimed
  <1>1. CASE RecordMove \/ RecordCancel
    <2>1. CASE b = loop.b
      <3>1. TakenBack(b)[o] = reopened[b][o] + (IF o \in sent[b] THEN 1 ELSE 0)
        BY DEF TakenBack
      <3>2. loop.op # "claim" /\ NoMail[o] = 0 /\ reopened[b][o] \in Nat
        BY <1>1 DEF RecordMove, RecordCancel, NoMail, TypeOK
      <3>3. \/ mailed'[b] = mailed[b] /\ reopened'[b] = TakenBack(b)
            \/ mailed'[b] = NoMail /\ reopened'[b] = NoMail
        BY <1>1, <2>1 DEF RecordMove, RecordCancel, TypeOK
      <3>4. MailCounted(b, o)
        BY <3>1, <3>2, <3>3 DEF MailCounted
      <3> QED
        BY <1>0, <3>4, ClaimedStep
    <2>2. CASE b # loop.b
      <3>1. MailKept(b, o)
        BY <1>0, <1>1, <2>2 DEF RecordMove, RecordCancel, MailKept, TypeOK
      <3> QED
        BY <1>0, <3>1, ClaimedStep
    <2> QED
      BY <2>1, <2>2
  <1>2. CASE FailClaim \/ Crash
    <2>1. CASE loop.op = "claim" /\ loop.b = b /\ loop.o = o
      <3>1. reopened'[b][o] = reopened[b][o] + 1 /\ mailed' = mailed
        BY <1>2, <2>1 DEF FailClaim, Crash, ClaimLost, TypeOK
      <3> QED
        BY <1>0, <3>1, ClaimedStep DEF MailCounted
    <2>2. CASE ~(loop.op = "claim" /\ loop.b = b /\ loop.o = o)
      <3>1. /\ mailed' = mailed /\ sent' = sent
            /\ reopened' = IF loop.op = "claim" THEN ClaimLost ELSE reopened
        BY <1>2 DEF FailClaim, Crash, rows
      <3>2. reopened'[b][o] = reopened[b][o]
        BY <1>0, <2>2, <3>1 DEF ClaimLost, TypeOK
      <3> QED
        BY <1>0, <2>2, <3>1, <3>2, ClaimedStep DEF MailKept
    <2> QED
      BY <2>1, <2>2
  <1>3. ASSUME NEW c \in Booker, NEW p \in Offsets, SendReminder(c, p)
        PROVE  MailClaimed(b, o)'
    <2>1. /\ loop.op = "remind" /\ p \notin sent[c] /\ reopened' = reopened
          /\ mailed' \in {mailed, [mailed EXCEPT ![c][p] = @ + 1]}
          /\ \A d \in Booker : sent[d] \subseteq sent'[d]
      BY <1>3 DEF SendReminder, Due, TypeOK
    <2>2. loop'.op = "claim" /\ loop'.b = c /\ loop'.o = p
      BY <1>3 DEF SendReminder, On, Idle
    <2>3. CASE b = c /\ o = p
      <3>1. mailed'[b][o] = mailed[b][o] \/ mailed'[b][o] = mailed[b][o] + 1
        BY <2>1, <2>3 DEF TypeOK
      <3>2. mailed[b][o] <= reopened[b][o]
        BY <1>0, <2>1, <2>3 DEF MailClaimed
      <3>3. mailed[b][o] \in Nat /\ reopened[b][o] \in Nat
        BY DEF TypeOK
      <3> QED
        BY <2>1, <2>2, <2>3, <3>1, <3>2, <3>3 DEF MailClaimed
    <2>4. CASE ~(b = c /\ o = p)
      <3>1. mailed'[b][o] = mailed[b][o]
        BY <2>1, <2>4 DEF TypeOK
      <3> QED
        BY <1>0, <2>1, <3>1, ClaimedStep DEF MailKept
    <2> QED
      BY <2>3, <2>4
  <1>4. CASE ClaimReminder
    <2>1. /\ mailed' = mailed /\ reopened' = reopened
          /\ sent' = [sent EXCEPT ![loop.b] = @ \union {loop.o}]
      BY <1>4 DEF ClaimReminder, mails
    <2>2. (o \in sent[b] => o \in sent'[b]) /\ (<<loop.b, loop.o>> = <<b, o>> => o \in sent'[b])
      BY <1>0, <2>1 DEF TypeOK
    <2> QED
      BY <1>0, <2>1, <2>2, ClaimedStep DEF MailKept
  <1>5. CASE \E c \in Booker : PassRow(c) \/ FailTick(c)
    <2>1. mailed' = mailed /\ reopened' = reopened /\ loop.op = "remind"
          /\ \A d \in Booker : sent[d] \subseteq sent'[d]
      BY <1>5 DEF PassRow, FailTick, mails, TypeOK
    <2> QED
      BY <1>0, <2>1, ClaimedStep DEF MailKept
  <1>6. CASE \/ \E c \in Booker : \/ AskReschedule(c) \/ RefuseReschedule(c)
                                  \/ CancelEvent(c) \/ FailCancel(c)
                                  \/ \E w \in Window : BookSlot(c, w) \/ MoveEvent(c, w)
             \/ RecordBooking \/ RollBack \/ FailRecord \/ RemindTick \/ Purge \/ Host \/ Tick
             \/ UNCHANGED vars
    <2>1. mailed' = mailed /\ reopened' = reopened /\ sent' = sent
          /\ (loop.op # "claim" \/ UNCHANGED loop)
      BY <1>0, <1>6 DEF AskReschedule, RefuseReschedule, CancelEvent, FailCancel, BookSlot,
         MoveEvent, Moved, RecordBooking, RollBack, FailRecord, RemindTick, Purge, PurgeTick,
         PurgeStep, PurgeEvent, SkipRow, MarkPurged, FailMark, Host, HostAdds, HostMoves,
         HostDeletes, AccessChanges, Tick, vars, rows, mails
    <2> QED
      BY <1>0, <2>1, ClaimedStep DEF MailKept
  <1> QED
    BY <1>1, <1>2, <1>3, <1>4, <1>5, <1>6 DEF Next, Pages, Reminders

\* However ticks, moves, cancellations, failures and crashes interleave, for any number
\* of bookings and reminders: each reminder after the first for one start answers to a
\* claim that was lost or taken back.
THEOREM RepeatsAnswered == Spec => []RepeatsHaveCauses
  <1>1. TypeOK /\ MailsClaimed => RepeatsHaveCauses
    <2> SUFFICES ASSUME TypeOK, MailsClaimed, NEW b \in Booker, NEW o \in Offsets
                 PROVE  mailed[b][o] <= 1 + reopened[b][o]
      BY DEF RepeatsHaveCauses
    <2>1. mailed[b][o] \in Nat /\ reopened[b][o] \in Nat
      BY DEF TypeOK
    <2> QED
      BY <2>1 DEF MailsClaimed
  <1>2. TypeOK /\ TypeOK' /\ MailsClaimed /\ [Next]_vars => MailsClaimed'
    BY MailStep
  <1> QED
    BY <1>1, <1>2, TypeCorrect, MailInit, PTL DEF Spec
=============================================================================
