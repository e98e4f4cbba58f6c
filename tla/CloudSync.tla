---------------------------- MODULE CloudSync ----------------------------
(***************************************************************************)
(* The two-way syncs with Nextcloud: the cards of a Deck stack and the     *)
(* backlog's items (deck_sync), the notes of the Notes app and the vault's *)
(* (notes_sync).  Both tell who has changed since the last sync by the     *)
(* clock: each pair keeps the instant of its last sync, and the later      *)
(* change wins where both sides have one.                                  *)
(*                                                                         *)
(* A run works from lists it asked for once, while people go on editing on *)
(* both sides; it may fail or die between any two of its steps, and two    *)
(* gateway processes may each have one.  Nextcloud's stamps are in whole   *)
(* seconds, and the clocks agree.  Of a card or a note there is its text,  *)
(* which every edit makes a new one.                                       *)
(***************************************************************************)
EXTENDS Naturals, FiniteSetsExt

CONSTANTS
    Kinds,                    \* the syncs looked at, of "deck" and "notes"
    Cards,                    \* cards on the stack, or notes in the app
    Copies,                   \* backlog items, or notes of the vault: numbers, in listing order
    Runs,
    PerSecond,                \* ticks of the gateway's clock in a second
    MaxClock, MaxEdits, MaxFailures     \* bounds

ASSUME CardsAssumption  == 0 \notin Cards
ASSUME CopiesAssumption == Copies \subseteq Nat \ {0} /\ IsFiniteSet(Copies)
ASSUME ClockAssumption  == PerSecond \in Nat \ {0}
ASSUME SyncBoundsAssumption == {MaxClock, MaxEdits, MaxFailures} \subseteq Nat

VARIABLES
    kind,
    clock,
    cards,      \* what Nextcloud has; text 0: not on the stack (any more)
    copies,     \* what Memaix has, with the card it is linked to (0: none) and when it was synced
    run,
    edits, failures,
    \* what has been seen from outside:
    unsent,     \* edits that have to reach the other side, made when nothing was under way
    lost        \* those that were written over without a word

syncVars == <<kind, clock, cards, copies, run, edits, failures, unsent, lost>>

NoCard == [text |-> 0, at |-> 0]
NoCopy == [text |-> 0, at |-> 0, card |-> 0, synced |-> 0]
NoRun  == [step |-> "none", cards |-> <<>>, copies |-> <<>>, todo |-> {},
           card |-> 0, slot |-> 0, old |-> NoCopy, told |-> FALSE]

Second(t) == PerSecond * (t \div PerSecond)

\* A stack with cards on it that no sync has seen yet.
SyncInit ==
    /\ kind \in Kinds /\ clock = PerSecond
    /\ cards = [c \in Cards |-> [text |-> 1, at |-> 0]]
    /\ copies = [i \in Copies |-> NoCopy]
    /\ run = [r \in Runs |-> NoRun]
    /\ edits = 1 /\ failures = 0
    /\ unsent = {} /\ lost = {}

Quietly == \A r \in Runs : run[r] = NoRun

\* The copy a card is linked to: of several the list's last.
Linked(list, c)  == {i \in Copies : list[i].card = c}
Partner(list, c) == Max(Linked(list, c))

------------------------------------------------------------------------
(* People *)

Passes ==
    /\ clock < MaxClock /\ clock' = clock + 1
    /\ UNCHANGED <<kind, cards, copies, run, edits, failures, unsent, lost>>

\* A side of a pair has a new text.  It has to arrive if the clocks can tell it from
\* the last sync and no run has lists from before; it takes the place of an earlier one.
Edited(side, c, stamp) ==
    LET base    == copies[Partner(copies, c)].synced
        earlier == {e \in unsent : e.side = side /\ e.card = c} IN
    /\ edits < MaxEdits /\ edits' = edits + 1
    /\ unsent' = (unsent \ earlier)
                    \union IF Quietly /\ Linked(copies, c) # {} /\ stamp > base
                           THEN {[side |-> side, card |-> c, text |-> edits']} ELSE {}

EditCard(c) ==
    /\ cards[c].text # 0
    /\ Edited("cloud", c, Second(clock))
    /\ cards' = [cards EXCEPT ![c] = [text |-> edits', at |-> Second(clock)]]
    /\ UNCHANGED <<kind, clock, copies, run, failures, lost>>

\* A card is deleted, archived or moved: nothing can arrive there, and nothing from there.
RemoveCard(c) ==
    /\ cards[c].text # 0 /\ edits < MaxEdits /\ edits' = edits + 1
    /\ cards' = [cards EXCEPT ![c] = NoCard]
    /\ unsent' = {e \in unsent : e.card # c}
    /\ UNCHANGED <<kind, clock, copies, run, failures, lost>>

\* backlog_comment, or any writing of a note.
EditCopy(i) ==
    LET c == copies[i].card IN
    /\ copies[i].text # 0
    /\ IF c # 0 /\ i = Partner(copies, c) /\ cards[c].text # 0
       THEN Edited("memaix", c, clock)
       ELSE edits < MaxEdits /\ edits' = edits + 1 /\ UNCHANGED unsent
    /\ copies' = [copies EXCEPT ![i].text = edits', ![i].at = clock]
    /\ UNCHANGED <<kind, clock, cards, run, failures, lost>>

\* A status, a score or an assignee: the item is as good as changed.
TouchCopy(i) ==
    /\ kind = "deck" /\ copies[i].text # 0 /\ edits < MaxEdits /\ edits' = edits + 1
    /\ copies' = [copies EXCEPT ![i].at = clock]
    /\ UNCHANGED <<kind, clock, cards, run, failures, unsent, lost>>

------------------------------------------------------------------------
(* A run *)

At(r, s)   == run[r].step = s
Fin(r)     == run' = [run EXCEPT ![r] = NoRun]

\* One card is dealt with; after the last the caller gets the report.
Done(r) ==
    IF run[r].todo = {} THEN Fin(r)
    ELSE run' = [run EXCEPT ![r] = [NoRun EXCEPT !.step = "next", !.cards = run[r].cards,
                                                 !.copies = run[r].copies, !.todo = run[r].todo]]

\* The next card, with what is known of it; the lists are of no use after the last one.
Takes(r, step, c, i, known, conflict) ==
    LET left == run[r].todo \ {c} IN
    run' = [run EXCEPT ![r] = [step |-> step, card |-> c, slot |-> i, old |-> known, told |-> conflict, todo |-> left,
                               cards  |-> IF left = {} THEN <<>> ELSE run[r].cards,
                               copies |-> IF left = {} THEN <<>> ELSE run[r].copies]]

\* Text reaches one side of the pair the run is at.
Written(r, side, text) ==
    LET pair == {e \in unsent : e.card = run[r].card}
        over == {e \in pair : e.side = side /\ e.text # text}
        sent == {e \in pair : e.side # side /\ e.text = text} IN
    /\ unsent' = unsent \ (over \union sent)
    /\ lost' = IF run[r].told THEN lost ELSE lost \union over

ListCards(r) ==
    /\ run[r] = NoRun
    /\ run' = [run EXCEPT ![r].step = "list", ![r].cards = cards]
    /\ UNCHANGED <<kind, clock, cards, copies, edits, failures, unsent, lost>>

\* A card that is gone is left alone, with its copy.
ListCopies(r) ==
    LET todo == {c \in Cards : run[r].cards[c].text # 0} IN
    /\ At(r, "list")
    /\ IF todo = {} THEN Fin(r)
       ELSE run' = [run EXCEPT ![r].step = "next", ![r].todo = todo, ![r].copies =
                       IF kind = "deck" THEN copies
                       ELSE [i \in Copies |-> [copies[i] EXCEPT !.text = 0, !.at = 0]]]
    /\ UNCHANGED <<kind, clock, cards, copies, edits, failures, unsent, lost>>

New(r) == {c \in run[r].todo : Linked(run[r].copies, c) = {}}

\* A card nobody has a copy of gets one, at a name that is free; the link comes after it.
PullNew(r, c, i) ==
    /\ At(r, "next") /\ c \in New(r) /\ copies[i] = NoCopy
    /\ copies' = [copies EXCEPT ![i].text = run[r].cards[c].text, ![i].at = clock]
    /\ Takes(r, "link", c, i, NoCopy, FALSE)
    /\ UNCHANGED <<kind, clock, cards, edits, failures, unsent, lost>>

Link(r) ==
    /\ At(r, "link")
    /\ copies' = [copies EXCEPT ![run[r].slot].card = run[r].card, ![run[r].slot].synced = clock]
    /\ Done(r)
    /\ UNCHANGED <<kind, clock, cards, edits, failures, unsent, lost>>

\* The sides as a run sees them: the vault's notes are looked up as they are now, the
\* backlog's items are those of the list.
Theirs(r, c) == run[r].cards[c]
Ours(r, c)   == LET i == Partner(run[r].copies, c) IN
                IF kind = "deck" THEN run[r].copies[i] ELSE copies[i]

CardChanged(r, c) == Theirs(r, c).at > run[r].copies[Partner(run[r].copies, c)].synced
CopyChanged(r, c) == Ours(r, c).at > run[r].copies[Partner(run[r].copies, c)].synced

CardWins(r, c)    == Theirs(r, c).at >= Ours(r, c).at

ConflictMutant(r, c) == CopyChanged(r, c) /\ CardChanged(r, c) /\ ~CardWins(r, c)   \* the newer card just wins
Conflict(r, c) == CopyChanged(r, c) /\ CardChanged(r, c)

Pulls(r, c)  == CardChanged(r, c) /\ (Conflict(r, c) => CardWins(r, c))
Pushes(r, c) == CopyChanged(r, c) /\ (CardChanged(r, c) => ~CardWins(r, c))

\* Once all new cards have their copies: who has changed?  Where both have, the
\* report says so.
Decide(r, c) ==
    /\ At(r, "next") /\ New(r) = {} /\ c \in run[r].todo
    /\ LET i == Partner(run[r].copies, c) IN
       IF Pulls(r, c) THEN Takes(r, "pull", c, i, [NoCopy EXCEPT !.text = Theirs(r, c).text], Conflict(r, c))
       ELSE IF ~Pushes(r, c) THEN Takes(r, "skip", c, i, NoCopy, FALSE)
       ELSE IF kind = "deck" THEN Takes(r, "push", c, i, [NoCopy EXCEPT !.text = Ours(r, c).text], Conflict(r, c))
       ELSE Takes(r, "read", c, i, NoCopy, Conflict(r, c))
    /\ UNCHANGED <<kind, clock, cards, copies, edits, failures, unsent, lost>>

Skip(r) == At(r, "skip") /\ Done(r)
           /\ UNCHANGED <<kind, clock, cards, copies, edits, failures, unsent, lost>>

\* The item's file is written once, with its text and its stamps ...
PullIntoItem(r) ==
    LET text == run[r].old.text IN
    /\ At(r, "pull") /\ kind = "deck" /\ Written(r, "memaix", text) /\ Done(r)
    /\ copies' = [copies EXCEPT ![run[r].slot] =
                     [text |-> text, at |-> clock, card |-> @.card, synced |-> clock]]
    /\ UNCHANGED <<kind, clock, cards, edits, failures>>

\* ... the note first and its link after.
PullIntoNote(r) ==
    LET text == run[r].old.text IN
    /\ At(r, "pull") /\ kind = "notes" /\ Written(r, "memaix", text)
    /\ run' = [run EXCEPT ![r].step = "stamp", ![r].old = NoCopy]
    /\ copies' = [copies EXCEPT ![run[r].slot].text = text, ![run[r].slot].at = clock]
    /\ UNCHANGED <<kind, clock, cards, edits, failures>>

ReadNoteMutant(r) ==      \* the link is stamped before the note is sent
    /\ At(r, "read")
    /\ run' = [run EXCEPT ![r].step = "push",
                          ![r].old = [NoCopy EXCEPT !.text = copies[run[r].slot].text]]
    /\ copies' = [copies EXCEPT ![run[r].slot].synced = clock]
    /\ UNCHANGED <<kind, clock, cards, edits, failures, unsent, lost>>
ReadNote(r) ==
    /\ At(r, "read")
    /\ run' = [run EXCEPT ![r].step = "push",
                          ![r].old = [NoCopy EXCEPT !.text = copies[run[r].slot].text]]
    /\ UNCHANGED <<kind, clock, cards, copies, edits, failures, unsent, lost>>

\* update_card and update_note look the card up first; one that is gone ends the run.
Push(r) ==
    LET c == run[r].card text == run[r].old.text IN
    /\ At(r, "push")
    /\ IF cards[c].text = 0 THEN Fin(r) /\ UNCHANGED <<cards, unsent, lost>>
       ELSE /\ cards' = [cards EXCEPT ![c] = [text |-> text, at |-> Second(clock)]]
            /\ Written(r, "cloud", text)
            /\ run' = [run EXCEPT ![r].step = IF kind = "deck" THEN "file" ELSE "stamp", ![r].old = NoCopy]
    /\ UNCHANGED <<kind, clock, copies, edits, failures>>

\* The stamp of an item is a field of its file, which is read ...
ReadFile(r) ==
    /\ At(r, "file")
    /\ run' = [run EXCEPT ![r].step = "stamp", ![r].old = copies[run[r].slot]]
    /\ UNCHANGED <<kind, clock, cards, copies, edits, failures, unsent, lost>>

\* ... and written back, without the backlog's lock; a note's is a row of its own.
Restamp(r) ==
    LET i == run[r].slot IN
    /\ At(r, "stamp")
    /\ copies' = [copies EXCEPT ![i] = [(IF kind = "deck" THEN run[r].old ELSE @)
                                          EXCEPT !.synced = clock]]
    /\ Done(r)
    /\ UNCHANGED <<kind, clock, cards, edits, failures, unsent, lost>>

\* Nextcloud does not answer, a write is refused, or the process dies; the report is lost.
Fails(r) ==
    /\ run[r] # NoRun /\ failures < MaxFailures /\ failures' = failures + 1 /\ Fin(r)
    /\ UNCHANGED <<kind, clock, cards, copies, edits, unsent, lost>>

RunStep(r) ==
    \/ ListCopies(r) \/ Link(r) \/ Skip(r)
    \/ PullIntoItem(r) \/ PullIntoNote(r) \/ ReadNote(r) \/ Push(r) \/ ReadFile(r) \/ Restamp(r)
    \/ \E c \in Cards : Decide(r, c) \/ \E i \in Copies : PullNew(r, c, i)

SyncNext ==
    \/ Passes
    \/ \E c \in Cards : EditCard(c) \/ RemoveCard(c)
    \/ \E i \in Copies : EditCopy(i) \/ TouchCopy(i)
    \/ \E r \in Runs : ListCards(r) \/ RunStep(r) \/ Fails(r)

\* Somebody syncs again and again, and runs go on.
SyncFairness ==
    /\ WF_syncVars(\E r \in Runs : ListCards(r))
    /\ \A r \in Runs : WF_syncVars(RunStep(r))

SyncSpec == SyncInit /\ [][SyncNext]_syncVars /\ SyncFairness

------------------------------------------------------------------------
(* Properties *)

\* No edit that was made while nothing was under way is written over without the
\* report naming the conflict, whatever else people edit, touch and remove during the
\* runs, and wherever runs fail or overlap.
NoEditVanishes == lost = {}

\* Every such edit gets to the other side, gives way to a later one of its own side, or
\* is reported as the loser of a conflict: once people leave it at that, no failed or
\* overlapping run, and no stamp of the other clock, makes the syncs pass one over for good.
EditsArrive == []<>(unsent = {})

========================================================================
