----------------------------- MODULE MailBoxes -----------------------------
(***************************************************************************)
(* A user's mailboxes: the project's own and those of linked accounts,     *)
(* which come, go and lose their token.  A chat session refers to messages *)
(* by the short numbers of its last overview, kept in a book in memory; a  *)
(* list or search gives ids, which carry the label of their mailbox when   *)
(* there is more than one.                                                 *)
(*                                                                         *)
(* A tool runs on the event loop until it is done, and is one step; the    *)
(* mailboxes are also changed from elsewhere.  A message is <<mailbox, uid>>,*)
(* and a mailbox uses a uid once.                                          *)
(***************************************************************************)
EXTENDS Naturals, Sequences, FiniteSets, SequencesExt

CONSTANTS
    Chats,
    Boxes,                     \* 1..n in the order of the registry, 1 the project's own
    MaxBooks,                  \* _MAX_SESSIONS
    MaxUid, MaxMail, MaxNumber \* bounds: uids in a mailbox, messages, numbers

ASSUME BoxesAssumption == Boxes \subseteq Nat \ {0} /\ 1 \in Boxes /\ IsFiniteSet(Boxes)
ASSUME SizesAssumption == {MaxBooks, MaxUid, MaxMail, MaxNumber} \subseteq Nat \ {0}

Messages == Boxes \X (1..MaxUid)
Numbers  == 1..MaxNumber
Nowhere  == <<0, 0>>

VARIABLES
    status,     \* status[b]: "linked", "needs_relink", or "none": not linked or not shared
    arrived,    \* arrived[b]: the last uid given in the mailbox
    inbox,      \* the messages in some INBOX
    books,      \* the sessions that have a book, the least recently used first
    book,       \* book[s]: [next, refs, last], numbers to messages and the last overview
    id,         \* an id that a list or search has given, with or without its label
    \* what has been seen from outside:
    meaning,    \* meaning[s]: <<n, b, u>>, number n was shown or used for message <<b, u>>
    moved,      \* moved[s]: the numbers of messages reported as moved
    wrong,      \* an id with a label has led to another message or mailbox
    quiet       \* a search has passed as complete although a mailbox was missing

boxVars == <<status, arrived, inbox>>
bookVars == <<meaning, moved>>
mailVars == <<status, arrived, inbox, books, book, id, meaning, moved, wrong, quiet>>

NoId  == [label |-> FALSE, msg |-> Nowhere]
Empty == [next |-> 1, refs |-> <<>>, last |-> {}]

MailInit ==
    /\ status = [b \in Boxes |-> IF b = 1 THEN "linked" ELSE "none"]
    /\ arrived = [b \in Boxes |-> 0] /\ inbox = {}
    /\ books = <<>> /\ book = [s \in Chats |-> Empty]
    /\ id = NoId
    /\ meaning = [s \in Chats |-> {}] /\ moved = [s \in Chats |-> {}]
    /\ wrong = FALSE /\ quiet = FALSE

Sources == {b \in Boxes : status[b] = "linked"}
RelinkPending == {b \in Boxes : status[b] = "needs_relink"}

First(B) == CHOOSE b \in B : \A c \in B : b <= c

------------------------------------------------------------------------
(* What happens elsewhere *)

Arrive(b) ==
    /\ arrived[b] < MaxUid /\ FoldFunction(+, 0, arrived) < MaxMail
    /\ arrived' = [arrived EXCEPT ![b] = @ + 1]
    /\ inbox' = inbox \union {<<b, arrived'[b]>>}
    /\ UNCHANGED <<status, books, book, id, bookVars, wrong, quiet>>

\* Moved or deleted in another mail program.
Leave(m) ==
    /\ m \in inbox
    /\ inbox' = inbox \ {m}
    /\ UNCHANGED <<status, arrived, books, book, id, bookVars, wrong, quiet>>

\* An account is linked or unlinked, shared with the project or no longer, or its token dies.
SetStatus(b, st) ==
    /\ b # 1 /\ status[b] # st
    /\ status[b] = "none" => st = "linked"
    /\ status' = [status EXCEPT ![b] = st]
    /\ UNCHANGED <<arrived, inbox, books, book, id, bookVars, wrong, quiet>>

RestartAll ==
    /\ books' = <<>> /\ book' = [s \in Chats |-> Empty]
    /\ meaning' = [s \in Chats |-> {}] /\ moved' = [s \in Chats |-> {}]
    /\ UNCHANGED <<boxVars, id, wrong, quiet>>

------------------------------------------------------------------------
(* The book of numbers *)

\* RefBook._book: the book of s is now the most recently used; the least recently used one
\* goes when there are too many.
Used(s) == LET q == SelectSeq(books, LAMBDA t : t # s) \o <<s>> IN
           IF Len(q) > MaxBooks THEN Tail(q) ELSE q
Kept(s) == {t \in Chats : \E i \in DOMAIN Used(s) : Used(s)[i] = t}

Use(s, bk, shown, gone) ==
    /\ books' = Used(s)
    /\ book' = [t \in Chats |-> IF t = s THEN bk ELSE IF t \in Kept(s) THEN book[t] ELSE Empty]
    /\ meaning' = [t \in Chats |->
          IF t = s THEN meaning[s] \union shown ELSE IF t \in Kept(s) THEN meaning[t] ELSE {}]
    /\ moved' = [t \in Chats |->
          IF t = s THEN moved[s] \union gone ELSE IF t \in Kept(s) THEN moved[t] ELSE {}]

Key(m) == m

NumberOf(refs, m) == {n \in DOMAIN refs : Key(refs[n]) = Key(m)}

\* The order of the rows of an overview: by mailbox, the newest first.
Precedes(m, k) == m[1] < k[1] \/ (m[1] = k[1] /\ m[2] > k[2])

\* RefBook.number, for one message after the other: a message keeps its number, or gets the
\* next one.
Number(bk, shown) ==
    LET new   == {m \in shown : NumberOf(bk.refs, m) = {}}
        at(m) == bk.next + Cardinality({k \in new : Precedes(k, m)})
    IN  [next |-> bk.next + Cardinality(new),
         refs |-> [n \in DOMAIN bk.refs \union {at(m) : m \in new} |->
                      IF n \in DOMAIN bk.refs THEN bk.refs[n] ELSE CHOOSE m \in new : at(m) = n]]

\* RefBook.resolve: every number must be in the book, or nothing is done.
AskedFor(s) == {{n} : n \in Numbers} \union {book[s].last}      \* a number, or all
Resolves(s, ns) == ns # {} /\ ns \subseteq DOMAIN book[s].refs

\* email_overview: the messages of the mailboxes that answer, or the unread or newest of them;
\* mailboxes that do not answer are in errors, and those that are to be linked anew are left out.
Overview(s, shown) ==
    LET new  == Number(book[s], shown)
        rows == {<<CHOOSE n \in NumberOf(new.refs, m) : TRUE, m[1], m[2]>> : m \in shown}
    IN
    /\ \A m \in shown : m[1] \in Sources
    /\ new.next <= MaxNumber + 1
    /\ Use(s, [next |-> new.next, refs |-> new.refs, last |-> {r[1] : r \in rows}], rows, {})
    /\ UNCHANGED <<boxVars, id, wrong, quiet>>

\* The messages for these numbers, and what is said of a number that has been used.
Target(s, ns) == {book[s].refs[n] : n \in ns}
Said(s, ns) == {<<n, book[s].refs[n][1], book[s].refs[n][2]>> : n \in ns}

\* _run_on_boxes: one mailbox after the other.  One that cannot be built or fails is in
\* errors, "late" if it was done all the same; a message that is gone is left out silently.
InBoxes(s, ns, B) == {n \in ns : book[s].refs[n][1] \in B}
Does(s, ns, out)    == InBoxes(s, ns, {b \in Sources \intersect DOMAIN out : out[b] # "failed"})
Reports(s, ns, out) == InBoxes(s, ns, {b \in Sources \intersect DOMAIN out : out[b] = "done"})

\* email_set_flags.
SetFlags(s, ns, out) ==
    /\ Resolves(s, ns)
    /\ Use(s, book[s], Said(s, Does(s, ns, out)), {})
    /\ UNCHANGED <<boxVars, id, wrong, quiet>>

\* forgets every number that was asked for
ForgottenMutant(s, ns, out) == ns
Forgotten(s, ns, out) == Reports(s, ns, out)

\* RefBook.forget
Forget(bk, ns) == [bk EXCEPT !.refs = [n \in DOMAIN bk.refs \ ns |-> bk.refs[n]], !.last = @ \ ns]

\* email_archive and email_move: the numbers of the messages moved are forgotten, also when
\* they were to be moved to where they are.
Move(s, ns, stay, out) ==
    LET hit == IF stay THEN {} ELSE Target(s, Does(s, ns, out)) \intersect inbox IN
    /\ Resolves(s, ns)
    /\ inbox' = inbox \ hit
    /\ Use(s, Forget(book[s], Forgotten(s, ns, out)), Said(s, Does(s, ns, out)), Reports(s, ns, out))
    /\ UNCHANGED <<status, arrived, id, wrong, quiet>>

\* email_forward and email_reply of one message, if it is still there: sent from its mailbox.
SendFromBox(s, n) ==
    /\ Resolves(s, {n})
    /\ Target(s, {n}) \subseteq inbox /\ book[s].refs[n][1] \in Sources
    /\ Use(s, book[s], Said(s, {n}), {})
    /\ UNCHANGED <<boxVars, id, wrong, quiet>>

\* A tool that is refused: a number is not in the book, the message is gone, sending is not
\* allowed.  The session has used its book, and has one now.
Refuse(s) ==
    /\ Use(s, book[s], {}, {})
    /\ UNCHANGED <<boxVars, id, wrong, quiet>>

------------------------------------------------------------------------
(* Lists, searches and their ids *)

\* merges only what answers, so that an account without a token goes unnoticed
AloneMutant(B) == Cardinality(B) = 1

\* _mail_backend: the only mailbox is used as it is, without labels.
Alone(B) == Cardinality(B) = 1 /\ RelinkPending = {}

\* Whoever does not answer is named in the last row; the only mailbox would have raised.
Named(broken) == IF Alone(Sources) THEN {} ELSE (Sources \intersect broken) \union RelinkPending

\* email_list, email_search: the messages of all that answer, unless none does, which raises.
List(broken) ==
    LET found == {m \in inbox : m[1] \in Sources \ broken} IN
    /\ Sources \ broken # {}
    /\ quiet' = (quiet \/ ~(Sources \union RelinkPending \subseteq (Sources \ broken) \union Named(broken)))
    /\ id' \in IF found = {} THEN {id} ELSE {[label |-> ~Alone(Sources), msg |-> m] : m \in found}
    /\ UNCHANGED <<boxVars, books, book, bookVars, wrong>>

Having(u) == {b \in Sources : <<b, u>> \in inbox}

\* takes the first mailbox that has the uid, with a label or without
FetchMutant(i) ==
    IF Having(i.msg[2]) = {} THEN Nowhere ELSE <<First(Having(i.msg[2])), i.msg[2]>>

\* MultiMailBackend._fetch_uid: the mailbox of the label, or the first that has the uid.  An
\* only mailbox finds nothing under an id with a label.
Fetch(i) ==
    IF i.label
    THEN IF ~Alone(Sources) /\ i.msg[1] \in Having(i.msg[2]) THEN i.msg ELSE Nowhere
    ELSE IF Having(i.msg[2]) = {} THEN Nowhere ELSE <<First(Having(i.msg[2])), i.msg[2]>>

Misled(i, m) == i.label /\ m \notin {i.msg, Nowhere}

\* email_read, email_attachments, email_attachment_get, email_export_pdf.
Read ==
    /\ id # NoId
    /\ wrong' = (wrong \/ Misled(id, Fetch(id)))
    /\ UNCHANGED <<boxVars, books, book, id, bookVars, quiet>>

\* _mail_targets with a project: an id without a label, of the only mailbox.
IdTarget(i) ==
    IF i.label THEN IF i.msg[1] \in Sources THEN i.msg ELSE Nowhere
    ELSE IF Cardinality(Sources) = 1 THEN <<First(Sources), i.msg[2]>> ELSE Nowhere

\* email_set_flags, email_archive and email_move with an id.
ActOnId(move) ==
    LET m == IdTarget(id) IN
    /\ id # NoId /\ m # Nowhere
    /\ wrong' = (wrong \/ Misled(id, m))
    /\ inbox' = IF move THEN inbox \ {m} ELSE inbox
    /\ UNCHANGED <<status, arrived, books, book, id, bookVars, quiet>>

\* Where a draft goes: the mailbox asked for, that of the label, or the first.
DraftBox(i, account) ==
    IF account # 0 THEN account
    ELSE IF i.label /\ ~Alone(Sources) /\ i.msg[1] \in Sources THEN i.msg[1] ELSE First(Sources)

\* email_create_draft in reply to an id, which has to be found.
ReplyDraft(account) ==
    /\ id # NoId /\ Sources # {}
    /\ account \in Sources \union {0}
    /\ Fetch(id) # Nowhere
    /\ wrong' = (wrong \/ Misled(id, Fetch(id))
                       \/ (account = 0 /\ id.label /\ DraftBox(id, account) # id.msg[1]))
    /\ UNCHANGED <<boxVars, books, book, id, bookVars, quiet>>

------------------------------------------------------------------------

\* What becomes of each mailbox that holds one of these messages.
Outcomes(s, ns) ==
    [{book[s].refs[n][1] : n \in ns \intersect DOMAIN book[s].refs} -> {"done", "late", "failed"}]

MailNext ==
    \/ \E b \in Boxes : Arrive(b) \/ \E st \in {"linked", "needs_relink", "none"} : SetStatus(b, st)
    \/ \E m \in Messages : Leave(m)
    \/ RestartAll
    \/ \E s \in Chats :
         \/ \E shown \in SUBSET inbox : Overview(s, shown)
         \/ \E ns \in AskedFor(s) : \E out \in Outcomes(s, ns) :
              SetFlags(s, ns, out) \/ \E stay \in BOOLEAN : Move(s, ns, stay, out)
         \/ \E n \in Numbers : SendFromBox(s, n)
         \/ Refuse(s)
    \/ \E broken \in SUBSET Boxes : List(broken)
    \/ Read
    \/ \E move \in BOOLEAN : ActOnId(move)
    \/ \E account \in Boxes \union {0} : ReplyDraft(account)

MailSpec == MailInit /\ [][MailNext]_mailVars

------------------------------------------------------------------------

\* As long as a session has its book, a number means one message, whatever it was shown for,
\* marked, moved or forwarded, while mail comes and goes; and when some mailboxes fail in the
\* middle of a move, only the messages reported as moved have lost their numbers, so that the
\* others can be tried again.
NumbersStand ==
    \A s \in Chats :
        /\ \A x, y \in meaning[s] : x[1] = y[1] => x = y
        /\ \A x \in meaning[s] : x[1] \in DOMAIN book[s].refs \union moved[s]

\* An id with a label leads to the message it was given for or to nothing, and the draft of a
\* reply to it lies in that message's mailbox, whichever mailboxes have come and gone since.
IdsStand == ~wrong

\* A list or search never passes as complete while one of the mailboxes is missing from it.
NoQuietGaps == ~quiet
=============================================================================
