------------------------------ MODULE SendLock ------------------------------
(***************************************************************************)
(* The lock on sending mail from a chat session.  The owner of the mailbox *)
(* takes it off with a code that reaches them outside of the chat.         *)
(*                                                                         *)
(* It is in the memory of one gateway process, the sessions of which die   *)
(* with it; its tools run on the event loop without waiting, so that each  *)
(* is one step.                                                            *)
(***************************************************************************)
EXTENDS Naturals, FiniteSets, CodeChannels

CONSTANTS
    Sessions,                              \* of one user, an owner
    Ttl, CodeTtl, Window,                  \* ttl_hours, code_ttl_minutes, request_window_minutes
    MaxRequests, MaxAttempts,              \* max_requests, max_attempts
    Configs,                               \* what channels may be set up: sets of them
    Projects, Accounts,                    \* addresses of projects; what accounts may be linked
    BriefPlaces,                           \* the topics and webhooks that briefs may be sent to
    MaxTime, MaxCodes                      \* bounds

ASSUME LimitsAssumption == {Ttl, CodeTtl, Window, MaxRequests, MaxAttempts} \subseteq Nat \ {0}
ASSUME BoundsAssumption == {MaxTime, MaxCodes} \subseteq Nat
ASSUME PlacesAssumption ==
    /\ Configs \subseteq SUBSET (SmtpChannel \union PlaceChannel)
    /\ Projects \union Accounts \subseteq Address /\ BriefPlaces \subseteq Place

Times == 0..MaxTime
Codes == 1..MaxCodes
Wrong == 0                    \* what somebody types who does not have a code

VARIABLES
    now,
    made,       \* number of codes so far
    stamps,     \* _requests: when codes were asked for, newest last in code order
    pending,    \* _pending: [code, expires, attempts] for a session, or NoCode
    unlocked,   \* _unlocked: the time until which a session is unlocked, 0 if it is not
    \* what has been seen from outside:
    phone,      \* the codes that reached the owner
    shown,      \* the codes that went where the assistant could read them, to a mailbox or
                \* to a place that a brief does not write apart
    asked,      \* <<time, code>> of every code asked for since the process started
    typed,      \* typed[c]: how often a wrong code was typed while c was pending
    grants,     \* grants[s]: when the owner last unlocked s and has not locked it since
    stray       \* a mail has left that nobody had unlocked

lockVars == <<made, stamps, pending, unlocked>>
seenVars == <<phone, shown, asked, typed, grants, stray>>

NoCode == [code |-> 0, expires |-> 0, attempts |-> 0]
NoGrant == MaxTime + 1

LockInit ==
    /\ now = 0
    /\ made = 0 /\ stamps = {}
    /\ pending = [s \in Sessions |-> NoCode] /\ unlocked = [s \in Sessions |-> 0]
    /\ phone = {} /\ shown = {} /\ asked = {} /\ typed = [c \in Codes |-> 0]
    /\ grants = [s \in Sessions |-> NoGrant] /\ stray = FALSE

Tick ==
    /\ now < MaxTime
    /\ now' = now + 1
    /\ UNCHANGED <<lockVars, seenVars>>

------------------------------------------------------------------------
(* Asking for a code *)

Recent == {k \in stamps : now - k[1] < Window}      \* k is <<time, code>>

\* A code that reached nobody is not charged.
ChargedMutant(c, sent) == IF sent THEN Recent \union {<<now, c>>} ELSE Recent

\* Charged before anything is known of the channels, which could be probed otherwise.
Charged(c, sent) == Recent \union {<<now, c>>}

Locked(s) == pending' = [pending EXCEPT ![s] = NoCode] /\ unlocked' = [unlocked EXCEPT ![s] = 0]

\* With unsafe channels the code is dropped.
Refused(s, c) ==
    /\ stamps' = Charged(c, FALSE)
    /\ pending' = [pending EXCEPT ![s] = NoCode]
    /\ UNCHANGED <<unlocked, grants, phone, shown>>

\* Each channel is tried; one may fail although the code has got through.  When none
\* takes it the session is locked.
Deliver(s, c, specs, readable, briefs) ==
    \E reached \in SUBSET specs : \E took \in SUBSET reached :
        /\ stamps' = Charged(c, took # {})
        /\ phone' = IF reached # {} THEN phone \union {c} ELSE phone
        /\ shown' = IF \E spec \in reached : Open(spec, readable, briefs) /\ ~WrittenApart(spec, briefs)
                    THEN shown \union {c} ELSE shown
        /\ IF took # {}
           THEN /\ pending' = [pending EXCEPT ![s] = [code |-> c, expires |-> now + CodeTtl, attempts |-> 0]]
                /\ UNCHANGED <<unlocked, grants>>
           ELSE /\ Locked(s)
                /\ grants' = [grants EXCEPT ![s] = NoGrant]

\* email_send_unlock_request: a code for this session in place of an earlier one.
Request(s, specs, linked, briefs) ==
    LET c == made + 1
        readable == ReadableAddresses(Projects, linked) IN
    /\ specs # {}
    /\ made < MaxCodes
    /\ Cardinality(Recent) < MaxRequests
    /\ made' = c
    /\ asked' = asked \union {<<now, c>>}
    /\ IF BuildCodeChannels(specs, readable, ExposedIdentities(briefs))
       THEN Deliver(s, c, specs, readable, briefs)
       ELSE Refused(s, c)
    /\ UNCHANGED <<now, typed, stray>>

------------------------------------------------------------------------
(* Typing it *)

\* takes a code that was sent for any session
MatchesAnyMutant(s, c) == c # Wrong
Matches(s, c) == c = pending[s].code

\* a code stands any number of wrong answers
BurntMutant(s) == FALSE
Burnt(s) == pending[s].attempts + 1 >= MaxAttempts

Verify(s, c) ==
    \/ /\ now >= pending[s].expires
       /\ pending' = [pending EXCEPT ![s] = NoCode]
       /\ UNCHANGED <<unlocked, typed, grants>>
    \/ /\ now < pending[s].expires /\ Matches(s, c)
       /\ pending' = [pending EXCEPT ![s] = NoCode]
       /\ unlocked' = [unlocked EXCEPT ![s] = now + Ttl]
       /\ grants' = [grants EXCEPT ![s] = IF c = pending[s].code /\ c \notin shown THEN now ELSE NoGrant]
       /\ UNCHANGED typed
    \/ /\ now < pending[s].expires /\ ~Matches(s, c)
       /\ pending' = [pending EXCEPT ![s] = IF Burnt(s) THEN NoCode ELSE [pending[s] EXCEPT !.attempts = @ + 1]]
       /\ typed' = [typed EXCEPT ![pending[s].code] = @ + 1]
       /\ UNCHANGED <<unlocked, grants>>

\* email_send_unlock.
Enter(s, c) ==
    /\ c \in phone \union shown \union {Wrong}
    /\ pending[s] # NoCode
    /\ Verify(s, c)
    /\ UNCHANGED <<now, made, stamps, phone, shown, asked, stray>>

\* email_send_lock.
Lock(s) ==
    /\ Locked(s)
    /\ grants' = [grants EXCEPT ![s] = NoGrant]
    /\ UNCHANGED <<now, made, stamps, phone, shown, asked, typed, stray>>

------------------------------------------------------------------------
(* Sending *)

IsUnlocked(s) == now < unlocked[s]

\* What an observer knows of it: unlocked by the owner for this session, not too long ago.
Granted(s) == grants[s] # NoGrant /\ now < grants[s] + Ttl

\* An entry that has run out is removed when it is looked at.
RequireSendUnlocked(s) == unlocked' = IF IsUnlocked(s) THEN unlocked ELSE [unlocked EXCEPT ![s] = 0]

\* email_send, email_reply and email_forward: sent, or queued for review, if the session
\* is unlocked.
SendFrom(s) ==
    /\ unlocked[s] # 0
    /\ RequireSendUnlocked(s)
    /\ stray' = (stray \/ (IsUnlocked(s) /\ ~Granted(s)))
    /\ UNCHANGED <<now, made, stamps, pending, phone, shown, asked, typed, grants>>

\* The process starts anew: every session is locked.
Restart ==
    /\ stamps' = {}
    /\ pending' = [s \in Sessions |-> NoCode] /\ unlocked' = [s \in Sessions |-> 0]
    /\ grants' = [s \in Sessions |-> NoGrant] /\ asked' = {}
    /\ UNCHANGED <<now, made, phone, shown, typed, stray>>

LockNext ==
    \/ Tick \/ Restart
    \/ \E s \in Sessions :
         \/ \E specs \in Configs, linked \in SUBSET Accounts, briefs \in SUBSET BriefPlaces :
              Request(s, specs, linked, briefs)
         \/ \E c \in Codes \union {Wrong} : Enter(s, c)
         \/ Lock(s) \/ SendFrom(s)

------------------------------------------------------------------------

\* Mail leaves only from a session that its owner has unlocked no longer than Ttl ago and
\* has not locked since: with the code sent for that very session, to where the mail tools
\* and the brief channels could not have shown it to the assistant, but for a brief that
\* writes the same place with a port or a dot that the code channel does without.
SendsAreUnlocked == ~stray

\* Whoever does not have the code gets MaxAttempts guesses at it, and MaxRequests codes
\* within any Window to guess at, whatever sessions are opened, channels fail and time
\* passes, as long as the process lives.
LimitedGuesses ==
    /\ \A c \in Codes : typed[c] <= MaxAttempts
    /\ \A t \in Times : Cardinality({k \in asked : t <= k[1] /\ k[1] < t + Window}) <= MaxRequests

LockTypes ==
    /\ now \in Times /\ made \in 0..MaxCodes
    /\ stamps \subseteq Times \X Codes /\ asked \subseteq Times \X Codes /\ phone \subseteq Codes
    /\ pending \in [Sessions -> [code : Nat, expires : Nat, attempts : Nat]]
    /\ unlocked \in [Sessions -> Nat] /\ grants \in [Sessions -> 0..NoGrant]
    /\ typed \in [Codes -> Nat]

\* An unlocked session is the owner's doing; a code is pending for one session, that counts
\* the wrong answers to it; no code was ever shown.
SessionInv ==
    /\ \A s \in Sessions : unlocked[s] # 0 => grants[s] # NoGrant /\ unlocked[s] = grants[s] + Ttl
    /\ \A s \in Sessions : pending[s] # NoCode =>
         /\ pending[s].code \in 1..made
         /\ pending[s].attempts = typed[pending[s].code] /\ pending[s].attempts < MaxAttempts
         /\ \A u \in Sessions : pending[u].code = pending[s].code => u = s
    /\ \A c \in Codes : c > made => typed[c] = 0
    /\ shown = {}

\* The stamps hold every request that still counts.
StampsInv == \A k \in asked : k[1] <= now /\ (now - k[1] < Window => k \in stamps)

LockInv == LockTypes /\ SessionInv /\ StampsInv /\ SendsAreUnlocked /\ LimitedGuesses
=============================================================================
