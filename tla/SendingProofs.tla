---------------------------- MODULE SendingProofs ----------------------------
(***************************************************************************)
(* Proofs about what Memaix sends out, for any number of sessions,         *)
(* processes, rules and projects, any channels and any limits; and, in the *)
(* last part, about the messages of any number of mailboxes and chats.     *)
(***************************************************************************)
EXTENDS Sending, MailBoxes, FiniteSetTheorems, TLAPS

------------------------------------------------------------------------
(* The places codes are sent to *)

\* Two spellings of one mailbox have one canonical form, or share a domain.
LEMMA OneBoxIsHit ==
  ASSUME NEW a \in Address, NEW readable \in SUBSET Address, NEW r \in readable, SameBox(a, r)
  PROVE  ReadableHit(a, readable)
  <1>1. a.spelt \in {"plain", "tag", "dots"} /\ r.spelt \in {"plain", "tag", "dots"} /\ r \in Address
    BY DEF Address
  <1>2. CASE {a.domain, r.domain} \subseteq GmailDomains /\ a.name = r.name
    <2>1. CanonicalAddress(a) = [name |-> a.name, spelt |-> "plain", domain |-> "gmail.com"]
      BY <1>2 DEF CanonicalAddress
    <2>2. CanonicalAddress(r) = [name |-> a.name, spelt |-> "plain", domain |-> "gmail.com"]
      BY <1>2 DEF CanonicalAddress
    <2> QED
      BY <2>1, <2>2 DEF ReadableHit
  <1>3. CASE a.domain = r.domain /\ a.domain \notin GmailDomains
    <2>1. CanonicalAddress(a).domain = a.domain /\ CanonicalAddress(r).domain = a.domain
      BY <1>3 DEF CanonicalAddress
    <2> QED
      BY <1>3, <2>1 DEF ReadableHit
  <1> QED
    BY <1>2, <1>3 DEF SameBox

\* Two links to one topic or webhook that are not written apart have one identity.
LEMMA OnePlaceIsExposed ==
  ASSUME NEW p \in Place, NEW briefs, NEW q \in briefs, SamePlace(p, q), Spelling(p) = Spelling(q)
  PROVE  /\ p.kind = "ntfy" => NtfyIdentity(p) \in ExposedIdentities(briefs)
         /\ p.kind # "ntfy" => WebhookIdentity(p) \in ExposedIdentities(briefs)
  <1>1. BriefIdentity(q) \in ExposedIdentities(briefs)
    BY DEF ExposedIdentities
  <1>2. p.kind = "ntfy" => BriefIdentity(q) = NtfyIdentity(p)
    BY DEF SamePlace, BriefIdentity, NtfyIdentity
  <1>3. p.kind # "ntfy" => BriefIdentity(q) = WebhookIdentity(p)
    BY DEF SamePlace, BriefIdentity, WebhookIdentity
  <1> QED
    BY <1>1, <1>2, <1>3

\* A channel that passes the check shows the assistant nothing, in whatever way addresses are
\* written, and topics and webhooks but for an explicit port and a dot after the host: what
\* it may share with a brief is a place that the two of them write apart.
THEOREM CheckedChannelsAreClosed ==
  ASSUME NEW specs \in SUBSET (SmtpChannel \union PlaceChannel), NEW readable \in SUBSET Address,
         NEW briefs \in SUBSET Place, BuildCodeChannels(specs, readable, ExposedIdentities(briefs))
  PROVE  \A spec \in specs : Open(spec, readable, briefs) => WrittenApart(spec, briefs)
  <1> SUFFICES ASSUME NEW spec \in specs, Open(spec, readable, briefs), ~WrittenApart(spec, briefs)
               PROVE  FALSE
    OBVIOUS
  <1>1. CheckChannel(spec, readable, ExposedIdentities(briefs))
    BY DEF BuildCodeChannels
  <1>2. CASE spec \in SmtpChannel
    <2>1. spec.type = "smtp" /\ spec.to \in Address /\ spec.from \in Address
      BY <1>2 DEF SmtpChannel
    <2>2. PICK r \in readable : SameBox(spec.to, r) \/ SameBox(spec.from, r)
      BY <2>1 DEF Open
    <2>3. ReadableHit(spec.to, readable) \/ ReadableHit(spec.from, readable)
      BY <2>1, <2>2, OneBoxIsHit
    <2> QED
      BY <1>1, <2>1, <2>3 DEF CheckChannel, CheckSmtp
  <1>3. CASE spec \in PlaceChannel
    <2>1. /\ spec.type \in {"ntfy", "discord", "webhook"} /\ spec.place \in Place
          /\ spec.type = "ntfy" <=> spec.place.kind = "ntfy"
      BY <1>3 DEF PlaceChannel
    <2>2. PICK q \in briefs : SamePlace(spec.place, q) /\ Spelling(spec.place) = Spelling(q)
      BY <2>1 DEF WrittenApart
    <2>3. /\ spec.place.kind = "ntfy" => NtfyIdentity(spec.place) \in ExposedIdentities(briefs)
          /\ spec.place.kind # "ntfy" => WebhookIdentity(spec.place) \in ExposedIdentities(briefs)
      BY <2>1, <2>2, OnePlaceIsExposed
    <2> QED
      BY <1>1, <2>1, <2>3 DEF CheckChannel, CheckNtfy, CheckWebhook
  <1> QED
    BY <1>2, <1>3

------------------------------------------------------------------------
(* Where briefs go *)

LEMMA ChannelTypes ==
  ASSUME NEW c \in MailChannel \union PostChannel
  PROVE  \/ c.type = "email"
         \/ c.type \in {"ntfy", "webhook"} /\ c.place \in Place
  BY DEF MailChannel, PostChannel

\* One identity, one place.
LEMMA IdentityIsPlace ==
  ASSUME NEW c \in MailChannel \union PostChannel, NEW d \in MailChannel \union PostChannel,
         ChannelIdentity(c) = ChannelIdentity(d)
  PROVE  Lands(c) = Lands(d)
  <1>1. c.type # "email" => c.type \in {"ntfy", "webhook"} /\ c.place \in Place
    BY ChannelTypes
  <1>2. d.type # "email" => d.type \in {"ntfy", "webhook"} /\ d.place \in Place
    BY ChannelTypes
  <1>3. ChannelIdentity(c)[1] = ChannelIdentity(d)[1]
    OBVIOUS
  <1>4. CASE c.type = "email"
    <2>1. d.type = "email"
      BY <1>2, <1>3, <1>4 DEF ChannelIdentity
    <2> QED
      BY <1>4, <2>1 DEF ChannelIdentity, Lands
  <1>5. CASE c.type # "email" /\ c.place.kind = "discord"
    <2>1. d.type # "email" /\ d.place.kind = "discord"
      BY <1>2, <1>3, <1>5 DEF ChannelIdentity
    <2> QED
      BY <1>5, <2>1 DEF ChannelIdentity, Lands
  <1>6. CASE c.type # "email" /\ c.place.kind # "discord"
    <2>1. d.type # "email" /\ d.place.kind # "discord"
      BY <1>1, <1>3, <1>6 DEF ChannelIdentity
    <2> QED
      BY <1>6, <2>1 DEF ChannelIdentity, Lands
  <1> QED
    BY <1>4, <1>5, <1>6

LEMMA ChannelsInitInv == ChannelsInit => StoredInv
  BY SpecsAssumption DEF ChannelsInit, StoredInv, NoTask, BriefsStayHome

\* What a job is given by a step of its process.
LEMMA JobGiven ==
  ASSUME StoredInv, NEW p \in Workers, NEW step \in {"none", "keep", "merge", "write", "deliver"},
         NEW chs \in SUBSET (MailChannel \union PostChannel), Do(p, step, chs),
         vouched \subseteq vouched', \A c \in chs : Lands(c) \in vouched',
         stored' = stored \/ (stored' = task[p].chs), astray' = astray \/ ~astray'
  PROVE  StoredInv'
  <1>1. task' \in [Workers -> [step : {"none", "keep", "merge", "write", "deliver"},
                               chs : SUBSET (MailChannel \union PostChannel)]]
    BY DEF StoredInv, Do
  <1>2. \A q \in Workers : task'[q].chs = IF q = p THEN chs ELSE task[q].chs
    BY DEF StoredInv, Do
  <1>3. stored' \subseteq MailChannel \union PostChannel /\ \A c \in stored' : Lands(c) \in vouched'
    BY DEF StoredInv
  <1> QED
    BY <1>1, <1>2, <1>3 DEF StoredInv, BriefsStayHome

LEMMA OfferKeeps ==
  ASSUME StoredInv, NEW p \in Workers, NEW chs \in SUBSET Specs,
         Browse(p, chs) \/ \E unlocked_ \in BOOLEAN : Offer(p, chs, unlocked_)
  PROVE  StoredInv'
  <1>1. chs \subseteq MailChannel \union PostChannel
    BY SpecsAssumption
  <1>2. CASE Browse(p, chs)
    BY <1>1, <1>2, JobGiven DEF Browse
  <1>3. ASSUME NEW ok \in BOOLEAN, Offer(p, chs, ok)
        PROVE  StoredInv'
    <2>1. CASE ok /\ owns # {}
      BY <1>1, <1>3, <2>1, JobGiven DEF Offer
    <2>2. CASE ~(ok /\ owns # {})
      <3>1. \A c \in chs : \E d \in stored : ChannelIdentity(c) = ChannelIdentity(d)
        BY <1>3, <2>2 DEF Offer, Guarded, Known
      <3>2. \A c \in chs : Lands(c) \in vouched
        BY <1>1, <3>1, IdentityIsPlace DEF StoredInv
      <3> QED
        BY <1>1, <1>3, <2>2, <3>2, JobGiven DEF Offer
    <2> QED
      BY <2>1, <2>2
  <1> QED
    BY <1>2, <1>3

LEMMA DistributeKeeps ==
  ASSUME StoredInv, NEW p \in Workers, Distribute(p)
  PROVE  StoredInv'
  <1>1. ~astray'
    BY DEF Distribute, Accepted, StoredInv, BriefsStayHome
  <1> QED
    BY <1>1, JobGiven DEF Distribute

LEMMA ChannelsKept == StoredInv /\ ChannelsNext => StoredInv'
  <1> SUFFICES ASSUME StoredInv, ChannelsNext PROVE StoredInv'
    OBVIOUS
  <1>1. ASSUME NEW p \in Workers, Tune(p) \/ Merge(p) \/ Write(p) \/ Take(p) \/ TakeNow(p) \/ Halt(p)
        PROVE  StoredInv'
    <2>1. task[p].chs \subseteq MailChannel \union PostChannel /\ stored \subseteq MailChannel \union PostChannel
      BY DEF StoredInv
    <2>2. /\ \A c \in stored : Lands(c) \in vouched
          /\ \A c \in task[p].chs : Lands(c) \in vouched
      BY DEF StoredInv
    <2>3. CASE Tune(p)
      BY <2>1, <2>3, JobGiven DEF Tune
    <2>4. CASE Merge(p)
      BY <2>1, <2>2, <2>4, JobGiven DEF Merge
    <2>5. CASE Write(p)
      BY <2>1, <2>5, JobGiven DEF Write
    <2>6. CASE Take(p) \/ TakeNow(p)
      BY <2>1, <2>2, <2>6, JobGiven DEF Take, TakeNow
    <2>7. CASE Halt(p)
      BY <2>1, <2>7, JobGiven DEF Halt
    <2> QED
      BY <1>1, <2>3, <2>4, <2>5, <2>6, <2>7
  <1>2. ASSUME NEW m \in Mailboxes, Regrant(m) PROVE StoredInv'
    BY <1>2 DEF Regrant, StoredInv, BriefsStayHome
  <1> QED
    BY <1>1, <1>2, OfferKeeps, DistributeKeeps DEF ChannelsNext

------------------------------------------------------------------------
(* The lock *)

LEMMA LockInitInv == LockInit => LockInv
  <1> SUFFICES ASSUME LockInit PROVE LockInv
    OBVIOUS
  <1> USE DEF LockInit
  <1>1. LockTypes
    BY BoundsAssumption, LimitsAssumption DEF LockTypes, Times, NoCode, NoGrant
  <1>2. SessionInv /\ StampsInv /\ SendsAreUnlocked
    BY DEF SessionInv, StampsInv, SendsAreUnlocked, NoCode
  <1>3. LimitedGuesses
    <2>1. ASSUME NEW t \in Times
          PROVE  Cardinality({k \in asked : t <= k[1] /\ k[1] < t + Window}) <= MaxRequests
      <3>1. {k \in asked : t <= k[1] /\ k[1] < t + Window} = {}
        OBVIOUS
      <3> QED
        BY <3>1, FS_EmptySet, LimitsAssumption
    <2> QED
      BY <2>1, LimitsAssumption DEF LimitedGuesses
  <1> QED
    BY <1>1, <1>2, <1>3 DEF LockInv

\* The parts of the invariant.
Guesses(c)  == typed[c] <= MaxAttempts
Asked(t)    == {k \in asked : t <= k[1] /\ k[1] < t + Window}

LEMMA FewAsked ==
  ASSUME LockInv, NEW t \in Times
  PROVE  Cardinality(Asked(t)) <= MaxRequests
  BY DEF LockInv, LimitedGuesses, Asked

LEMMA TimesAreFinite == IsFiniteSet(Times \X Codes)
  <1>1. IsFiniteSet(Times) /\ IsFiniteSet(Codes)
    BY FS_Interval, BoundsAssumption DEF Times, Codes
  <1> QED
    BY <1>1, FS_Product

\* As the stamps hold all that still counts, one more request within the limit leaves every
\* window within it.
LEMMA OneMoreAsked ==
  ASSUME LockInv, NEW c \in Codes, Cardinality(Recent) < MaxRequests,
         asked' = asked \union {<<now, c>>}, NEW t \in Times
  PROVE  Cardinality(Asked(t)') <= MaxRequests
  <1>0. /\ stamps \subseteq Times \X Codes /\ asked \subseteq Times \X Codes /\ now \in Nat
        /\ t \in Nat /\ Window \in Nat /\ MaxRequests \in Nat
    BY LimitsAssumption, BoundsAssumption DEF LockInv, LockTypes, Times
  <1>1. IsFiniteSet(Recent) /\ Cardinality(Recent) \in Nat
    <2>1. Recent \in SUBSET (Times \X Codes)
      BY <1>0 DEF Recent
    <2> QED
      BY <2>1, TimesAreFinite, FS_Subset, FS_CardinalityType
  <1>2. IsFiniteSet(Recent \union {<<now, c>>}) /\ Cardinality(Recent \union {<<now, c>>}) <= MaxRequests
    <2>1. /\ IsFiniteSet(Recent \union {<<now, c>>})
          /\ \/ Cardinality(Recent \union {<<now, c>>}) = Cardinality(Recent)
             \/ Cardinality(Recent \union {<<now, c>>}) = Cardinality(Recent) + 1
      BY <1>1, FS_AddElement
    <2>2. Cardinality(Recent) + 1 <= MaxRequests
      BY <1>0, <1>1
    <2> QED
      BY <1>0, <1>1, <2>1, <2>2
  <1>3. CASE t <= now /\ now < t + Window
    <2>1. ASSUME NEW k \in Asked(t)' PROVE k \in Recent \union {<<now, c>>}
      <3>1. CASE k = <<now, c>>
        BY <3>1
      <3>2. CASE k \in asked
        <4>1. k[1] \in Nat /\ t <= k[1] /\ k[1] <= now
          BY <1>0, <2>1, <3>2 DEF Asked, LockInv, StampsInv, Times
        <4>2. now - k[1] < Window
          BY <1>0, <1>3, <4>1
        <4> QED
          BY <3>2, <4>2 DEF LockInv, StampsInv, Recent
      <3> QED
        BY <2>1, <3>1, <3>2 DEF Asked
    <2>2. Asked(t)' \in SUBSET (Recent \union {<<now, c>>})
      BY <2>1
    <2>3. Cardinality(Asked(t)') <= Cardinality(Recent \union {<<now, c>>}) /\ IsFiniteSet(Asked(t)')
      BY <1>2, <2>2, FS_Subset
    <2>4. Cardinality(Asked(t)') \in Nat /\ Cardinality(Recent \union {<<now, c>>}) \in Nat
      BY <1>2, <2>3, FS_CardinalityType
    <2> QED
      BY <1>0, <1>2, <2>3, <2>4
  <1>4. CASE ~(t <= now /\ now < t + Window)
    <2>1. Asked(t)' = Asked(t)
      BY <1>4 DEF Asked
    <2> QED
      BY <2>1, FewAsked
  <1> QED
    BY <1>3, <1>4

\* What a request does to the parts of the invariant that are not about its session.
LEMMA RequestKeeps ==
  ASSUME LockInv, NEW s \in Sessions, NEW specs \in Configs, NEW linked \in SUBSET Accounts,
         NEW briefs \in SUBSET BriefPlaces, Request(s, specs, linked, briefs)
  PROVE  LockInv'
  <1> DEFINE c == made + 1
             readable == ReadableAddresses(Projects, linked)
  <1>1. /\ c \in Codes /\ c \in 1..made' /\ made' = c /\ made \in Nat /\ made' \in 0..MaxCodes
        /\ Cardinality(Recent) < MaxRequests /\ asked' = asked \union {<<now, c>>}
        /\ UNCHANGED <<now, typed, stray>>
    BY BoundsAssumption DEF Request, LockInv, LockTypes, Codes
  <1>2. stamps' = Recent \union {<<now, c>>}
    BY DEF Request, Refused, Deliver, Charged
  <1>3. \/ /\ Refused(s, c)
        \/ /\ Deliver(s, c, specs, readable, briefs)
           /\ BuildCodeChannels(specs, readable, ExposedIdentities(briefs))
    BY DEF Request
  <1>4. shown' = {}
    <2>1. specs \in SUBSET (SmtpChannel \union PlaceChannel) /\ readable \in SUBSET Address
          /\ briefs \in SUBSET Place
      BY PlacesAssumption DEF ReadableAddresses
    <2>2. CASE Refused(s, c)
      BY <2>2 DEF Refused, LockInv, SessionInv
    <2>3. CASE Deliver(s, c, specs, readable, briefs)
               /\ BuildCodeChannels(specs, readable, ExposedIdentities(briefs))
      <3>1. \A spec \in specs : Open(spec, readable, briefs) => WrittenApart(spec, briefs)
        BY <2>1, <2>3, CheckedChannelsAreClosed
      <3>2. PICK reached \in SUBSET specs :
              shown' = IF \E spec \in reached : Open(spec, readable, briefs) /\ ~WrittenApart(spec, briefs)
                       THEN shown \union {c} ELSE shown
        BY <2>3 DEF Deliver
      <3> QED
        BY <3>1, <3>2 DEF LockInv, SessionInv
    <2> QED
      BY <1>3, <2>2, <2>3
  <1>5. /\ phone' \subseteq Codes
        /\ \/ pending' = [pending EXCEPT ![s] = NoCode]
           \/ pending' = [pending EXCEPT ![s] = [code |-> c, expires |-> now + CodeTtl, attempts |-> 0]]
        /\ \/ UNCHANGED <<unlocked, grants>>
           \/ unlocked' = [unlocked EXCEPT ![s] = 0] /\ grants' = [grants EXCEPT ![s] = NoGrant]
    <2>1. CASE Refused(s, c)
      BY <2>1 DEF Refused, LockInv, LockTypes
    <2>2. CASE Deliver(s, c, specs, readable, briefs)
      <3>1. PICK reached \in SUBSET specs, took \in SUBSET specs :
              /\ phone' = IF reached # {} THEN phone \union {c} ELSE phone
              /\ IF took # {}
                 THEN /\ pending' = [pending EXCEPT ![s] = [code |-> c, expires |-> now + CodeTtl, attempts |-> 0]]
                      /\ UNCHANGED <<unlocked, grants>>
                 ELSE /\ Locked(s)
                      /\ grants' = [grants EXCEPT ![s] = NoGrant]
        BY <2>2 DEF Deliver
      <3>2. phone' \subseteq Codes
        BY <1>1, <3>1 DEF LockInv, LockTypes
      <3> QED
        BY <3>1, <3>2 DEF Locked
    <2> QED
      BY <1>3, <2>1, <2>2
  <1>6. now \in Nat /\ CodeTtl \in Nat /\ c \in Nat /\ MaxAttempts \in Nat \ {0}
    BY <1>1, LimitsAssumption DEF LockInv, LockTypes, Times
  <1> HIDE DEF c, readable
  <1>7. LockTypes'
    <2>1. now \in Times /\ stamps' \subseteq Times \X Codes /\ asked' \subseteq Times \X Codes
      BY <1>1, <1>2 DEF LockInv, LockTypes, Recent
    <2>2. pending' \in [Sessions -> [code : Nat, expires : Nat, attempts : Nat]]
      BY <1>5, <1>6 DEF LockInv, LockTypes, NoCode
    <2>3. unlocked \in [Sessions -> Nat] /\ grants \in [Sessions -> 0..NoGrant]
      BY DEF LockInv, LockTypes
    <2>4. NoGrant \in 0..NoGrant
      BY BoundsAssumption DEF NoGrant
    <2>5. unlocked' \in [Sessions -> Nat]
      BY <1>5, <2>3
    <2>6. grants' \in [Sessions -> 0..NoGrant]
      BY <1>5, <2>3, <2>4
    <2> QED
      BY <1>1, <1>5, <2>1, <2>2, <2>5, <2>6 DEF LockInv, LockTypes
  <1>8. SessionInv'
    <2>1. \A u \in Sessions : unlocked'[u] # 0 => grants'[u] # NoGrant /\ unlocked'[u] = grants'[u] + Ttl
      BY <1>5 DEF LockInv, LockTypes, SessionInv
    <2>2. typed[c] = 0 /\ \A d \in Codes : d > c => typed[d] = 0
      BY <1>1, <1>6 DEF c, LockInv, SessionInv, Codes
    <2>3. ASSUME NEW u \in Sessions, pending'[u] # NoCode
          PROVE  /\ pending'[u].code \in 1..made'
                 /\ pending'[u].attempts = typed'[pending'[u].code] /\ pending'[u].attempts < MaxAttempts
                 /\ \A v \in Sessions : pending'[v].code = pending'[u].code => v = u
      <3>1. \A v \in Sessions \ {s} : pending'[v] = pending[v]
        BY <1>5 DEF LockInv, LockTypes
      <3>2. \A v \in Sessions : pending[v].code # c
        <4>1. ASSUME NEW v \in Sessions PROVE pending[v] = NoCode \/ pending[v].code \in 1..made
          BY DEF LockInv, SessionInv
        <4> QED
          BY <1>1, <4>1 DEF c, NoCode
      <3>3. CASE u = s
        <4>1. pending'[u] = [code |-> c, expires |-> now + CodeTtl, attempts |-> 0]
          BY <1>5, <2>3, <3>3 DEF LockInv, LockTypes
        <4>2. \A v \in Sessions : pending'[v].code = c => v = u
          BY <3>1, <3>2, <3>3
        <4> QED
          BY <1>1, <1>6, <2>2, <4>1, <4>2
      <3>4. CASE u # s
        <4>1. pending'[u] = pending[u]
          BY <3>1, <3>4
        <4>2. /\ pending[u].code \in 1..made /\ pending[u].attempts = typed[pending[u].code]
              /\ pending[u].attempts < MaxAttempts
              /\ \A v \in Sessions : pending[v].code = pending[u].code => v = u
          BY <2>3, <4>1 DEF LockInv, SessionInv
        <4>3. pending'[s].code = 0 \/ pending'[s].code = c
          BY <1>5 DEF NoCode, LockInv, LockTypes
        <4>4. pending[u].code # 0 /\ pending[u].code # c /\ pending[u].code \in 1..made'
          BY <1>1, <3>2, <4>2 DEF c
        <4> QED
          BY <1>1, <3>1, <3>4, <4>1, <4>2, <4>3, <4>4
      <3> QED
        BY <3>3, <3>4
    <2> QED
      BY <1>1, <1>4, <2>1, <2>2, <2>3 DEF SessionInv
  <1>9. StampsInv'
    <2>1. ASSUME NEW k \in asked'
          PROVE  k[1] <= now /\ (now - k[1] < Window => k \in stamps')
      <3>1. CASE k = <<now, c>>
        BY <1>2, <1>6, <3>1 DEF c
      <3>2. CASE k \in asked
        BY <1>2, <3>2 DEF LockInv, StampsInv, Recent
      <3> QED
        BY <1>1, <2>1, <3>1, <3>2 DEF c
    <2> QED
      BY <1>1, <2>1 DEF StampsInv
  <1>10. LimitedGuesses'
    <2>1. \A t \in Times : Cardinality(Asked(t)') <= MaxRequests
      BY <1>1, OneMoreAsked
    <2> QED
      BY <1>1, <2>1 DEF LockInv, LimitedGuesses, Asked
  <1> QED
    BY <1>1, <1>7, <1>8, <1>9, <1>10 DEF LockInv, SendsAreUnlocked

\* A session's own actions leave the codes that were asked for alone.
LEMMA SessionKeeps ==
  ASSUME LockInv, LockTypes', SessionInv', SendsAreUnlocked', UNCHANGED <<now, stamps, asked>>,
         \A c \in Codes : typed'[c] <= MaxAttempts
  PROVE  LockInv'
  <1>1. StampsInv'
    BY DEF LockInv, StampsInv
  <1>2. LimitedGuesses'
    BY DEF LockInv, LimitedGuesses
  <1> QED
    BY <1>1, <1>2 DEF LockInv

LEMMA EnterKeeps ==
  ASSUME LockInv, NEW s \in Sessions, NEW e \in Codes \union {Wrong}, Enter(s, e)
  PROVE  LockInv'
  <1> DEFINE code == pending[s].code
  <1>1. /\ code \in 1..made /\ code \in Codes /\ made \in Nat
        /\ pending[s].attempts = typed[code] /\ pending[s].attempts < MaxAttempts
        /\ pending[s] \in [code : Nat, expires : Nat, attempts : Nat]
        /\ \A u \in Sessions : pending[u].code = code => u = s
    BY BoundsAssumption DEF Enter, LockInv, LockTypes, SessionInv, Codes
  <1>2. /\ now \in Nat /\ now \in Times /\ Ttl \in Nat \ {0} /\ MaxAttempts \in Nat /\ MaxTime \in Nat
        /\ UNCHANGED <<now, made, stamps, phone, shown, asked, stray>> /\ Verify(s, e)
    BY LimitsAssumption, BoundsAssumption DEF Enter, LockInv, LockTypes, Times
  <1>3. /\ unlocked \in [Sessions -> Nat] /\ grants \in [Sessions -> 0..NoGrant] /\ typed \in [Codes -> Nat]
        /\ pending \in [Sessions -> [code : Nat, expires : Nat, attempts : Nat]]
        /\ \A u \in Sessions : unlocked[u] # 0 => grants[u] # NoGrant /\ unlocked[u] = grants[u] + Ttl
    BY DEF LockInv, LockTypes, SessionInv
  <1> HIDE DEF code
  <1> DEFINE once == [code |-> code, expires |-> pending[s].expires, attempts |-> pending[s].attempts + 1]
  <1>14. [pending[s] EXCEPT !.attempts = @ + 1] = once
    BY <1>1 DEF code
  <1>4. \/ pending' = [pending EXCEPT ![s] = NoCode] /\ UNCHANGED typed
        \/ /\ typed' = [typed EXCEPT ![code] = @ + 1]
           /\ \/ pending' = [pending EXCEPT ![s] = NoCode]
              \/ /\ pending' = [pending EXCEPT ![s] = once]
                 /\ pending[s].attempts + 1 < MaxAttempts
    <2>1. CASE now >= pending[s].expires
      BY <1>1, <1>2, <2>1 DEF Verify, LockInv, LockTypes
    <2>2. CASE now < pending[s].expires /\ Matches(s, e)
      BY <1>1, <1>2, <2>2 DEF Verify, LockInv, LockTypes
    <2>3. CASE /\ typed' = [typed EXCEPT ![pending[s].code] = @ + 1]
               /\ pending' = [pending EXCEPT ![s] = IF Burnt(s) THEN NoCode ELSE [pending[s] EXCEPT !.attempts = @ + 1]]
      <3>1. CASE Burnt(s)
        BY <2>3, <3>1 DEF code
      <3>2. CASE ~Burnt(s)
        <4>1. pending' = [pending EXCEPT ![s] = once]
          BY <1>14, <2>3, <3>2
        <4>2. pending[s].attempts + 1 < MaxAttempts
          BY <1>1, <1>2, <3>2 DEF Burnt
        <4> QED
          BY <2>3, <4>1, <4>2 DEF code
      <3> QED
        BY <3>1, <3>2
    <2> QED
      BY <1>2, <2>1, <2>2, <2>3, Zenon DEF Verify
  <1>5. \/ UNCHANGED <<unlocked, grants>>
        \/ unlocked' = [unlocked EXCEPT ![s] = now + Ttl] /\ grants' = [grants EXCEPT ![s] = now]
    BY <1>1, <1>2 DEF Verify, Matches, LockInv, SessionInv
  <1>6. typed' \in [Codes -> Nat] /\ \A c \in Codes : typed'[c] <= MaxAttempts
    <2>1. ASSUME NEW c \in Codes PROVE typed[c] <= MaxAttempts
      BY DEF LockInv, LimitedGuesses
    <2> QED
      BY <1>1, <1>2, <1>3, <1>4, <2>1
  <1>7. pending' \in [Sessions -> [code : Nat, expires : Nat, attempts : Nat]]
    <2>1. once \in [code : Nat, expires : Nat, attempts : Nat] /\ NoCode \in [code : Nat, expires : Nat, attempts : Nat]
      BY <1>1 DEF NoCode, code
    <2> QED
      BY <1>3, <1>4, <2>1
  <1>8. unlocked' \in [Sessions -> Nat] /\ grants' \in [Sessions -> 0..NoGrant]
    <2>1. now \in 0..NoGrant /\ now + Ttl \in Nat
      BY <1>2 DEF Times, NoGrant
    <2>2. unlocked' \in [Sessions -> Nat]
      BY <1>3, <1>5, <2>1
    <2>3. grants' \in [Sessions -> 0..NoGrant]
      BY <1>3, <1>5, <2>1
    <2> QED
      BY <2>2, <2>3
  <1>9. LockTypes'
    BY <1>2, <1>6, <1>7, <1>8 DEF LockInv, LockTypes
  <1>10. \A u \in Sessions : unlocked'[u] # 0 => grants'[u] # NoGrant /\ unlocked'[u] = grants'[u] + Ttl
    BY <1>2, <1>3, <1>5 DEF Times, NoGrant
  <1>11. ASSUME NEW u \in Sessions, pending'[u] # NoCode
         PROVE  /\ pending'[u].code \in 1..made
                /\ pending'[u].attempts = typed'[pending'[u].code] /\ pending'[u].attempts < MaxAttempts
                /\ \A v \in Sessions : pending'[v].code = pending'[u].code => v = u
    <2>1. \A v \in Sessions : v # s => pending'[v] = pending[v]
      BY <1>3, <1>4
    <2>2. pending'[s].code = 0 \/ pending'[s].code = code
      BY <1>1, <1>3, <1>4 DEF NoCode, code
    <2>3. CASE u = s
      <3>1. /\ typed' = [typed EXCEPT ![code] = @ + 1]
            /\ pending' = [pending EXCEPT ![s] = once]
            /\ pending[s].attempts + 1 < MaxAttempts
        BY <1>3, <1>4, <1>11, <2>3
      <3>2. pending'[u].code = code /\ pending'[u].attempts = pending[s].attempts + 1
        BY <1>1, <1>3, <2>3, <3>1 DEF code
      <3>3. typed'[code] = typed[code] + 1
        BY <1>1, <1>3, <3>1
      <3> QED
        BY <1>1, <2>1, <2>3, <3>1, <3>2, <3>3
    <2>4. CASE u # s
      <3>1. pending'[u] = pending[u]
        BY <2>1, <2>4
      <3>2. /\ pending[u].code \in 1..made /\ pending[u].attempts = typed[pending[u].code]
            /\ pending[u].attempts < MaxAttempts
            /\ \A v \in Sessions : pending[v].code = pending[u].code => v = u
        BY <1>11, <3>1 DEF LockInv, SessionInv
      <3>3. pending[u].code # code /\ pending[u].code # 0
        BY <1>1, <2>4, <3>2
      <3>4. pending[u].code \in Codes
        <4>1. made \in 0..MaxCodes
          BY DEF LockInv, LockTypes
        <4> QED
          BY <3>2, <4>1, BoundsAssumption DEF Codes
      <3>5. typed'[pending[u].code] = typed[pending[u].code]
        BY <1>3, <1>4, <3>3, <3>4
      <3> QED
        BY <2>1, <2>2, <2>4, <3>1, <3>2, <3>3, <3>5
    <2> QED
      BY <2>3, <2>4
  <1>12. ASSUME NEW c \in Codes, c > made
         PROVE  typed'[c] = 0
    <2>1. typed[c] = 0 /\ c # code
      BY <1>1, <1>12 DEF LockInv, SessionInv, Codes
    <2> QED
      BY <1>3, <1>4, <2>1
  <1>13. SessionInv'
    BY <1>2, <1>10, <1>11, <1>12 DEF LockInv, SessionInv
  <1>15. SendsAreUnlocked'
    BY <1>2 DEF LockInv, SendsAreUnlocked
  <1> QED
    BY <1>2, <1>6, <1>9, <1>13, <1>15, SessionKeeps

LEMMA LockKept == LockInv /\ LockNext => LockInv'
  <1> SUFFICES ASSUME LockInv, LockNext PROVE LockInv'
    OBVIOUS
  <1>1. /\ \A c \in Codes : typed[c] <= MaxAttempts
        /\ now \in Nat /\ Window \in Nat /\ \A k \in asked : k[1] \in Nat
    BY LimitsAssumption DEF LockInv, LimitedGuesses, LockTypes, Times
  <1>2. CASE Tick
    <2>1. LockTypes' /\ SessionInv' /\ SendsAreUnlocked' /\ LimitedGuesses'
      BY <1>2, BoundsAssumption
         DEF Tick, lockVars, seenVars, LockInv, LockTypes, SessionInv, SendsAreUnlocked, LimitedGuesses, Times
    <2>2. StampsInv'
      BY <1>1, <1>2 DEF Tick, lockVars, seenVars, LockInv, StampsInv
    <2> QED
      BY <2>1, <2>2 DEF LockInv
  <1>3. CASE Restart
    <2>1. LockTypes'
      BY <1>3, BoundsAssumption DEF Restart, LockInv, LockTypes, NoCode, NoGrant
    <2>2. SessionInv' /\ StampsInv' /\ SendsAreUnlocked'
      BY <1>3 DEF Restart, LockInv, SessionInv, StampsInv, SendsAreUnlocked
    <2>3. ASSUME NEW t \in Times
          PROVE  Cardinality(Asked(t)') <= MaxRequests
      <3>1. Asked(t)' = {}
        BY <1>3 DEF Restart, Asked
      <3> QED
        BY <3>1, FS_EmptySet, LimitsAssumption
    <2>4. LimitedGuesses'
      BY <1>1, <1>3, <2>3 DEF Restart, LimitedGuesses, Asked
    <2> QED
      BY <2>1, <2>2, <2>4 DEF LockInv
  <1>4. ASSUME NEW s \in Sessions, Lock(s) PROVE LockInv'
    <2>1. LockTypes'
      BY <1>4, BoundsAssumption DEF Lock, Locked, LockInv, LockTypes, NoCode, NoGrant
    <2>2. \A u \in Sessions : /\ pending'[u] = IF u = s THEN NoCode ELSE pending[u]
                              /\ unlocked'[u] = IF u = s THEN 0 ELSE unlocked[u]
                              /\ grants'[u] = IF u = s THEN NoGrant ELSE grants[u]
      BY <1>4 DEF Lock, Locked, LockInv, LockTypes
    <2>3. \A u \in Sessions : unlocked'[u] # 0 => grants'[u] # NoGrant /\ unlocked'[u] = grants'[u] + Ttl
      BY <2>2 DEF LockInv, SessionInv
    <2>4. ASSUME NEW u \in Sessions, pending'[u] # NoCode
          PROVE  /\ pending'[u].code \in 1..made
                 /\ pending'[u].attempts = typed[pending'[u].code] /\ pending'[u].attempts < MaxAttempts
                 /\ \A v \in Sessions : pending'[v].code = pending'[u].code => v = u
      <3>1. pending'[u] = pending[u] /\ pending[u] # NoCode
        BY <2>2, <2>4
      <3>2. /\ pending[u].code \in 1..made /\ pending[u].attempts = typed[pending[u].code]
            /\ pending[u].attempts < MaxAttempts
            /\ \A v \in Sessions : pending[v].code = pending[u].code => v = u
        BY <3>1 DEF LockInv, SessionInv
      <3>3. pending[u].code # NoCode.code
        BY <3>2 DEF NoCode
      <3> QED
        BY <2>2, <3>1, <3>2, <3>3
    <2>5. SessionInv' /\ SendsAreUnlocked' /\ UNCHANGED <<now, stamps, asked, typed>>
      BY <1>4, <2>3, <2>4 DEF Lock, LockInv, SessionInv, SendsAreUnlocked
    <2> QED
      BY <1>1, <2>1, <2>5, SessionKeeps
  <1>5. ASSUME NEW s \in Sessions, SendFrom(s) PROVE LockInv'
    <2>1. unlocked' = unlocked \/ unlocked' = [unlocked EXCEPT ![s] = 0]
      BY <1>5 DEF SendFrom, RequireSendUnlocked
    <2>2. LockTypes' /\ SessionInv'
      BY <1>5, <2>1 DEF SendFrom, LockInv, LockTypes, SessionInv
    <2>3. IsUnlocked(s) => Granted(s)
      BY <1>1, <1>5 DEF SendFrom, IsUnlocked, Granted, LockInv, SessionInv
    <2>4. SendsAreUnlocked'
      BY <1>5, <2>3 DEF SendFrom, LockInv, SendsAreUnlocked
    <2>5. UNCHANGED <<now, stamps, asked, typed>>
      BY <1>5 DEF SendFrom
    <2> QED
      BY <1>1, <2>2, <2>4, <2>5, SessionKeeps
  <1> QED
    BY <1>2, <1>3, <1>4, <1>5, RequestKeeps, EnterKeeps DEF LockNext

------------------------------------------------------------------------
(* Rules *)

LEMMA PlanIsSome ==
  /\ <<>> \notin Plans
  /\ \A plan \in Plans : /\ plan \in Seq(Actions) /\ Len(plan) \in Nat \ {0}
                         /\ \A i \in 1..Len(plan) : plan[i] \in Actions
  <1>1. \A plan \in Plans : plan \in Seq(Actions) /\ plan # <<>>
    BY PlansAssumption
  <1>2. ASSUME NEW plan \in Plans
        PROVE  Len(plan) \in Nat \ {0} /\ \A i \in 1..Len(plan) : plan[i] \in Actions
    BY <1>1
  <1> QED
    BY <1>1, <1>2

LEMMA RulesInitInv == RulesInit => RunInv
  <1> SUFFICES ASSUME RulesInit PROVE RunInv
    OBVIOUS
  <1> USE DEF RulesInit
  <1>1. RunTypes
    BY DEF RunTypes, None, NoJob
  <1>2. \A p \in Procs : job[p].step = "none"
    BY DEF NoJob
  <1>3. (\A p \in Procs : JobInv(p)) /\ RunIsAlone
    BY <1>2 DEF JobInv, RunIsAlone, Running
  <1>4. RunsComeFirst /\ ActsOnce
    BY DEF RunsComeFirst, ActsOnce, None
  <1> QED
    BY <1>1, <1>3, <1>4 DEF RunInv

\* Rules that are there keep their trigger and actions when others come or are switched.
LEMMA RulesKeep ==
  ASSUME RunInv, RunTypes', RunsComeFirst', UNCHANGED <<runs, job, acted>>,
         \A r \in RuleIds : rules[r].acts \in Plans =>
             rules'[r].acts = rules[r].acts /\ rules'[r].trigger = rules[r].trigger
  PROVE  RunInv'
  <1>1. ASSUME NEW p \in Procs PROVE JobInv(p)'
    <2>1. JobInv(p) /\ job[p].todo \subseteq RuleIds
      BY DEF RunInv, RunTypes
    <2>2. \A r \in RuleIds : rules[r].acts \in Plans => (TriggerMatches(r, job[p].event)' <=> TriggerMatches(r, job[p].event))
      BY DEF TriggerMatches
    <2> QED
      BY <2>1, <2>2 DEF JobInv, Running
  <1>2. RunIsAlone'
    BY DEF RunInv, RunIsAlone, Running
  <1>3. ActsOnce'
    <2> SUFFICES ASSUME NEW r \in RuleIds, NEW e \in Events, NEW i \in 1..2
                 PROVE  /\ acted[r][e][i] <= 1
                        /\ acted[r][e][i] = 1 => \/ rules'[r].acts[i] = "other"
                                                \/ (rules'[r].acts[i] = "notify" /\ e \in Own)
      BY DEF ActsOnce
    <2>1. acted[r][e][i] # 0 => rules'[r].acts = rules[r].acts
      BY DEF RunInv, RunsComeFirst
    <2> QED
      BY <2>1 DEF RunInv, ActsOnce
  <1> QED
    BY <1>1, <1>2, <1>3 DEF RunInv

LEMMA AddRuleKeeps ==
  ASSUME RunInv, NEW r \in RuleIds, NEW trigger \in {"internal", "webhook"}, NEW acts \in Plans,
         NEW role \in {"owner", "collaborator"}, AddRule(r, trigger, acts, role)
  PROVE  RunInv'
  <1>1. /\ rules' = [rules EXCEPT ![r] = [trigger |-> trigger, acts |-> acts, state |-> "on"]]
        /\ rules[r].acts = <<>> /\ UNCHANGED <<runs, job, acted>>
    BY DEF AddRule, NewRule, None
  <1>2. RunTypes'
    BY <1>1 DEF RunInv, RunTypes
  <1>3. RunsComeFirst'
    BY <1>1, PlanIsSome DEF RunInv, RunTypes, RunsComeFirst
  <1>4. \A x \in RuleIds : rules[x].acts \in Plans =>
          rules'[x].acts = rules[x].acts /\ rules'[x].trigger = rules[x].trigger
    BY <1>1, PlanIsSome DEF RunInv, RunTypes
  <1> QED
    BY <1>1, <1>2, <1>3, <1>4, RulesKeep

LEMMA SwitchRuleKeeps ==
  ASSUME RunInv, NEW r \in RuleIds, NEW how \in {"on", "off", "gone"}, SwitchRule(r, how)
  PROVE  RunInv'
  <1>1. /\ rules' = [rules EXCEPT ![r].state = how] /\ rules[r].state # "none"
        /\ UNCHANGED <<runs, job, acted>>
    BY DEF SwitchRule, Switched
  <1>2. RunTypes'
    <2>1. /\ rules \in [RuleIds -> [trigger : {"none", "internal", "webhook"}, acts : Plans \union {<<>>},
                                    state : {"none", "on", "off", "gone"}]]
          /\ UNCHANGED <<runs, job, acted>>
      BY <1>1 DEF RunInv, RunTypes
    <2>2. rules' \in [RuleIds -> [trigger : {"none", "internal", "webhook"}, acts : Plans \union {<<>>},
                                  state : {"none", "on", "off", "gone"}]]
      BY <1>1, <2>1
    <2> QED
      BY <2>1, <2>2 DEF RunInv, RunTypes
  <1>3. \A x \in RuleIds : rules'[x].acts = rules[x].acts /\ rules'[x].trigger = rules[x].trigger
    BY <1>1 DEF RunInv, RunTypes
  <1>4. RunsComeFirst'
    BY <1>1, <1>3 DEF RunInv, RunTypes, RunsComeFirst
  <1> QED
    BY <1>1, <1>2, <1>3, <1>4, RulesKeep

\* What a process goes on with after it is done with a rule, or at the end of its event.
LEMMA OnwardKeeps ==
  ASSUME RunInv, NEW p \in Procs, NEW todo \in SUBSET job[p].todo, job[p].step # "none",
         Onward(p, todo) \/ job' = [job EXCEPT ![p] = NoJob],
         UNCHANGED <<rules, acted>>, runs' \in [RuleIds -> [Events -> {"none", "ok", "failed"}]],
         \A r \in RuleIds, e \in Events : runs[r][e] # "none" => runs'[r][e] # "none"
  PROVE  RunInv'
  <1> DEFINE next == Reserving(job[p].event, todo)
  <1>1. /\ job[p].event \in Events /\ todo \subseteq RuleIds
        /\ \A r \in todo : rules[r].acts \in Plans /\ TriggerMatches(r, job[p].event)
    BY DEF RunInv, RunTypes, JobInv
  <1>2. next = [event |-> job[p].event, todo |-> todo, rule |-> "none", step |-> "reserve", at |-> 0, ok |-> TRUE]
    BY DEF Reserving
  <1>3. job' = [job EXCEPT ![p] = NoJob] \/ job' = [job EXCEPT ![p] = next]
    BY DEF Onward
  <1> HIDE DEF next
  <1>4. RunTypes'
    <2>1. job' \in [Procs -> [event : Events \union {"none"}, todo : SUBSET RuleIds,
                              rule : RuleIds \union {"none"}, step : {"none", "reserve", "act", "detail"},
                              at : Nat, ok : BOOLEAN]]
      <3>1. /\ job \in [Procs -> [event : Events \union {"none"}, todo : SUBSET RuleIds,
                              rule : RuleIds \union {"none"}, step : {"none", "reserve", "act", "detail"},
                              at : Nat, ok : BOOLEAN]]
        BY DEF RunInv, RunTypes
      <3>2. /\ next \in [event : Events \union {"none"}, todo : SUBSET RuleIds,
                         rule : RuleIds \union {"none"}, step : {"none", "reserve", "act", "detail"},
                         at : Nat, ok : BOOLEAN]
            /\ NoJob \in [event : Events \union {"none"}, todo : SUBSET RuleIds,
                          rule : RuleIds \union {"none"}, step : {"none", "reserve", "act", "detail"},
                          at : Nat, ok : BOOLEAN]
        BY <1>1, <1>2 DEF NoJob
      <3> QED
        BY <1>3, <3>1, <3>2
    <2> QED
      BY <2>1 DEF RunInv, RunTypes
  <1>5. /\ \A q \in Procs : q # p => job'[q] = job[q]
        /\ job'[p] = NoJob \/ job'[p] = next
    BY <1>3 DEF RunInv, RunTypes
  <1>6. ~Running(p)'
    BY <1>2, <1>5 DEF Running, NoJob
  <1>7. ASSUME NEW q \in Procs PROVE JobInv(q)'
    <2>1. CASE q = p
      BY <1>1, <1>2, <1>5, <1>6, <2>1 DEF JobInv, NoJob, TriggerMatches, Running
    <2>2. CASE q # p
      <3>1. JobInv(q) /\ job'[q] = job[q] /\ job[q].todo \subseteq RuleIds
        BY <1>5, <2>2 DEF RunInv, RunTypes
      <3> QED
        BY <3>1 DEF JobInv, TriggerMatches, Running
    <2> QED
      BY <2>1, <2>2
  <1>8. RunIsAlone'
    <2>1. \A q \in Procs : Running(q)' => q # p /\ Running(q)
      BY <1>5, <1>6 DEF Running
    <2> QED
      BY <1>5, <2>1 DEF RunInv, RunIsAlone
  <1>9. RunsComeFirst' /\ ActsOnce'
    BY DEF RunInv, RunsComeFirst, ActsOnce
  <1> QED
    BY <1>4, <1>7, <1>8, <1>9 DEF RunInv

LEMMA EvaluateKeeps ==
  ASSUME RunInv, NEW p \in Procs, NEW e \in Events, Evaluate(p, e)
  PROVE  RunInv'
  <1> DEFINE hits == {r \in ListRules : TriggerMatches(r, e)}
             next == [event |-> e, todo |-> hits, rule |-> "none", step |-> "reserve", at |-> 0, ok |-> TRUE]
  <1>1. job' = [job EXCEPT ![p] = next] /\ UNCHANGED <<rules, runs, acted>>
    BY DEF Evaluate, Reserving
  <1>2. /\ hits \subseteq RuleIds
        /\ \A r \in hits : rules[r].acts \in Plans /\ TriggerMatches(r, e)
    BY DEF ListRules, RunInv, RunsComeFirst
  <1> HIDE DEF hits
  <1>3. RunTypes'
    <2>1. job' \in [Procs -> [event : Events \union {"none"}, todo : SUBSET RuleIds,
                              rule : RuleIds \union {"none"}, step : {"none", "reserve", "act", "detail"},
                              at : Nat, ok : BOOLEAN]]
      BY <1>1, <1>2 DEF RunInv, RunTypes
    <2> QED
      BY <1>1, <2>1 DEF RunInv, RunTypes
  <1>4. (\A q \in Procs : q # p => job'[q] = job[q]) /\ job'[p] = next
    BY <1>1 DEF RunInv, RunTypes
  <1>5. ASSUME NEW q \in Procs PROVE JobInv(q)'
    <2>1. CASE q = p
      BY <1>1, <1>2, <1>4, <2>1 DEF JobInv, TriggerMatches, Running
    <2>2. CASE q # p
      <3>1. JobInv(q) /\ job'[q] = job[q] /\ job[q].todo \subseteq RuleIds
        BY <1>4, <2>2 DEF RunInv, RunTypes
      <3> QED
        BY <1>1, <3>1 DEF JobInv, TriggerMatches, Running
    <2> QED
      BY <2>1, <2>2
  <1>6. RunIsAlone'
    <2>1. \A q \in Procs : Running(q)' => q # p /\ Running(q)
      BY <1>4 DEF Running
    <2> QED
      BY <1>4, <2>1 DEF RunInv, RunIsAlone
  <1>7. RunsComeFirst' /\ ActsOnce'
    BY <1>1 DEF RunInv, RunsComeFirst, ActsOnce
  <1> QED
    BY <1>3, <1>5, <1>6, <1>7 DEF RunInv

\* A process begins with an action, or comes to the end of a rule's run: it alone is at
\* that run, which was reserved, and what it has done so far it was allowed to do once.
Proceeds(p, e, r, step, at, ok) ==
    /\ AtAction(p, r, step, at, ok)
    /\ e = job[p].event /\ r \in job[p].todo /\ job[p].step # "none"
    /\ step \in {"act", "detail"} /\ at \in Nat /\ ok \in BOOLEAN
    /\ UNCHANGED rules
    /\ runs' \in [RuleIds -> [Events -> {"none", "ok", "failed"}]]
    /\ acted' \in [RuleIds -> [Events -> [1..2 -> Nat]]]
    /\ \A x \in RuleIds, f \in Events : runs[x][f] # "none" => runs'[x][f] # "none"
    /\ runs'[r][e] # "none"
    /\ \A q \in Procs \ {p} : ~(Running(q) /\ job[q].rule = r /\ job[q].event = e)
    /\ \A x \in RuleIds, f \in Events, i \in 1..2 :
          x # r \/ f # e => acted'[x][f][i] = acted[x][f][i]
    /\ step = "act" => /\ at \in 1..Len(rules[r].acts)
                       /\ \A i \in 1..2 : i >= at => acted'[r][e][i] = 0
    /\ \A i \in 1..2 : /\ acted'[r][e][i] <= 1
                       /\ acted'[r][e][i] = 1 => \/ rules[r].acts[i] = "other"
                                                 \/ rules[r].acts[i] = "notify" /\ e \in Own

LEMMA AtActionKeeps ==
  ASSUME RunInv, NEW p \in Procs, NEW e, NEW r, NEW step, NEW at, NEW ok,
         Proceeds(p, e, r, step, at, ok)
  PROVE  RunInv'
  <1> USE DEF Proceeds
  <1> DEFINE next == [event |-> e, todo |-> job[p].todo, rule |-> r, step |-> step, at |-> at, ok |-> ok]
             type == [event : Events \union {"none"}, todo : SUBSET RuleIds,
                      rule : RuleIds \union {"none"}, step : {"none", "reserve", "act", "detail"},
                      at : Nat, ok : BOOLEAN]
  <1>1. /\ e \in Events /\ job[p].todo \subseteq RuleIds /\ r \in RuleIds
        /\ \A x \in job[p].todo : rules[x].acts \in Plans /\ TriggerMatches(x, e)
    BY DEF RunInv, RunTypes, JobInv
  <1>2. job' = [job EXCEPT ![p] = next] /\ job \in [Procs -> type]
    BY DEF AtAction, RunInv, RunTypes
  <1>3. RunTypes'
    <2>1. next \in type
      BY <1>1
    <2>2. job' \in [Procs -> type]
      BY <1>2, <2>1
    <2> QED
      BY <2>2 DEF RunInv, RunTypes
  <1>4. (\A q \in Procs : q # p => job'[q] = job[q]) /\ job'[p] = next
    BY <1>2
  <1>5. ASSUME NEW q \in Procs PROVE JobInv(q)'
    <2>1. CASE q = p
      BY <1>1, <1>4, <2>1 DEF JobInv, TriggerMatches, Running
    <2>2. CASE q # p
      <3>1. JobInv(q) /\ job'[q] = job[q] /\ job[q].todo \subseteq RuleIds
        BY <1>4, <2>2 DEF RunInv, RunTypes
      <3>2. job[q].step = "act" => /\ job[q].rule \in RuleIds /\ job[q].event \in Events
                                   /\ job[q].rule # r \/ job[q].event # e
        BY <2>2, <3>1 DEF JobInv, Running
      <3>3. job[q].step = "act" => \A i \in 1..2 :
              acted'[job[q].rule][job[q].event][i] = acted[job[q].rule][job[q].event][i]
        BY <3>2
      <3>4. Running(q) => job[q].rule \in RuleIds /\ job[q].event \in Events
        BY <3>1 DEF JobInv, Running
      <3>5. Running(q) => runs'[job[q].rule][job[q].event] # "none"
        BY <3>1, <3>4 DEF JobInv
      <3>6. /\ job[q].step # "none" => job[q].event \in Events
                                       /\ \A x \in job[q].todo : rules'[x].acts \in Plans
                                                                 /\ TriggerMatches(x, job[q].event)'
            /\ Running(q) => job[q].rule \in job[q].todo
            /\ job[q].step = "act" => job[q].at \in 1..Len(rules'[job[q].rule].acts)
        BY <3>1 DEF JobInv, TriggerMatches
      <3>7. job[q].step = "act" => \A i \in 1..2 : i >= job[q].at => acted'[job[q].rule][job[q].event][i] = 0
        BY <3>1, <3>3 DEF JobInv
      <3> QED
        BY <3>1, <3>5, <3>6, <3>7 DEF JobInv, Running
    <2> QED
      BY <2>1, <2>2
  <1>6. RunIsAlone'
    <2>1. \A q \in Procs : q # p => /\ Running(q)' <=> Running(q)
                                    /\ job'[q].rule = job[q].rule /\ job'[q].event = job[q].event
      BY <1>4 DEF Running
    <2>2. job'[p].rule = r /\ job'[p].event = e
      BY <1>4
    <2>3. \A q \in Procs : q # p => ~(Running(q)' /\ job'[q].rule = r /\ job'[q].event = e)
      BY <2>1
    <2>4. ASSUME NEW q \in Procs, NEW u \in Procs, Running(q)', Running(u)',
                 job'[q].rule = job'[u].rule, job'[q].event = job'[u].event
          PROVE  q = u
      <3>1. CASE q = p \/ u = p
        BY <2>2, <2>3, <2>4, <3>1
      <3>2. CASE q # p /\ u # p
        BY <2>1, <2>4, <3>2 DEF RunInv, RunIsAlone
      <3> QED
        BY <3>1, <3>2
    <2> QED
      BY <2>4 DEF RunIsAlone
  <1>7. RunsComeFirst'
    <2> SUFFICES ASSUME NEW x \in RuleIds, NEW f \in Events, NEW i \in 1..2, acted'[x][f][i] # 0
                 PROVE  runs'[x][f] # "none" /\ rules[x].acts \in Plans
      BY DEF RunInv, RunsComeFirst
    <2>1. CASE x = r /\ f = e
      BY <1>1, <2>1
    <2>2. CASE x # r \/ f # e
      <3>1. acted[x][f][i] # 0
        BY <2>2
      <3> QED
        BY <3>1 DEF RunInv, RunsComeFirst
    <2> QED
      BY <2>1, <2>2
  <1>8. ActsOnce'
    <2> SUFFICES ASSUME NEW x \in RuleIds, NEW f \in Events, NEW i \in 1..2
                 PROVE  /\ acted'[x][f][i] <= 1
                        /\ acted'[x][f][i] = 1 => \/ rules[x].acts[i] = "other"
                                                 \/ (rules[x].acts[i] = "notify" /\ f \in Own)
      BY DEF ActsOnce
    <2>1. CASE x = r /\ f = e
      BY <2>1
    <2>2. CASE x # r \/ f # e
      <3>1. acted'[x][f][i] = acted[x][f][i]
        BY <2>2
      <3> QED
        BY <3>1 DEF RunInv, ActsOnce
    <2> QED
      BY <2>1, <2>2
  <1> QED
    BY <1>3, <1>5, <1>6, <1>7, <1>8 DEF RunInv

LEMMA ReserveKeeps ==
  ASSUME RunInv, NEW p \in Procs, NEW r \in RuleIds, Reserve(p, r)
  PROVE  RunInv'
  <1> DEFINE e == job[p].event
  <1>1. /\ job[p].step = "reserve" /\ r \in job[p].todo /\ UNCHANGED <<rules, acted>>
        /\ e \in Events /\ job[p].todo \subseteq RuleIds /\ rules[r].acts \in Plans
        /\ runs \in [RuleIds -> [Events -> {"none", "ok", "failed"}]]
        /\ acted \in [RuleIds -> [Events -> [1..2 -> Nat]]]
    BY DEF Reserve, RunInv, RunTypes, JobInv
  <1>2. CASE runs[r][e] = "none"
    <2>1. runs' = [runs EXCEPT ![r][e] = "ok"] /\ AtAction(p, r, "act", 1, TRUE)
      BY <1>2 DEF Reserve
    <2>2. /\ runs' \in [RuleIds -> [Events -> {"none", "ok", "failed"}]] /\ runs'[r][e] # "none"
          /\ \A x \in RuleIds, f \in Events : runs[x][f] # "none" => runs'[x][f] # "none"
      BY <1>1, <2>1
    <2>3. \A i \in 1..2 : acted[r][e][i] = 0
      BY <1>1, <1>2 DEF RunInv, RunsComeFirst
    <2>4. \A q \in Procs \ {p} : ~(Running(q) /\ job[q].rule = r /\ job[q].event = e)
      BY <1>2 DEF RunInv, JobInv
    <2>5. 1 \in 1..Len(rules[r].acts)
      BY <1>1, PlanIsSome
    <2>6. /\ acted' \in [RuleIds -> [Events -> [1..2 -> Nat]]]
          /\ \A x \in RuleIds, f \in Events, i \in 1..2 : x # r \/ f # e => acted'[x][f][i] = acted[x][f][i]
          /\ \A i \in 1..2 : i >= 1 => acted'[r][e][i] = 0
          /\ \A i \in 1..2 : /\ acted'[r][e][i] <= 1
                             /\ acted'[r][e][i] = 1 => \/ rules[r].acts[i] = "other"
                                                       \/ rules[r].acts[i] = "notify" /\ e \in Own
      BY <1>1, <2>3
    <2>7. r \in job[p].todo /\ job[p].step # "none" /\ UNCHANGED rules
      BY <1>1
    <2>8. AtAction(p, r, "act", 1, TRUE) /\ TRUE \in BOOLEAN
      BY <2>1
    <2>9. e = job[p].event
      OBVIOUS
    <2> HIDE DEF e
    <2>10. Proceeds(p, e, r, "act", 1, TRUE)
      BY <2>2, <2>4, <2>5, <2>6, <2>7, <2>8, <2>9 DEF Proceeds
    <2> QED
      BY <2>10, AtActionKeeps
  <1>3. CASE runs[r][e] # "none"
    <2>1. Onward(p, job[p].todo \ {r}) /\ UNCHANGED runs
      BY <1>3 DEF Reserve
    <2> QED
      BY <1>1, <2>1, OnwardKeeps
  <1> QED
    BY <1>2, <1>3

LEMMA ActKeeps ==
  ASSUME RunInv, NEW p \in Procs, Act(p)
  PROVE  RunInv'
  <1> DEFINE e == job[p].event
             r == job[p].rule
             at == job[p].at
  <1>1. /\ job[p].step = "act" /\ UNCHANGED <<rules, runs>> /\ Running(p)
        /\ e \in Events /\ r \in job[p].todo /\ r \in RuleIds /\ job[p].ok \in BOOLEAN
        /\ rules[r].acts \in Plans /\ TriggerMatches(r, e) /\ runs[r][e] # "none"
        /\ at \in Nat /\ at \in 1..Len(rules[r].acts)
        /\ \A i \in 1..2 : i >= at => acted[r][e][i] = 0
        /\ runs \in [RuleIds -> [Events -> {"none", "ok", "failed"}]]
        /\ acted \in [RuleIds -> [Events -> [1..2 -> Nat]]]
    BY DEF Act, RunInv, RunTypes, JobInv, Running
  <1>2. PICK did \in BOOLEAN, ok \in BOOLEAN :
          /\ did => MayAct(r, rules[r].acts[at])
          /\ acted' = [acted EXCEPT ![r][e][at] = IF did THEN @ + 1 ELSE @]
          /\ IF at = Len(rules[r].acts) THEN AtAction(p, r, "detail", 0, job[p].ok /\ ok)
                                        ELSE AtAction(p, r, "act", at + 1, job[p].ok /\ ok)
    BY DEF Act
  <1>3. acted' = [acted EXCEPT ![r][e][at] = IF did THEN acted[r][e][at] + 1 ELSE acted[r][e][at]]
    BY <1>2
  <1> HIDE DEF e, r, at
  <1>4. /\ acted' \in [RuleIds -> [Events -> [1..2 -> Nat]]]
        /\ \A x \in RuleIds, f \in Events, i \in 1..2 : x # r \/ f # e \/ i # at => acted'[x][f][i] = acted[x][f][i]
        /\ at \in 1..2 => acted'[r][e][at] = IF did THEN 1 ELSE 0
    <2> DEFINE v == IF did THEN acted[r][e][at] + 1 ELSE acted[r][e][at]
    <2>1. acted' = [acted EXCEPT ![r] = [acted[r] EXCEPT ![e] = [acted[r][e] EXCEPT ![at] = v]]]
      BY <1>3
    <2>2. at \in 1..2 => acted[r][e][at] = 0 /\ v = IF did THEN 1 ELSE 0
      BY <1>1
    <2> HIDE DEF v
    <2>3. acted[r] \in [Events -> [1..2 -> Nat]] /\ acted[r][e] \in [1..2 -> Nat]
      BY <1>1
    <2>4. [acted[r][e] EXCEPT ![at] = v] \in [1..2 -> Nat]
      <3>1. at \in 1..2 => v \in Nat
        BY <2>2
      <3> QED
        BY <2>3, <3>1
    <2>5. [acted[r] EXCEPT ![e] = [acted[r][e] EXCEPT ![at] = v]] \in [Events -> [1..2 -> Nat]]
      BY <2>3, <2>4
    <2>6. acted' \in [RuleIds -> [Events -> [1..2 -> Nat]]]
      BY <1>1, <2>1, <2>5
    <2>7. acted'[r][e] = [acted[r][e] EXCEPT ![at] = v]
      BY <1>1, <2>1, <2>3
    <2>8. \A x \in RuleIds, f \in Events : x # r \/ f # e => acted'[x][f] = acted[x][f]
      BY <1>1, <2>1, <2>3
    <2>9. /\ \A i \in 1..2 : i # at => acted'[r][e][i] = acted[r][e][i]
          /\ at \in 1..2 => acted'[r][e][at] = v
      BY <2>3, <2>7
    <2> QED
      BY <2>2, <2>6, <2>8, <2>9
  <1>5. did => rules[r].acts[at] = "other" \/ (rules[r].acts[at] = "notify" /\ e \in Own)
    <2>1. rules[r].acts[at] \in Actions
      BY <1>1, PlanIsSome
    <2> QED
      BY <1>1, <1>2, <2>1 DEF MayAct, MayNotify, TriggerMatches, Trigger, Actions
  <1>6. \A i \in 1..2 : /\ acted'[r][e][i] <= 1
                        /\ acted'[r][e][i] = 1 => \/ rules[r].acts[i] = "other"
                                                  \/ rules[r].acts[i] = "notify" /\ e \in Own
    <2> SUFFICES ASSUME NEW i \in 1..2
                 PROVE  /\ acted'[r][e][i] <= 1
                        /\ acted'[r][e][i] = 1 => \/ rules[r].acts[i] = "other"
                                                  \/ rules[r].acts[i] = "notify" /\ e \in Own
      OBVIOUS
    <2>1. CASE i = at
      BY <1>4, <1>5, <2>1
    <2>2. CASE i # at
      BY <1>1, <1>4, <2>2 DEF RunInv, ActsOnce
    <2> QED
      BY <2>1, <2>2
  <1>7. \A q \in Procs \ {p} : ~(Running(q) /\ job[q].rule = r /\ job[q].event = e)
    BY <1>1 DEF RunInv, RunIsAlone, e, r
  <1>10. /\ \A x \in RuleIds, f \in Events, i \in 1..2 : x # r \/ f # e => acted'[x][f][i] = acted[x][f][i]
         /\ acted' \in [RuleIds -> [Events -> [1..2 -> Nat]]]
         /\ runs' \in [RuleIds -> [Events -> {"none", "ok", "failed"}]] /\ runs'[r][e] # "none"
         /\ \A x \in RuleIds, f \in Events : runs[x][f] # "none" => runs'[x][f] # "none"
         /\ UNCHANGED rules /\ r \in job[p].todo /\ job[p].step # "none"
    BY <1>1, <1>4
  <1>11. PICK fine \in BOOLEAN :
           IF at = Len(rules[r].acts) THEN AtAction(p, r, "detail", 0, fine)
                                      ELSE AtAction(p, r, "act", at + 1, fine)
    <2>1. (job[p].ok /\ ok) \in BOOLEAN
      BY <1>1
    <2> QED
      BY <1>2, <2>1
  <1>8. CASE at = Len(rules[r].acts)
    <2>1. AtAction(p, r, "detail", 0, fine)
      BY <1>8, <1>11
    <2>2. 0 \in Nat /\ "detail" \in {"act", "detail"} /\ "detail" # "act"
      OBVIOUS
    <2>3. e = job[p].event
      BY DEF e
    <2>4. Proceeds(p, e, r, "detail", 0, fine)
      BY <1>6, <1>7, <1>10, <2>1, <2>2, <2>3 DEF Proceeds
    <2> QED
      BY <2>4, AtActionKeeps
  <1>9. CASE at # Len(rules[r].acts)
    <2>1. at + 1 \in 1..Len(rules[r].acts) /\ at + 1 \in Nat
      BY <1>1, <1>9, PlanIsSome
    <2>2. ASSUME NEW i \in 1..2, i >= at + 1 PROVE acted'[r][e][i] = 0
      <3>1. i # at /\ i >= at
        BY <1>1, <2>2
      <3>2. acted'[r][e][i] = acted[r][e][i]
        BY <1>1, <1>4, <3>1
      <3> QED
        BY <1>1, <3>1, <3>2
    <2>3. AtAction(p, r, "act", at + 1, fine)
      BY <1>9, <1>11
    <2>4. e = job[p].event
      BY DEF e
    <2>5. Proceeds(p, e, r, "act", at + 1, fine)
      BY <1>6, <1>7, <1>10, <2>1, <2>2, <2>3, <2>4 DEF Proceeds
    <2> QED
      BY <2>5, AtActionKeeps
  <1> QED
    BY <1>8, <1>9

LEMMA RecordDetailKeeps ==
  ASSUME RunInv, NEW p \in Procs, RecordDetail(p)
  PROVE  RunInv'
  <1> DEFINE e == job[p].event
             r == job[p].rule
  <1>1. /\ job[p].step = "detail" /\ UNCHANGED <<rules, acted>> /\ r \in RuleIds /\ e \in Events
        /\ runs \in [RuleIds -> [Events -> {"none", "ok", "failed"}]]
    BY DEF RecordDetail, RunInv, RunTypes, JobInv, Running
  <1>2. /\ Onward(p, job[p].todo \ {r})
        /\ runs' = [runs EXCEPT ![r][e] = IF job[p].ok THEN "ok" ELSE "failed"]
    BY DEF RecordDetail
  <1> HIDE DEF e, r
  <1>3. /\ runs' \in [RuleIds -> [Events -> {"none", "ok", "failed"}]]
        /\ \A x \in RuleIds, f \in Events : runs[x][f] # "none" => runs'[x][f] # "none"
    <2>1. (IF job[p].ok THEN "ok" ELSE "failed") \in {"ok", "failed"}
      OBVIOUS
    <2> QED
      BY <1>1, <1>2, <2>1
  <1> QED
    BY <1>1, <1>2, <1>3, OnwardKeeps

LEMMA RulesKept == RunInv /\ RulesNext => RunInv'
  <1> SUFFICES ASSUME RunInv, RulesNext PROVE RunInv'
    OBVIOUS
  <1>1. ASSUME NEW p \in Procs, NEW e \in Events, Publish(p, e) \/ Webhook(p, e) PROVE RunInv'
    BY <1>1, EvaluateKeeps DEF Publish, Webhook
  <1>2. ASSUME NEW p \in Procs, Die(p) PROVE RunInv'
    <2>1. job[p].step = "none" => RunInv'
      <3> SUFFICES ASSUME job[p].step = "none" PROVE RunInv'
        OBVIOUS
      <3>1. job' = [job EXCEPT ![p] = NoJob] /\ UNCHANGED <<rules, runs, acted>>
        BY <1>2 DEF Die
      <3>2. RunTypes'
        BY <3>1 DEF RunInv, RunTypes, NoJob
      <3>3. \A q \in Procs : job'[q] = IF q = p THEN NoJob ELSE job[q]
        BY <3>1 DEF RunInv, RunTypes
      <3>4. ASSUME NEW q \in Procs PROVE JobInv(q)'
        <4>1. JobInv(q) /\ NoJob.step = "none"
          BY DEF RunInv, NoJob
        <4> QED
          BY <3>1, <3>3, <4>1 DEF JobInv, TriggerMatches, Running
      <3>5. RunIsAlone'
        <4>1. \A q \in Procs : Running(q)' => q # p /\ Running(q) /\ job'[q] = job[q]
          BY <3>3 DEF Running, NoJob
        <4> QED
          BY <4>1 DEF RunInv, RunIsAlone
      <3> QED
        BY <3>1, <3>2, <3>4, <3>5 DEF RunInv, RunsComeFirst, ActsOnce
    <2>2. CASE job[p].step # "none"
      <3>1. job' = [job EXCEPT ![p] = NoJob] /\ UNCHANGED <<rules, runs, acted>>
        BY <1>2 DEF Die
      <3>2. runs' \in [RuleIds -> [Events -> {"none", "ok", "failed"}]]
        BY <3>1 DEF RunInv, RunTypes
      <3> QED
        BY <2>2, <3>1, <3>2, OnwardKeeps
    <2> QED
      BY <2>1, <2>2
  <1> QED
    BY <1>1, <1>2, ReserveKeeps, ActKeeps, RecordDetailKeeps, AddRuleKeeps, SwitchRuleKeeps DEF RulesNext

------------------------------------------------------------------------
(* All three *)

IInv == LockInv /\ RunInv /\ StoredInv

LEMMA InvAlways == Spec => []IInv
  <1>1. Init => IInv
    BY LockInitInv, RulesInitInv, ChannelsInitInv DEF Init, IInv
  <1>2. IInv /\ [Next]_vars => IInv'
    <2> SUFFICES ASSUME IInv, [Next]_vars PROVE IInv'
      OBVIOUS
    <2>1. UNCHANGED <<now, lockVars, seenVars>> => LockInv'
      BY DEF IInv, lockVars, seenVars, LockInv, LockTypes, SessionInv, StampsInv, SendsAreUnlocked, LimitedGuesses
    <2>2. UNCHANGED ruleVars => RunInv'
      BY DEF IInv, ruleVars, RunInv, RunTypes, JobInv, Running, TriggerMatches, RunIsAlone, RunsComeFirst, ActsOnce
    <2>3. UNCHANGED channelVars => StoredInv'
      BY DEF IInv, channelVars, StoredInv, BriefsStayHome
    <2>4. \/ LockNext /\ UNCHANGED <<ruleVars, channelVars>>
          \/ RulesNext /\ UNCHANGED <<now, lockVars, seenVars, channelVars>>
          \/ ChannelsNext /\ UNCHANGED <<now, lockVars, seenVars, ruleVars>>
          \/ UNCHANGED vars
      BY DEF Next
    <2> QED
      BY <2>1, <2>2, <2>3, <2>4, LockKept, RulesKept, ChannelsKept DEF IInv, vars
  <1> QED
    BY <1>1, <1>2, PTL DEF Spec

\* However many sessions ask, guess, lock and send, whatever channels fail and however long
\* the process lives: mail leaves only from a session that its owner has unlocked, with a
\* code that was not to be read anywhere else, and not for longer than Ttl.
THEOREM SendsUnlocked == Spec => []SendsAreUnlocked
  <1>1. IInv => SendsAreUnlocked
    BY DEF IInv, LockInv
  <1> QED
    BY <1>1, InvAlways, PTL

\* A code takes MaxAttempts wrong answers, over all sessions there are, and no window of the
\* configured length sees more than MaxRequests codes.
THEOREM GuessesLimited == Spec => []LimitedGuesses
  <1>1. IInv => LimitedGuesses
    BY DEF IInv, LockInv
  <1> QED
    BY <1>1, InvAlways, PTL

\* However many processes evaluate an event, again and again, and die on the way, no rule
\* does one of its actions on it twice, or sends mail, or notifies of what others sent.
THEOREM RulesActOnce == Spec => []ActsOnce
  <1>1. IInv => ActsOnce
    BY DEF IInv, RunInv
  <1> QED
    BY <1>1, InvAlways, PTL

\* A brief goes only where its user, or an owner in an unlocked session, said it should, and
\* from a mailbox of theirs: with any number of processes that set it up and send it.
THEOREM BriefsAtHome == Spec => []BriefsStayHome
  <1>1. IInv => BriefsStayHome
    BY DEF IInv, StoredInv
  <1> QED
    BY <1>1, InvAlways, PTL

(***************************************************************************)
(* The mailboxes and their messages.                                       *)
(***************************************************************************)

\* Of two messages the one that precedes the other has fewer before it, so that no two get
\* one number.
LEMMA EarlierHasFewer ==
  ASSUME NEW new \in SUBSET (Nat \X Nat), IsFiniteSet(new), NEW m \in new, NEW k \in new, Precedes(m, k)
  PROVE  /\ Cardinality({x \in new : Precedes(x, m)}) \in Nat
         /\ Cardinality({x \in new : Precedes(x, k)}) \in Nat
         /\ Cardinality({x \in new : Precedes(x, m)}) < Cardinality({x \in new : Precedes(x, k)})
  <1> DEFINE A == {x \in new : Precedes(x, m)}
             B == {x \in new : Precedes(x, k)}
  <1>1. \A x \in new : x[1] \in Nat /\ x[2] \in Nat
    OBVIOUS
  <1>2. \A x \in new : Precedes(x, m) => Precedes(x, k)
    BY <1>1 DEF Precedes
  <1>3. ~Precedes(m, m)
    BY <1>1 DEF Precedes
  <1>4. A \subseteq B /\ m \in B /\ m \notin A /\ A \subseteq new /\ B \subseteq new
    BY <1>2, <1>3
  <1>5. IsFiniteSet(A) /\ IsFiniteSet(B)
    BY <1>4, FS_Subset
  <1> HIDE DEF A, B
  <1>6. Cardinality(A) <= Cardinality(B) /\ (Cardinality(A) = Cardinality(B) => A = B)
    BY <1>4, <1>5, FS_Subset
  <1>7. Cardinality(A) \in Nat /\ Cardinality(B) \in Nat
    BY <1>5, FS_CardinalityType
  <1>8. Cardinality(A) < Cardinality(B)
    BY <1>4, <1>6, <1>7
  <1> QED
    BY <1>7, <1>8 DEF A, B

LEMMA RankIsBelow ==
  ASSUME NEW new \in SUBSET (Nat \X Nat), IsFiniteSet(new), NEW m \in new
  PROVE  /\ Cardinality(new) \in Nat
         /\ Cardinality({x \in new : Precedes(x, m)}) \in Nat
         /\ Cardinality({x \in new : Precedes(x, m)}) < Cardinality(new)
  <1> DEFINE A == {x \in new : Precedes(x, m)}
  <1>1. \A x \in new : x[1] \in Nat /\ x[2] \in Nat
    OBVIOUS
  <1>2. ~Precedes(m, m)
    BY <1>1 DEF Precedes
  <1>3. A \subseteq new /\ m \notin A
    BY <1>2
  <1>4. IsFiniteSet(A)
    BY <1>3, FS_Subset
  <1> HIDE DEF A
  <1>5. Cardinality(A) \in Nat /\ Cardinality(new) \in Nat
    BY <1>4, FS_CardinalityType
  <1>6. Cardinality(A) <= Cardinality(new) /\ (Cardinality(A) = Cardinality(new) => A = new)
    BY <1>3, <1>4, FS_Subset
  <1>7. Cardinality(A) < Cardinality(new)
    BY <1>3, <1>5, <1>6
  <1> QED
    BY <1>5, <1>7 DEF A

\* Messages are pairs of numbers.
LEMMA MessagesArePairs ==
  /\ Messages \subseteq Nat \X Nat
  /\ \A m \in Messages : m = <<m[1], m[2]>> /\ m[1] \in Nat /\ m[2] \in Nat
  <1>1. MaxUid \in Nat /\ Boxes \subseteq Nat
    BY BoxesAssumption, SizesAssumption
  <1>2. 1..MaxUid \subseteq Nat
    BY <1>1
  <1>3. Messages \subseteq Nat \X Nat
    BY <1>1, <1>2 DEF Messages
  <1>4. \A m \in Nat \X Nat : m = <<m[1], m[2]>> /\ m[1] \in Nat /\ m[2] \in Nat
    OBVIOUS
  <1> QED
    BY <1>3, <1>4

\* A book: its numbers are given, and each is of a message.
BookFits(bk) ==
    /\ DOMAIN bk = DOMAIN Empty
    /\ bk.next \in Nat \ {0}
    /\ \A n \in DOMAIN bk.refs : n \in Nat /\ n < bk.next /\ bk.refs[n] \in Messages

\* Numbering keeps what has a number, and gives the others one each that none has had.
LEMMA NumberingKeeps ==
  ASSUME NEW bk, BookFits(bk), NEW heads \in SUBSET Messages
  PROVE  LET num == Number(bk, heads) IN
         /\ num.next \in Nat /\ num.next >= bk.next
         /\ DOMAIN bk.refs \subseteq DOMAIN num.refs
         /\ \A n \in DOMAIN bk.refs : num.refs[n] = bk.refs[n]
         /\ \A n \in DOMAIN num.refs : n \in Nat /\ n < num.next /\ num.refs[n] \in Messages
         /\ \A n \in DOMAIN num.refs \ DOMAIN bk.refs : n >= bk.next
         /\ \A m \in heads : \E n \in DOMAIN num.refs : num.refs[n] = m
  <1> DEFINE new == {m \in heads : NumberOf(bk.refs, m) = {}}
             Before(m) == {k \in new : Precedes(k, m)}
             at(m) == bk.next + Cardinality(Before(m))
             num == Number(bk, heads)
  <1>1. /\ num.next = bk.next + Cardinality(new)
        /\ num.refs = [n \in DOMAIN bk.refs \union {at(m) : m \in new} |->
                         IF n \in DOMAIN bk.refs THEN bk.refs[n] ELSE CHOOSE m \in new : at(m) = n]
    BY DEF Number
  <1>2. Messages \subseteq Nat \X Nat
    BY MessagesArePairs
  <1>3. IsFiniteSet(Messages)
    <2>1. IsFiniteSet(1..MaxUid)
      BY SizesAssumption, FS_Interval
    <2> QED
      BY <2>1, BoxesAssumption, FS_Product DEF Messages
  <1>4. new \in SUBSET (Nat \X Nat) /\ IsFiniteSet(new) /\ new \subseteq Messages
    <2>1. new \subseteq Messages
      OBVIOUS
    <2> HIDE DEF new
    <2> QED
      BY <2>1, <1>2, <1>3, FS_Subset
  <1>5. bk.next \in Nat \ {0}
    BY DEF BookFits
  <1>6. Cardinality(new) \in Nat
    BY <1>4, FS_CardinalityType
  <1>7. ASSUME NEW m \in new
        PROVE  at(m) \in Nat /\ at(m) >= bk.next /\ at(m) < num.next
    <2>1. Cardinality(Before(m)) \in Nat /\ Cardinality(Before(m)) < Cardinality(new)
      <3> HIDE DEF new
      <3> QED
        BY <1>4, RankIsBelow
    <2> HIDE DEF Before, num, new
    <2> QED
      BY <1>1, <1>5, <1>6, <2>1
  <1>8. ASSUME NEW m \in new, NEW k \in new, at(m) = at(k)
        PROVE  m = k
    <2>1. PICK a, b : a = Cardinality(Before(m)) /\ b = Cardinality(Before(k))
      OBVIOUS
    <2>2. a = b
      <3>1. a \in Nat /\ b \in Nat
        <4> HIDE DEF new
        <4> QED
          BY <1>4, <2>1, RankIsBelow
      <3>2. bk.next + a = bk.next + b
        BY <1>8, <2>1
      <3> QED
        BY <1>5, <3>1, <3>2
    <2>3. ~Precedes(m, k) /\ ~Precedes(k, m)
      <3> HIDE DEF new
      <3>1. Precedes(m, k) => a \in Nat /\ a < b
        BY <1>4, <2>1, EarlierHasFewer
      <3>2. Precedes(k, m) => b \in Nat /\ b < a
        BY <1>4, <2>1, EarlierHasFewer
      <3> QED
        BY ONLY <2>2, <3>1, <3>2
    <2>4. m \in Nat \X Nat /\ k \in Nat \X Nat
      BY <1>4
    <2> QED
      BY <2>3, <2>4 DEF Precedes
  <1>9. DOMAIN num.refs = DOMAIN bk.refs \union {at(m) : m \in new}
    BY <1>1
  <1>10. \A n \in DOMAIN bk.refs : n \in Nat /\ n < bk.next /\ bk.refs[n] \in Messages
    BY DEF BookFits
  <1>11. \A n \in DOMAIN bk.refs : num.refs[n] = bk.refs[n]
    BY <1>1
  <1>12. ASSUME NEW m \in new
         PROVE  num.refs[at(m)] = m
    <2>1. at(m) \notin DOMAIN bk.refs
      BY <1>5, <1>7, <1>10
    <2>2. num.refs[at(m)] = CHOOSE k \in new : at(k) = at(m)
      <3>1. at(m) \in {at(k) : k \in new}
        OBVIOUS
      <3> HIDE DEF num, new, at
      <3> QED
        BY <1>1, <2>1, <3>1, Zenon
    <2> HIDE DEF num, new, at
    <2> QED
      BY <1>8, <2>2
  <1> HIDE DEF num, new, at
  <1>13. \A n \in DOMAIN num.refs : n \in Nat /\ n < num.next /\ num.refs[n] \in Messages
    <2>1. TAKE n \in DOMAIN num.refs
    <2>2. CASE n \in DOMAIN bk.refs
      BY <1>1, <1>5, <1>6, <1>10, <1>11, <2>2
    <2>3. CASE n \notin DOMAIN bk.refs
      BY <1>4, <1>7, <1>9, <1>12, <2>3
    <2> QED
      BY <2>2, <2>3
  <1>14. \A n \in DOMAIN num.refs \ DOMAIN bk.refs : n >= bk.next
    BY <1>7, <1>9
  <1>15. \A m \in heads : \E n \in DOMAIN num.refs : num.refs[n] = m
    <2>1. TAKE m \in heads
    <2>2. CASE m \in new
      BY <1>9, <1>12, <2>2
    <2>3. CASE m \notin new
      <3>1. PICK n \in DOMAIN bk.refs : bk.refs[n] = m
        BY <2>3 DEF new, NumberOf, Key
      <3> QED
        BY <1>9, <1>11, <3>1
    <2> QED
      BY <2>2, <2>3
  <1>16. num.next \in Nat /\ num.next >= bk.next
    BY <1>1, <1>5, <1>6
  <1> QED
    BY <1>9, <1>11, <1>13, <1>14, <1>15, <1>16 DEF num

\* What is said of the numbers of a session: each is in its book and means what it was said
\* to mean, or is one of a message that was moved.
SessionFits(bk, mean, gone) ==
    /\ BookFits(bk)
    /\ \A x \in mean :
          /\ x \in Nat \X Nat \X Nat /\ x[1] < bk.next
          /\ x[1] \in DOMAIN bk.refs \union gone
          /\ x[1] \in DOMAIN bk.refs => bk.refs[x[1]] = <<x[2], x[3]>>
    /\ \A x, y \in mean : x[1] = y[1] => x = y

NumbersInv ==
    /\ inbox \subseteq Messages /\ arrived \in [Boxes -> 0..MaxUid]
    /\ \A s \in Chats : SessionFits(book[s], meaning[s], moved[s])

LEMMA NumbersInvIsEnough ==
  ASSUME NumbersInv
  PROVE  NumbersStand
  BY DEF NumbersInv, SessionFits, NumbersStand

LEMMA NewBookFits == SessionFits(Empty, {}, {})
  BY DEF SessionFits, BookFits, Empty

\* Whatever goes with a book that is let go, goes with it.
LEMMA UseKeepsNumbers ==
  ASSUME NumbersInv, NEW s \in Chats, NEW bk, NEW heads, NEW gone, Use(s, bk, heads, gone),
         SessionFits(bk, meaning[s] \union heads, moved[s] \union gone)
  PROVE  \A t \in Chats : SessionFits(book'[t], meaning'[t], moved'[t])
  <1>1. ASSUME NEW t \in Chats
        PROVE  SessionFits(book'[t], meaning'[t], moved'[t])
    <2>1. CASE t = s
      BY <2>1 DEF Use
    <2>2. CASE t # s /\ t \in Kept(s)
      <3>1. book'[t] = book[t] /\ meaning'[t] = meaning[t] /\ moved'[t] = moved[t]
        BY <2>2 DEF Use
      <3> QED
        BY <3>1 DEF NumbersInv
    <2>3. CASE t # s /\ t \notin Kept(s)
      <3>1. book'[t] = Empty /\ meaning'[t] = {} /\ moved'[t] = {}
        BY <2>3 DEF Use
      <3> QED
        BY <3>1, NewBookFits
    <2> QED
      BY <2>1, <2>2, <2>3
  <1> QED
    BY <1>1

\* Numbers that are used say again what they said, and those of messages moved are forgotten.
LEMMA UsedNumbersFit ==
  ASSUME NEW bk, NEW mean, NEW gone, SessionFits(bk, mean, gone), NEW ns, ns \subseteq DOMAIN bk.refs,
         NEW said, said = {<<n, bk.refs[n][1], bk.refs[n][2]>> : n \in ns},
         NEW lost, NEW new, DOMAIN new = DOMAIN bk, new.next = bk.next, DOMAIN new.refs = DOMAIN bk.refs \ lost,
         \A n \in DOMAIN new.refs : new.refs[n] = bk.refs[n]
  PROVE  SessionFits(new, mean \union said, gone \union lost)
  <1>1. BookFits(new)
    BY DEF SessionFits, BookFits
  <1>2. ASSUME NEW x \in said
        PROVE  /\ x \in Nat \X Nat \X Nat /\ x[1] < bk.next /\ x[1] \in DOMAIN bk.refs
               /\ bk.refs[x[1]] = <<x[2], x[3]>> /\ x = <<x[1], x[2], x[3]>>
    <2>1. PICK n \in ns : x = <<n, bk.refs[n][1], bk.refs[n][2]>>
      OBVIOUS
    <2>2. n \in Nat /\ n < bk.next /\ bk.refs[n] \in Messages
      BY DEF SessionFits, BookFits
    <2>3. bk.refs[n] = <<bk.refs[n][1], bk.refs[n][2]>> /\ bk.refs[n][1] \in Nat /\ bk.refs[n][2] \in Nat
      BY <2>2, MessagesArePairs
    <2> QED
      BY <2>1, <2>2, <2>3
  <1>3. ASSUME NEW x \in mean
        PROVE  /\ x \in Nat \X Nat \X Nat /\ x[1] < bk.next /\ x[1] \in DOMAIN bk.refs \union gone
               /\ (x[1] \in DOMAIN bk.refs => bk.refs[x[1]] = <<x[2], x[3]>>) /\ x = <<x[1], x[2], x[3]>>
    BY DEF SessionFits
  <1>4. \A x, y \in mean \union said : x[1] = y[1] => x = y
    <2>1. TAKE x, y \in mean \union said
    <2>2. CASE x \in mean /\ y \in mean
      BY <2>2 DEF SessionFits
    <2>3. CASE x \in said \/ y \in said
      <3>1. HAVE x[1] = y[1]
      <3>2. x[1] \in DOMAIN bk.refs
        BY <1>2, <2>3, <3>1
      <3>3. bk.refs[x[1]] = <<x[2], x[3]>> /\ bk.refs[y[1]] = <<y[2], y[3]>>
        BY <1>2, <1>3, <3>1, <3>2
      <3>4. x[2] = y[2] /\ x[3] = y[3]
        BY <3>1, <3>3
      <3> QED
        BY <1>2, <1>3, <3>1, <3>4
    <2> QED
      BY <2>2, <2>3
  <1>5. \A x \in mean \union said :
          /\ x \in Nat \X Nat \X Nat /\ x[1] < new.next
          /\ x[1] \in DOMAIN new.refs \union (gone \union lost)
          /\ x[1] \in DOMAIN new.refs => new.refs[x[1]] = <<x[2], x[3]>>
    BY <1>2, <1>3
  <1> QED
    BY <1>1, <1>4, <1>5 DEF SessionFits

\* An overview shows messages under the numbers they have, or get now.
LEMMA ShownNumbersFit ==
  ASSUME NEW bk, NEW mean, NEW gone, SessionFits(bk, mean, gone), NEW heads \in SUBSET Messages,
         NEW rows, rows = {<<CHOOSE n \in NumberOf(Number(bk, heads).refs, m) : TRUE, m[1], m[2]>> : m \in heads},
         NEW new, DOMAIN new = DOMAIN Empty, new.next = Number(bk, heads).next, new.refs = Number(bk, heads).refs
  PROVE  SessionFits(new, mean \union rows, gone)
  <1>1. BookFits(bk) /\ bk.next \in Nat /\ \A n \in DOMAIN bk.refs : n \in Nat /\ n < bk.next
    BY DEF SessionFits, BookFits
  <1>2. /\ new.next \in Nat /\ new.next >= bk.next
        /\ DOMAIN bk.refs \subseteq DOMAIN new.refs
        /\ \A n \in DOMAIN bk.refs : new.refs[n] = bk.refs[n]
        /\ \A n \in DOMAIN new.refs : n \in Nat /\ n < new.next /\ new.refs[n] \in Messages
        /\ \A n \in DOMAIN new.refs \ DOMAIN bk.refs : n >= bk.next
        /\ \A m \in heads : \E n \in DOMAIN new.refs : new.refs[n] = m
    BY <1>1, NumberingKeeps
  <1>3. BookFits(new)
    <2>1. bk.next > 0
      BY <1>1 DEF BookFits
    <2> QED
      BY <1>1, <1>2, <2>1 DEF BookFits
  <1>4. ASSUME NEW x \in rows
        PROVE  /\ x \in Nat \X Nat \X Nat /\ x[1] < new.next /\ x[1] \in DOMAIN new.refs
               /\ new.refs[x[1]] = <<x[2], x[3]>>
    <2>1. PICK m \in heads : x = <<CHOOSE n \in NumberOf(new.refs, m) : TRUE, m[1], m[2]>>
      OBVIOUS
    <2>2. PICK n : n = CHOOSE i \in NumberOf(new.refs, m) : TRUE
      OBVIOUS
    <2>3. n \in NumberOf(new.refs, m)
      <3>1. NumberOf(new.refs, m) # {}
        BY <1>2 DEF NumberOf, Key
      <3> QED
        BY <2>2, <3>1
    <2>4. n \in DOMAIN new.refs /\ new.refs[n] = m
      BY <2>3 DEF NumberOf, Key
    <2>5. m = <<m[1], m[2]>> /\ m[1] \in Nat /\ m[2] \in Nat
      BY MessagesArePairs
    <2>6. x = <<n, m[1], m[2]>>
      BY <2>1, <2>2
    <2> QED
      BY <1>2, <2>4, <2>5, <2>6
  <1>5. ASSUME NEW x \in mean
        PROVE  /\ x \in Nat \X Nat \X Nat /\ x[1] < new.next /\ x[1] \in DOMAIN new.refs \union gone
               /\ x[1] \in DOMAIN new.refs => new.refs[x[1]] = <<x[2], x[3]>>
    <2>1. /\ x \in Nat \X Nat \X Nat /\ x[1] < bk.next /\ x[1] \in DOMAIN bk.refs \union gone
          /\ x[1] \in DOMAIN bk.refs => bk.refs[x[1]] = <<x[2], x[3]>>
      BY DEF SessionFits
    <2>2. x[1] \in DOMAIN new.refs => x[1] \in DOMAIN bk.refs
      BY <1>1, <1>2, <2>1
    <2> QED
      BY <1>1, <1>2, <2>1, <2>2
  <1>6. \A x, y \in mean \union rows : x[1] = y[1] => x = y
    <2>1. TAKE x, y \in mean \union rows
    <2>2. CASE x \in mean /\ y \in mean
      BY <2>2 DEF SessionFits
    <2>3. CASE x \in rows \/ y \in rows
      <3>1. HAVE x[1] = y[1]
      <3>2. x[1] \in DOMAIN new.refs
        BY <1>4, <2>3, <3>1
      <3>3. new.refs[x[1]] = <<x[2], x[3]>> /\ new.refs[y[1]] = <<y[2], y[3]>>
        BY <1>4, <1>5, <3>1, <3>2
      <3>4. x[2] = y[2] /\ x[3] = y[3]
        BY <3>1, <3>3
      <3>5. x = <<x[1], x[2], x[3]>> /\ y = <<y[1], y[2], y[3]>>
        BY <1>4, <1>5
      <3> QED
        BY <3>1, <3>4, <3>5
    <2> QED
      BY <2>2, <2>3
  <1> QED
    BY <1>3, <1>4, <1>5, <1>6 DEF SessionFits

\* Every tool keeps the invariant.
LEMMA OverviewKeepsNumbers ==
  ASSUME NumbersInv, NEW s \in Chats, NEW heads \in SUBSET inbox, Overview(s, heads)
  PROVE  NumbersInv'
  <1> DEFINE num == Number(book[s], heads)
             rows == {<<CHOOSE n \in NumberOf(num.refs, m) : TRUE, m[1], m[2]>> : m \in heads}
             new == [next |-> num.next, refs |-> num.refs, last |-> {r[1] : r \in rows}]
  <1>1. Use(s, new, rows, {}) /\ inbox' = inbox /\ arrived' = arrived
    BY DEF Overview, boxVars
  <1>2. SessionFits(book[s], meaning[s], moved[s]) /\ heads \in SUBSET Messages
    BY DEF NumbersInv
  <1>3. DOMAIN new = DOMAIN Empty /\ new.next = num.next /\ new.refs = num.refs
    BY DEF Empty
  <1> HIDE DEF new
  <1>4. SessionFits(new, meaning[s] \union rows, moved[s])
    BY <1>2, <1>3, ShownNumbersFit
  <1>5. moved[s] \union {} = moved[s]
    OBVIOUS
  <1> HIDE DEF rows
  <1>6. \A t \in Chats : SessionFits(book'[t], meaning'[t], moved'[t])
    BY <1>1, <1>4, <1>5, UseKeepsNumbers
  <1> QED
    BY <1>1, <1>6 DEF NumbersInv

\* A tool that uses numbers and forgets some.
LEMMA ToolKeepsNumbers ==
  ASSUME NumbersInv, NEW s \in Chats, NEW ns, ns \subseteq DOMAIN book[s].refs, NEW lost, NEW new,
         Use(s, new, Said(s, ns), lost), DOMAIN new = DOMAIN book[s], new.next = book[s].next,
         DOMAIN new.refs = DOMAIN book[s].refs \ lost,
         \A n \in DOMAIN new.refs : new.refs[n] = book[s].refs[n],
         inbox' \subseteq inbox, arrived' = arrived
  PROVE  NumbersInv'
  <1>1. SessionFits(book[s], meaning[s], moved[s])
    BY DEF NumbersInv
  <1>2. PICK said : said = Said(s, ns) /\ said = {<<n, book[s].refs[n][1], book[s].refs[n][2]>> : n \in ns}
    BY DEF Said
  <1>3. SessionFits(new, meaning[s] \union said, moved[s] \union lost)
    BY <1>1, <1>2, UsedNumbersFit
  <1>4. \A t \in Chats : SessionFits(book'[t], meaning'[t], moved'[t])
    BY <1>2, <1>3, UseKeepsNumbers
  <1>5. inbox' \subseteq Messages /\ arrived' \in [Boxes -> 0..MaxUid]
    BY DEF NumbersInv
  <1> QED
    BY <1>4, <1>5 DEF NumbersInv

LEMMA NumberToolsKeepNumbers ==
  ASSUME NumbersInv, NEW s \in Chats, NEW ns, NEW out, NEW stay,
         SetFlags(s, ns, out) \/ Move(s, ns, stay, out)
  PROVE  NumbersInv'
  <1>1. ns \subseteq DOMAIN book[s].refs
    BY DEF SetFlags, Move, Resolves
  <1>2. Does(s, ns, out) \subseteq ns /\ Reports(s, ns, out) \subseteq ns
    BY DEF Does, Reports, InBoxes
  <1>3. Does(s, ns, out) \subseteq DOMAIN book[s].refs
    BY <1>1, <1>2
  <1>4. CASE SetFlags(s, ns, out)
    <2>1. Use(s, book[s], Said(s, Does(s, ns, out)), {}) /\ inbox' = inbox /\ arrived' = arrived
      BY <1>4 DEF SetFlags, boxVars
    <2>2. DOMAIN book[s].refs = DOMAIN book[s].refs \ {}
      OBVIOUS
    <2> QED
      BY <1>3, <2>1, <2>2, ToolKeepsNumbers
  <1>5. CASE Move(s, ns, stay, out)
    <2> DEFINE lost == Reports(s, ns, out)
               new == Forget(book[s], lost)
    <2>1. Use(s, new, Said(s, Does(s, ns, out)), lost) /\ inbox' \subseteq inbox /\ arrived' = arrived
      BY <1>5 DEF Move, Forgotten
    <2>2. DOMAIN book[s] = DOMAIN Empty
      BY DEF NumbersInv, SessionFits, BookFits
    <2>3. /\ DOMAIN new = DOMAIN book[s] /\ new.next = book[s].next /\ DOMAIN new.refs = DOMAIN book[s].refs \ lost
          /\ \A n \in DOMAIN new.refs : new.refs[n] = book[s].refs[n]
      BY <2>2 DEF Forget, Empty
    <2> HIDE DEF new, lost
    <2> QED
      BY <1>3, <2>1, <2>3, ToolKeepsNumbers
  <1> QED
    BY <1>4, <1>5

LEMMA OtherToolsKeepNumbers ==
  ASSUME NumbersInv, NEW s \in Chats, (\E n \in Numbers : SendFromBox(s, n)) \/ Refuse(s)
  PROVE  NumbersInv'
  <1>1. DOMAIN book[s].refs = DOMAIN book[s].refs \ {}
    OBVIOUS
  <1>2. CASE \E n \in Numbers : SendFromBox(s, n)
    <2>1. PICK n \in Numbers : SendFromBox(s, n)
      BY <1>2
    <2>2. /\ {n} \subseteq DOMAIN book[s].refs /\ Use(s, book[s], Said(s, {n}), {})
          /\ inbox' = inbox /\ arrived' = arrived
      BY <2>1 DEF SendFromBox, Resolves, boxVars
    <2> QED
      BY <1>1, <2>2, ToolKeepsNumbers
  <1>3. CASE Refuse(s)
    <2>1. Use(s, book[s], {}, {}) /\ inbox' = inbox /\ arrived' = arrived
      BY <1>3 DEF Refuse, boxVars
    <2>2. Said(s, {}) = {}
      BY DEF Said
    <2> QED
      BY <1>1, <2>1, <2>2, ToolKeepsNumbers
  <1> QED
    BY <1>2, <1>3

\* What happens elsewhere, and what uses no number.
LEMMA RestKeepsNumbers ==
  ASSUME NumbersInv,
         \/ \E b \in Boxes : Arrive(b) \/ \E st \in {"linked", "needs_relink", "none"} : SetStatus(b, st)
         \/ \E m \in Messages : Leave(m)
         \/ RestartAll
         \/ \E broken \in SUBSET Boxes : List(broken)
         \/ Read
         \/ \E move \in BOOLEAN : ActOnId(move)
         \/ \E account \in Boxes \union {0} : ReplyDraft(account)
  PROVE  NumbersInv'
  <1>1. CASE \E b \in Boxes : Arrive(b)
    <2>1. PICK b \in Boxes : Arrive(b)
      BY <1>1
    <2>2. MaxUid \in Nat /\ arrived[b] \in 0..MaxUid
      BY SizesAssumption DEF NumbersInv
    <2>3. arrived[b] + 1 \in 0..MaxUid /\ arrived[b] + 1 \in 1..MaxUid
      <3>1. PICK a : a = arrived[b] /\ a < MaxUid
        BY <2>1 DEF Arrive
      <3>2. a + 1 \in 0..MaxUid /\ a + 1 \in 1..MaxUid
        BY ONLY <2>2, <3>1
      <3> QED
        BY ONLY <3>1, <3>2
    <2>4. arrived' = [arrived EXCEPT ![b] = arrived[b] + 1] /\ inbox' = inbox \union {<<b, arrived'[b]>>}
      BY <2>1 DEF Arrive
    <2>5. arrived' \in [Boxes -> 0..MaxUid] /\ arrived'[b] = arrived[b] + 1
      BY <2>3, <2>4 DEF NumbersInv
    <2>6. inbox' \subseteq Messages
      BY <2>3, <2>4, <2>5 DEF NumbersInv, Messages
    <2>7. UNCHANGED <<book, meaning, moved>>
      BY <2>1 DEF Arrive, bookVars
    <2> QED
      BY <2>5, <2>6, <2>7 DEF NumbersInv, SessionFits, BookFits
  <1>2. CASE RestartAll
    <2>1. inbox' = inbox /\ arrived' = arrived
      BY <1>2 DEF RestartAll, boxVars
    <2>2. \A s \in Chats : book'[s] = Empty /\ meaning'[s] = {} /\ moved'[s] = {}
      BY <1>2 DEF RestartAll
    <2>3. \A s \in Chats : SessionFits(book'[s], meaning'[s], moved'[s])
      BY <2>2, NewBookFits
    <2> QED
      BY <2>1, <2>3 DEF NumbersInv
  <1>3. CASE \/ \E b \in Boxes, st \in {"linked", "needs_relink", "none"} : SetStatus(b, st)
             \/ \E m \in Messages : Leave(m)
             \/ \E broken \in SUBSET Boxes : List(broken)
             \/ Read
             \/ \E move \in BOOLEAN : ActOnId(move)
             \/ \E account \in Boxes \union {0} : ReplyDraft(account)
    <2>1. UNCHANGED <<book, meaning, moved, arrived>> /\ inbox' \subseteq inbox
      BY <1>3 DEF SetStatus, Leave, List, Read, ActOnId, ReplyDraft, boxVars, bookVars
    <2> QED
      BY <2>1 DEF NumbersInv, SessionFits, BookFits
  <1> QED
    BY <1>1, <1>2, <1>3

LEMMA NumbersHoldAtStart ==
  ASSUME MailInit
  PROVE  NumbersInv
  <1>1. \A s \in Chats : book[s] = Empty /\ meaning[s] = {} /\ moved[s] = {}
    BY DEF MailInit
  <1>2. \A s \in Chats : SessionFits(book[s], meaning[s], moved[s])
    BY <1>1, NewBookFits
  <1>3. 0 \in 0..MaxUid
    BY SizesAssumption
  <1>4. arrived \in [Boxes -> 0..MaxUid] /\ inbox \subseteq Messages
    BY <1>3 DEF MailInit
  <1> QED
    BY <1>2, <1>4 DEF NumbersInv

LEMMA NumbersHoldOn ==
  ASSUME NumbersInv, [MailNext]_mailVars
  PROVE  NumbersInv'
  <1>1. CASE UNCHANGED mailVars
    <2>1. UNCHANGED <<book, meaning, moved, arrived, inbox>>
      BY <1>1 DEF mailVars
    <2> QED
      BY <2>1 DEF NumbersInv, SessionFits, BookFits
  <1>2. ASSUME NEW s \in Chats,
               \/ \E heads \in SUBSET inbox : Overview(s, heads)
               \/ \E ns \in AskedFor(s) : \E out \in Outcomes(s, ns) :
                    SetFlags(s, ns, out) \/ \E stay \in BOOLEAN : Move(s, ns, stay, out)
               \/ \E n \in Numbers : SendFromBox(s, n)
               \/ Refuse(s)
        PROVE  NumbersInv'
    BY <1>2, OverviewKeepsNumbers, NumberToolsKeepNumbers, OtherToolsKeepNumbers
  <1> QED
    BY <1>1, <1>2, RestKeepsNumbers DEF MailNext

\* However many chats number, mark, move and forward messages while mail comes and goes,
\* mailboxes fail and books are let go, a number means one message as long as its chat has
\* its book, and only a message reported as moved loses its number.
THEOREM NumbersMeanOne == MailSpec => []NumbersStand
  <1>1. NumbersInv => NumbersStand
    BY NumbersInvIsEnough
  <1> QED
    BY <1>1, NumbersHoldAtStart, NumbersHoldOn, PTL DEF MailSpec

------------------------------------------------------------------------
(* The ids of lists and searches. *)

\* What happens elsewhere, and what uses numbers, uses no ids.
NoIds ==
    \/ \E b \in Boxes : Arrive(b) \/ \E st \in {"linked", "needs_relink", "none"} : SetStatus(b, st)
    \/ \E m \in Messages : Leave(m)
    \/ RestartAll
    \/ \E s \in Chats :
         \/ \E heads \in SUBSET inbox : Overview(s, heads)
         \/ \E ns \in AskedFor(s) : \E out \in Outcomes(s, ns) :
              SetFlags(s, ns, out) \/ \E stay \in BOOLEAN : Move(s, ns, stay, out)
         \/ \E n \in Numbers : SendFromBox(s, n)
         \/ Refuse(s)

LEMMA NumbersUseNoIds ==
  ASSUME NoIds \/ UNCHANGED mailVars
  PROVE  wrong' = wrong /\ quiet' = quiet
  <1>1. CASE UNCHANGED mailVars
    BY <1>1 DEF mailVars
  <1>2. CASE \/ \E b \in Boxes : Arrive(b) \/ \E st \in {"linked", "needs_relink", "none"} : SetStatus(b, st)
             \/ \E m \in Messages : Leave(m)
             \/ RestartAll
    BY ONLY <1>2 DEF Arrive, SetStatus, Leave, RestartAll
  <1>3. ASSUME NEW s \in Chats, \E heads \in SUBSET inbox : Overview(s, heads)
        PROVE  wrong' = wrong /\ quiet' = quiet
    BY ONLY <1>3 DEF Overview
  <1>4. ASSUME NEW s, NEW ns, NEW out, NEW stay, SetFlags(s, ns, out) \/ Move(s, ns, stay, out)
        PROVE  wrong' = wrong /\ quiet' = quiet
    BY ONLY <1>4 DEF SetFlags, Move
  <1>5. ASSUME NEW s \in Chats, (\E n \in Numbers : SendFromBox(s, n)) \/ Refuse(s)
        PROVE  wrong' = wrong /\ quiet' = quiet
    BY ONLY <1>5 DEF SendFromBox, Refuse
  <1> QED
    BY <1>1, <1>2, <1>3, <1>4, <1>5 DEF NoIds

\* An id with a label is looked up in its mailbox or found nowhere.
LEMMA LabelsLead ==
  ASSUME NEW i, i.label
  PROVE  /\ Fetch(i) \in {i.msg, Nowhere} /\ IdTarget(i) \in {i.msg, Nowhere}
         /\ Fetch(i) # Nowhere => DraftBox(i, 0) = i.msg[1]
  <1>1. Fetch(i) # Nowhere => ~Alone(Sources) /\ i.msg[1] \in Sources
    BY DEF Fetch, Having
  <1> QED
    BY <1>1 DEF Fetch, IdTarget, DraftBox

\* An id with a label leads to the message it was given for or to nothing, whichever
\* mailboxes were linked, unlinked or lost their token since.
THEOREM IdsLeadHome == MailSpec => []IdsStand
  <1>1. MailInit => IdsStand
    BY DEF MailInit, IdsStand
  <1>2. IdsStand /\ [MailNext]_mailVars => IdsStand'
    <2> SUFFICES ASSUME IdsStand, [MailNext]_mailVars
                 PROVE  ~wrong'
      BY DEF IdsStand
    <2>1. ~wrong
      BY DEF IdsStand
    <2>2. CASE wrong' = wrong
      BY <2>1, <2>2
    <2>3. CASE Read \/ \E move \in BOOLEAN : ActOnId(move)
      BY <2>1, <2>3, LabelsLead DEF Read, ActOnId, Misled
    <2>4. CASE \E account \in Boxes \union {0} : ReplyDraft(account)
      <3>1. PICK account \in Boxes \union {0} : ReplyDraft(account)
        BY <2>4
      <3>2. ~Misled(id, Fetch(id))
        BY LabelsLead DEF Misled
      <3>3. ~(account = 0 /\ id.label /\ DraftBox(id, account) # id.msg[1])
        BY <3>1, LabelsLead DEF ReplyDraft
      <3> QED
        BY <2>1, <3>1, <3>2, <3>3 DEF ReplyDraft
    <2>5. CASE NoIds \/ UNCHANGED mailVars
      BY <2>1, <2>5, NumbersUseNoIds
    <2>6. CASE \E broken \in SUBSET Boxes : List(broken)
      <3>1. wrong' = wrong
        BY ONLY <2>6 DEF List
      <3> QED
        BY <2>1, <3>1
    <2> QED
      BY <2>2, <2>3, <2>4, <2>5, <2>6 DEF MailNext, NoIds
  <1> QED
    BY <1>1, <1>2, PTL DEF MailSpec

\* A list names whoever is missing from it: an only mailbox is there or raises.
LEMMA ListNamesAll ==
  ASSUME NEW broken, Sources \ broken # {}
  PROVE  Sources \union RelinkPending \subseteq (Sources \ broken) \union Named(broken)
  <1>1. CASE Alone(Sources)
    <2>1. Sources \subseteq Boxes
      BY DEF Sources
    <2>2. IsFiniteSet(Sources)
      BY <2>1, BoxesAssumption, FS_Subset
    <2>3. Cardinality(Sources) = 1 /\ RelinkPending = {}
      BY <1>1 DEF Alone
    <2>4. PICK b : Sources = {b}
      BY <2>2, <2>3, FS_Singleton
    <2> QED
      BY <2>3, <2>4
  <1>2. CASE ~Alone(Sources)
    BY <1>2 DEF Named
  <1> QED
    BY <1>1, <1>2

\* No list or search passes as complete while one of the mailboxes is missing from it.
THEOREM GapsAreNamed == MailSpec => []NoQuietGaps
  <1>1. MailInit => NoQuietGaps
    BY DEF MailInit, NoQuietGaps
  <1>2. NoQuietGaps /\ [MailNext]_mailVars => NoQuietGaps'
    <2> SUFFICES ASSUME NoQuietGaps, [MailNext]_mailVars
                 PROVE  ~quiet'
      BY DEF NoQuietGaps
    <2>1. ~quiet
      BY DEF NoQuietGaps
    <2>2. CASE \E broken \in SUBSET Boxes : List(broken)
      BY <2>1, <2>2, ListNamesAll DEF List
    <2>3. CASE NoIds \/ UNCHANGED mailVars
      BY <2>1, <2>3, NumbersUseNoIds
    <2>4. CASE Read \/ \E move \in BOOLEAN : ActOnId(move)
      <3>1. quiet' = quiet
        BY ONLY <2>4 DEF Read, ActOnId
      <3> QED
        BY <2>1, <3>1
    <2>5. CASE \E account \in Boxes \union {0} : ReplyDraft(account)
      <3>1. quiet' = quiet
        BY ONLY <2>5 DEF ReplyDraft
      <3> QED
        BY <2>1, <3>1
    <2> QED
      BY <2>2, <2>3, <2>4, <2>5 DEF MailNext, NoIds
  <1> QED
    BY <1>1, <1>2, PTL DEF MailSpec
=============================================================================
