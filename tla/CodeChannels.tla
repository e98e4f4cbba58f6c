--------------------------- MODULE CodeChannels ---------------------------
(***************************************************************************)
(* The places that codes for unlocking mail may be sent to: outside of     *)
(* what the assistant can read through the mail tools, and of the brief    *)
(* channels, which it sets up itself and can read back.                    *)
(*                                                                         *)
(* An address is kept as far as canonical_address looks at it, and a topic *)
(* or webhook as what it is the name of and how that is written.           *)
(***************************************************************************)
CONSTANTS Names, Domains, Ids       \* mailbox names, mail domains, topics and webhooks

GmailDomains == {"gmail.com", "googlemail.com"}

ASSUME GmailAssumption == GmailDomains \subseteq Domains

Address == [name : Names, spelt : {"plain", "tag", "dots"}, domain : Domains]
\* written: otherwise is with http or https, another host of Discord, a capital, a slash at
\* the end; apart is with the port that goes without saying, or a dot after the host
Place   == [kind : {"ntfy", "discord", "url"}, id : Ids, written : {"so", "otherwise", "apart"}]

\* A configured channel.  fit: what it needs is there, over https, without a query, and a
\* topic is long enough.
SmtpChannel  == [type : {"smtp"}, from : Address, to : Address, fit : BOOLEAN]
PlaceChannel == {spec \in [type : {"ntfy", "discord", "webhook"}, place : Place, fit : BOOLEAN] :
                     spec.type = "ntfy" <=> spec.place.kind = "ntfy"}

------------------------------------------------------------------------
(* Mailboxes *)

\* forgets that googlemail.com is gmail.com
CanonicalMutant(a) ==
    [name   |-> a.name,
     spelt  |-> IF a.spelt = "dots" /\ a.domain \notin GmailDomains THEN "dots" ELSE "plain",
     domain |-> a.domain]

CanonicalAddress(a) ==
    [name   |-> a.name,
     spelt  |-> IF a.spelt = "dots" /\ a.domain \notin GmailDomains THEN "dots" ELSE "plain",
     domain |-> IF a.domain \in GmailDomains THEN "gmail.com" ELSE a.domain]

\* What the mail tools read: the mailboxes and senders of every project, and whatever
\* account any user has linked.
ReadableAddresses(projects, linked) == projects \union linked

\* An address is out if it may be another name of a readable one, and, unless all other
\* names can be told, if it merely shares its domain.
ReadableHit(a, readable) ==
    LET canon == CanonicalAddress(a) IN
    \E r \in readable :
        \/ canon = CanonicalAddress(r)
        \/ canon.domain \notin GmailDomains /\ canon.domain = CanonicalAddress(r).domain

------------------------------------------------------------------------
(* Topics and webhooks *)

\* What the code reduces to one identity it reduces; the rest stays apart.
Spelling(p) == IF p.written = "apart" THEN "apart" ELSE "so"

\* The port is kept, and so is the dot.
NtfyIdentity(p) == <<"ntfy", p.id, Spelling(p)>>

\* With a dot after its host even a webhook of Discord's is a URL like any other.
WebhookIdentity(p) ==
    IF p.kind = "discord" /\ Spelling(p) = "so" THEN <<"discord", p.id>>
    ELSE <<"url", p.kind, p.id, Spelling(p)>>

\* Of a brief's channels those that a code could be read back from.
BriefIdentity(p) == IF p.kind = "ntfy" THEN NtfyIdentity(p) ELSE WebhookIdentity(p)

ExposedIdentities(briefs) == {BriefIdentity(p) : p \in briefs}

------------------------------------------------------------------------
(* Checking a channel, right before a code is sent *)

CheckNtfy(spec, exposed)    == spec.fit /\ NtfyIdentity(spec.place) \notin exposed

CheckWebhook(spec, exposed) ==
    /\ spec.fit
    /\ spec.type = "discord" => WebhookIdentity(spec.place)[1] = "discord"
    /\ WebhookIdentity(spec.place) \notin exposed

CheckSmtp(spec, readable) == spec.fit /\ ~ReadableHit(spec.to, readable) /\ ~ReadableHit(spec.from, readable)

CheckChannel(spec, readable, exposed) ==
    \/ spec.type = "ntfy" /\ CheckNtfy(spec, exposed)
    \/ spec.type \in {"discord", "webhook"} /\ CheckWebhook(spec, exposed)
    \/ spec.type = "smtp" /\ CheckSmtp(spec, readable)

\* One unsafe channel spoils them all.
BuildCodeChannels(specs, readable, exposed) == \A spec \in specs : CheckChannel(spec, readable, exposed)

------------------------------------------------------------------------
(* Where messages really go *)

\* Gmail delivers to a name however it is written; any other domain may deliver any of
\* its addresses to any of its mailboxes.
SameBox(a, b) ==
    \/ {a.domain, b.domain} \subseteq GmailDomains /\ a.name = b.name
    \/ a.domain = b.domain /\ a.domain \notin GmailDomains

SamePlace(p, q) == p.kind = q.kind /\ p.id = q.id

\* The assistant can read what is sent through the channel; a sent message stays with its
\* sender, too.
Open(spec, readable, briefs) ==
    IF spec.type = "smtp"
    THEN \E r \in readable : SameBox(spec.to, r) \/ SameBox(spec.from, r)
    ELSE \E p \in briefs : SamePlace(spec.place, p)

\* The channel and each brief that leads to its place write it in ways that stay apart.
WrittenApart(spec, briefs) ==
    /\ spec.type # "smtp"
    /\ \A p \in briefs : SamePlace(spec.place, p) => Spelling(spec.place) # Spelling(p)
=============================================================================
