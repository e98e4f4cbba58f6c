---- MODULE MCSending ----
EXTENDS Sending, TLC

Ann(spelt, domain) == [name |-> "ann", spelt |-> spelt, domain |-> domain]
Bob(spelt, domain) == [name |-> "bob", spelt |-> spelt, domain |-> domain]
Mail(from, to)     == [type |-> "smtp", from |-> from, to |-> to, fit |-> TRUE]
Hook(written)      == [kind |-> "discord", id |-> "hook", written |-> written]

\* A mailbox at Gmail, one in a domain of the project's, one elsewhere; a webhook with a
\* mailbox and alone, and a topic too short.
MCConfigs == {
    {Mail(Bob("plain", "away.net"), Ann("tag", "googlemail.com"))},
    {Mail(Bob("plain", "away.net"), Bob("dots", "example.org"))},
    {Mail(Bob("plain", "away.net"), Ann("plain", "away.net")),
     [type |-> "webhook", place |-> Hook("otherwise"), fit |-> TRUE]},
    {[type |-> "discord", place |-> Hook("so"), fit |-> TRUE]},
    {[type |-> "ntfy", place |-> [kind |-> "ntfy", id |-> "topic", written |-> "so"], fit |-> FALSE]}}

MCProjects == {Ann("plain", "example.org")}
MCAccounts == {Ann("dots", "gmail.com"), Bob("tag", "away.net")}
MCBriefPlaces == {Hook("so"), Hook("apart")}

MCPlans == {<<"notify", "other">>, <<"email_send">>}

Post(type, kind, id, written, fit) ==
    [type |-> type, place |-> [kind |-> kind, id |-> id, written |-> written], fit |-> fit]
Brief(from) == [type |-> "email", from |-> from, to |-> "bob"]

MCSpecs == {Brief("pr1"), Brief("pr2"), Post("webhook", "discord", "hook", "otherwise", TRUE),
            Post("ntfy", "ntfy", "topic", "so", TRUE)}
MCLegacy == {{}, {Brief("pr1"), Post("webhook", "discord", "hook", "so", TRUE)},
             {Post("ntfy", "ntfy", "topic", "so", FALSE)}}

\* The lock, the rules and the briefs share nothing, so that they are looked at one at a time.
NoLock   == now + made = 0
NoRules  == \A r \in RuleIds : rules[r] = None
NoBriefs == vouched = {} /\ owns = {} /\ \A p \in Workers : Free(p)

ApartNext ==
    \/ NoRules /\ NoBriefs /\ LockNext /\ UNCHANGED <<ruleVars, channelVars>>
    \/ NoLock /\ NoBriefs /\ RulesNext /\ UNCHANGED <<now, lockVars, seenVars, channelVars>>
    \/ NoLock /\ NoRules /\ ChannelsNext /\ UNCHANGED <<now, lockVars, seenVars, ruleVars>>

ApartSpec == Init /\ [][ApartNext]_vars

Symmetry ==
    Permutations(Sessions) \union Permutations(Procs) \union Permutations(RuleIds) \union Permutations(Workers)
====
