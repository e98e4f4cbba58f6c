------------------------------ MODULE Sending ------------------------------
(***************************************************************************)
(* What Memaix sends out: mail from chat sessions, which their owner has   *)
(* to unlock, what rules do when nobody is there to unlock anything, and   *)
(* where the daily briefs go.                                              *)
(***************************************************************************)
EXTENDS SendLock, Rules, BriefChannels

vars == <<now, lockVars, seenVars, ruleVars, channelVars>>

Init == LockInit /\ RulesInit /\ ChannelsInit

Next ==
    \/ LockNext /\ UNCHANGED <<ruleVars, channelVars>>
    \/ RulesNext /\ UNCHANGED <<now, lockVars, seenVars, channelVars>>
    \/ ChannelsNext /\ UNCHANGED <<now, lockVars, seenVars, ruleVars>>

Spec == Init /\ [][Next]_vars
=============================================================================
