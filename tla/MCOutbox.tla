---------------------------- MODULE MCOutbox ----------------------------
(***************************************************************************)
(* One row, two requests in flight, two owners and a collaborator.         *)
(***************************************************************************)
EXTENDS Outbox

CONSTANTS owner, helper

MCRank == [u \in Users |-> IF u = owner THEN Owner ELSE Collaborator]
==========================================================================
