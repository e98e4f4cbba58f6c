--------------------------- MODULE MCTimeline ---------------------------
(***************************************************************************)
(* One item, one event and two rows; an owner and a collaborator; the      *)
(* event loop and one browser.                                             *)
(***************************************************************************)
EXTENDS Timeline

CONSTANTS owner, helper

MCRank == [u \in Users |-> IF u = owner THEN Owner ELSE Collaborator]
==========================================================================
