----------------------------- MODULE MCToolCall -----------------------------
EXTENDS ToolCall, TLC

\* Two processes on one data directory; one tool of each way through server.py.
MCRoleOf == [u \in Users |-> "collaborator"]
MCCalled == {"calendar_create", "search_reindex"}

Symmetric == Permutations(Instances) \union Permutations(Users)
=============================================================================
