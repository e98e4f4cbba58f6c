----------------------------- MODULE ToolTable -----------------------------
(***************************************************************************)
(* The gateway's MCP tools, as the server registers them.  A row says what *)
(* way the wrapper in server.py takes, which role the tool asks for, and   *)
(* whether it changes anything.                                            *)
(*                                                                         *)
(*   "call"     both limits, the role checked inside the tool, audited;    *)
(*   "checked"  both limits, the role checked before, audited;             *)
(*   "limited"  both limits and the role, never audited;                   *)
(*   "bare"     neither limits nor audit: the caller's own data, or a row  *)
(*              whose store keeps its own record of who did what.          *)
(***************************************************************************)
Rows(names, need, path, acts) ==
    [tool : names, need : {need}, path : {path}, acts : {acts}]

Prefixed(reads, writes, path) ==   \* readers read, collaborators write
    Rows(reads, "reader", path, FALSE) \union Rows(writes, "collaborator", path, TRUE)

AccountTools ==
    Rows({"whoami", "account_list", "account_scope_list"}, "none", "bare", FALSE)
    \union Rows({"account_link", "account_unlink", "account_scope_set"}, "none", "bare", TRUE)
    \union Rows({"onboarding_complete"}, "reader", "checked", TRUE)

LedgerTools ==
    Rows({"outbox_list", "outbox_get", "timeline_list"}, "reader", "bare", FALSE)
    \union Rows({"outbox_approve", "outbox_reject", "timeline_undo"}, "owner", "bare", TRUE)

SearchTools ==
    Rows({"search_all", "search_status"}, "reader", "bare", FALSE)
    \union Rows({"search_reindex"}, "owner", "limited", TRUE)

HelpTools == Rows({"capabilities"}, "none", "bare", FALSE)
             \union Rows({"next_suggestion"}, "none", "bare", TRUE)

FileTools == Rows({"files_list", "files_read", "files_search"}, "collaborator", "call", FALSE)
             \union Rows({"files_write"}, "collaborator", "call", TRUE)

MemoryTools == Prefixed({"memory_read", "memory_search", "memory_history"},
                        {"memory_write", "memory_set_status", "memory_append", "memory_revert"},
                        "call")

BacklogTools == Prefixed({"backlog_list", "backlog_get"},
                         {"backlog_add", "backlog_score", "backlog_comment"}, "call")
                \union Rows({"backlog_set_status", "backlog_assign"}, "owner", "call", TRUE)

\* A status report is written to the vault and committed on a reader's behalf.
PmTools == Prefixed({"pm_sprint_status", "pm_raid_list"}, {"pm_raid_add"}, "call")
           \union Rows({"pm_status_report"}, "reader", "call", TRUE)
           \union Rows({"pm_set_methodology", "pm_plan_sprint"}, "owner", "call", TRUE)

EngineTools ==
    Prefixed({"resource_list", "scenario_list", "pm_utilization", "pm_variance", "pm_report"},
             {"task_add", "task_estimate", "task_log_actual", "dependency_add", "scenario_add"},
             "call")
    \union Rows({"pm_whatif"}, "collaborator", "call", FALSE)
    \union Rows({"resource_add", "resource_availability", "resource_set_skill",
                 "milestone_add", "pm_allocate", "plan_commit"}, "owner", "call", TRUE)

SetupTools == Rows({"calendar_status"}, "reader", "limited", FALSE)
              \union Rows({"calendar_setup"}, "collaborator", "limited", TRUE)

CloudFileTools ==
    Rows({"contacts_search", "contacts_get"}, "reader", "call", FALSE)
    \union Rows({"nc_files_list", "nc_files_read", "nc_files_search"}, "collaborator", "call", FALSE)
    \union Rows({"nc_files_write", "nc_generate_report"}, "collaborator", "call", TRUE)

CloudTaskTools ==
    Prefixed({"nc_tasks_list"}, {"nc_tasks_add", "nc_tasks_complete"}, "call")
    \union Rows({"deck_sync", "notes_sync"}, "owner", "call", TRUE)

MailReadTools ==
    Rows({"email_list", "email_read", "email_search", "email_attachments",
          "email_attachment_get"}, "collaborator", "call", FALSE)
    \union Rows({"email_export_pdf"}, "collaborator", "call", TRUE)

MailSendTools == Rows({"email_create_draft"}, "collaborator", "call", TRUE)
                 \union Rows({"email_send"}, "owner", "call", TRUE)

\* Flags and moves take several boxes, each through limits and audit by itself.
MailBoxTools   == Rows({"email_set_flags", "email_archive", "email_move"}, "collaborator", "call", TRUE)
MailReplyTools == Rows({"email_forward", "email_reply"}, "owner", "call", TRUE)

CalendarTools ==
    Prefixed({"calendar_free_busy", "calendar_sources_list", "calendar_events_list"},
             {"calendar_source_set_enabled", "calendar_public_link_add",
              "calendar_public_link_remove", "calendar_event_override_set",
              "calendar_event_override_clear"}, "call")
    \union Rows({"calendar_list", "calendar_find_free"}, "collaborator", "call", FALSE)

BookingTools ==
    Prefixed({"calendar_working_hours_get", "calendar_booking_enabled_get",
              "calendar_meeting_type_list", "calendar_meeting_form_list"},
             {"calendar_working_hours_set", "calendar_schedule_set", "calendar_booking_enabled_set",
              "calendar_meeting_type_set", "calendar_meeting_type_delete",
              "calendar_meeting_form_set", "calendar_meeting_form_delete"}, "call")

EventTools == Rows({"calendar_create", "calendar_update"}, "collaborator", "call", TRUE)

MemberTools == Rows({"project_create"}, "none", "call", TRUE)
               \union Rows({"project_members"}, "owner", "call", FALSE)
               \union Rows({"project_member_set", "user_invite", "user_reset_link"}, "owner", "call", TRUE)

Table == UNION {AccountTools, LedgerTools, SearchTools, HelpTools, FileTools, MemoryTools,
                BacklogTools, PmTools, EngineTools, SetupTools, CloudFileTools, CloudTaskTools,
                MailReadTools, MailSendTools, MailBoxTools, MailReplyTools, CalendarTools,
                BookingTools, EventTools, MemberTools}

RowOf(t) == CHOOSE r \in Table : r.tool = t

\* Tools that take an idempotency key, and what a finished call of a tool leaves
\* behind: a timeline row, a search document, an event for the rules.
Keyed == {"email_send", "email_create_draft", "email_forward", "email_reply",
          "calendar_create", "calendar_update", "nc_tasks_add"}

OnTimeline == {"memory_write", "memory_append", "calendar_create", "backlog_add",
               "email_send", "email_forward", "email_reply"}

Indexed == {"memory_write", "memory_append", "backlog_add", "files_write", "nc_files_write"}

Published == {"backlog_set_status"}

Roles == <<"none", "reader", "collaborator", "owner">>
Rank(role) == CHOOSE k \in DOMAIN Roles : Roles[k] = role

Limited(t)      == RowOf(t).path # "bare"
CheckedFirst(t) == RowOf(t).path \in {"checked", "limited"}
Audited(t)      == RowOf(t).path \in {"call", "checked"}
=============================================================================
