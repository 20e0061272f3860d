---------------------------- MODULE GrantCatalog ----------------------------
(***************************************************************************)
(* The catalogue of grants, the defaults of the seeded roles and what the  *)
(* grant editor of the web client shows of them.  Constant data kept in    *)
(* three files of two programs; the assumptions say that they fit.  A mask *)
(* of bits is the set of its actions.                                      *)
(***************************************************************************)

\* GRANT_CATALOG: the category of a grant and the actions it can have.
GRANT_CATALOG ==
    LET grant(category, actions) == [category |-> category, actions |-> actions]
        crud == {"READ", "CREATE", "UPDATE", "DELETE"}
        all == crud \cup {"MANAGE"}
    IN [clan |-> grant("clan", all \ {"CREATE"}),
        clan_member |-> grant("members", all),
        clan_role |-> grant("roles", all),
        clan_invite |-> grant("members", crud \ {"UPDATE"}),
        clan_game |-> grant("games", all \ {"UPDATE"}),
        event |-> grant("events", all),
        event_participation |-> grant("events", crud),
        training |-> grant("trainings", all),
        training_participation |-> grant("trainings", crud),
        league |-> grant("leagues", all),
        league_roster |-> grant("leagues", crud),
        chat_channel |-> grant("chat", all),
        chat_message |-> grant("chat", all),
        chat_emoji |-> grant("chat", all \ {"UPDATE"}),
        chat_sticker |-> grant("chat", all \ {"UPDATE"}),
        chat_call |-> grant("chat", {"READ", "CREATE"}),
        document |-> grant("documents", all \ {"UPDATE"}),
        audit_log |-> grant("moderation", {"READ"})]

\* ROLE_GRANT_DEFAULTS, with no action for a grant that a role does not name.
ROLE_GRANT_DEFAULTS ==
    LET read == {"READ"}
        write == {"READ", "CREATE"}
        crud == write \cup {"UPDATE", "DELETE"}
        trainer == [clan |-> read, clan_member |-> read, clan_game |-> read,
                    event |-> crud, event_participation |-> crud,
                    training |-> crud, training_participation |-> crud,
                    chat_channel |-> write, chat_message |-> write]
        member == [clan |-> read, clan_member |-> read,
                   event |-> read, event_participation |-> crud \ {"DELETE"},
                   training |-> read, training_participation |-> crud \ {"DELETE"},
                   chat_message |-> write, chat_emoji |-> read, chat_sticker |-> read]
        rows(role) == [g \in DOMAIN GRANT_CATALOG |-> IF g \in DOMAIN role THEN role[g] ELSE {}]
    IN [leader |-> [g \in DOMAIN GRANT_CATALOG |->
                      GRANT_CATALOG[g].actions \ (IF g = "clan" THEN {"DELETE"} ELSE {})],
        trainer |-> rows(trainer),
        member |-> rows(member)]

\* CATEGORY_ORDER: the groups the editor shows.
CATEGORY_ORDER ==
    {"clan", "members", "roles", "games", "events", "trainings", "leagues", "chat",
     "documents", "moderation"}

\* GrantEditor: a row for every grant of a group that is shown.
EditorRows == {g \in DOMAIN GRANT_CATALOG : GRANT_CATALOG[g].category \in CATEGORY_ORDER}

\* The rights of a seeded role as pairs of a grant and an action.
DefaultRights(key) ==
    UNION {{g} \X ROLE_GRANT_DEFAULTS[key][g] : g \in DOMAIN GRANT_CATALOG}

-----------------------------------------------------------------------------
\* No default exceeds the catalogue, and the leader has all that the roles
\* below have: setRoleGrants refuses a body that keeps a right its user lacks.
ASSUME DefaultsFit ==
    \A key \in DOMAIN ROLE_GRANT_DEFAULTS, g \in DOMAIN GRANT_CATALOG :
        /\ ROLE_GRANT_DEFAULTS[key][g] \subseteq GRANT_CATALOG[g].actions
        /\ ROLE_GRANT_DEFAULTS[key][g] \subseteq ROLE_GRANT_DEFAULTS["leader"][g]

\* Every grant that can be given or taken has a row in the editor.
ASSUME EveryGrantIsShown == EditorRows = DOMAIN GRANT_CATALOG
=============================================================================
