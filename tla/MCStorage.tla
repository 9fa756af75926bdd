----------------------------- MODULE MCStorage -----------------------------
(***************************************************************************)
(* The storages on small instances: a behaviour uses either the file       *)
(* system storage or one of the database storages.                         *)
(***************************************************************************)
EXTENDS FileStore, Adapters

CONSTANT Storages    \* what a behaviour may use: "files", or a database for "walks" or "transactions"

Touched == 2    \* documents that a transaction writes, where it keeps a journal
VARIABLE storage     \* the one it uses

\* A content type 1, an entry 2 and its revision 3; users 4 and 5 and a session 6; settings 7 to 9.
MCTableOf == <<"content_types", "content_entries", "revisions", "users", "users", "sessions",
               "settings", "settings", "settings">>
MCParentOf == <<0, 1, 2, 0, 0, 4, 0, 0, 0>>
MCScene == {{1, 2, 3}, {4, 5, 6}, {7, 8, 9}}

Doc(mail, flag, since, more) == [mail |-> mail, flag |-> flag, since |-> since, more |-> more]
Simple == {Doc("none", "absent", "null", "absent")}
MCDocs == <<Simple,
            {Doc("none", "absent", "null", "true"), Doc("none", "false", "date", "absent")},
            Simple,
            {Doc("a@", "false", "null", "absent")},
            {Doc(m, "true", "null", "absent") : m \in {"a@", "b@"}},
            Simple,
            Simple, {Doc("none", f, "null", "true") : f \in {"true", "false"}}, Simple>>
MCFilters == {<<"content_entries", "flag", "false">>, <<"content_entries", "more", "true">>,
              <<"users", "any", "any">>, <<"settings", "any", "any">>, <<"settings", "flag", "true">>}

StorageInit ==
    /\ FileInit /\ AdapterInit /\ storage \in Storages
    /\ storage = "files" => backend = "documents" /\ 1 \in ids
StorageNext ==
    \/ storage = "files" /\ FileNext /\ UNCHANGED <<adapterVars, storage>>
    \/ storage # "files" /\ AdapterNext /\ UNCHANGED <<fileVars, storage>>
       /\ (storage = "walks" => tx' = NoTx /\ call'["tx"] = Idle)
       /\ (storage = "transactions" => walk' = NoWalk /\ Len(tx'.journal) <= Touched /\
              (tx.at # "none" /\ ~tx.alone => call["other"] # Idle \/ call'["other"] = Idle))
StorageSpec == StorageInit /\ [][StorageNext]_<<fileVars, adapterVars, storage>>
=============================================================================
