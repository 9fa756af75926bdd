------------------------------ MODULE MCStudio ------------------------------
(* The Studio's requests on a small instance: one menu of routes for each way they meet. *)
EXTENDS Studio, TLC

\* A role that changes, the requests of each kind, the panel bridge, the media library, the lock.
MenusValue == {
    {"me", "user", "publish"},
    {"user", "list", "logout"},
    {"me", "create", "submit", "type"},
    {"me", "customize", "setting", "withdraw"},
    {"me", "moderate", "erase"},
    {"me", "backup", "restore", "enable"},
    {"types", "theme", "cve", "revisions"},
    {"library", "media", "locales", "preview", "themePreview"},
    {"members", "backups", "redirects"}, {"me", "redirect", "export"}, {"users", "settings", "db"}, {"audit", "plugins"},
    {"panel", "invoke", "logout"},
    {"me", "upload", "remove"},
    {"me", "migrate", "save"}, {"me", "password", "mfa"}}

Alike == Permutations(User) \cup Permutations(Request) \cup Permutations(Wizard)
=============================================================================
