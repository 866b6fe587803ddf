------------------------------ MODULE MCWebUI ------------------------------
(* The page with two sites and two tokens, and a user who keeps to the      *)
(* session and the updater, to the file editor, to uploads, or to the sites. *)
EXTENDS WebUI

Plan(controls, clicks) == [controls |-> controls, clicks |-> clicks]

MCPlans == {Plan({"login", "logout", "update", "reload"}, 2),
            Plan({"logout", "refresh"}, 2),
            Plan({"load", "edit", "save"}, 3),
            Plan({"name", "save"}, 3),
            Plan({"name", "choose", "load", "save"}, 2),
            Plan({"name", "select", "path", "choose"}, 2),
            Plan({"path", "local", "upload"}, 3),
            Plan({"refresh", "create", "delete", "choose", "domain", "rootPath"}, 2)}
=============================================================================
