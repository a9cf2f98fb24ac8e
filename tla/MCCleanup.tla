----------------------------- MODULE MCCleanup -----------------------------
(* definition team   { relation member: user | user:*   relation parent: team }  *)
(* definition folder { relation viewer: user | user:* | team#member }            *)
EXTENDS Cleanup, TLC

Entry(def, rel, type, sub) == [def |-> def, rel |-> rel, type |-> type, sub |-> sub]

Alphabetical == "folder" :> 1 @@ "team" :> 2 @@ "user" :> 3

SmallSchema == { Entry("folder", "viewer", "user", ""),
                 Entry("folder", "viewer", "team", "member"),
                 Entry("team", "member", "user", ""),
                 Entry("team", "parent", "team", "") }

SmallIds == [d \in {"folder", "team", "user"} |->
               CASE d = "folder" -> {"f"} [] d = "team" -> {"t"} [] d = "user" -> {"u", "*"}]

UserAndTeam == { [type |-> "user", id |-> "u"], [type |-> "team", id |-> "t"] }

\* An object whose ID variable was never set.
Unset == { [type |-> "team", id |-> ""] }
=============================================================================
