--------------------------- MODULE MCJobScheduler ---------------------------
(* Three jobs: the second is urgent, the third is of another workspace.    *)
EXTENDS JobScheduler, TLC

TwoWorkspaces == {"w1", "w2"}
MCWorkspaceOf == 1 :> "w1" @@ 2 :> "w1" @@ 3 :> "w2"
MCQuotasOf == "w1" :> {1, 2} @@ "w2" :> {1}
MCTimesOf == 1 :> {0} @@ 2 :> {0, 1} @@ 3 :> {0}
MCPriorityOf == 1 :> 5 @@ 2 :> 1 @@ 3 :> 5
=============================================================================
