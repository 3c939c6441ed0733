---------------------------- MODULE ServerHooks ----------------------------
(***************************************************************************)
(* The hooks of the server pages.  An action that the API only accepts     *)
(* (the agent executes it later) is marked Accepted; one whose command the *)
(* page polls until its result is there, Awaited.                          *)
(***************************************************************************)
EXTENDS PageTerms

serverKeys(kind) == <<"servers", kind, "$server">>
serverAll == <<"servers">>

\* unwrapAction: the answer says that the command was accepted.
Accepted(op) == [op EXCEPT !.via = "accept"]

\* resolveCommandAction: the command is polled until it has a result or time is up.
Awaited(op) == [op EXCEPT !.via = "poll"]

-----------------------------------------------------------------------------
(* Queries. *)

useServers == Query("servers", <<"servers", "list", "$filter">>, {"servers"})

useServerDetail == Query("server", serverKeys("detail"), {"servers"})

useServerMetrics == Polled(Query("metrics", serverKeys("metrics"), {"metrics"}))

\* A failed check is reported as an unhealthy server.
useServerHeartbeat == Swallows(Polled(Query("heartbeat", serverKeys("heartbeat"), {"health"})))

useServerServices == Query("services", serverKeys("services"), {"services"})

useServerCron == Query("cron", serverKeys("cron"), {"cron"})

useCronHistory == Query("cronHistory", <<"cronjobs", "history", "$cron">>, {"cronHistory"})

useServerBackups == Query("backups", serverKeys("backup"), {"backups"})

useServerNetworkInterfaces ==
    Query("interfaces", <<"servers", "network", "interfaces", "$server">>, {"interfaces"})

useFirewallRules == Query("firewall", serverKeys("firewall"), {"firewall"})

-----------------------------------------------------------------------------
(* Mutations. *)

useServiceAction == Mutation("useServiceAction", {"services"}, {serverKeys("services")})

useUpdateCronJob == Mutation("useUpdateCronJob", {"cron"}, {serverAll})

useDeleteCronJob == Mutation("useDeleteCronJob", {"cron"}, {serverKeys("cron")})

\* A run is added to the job's history; the hook refreshes nothing.
useExecuteCronJob == Mutation("useExecuteCronJob", {"cron", "cronHistory"}, {})

useCreateBackup == Mutation("useCreateBackup", {"backups"}, {serverKeys("backup")})

useRestoreBackup == Mutation("useRestoreBackup", {"backups"}, {})

useDeleteBackup == Mutation("useDeleteBackup", {"backups"}, {serverKeys("backup")})

useUpdateFirewallRule == Mutation("useUpdateFirewallRule", {"firewall"}, {serverKeys("firewall")})

useDeleteFirewallRule == Mutation("useDeleteFirewallRule", {"firewall"}, {serverKeys("firewall")})

\* Applying sends the rules to the node; the list itself stays as it is.
useApplyFirewall == Mutation("useApplyFirewall", {"nodeFirewall"}, {})
=============================================================================
