--------------------------- MODULE MCConsolePages ---------------------------
(***************************************************************************)
(* The pages of the console, one at a time, and what they are known to do. *)
(***************************************************************************)
EXTENDS DockerPages, KubernetesPages, ServerPages, AdminPages, ConsolePage

MCPages ==
    LET runtimes == DockerPages \cup KubernetesPages
        platform == ServerPages \cup AdminPages
    IN  runtimes \cup platform

Perms == Permutations(Slots)

\* Endpoints that change more than their hook refreshes.  On the two Docker detail
\* pages the handler refreshes through the QueryClient of core/api-client; a manifest
\* in an editor and kubectl's description of a node are loaded once.
RuntimeGaps ==
    UNION {Leaves("ContainerDetailPage", "upload", {"file", "files"}),
           Leaves("ContainerDetailPage", "extract", {"file", "files"}),
           Leaves("ContainerDetailPage", "save", {"files"}),
           Leaves("ImagesPage", "deleteTag", {"catalog"}),
           Leaves("ServiceDetailPage", "scale", {"service"}),
           Leaves("StacksPage", "delete", {"services"}),
           Leaves("StacksPage", "startStop", {"services"}),
           Leaves("VolumeDetailPage", "upload", {"file", "files"}),
           Leaves("VolumeDetailPage", "save", {"files"}),
           Leaves("PodsPage", "applyYaml", {"yaml"}), Leaves("GenericK8sResourcePage", "saveYaml", {"yaml"}),
           UNION {Leaves("KubernetesNodesPage", a, {"describe"}) :
                     a \in {"cordon", "uncordon", "drain", "debug"}}}

\* Commands the API only accepts (the list is fetched before the agent has executed
\* them), and calls after which nothing is fetched.
ManagementGaps ==
    UNION {Leaves("ServerBackup", "create", {"backups"}), Leaves("ServerBackup", "restore", {"backups"}),
           Leaves("ServerCron", "runNow", {"cron", "cronHistory"}),
           Leaves("ServerGeneralSettings", "save", {"server"}),
           UNION {Leaves("ServerServices", a, {"services"}) :
                     a \in {"action", "bulk", "bulkConfirm", "confirm", "discovery", "install", "menu"}},
           Leaves("ServerStorage", "chmod", {"storage"}), Leaves("ServerStorage", "refreshDisks", {"storage"}),
           UNION {Leaves("UsersPage", a, {"users"}) : a \in {"create", "update", "delete", "deleteSelected"}},
           UNION {Leaves("TeamsPage", a, {"teams"}) : a \in {"create", "delete", "deleteSelected"}},
           UNION {Leaves("RolesPage", a, {"roles"}) : a \in {"delete", "deleteSelected"}},
           Leaves("NotificationsPage", "clearAll", {"notifications"})}

MCGaps == RuntimeGaps \cup ManagementGaps

\* Controls that nothing disables while their call is under way: plain buttons, and
\* confirmations that are given pending={false}.
PlainDoubles ==
    UNION {Runs("AutoHealPage", {"delete", "deleteEdited", "runAll"}),
           Runs("ContainerDetailPage", {"extract", "save", "upload"}),
           Runs("ImagesPage", {"deleteTag"}), Runs("NetworkDetailPage", {"detach"}),
           Runs("NetworksPage", {"create", "edit"}), Runs("ServiceDetailPage", {"restart", "scale"}),
           Runs("StackEditorPage", {"deleteSecret"}),
           Runs("StacksPage", {"restart", "scale", "startStop"}),
           Runs("VolumeDetailPage", {"backup", "clone", "deleteFile", "save", "upload"}),
           Runs("VolumesPage", {"create", "edit"}),
           Runs("DeploymentsPage", {"scale", "restart"}), Runs("GenericK8sResourcePage", {"bulk", "delete"}),
           Runs("HelmReleasesPage", {"uninstall"}), Runs("NamespacesPage", {"delete"}),
           Runs("PodsPage", {"delete"}),
           Runs("ServerBackup", {"delete", "restore"}), Runs("ServerCron", {"delete", "toggle"}),
           Runs("ServerFirewall", {"delete", "toggle"}), Runs("ServerProcesses", {"kill"}),
           Runs("ServerServices", {"bulk", "bulkConfirm", "menu"}), Runs("ServerStorage", {"chmod", "refreshDisks"}),
           Runs("ServerTerminal", {"enter"}),
           UNION {Runs(p, {"delete", "deleteSelected"}) : p \in {"UsersPage", "RolesPage", "TeamsPage"}},
           Runs("UserProfilePage", {"theme", "sameTheme"}), Runs("TagsPage", {"delete"}), Runs("ApplicationsPage", {"delete"}),
           Runs("NotificationsPage", {"read", "unread", "status", "delete", "detailRead", "detailUnread",
                                      "detailStatus", "clearAll", "markAllRead"})}

\* Controls whose lock another one takes away.  isPending is that of the hook's latest
\* call, which a control that the hook does not disable may have made; and of several
\* flags in one variable, or of two controls with one flag, the second call replaces or
\* ends what the first one raised.
SharedLocks ==
    UNION {Runs("NetworkDetailPage", {"attach"}), Runs("StacksPage", {"delete"}), Runs("AutoHealPage", {"runOne"}),
           Runs("ServerServices", {"action", "confirm"}), Runs("ServerTerminal", {"button"}),
           Runs("UserProfilePage", {"profile", "security", "preferences"}),
           Runs("GeneralSettingsPage", {"backup", "filters", "application", "runtime", "integrations"})}

MCDoubles == PlainDoubles \cup SharedLocks

\* Dialogs, panels and forms that can be shut and opened again, or aimed at something
\* else, while their call is under way.
MCClosers ==
    UNION {Runs("AutoHealPage", {"deleteEdited", "save"}), Runs("BuildArtifactsPage", {"build", "import", "rebuild"}),
           Runs("ContainersPage", {"commit", "kill"}), Runs("ImagesPage", {"move", "retag"}),
           Runs("NetworksPage", {"create", "delete", "edit"}), Runs("StackEditorPage", {"rollback", "saveSecret"}),
           Runs("StacksPage", {"delete"}), Runs("VolumesPage", {"create", "delete", "edit"}),
           Runs("GenericK8sResourcePage", {"bulk", "delete"}),
           Runs("HelmReleasesPage", {"install"}), Runs("NamespacesPage", {"delete"}), Runs("PodsPage", {"delete"}),
           Runs("ServerBackup", {"delete", "restore"}), Runs("ServerCron", {"delete"}),
           Runs("ServerFirewall", {"apply", "delete"}), Runs("ServerSSHKeys", {"add", "delete", "generate"}),
           Runs("ServerServices", {"bulk", "bulkConfirm"}), Runs("ServerStorage", {"chmod"}),
           Runs("ServerTerminal", {"button", "enter"}),
           Runs("ServerUsers", {"userForm", "groupForm", "deleteUser", "deleteGroup"}),
           UNION {Runs(p, {"create", "update", "delete", "deleteSelected"}) :
                     p \in {"UsersPage", "RolesPage", "TeamsPage"}},
           Runs("LicenseSettingsPage", {"generate", "profile"}),
           Runs("NotificationsPage", {"announcement", "preferences"}), Runs("RegistriesPage", {"delete", "save"}),
           Runs("TagsPage", {"save"}), Runs("ApplicationsPage", {"save"})}

\* Editors that navigate when the answer arrives, wherever the user is; editing a
\* namespace does when its manifest has been read, and the editor of a cron job when the
\* job cannot be loaded.
MCYankers ==
    UNION {Runs("NamespacesPage", {"edit"}), Runs("FirewallRuleEditor", {"save"}),
           Runs("ServerCronEditorPage", {"save", "delete"}), {<<"ServerCronEditorPage", <<"load", "job">>>>}}

\* Forms and editors that an answer fills again.
MCWipers ==
    {<<"BuildArtifactsPage", "builds">>, <<"ContainerDetailPage", "file">>, <<"EditContainerPage", "config">>,
     <<"StackEditorPage", "stack">>, <<"VolumeDetailPage", "file">>,
     <<"GenericK8sResourcePage", "yaml">>, <<"PodsPage", "yaml">>,
     <<"ServerFirewall", "firewall">>, <<"UsersPage", "users">>, <<"RolesPage", "roles">>,
     <<"TeamsPage", "teams">>, <<"GeneralSettingsPage", "settings">>, <<"LicenseSettingsPage", "license">>,
     <<"NotificationRoutingRulesPage", "rules">>, <<"NotificationsPage", "preferences">>,
     <<"EdgeComputeSettingsPage", "edge">>, <<"UserProfilePage", "settings">>}

\* Loads that keep whichever answer comes last: of another choice, or of the same one
\* from before a change.
MCRacers ==
    {<<"GenericK8sResourcePage", "yaml">>, <<"ConfigMapDetailPage", "yaml">>,
     <<"ServerAuditLogs", "auditLogs">>, <<"ServerSSHKeys", "keys">>, <<"ServerStorage", "file">>,
     <<"ServerUsers", "access">>, <<"ServerProcesses", "processes">>, <<"UsersPage", "users">>,
     <<"RolesPage", "roles">>, <<"TeamsPage", "teams">>,
     <<"ApplicationsPage", "applications">>, <<"TagsPage", "tags">>, <<"EdgeComputeSettingsPage", "edge">>,
     <<"GeneralSettingsPage", "settings">>, <<"LicenseSettingsPage", "license">>,
     <<"NotificationRoutingRulesPage", "rules">>, <<"NotificationsPage", "notifications">>,
     <<"NotificationsPage", "preferences">>, <<"UserProfilePage", "settings">>}

\* Live lists keep the items of the namespace before when the new socket fails.
MCFrozen ==
    {<<"PodsPage", "livePods">>, <<"DeploymentsPage", "liveDeployments">>,
     <<"ServicesPage", "liveServices">>, <<"KubernetesNodesPage", "liveNodes">>,
     <<"GenericK8sResourcePage", "liveResources">>}
=============================================================================
