---------------------------- MODULE ServerPages ----------------------------
(***************************************************************************)
(* The pages of the servers feature, in the words of PageTerms.            *)
(***************************************************************************)
EXTENDS ServerHooks

\* The pages of one server are shown below its header, which every save that changes
\* the server's record should reach.
ServerDeepLayout == {useServerDetail, useServerHeartbeat}

-----------------------------------------------------------------------------
(* ServersPage and the dashboard of one server. *)

ServerListDelete ==
    Flagged("isDeleting", [Handler(<<{"servers"}>>) EXCEPT !.shut = {"delete"}, !.loads = {"servers"}])

ServerList ==
    Of("servers", {Open("delete", ""), Go("server", ""), Pick("page", {"servers"})})
    \cup {[Close("delete") EXCEPT !.off = {"isDeleting"}], Run("delete", "delete", {"isDeleting"}, ServerListDelete)}

\* The page's own refresh button has no handler.
ServersPage == Page("ServersPage", {useServers}, {}, ServerList \cup {Reload("retry", {"servers"}), Go("add", "")})

ServerDashboard ==
    Page("ServerDashboard", ServerDeepLayout \cup
         {Polled(Query("dashboardMetrics", <<"server-dashboard", "metrics", "$server">>, {"metrics"})),
          Polled(Query("agentStatus", <<"server-dashboard", "agent-status", "$server">>, {"agent"}))},
         {}, {})

-----------------------------------------------------------------------------
(* ServerGeneralSettings.  The saved record comes back with the answer. *)

ServerGeneralSettingsLoad == Fills(Local("settings", {"agent"}), {"edited"})

ServerGeneralSettingsSave == Run("save", "", {"saving"}, Flagged("saving", Handler(<<{"servers"}>>)))

ServerGeneralSettingsForm ==
    Fields({"name", "hostname", "description", "environment", "tags", "ssh_user", "ssh_port"}, "edited", "")

ServerGeneralSettings ==
    Page("ServerGeneralSettings", ServerDeepLayout \cup {useServerMetrics, ServerGeneralSettingsLoad}, {"edited"},
         Of("settings", ServerGeneralSettingsForm \cup {ServerGeneralSettingsSave}))

-----------------------------------------------------------------------------
(* ServerServices, with the log drawer, the details and the install wizard. *)

handleAction == Flagged("actionLoading", Accepted(MutateAsync(useServiceAction)))

\* Row buttons wait for the flag, the menu of a row does not.
ServerServicesRows ==
    {Run("action", "", {"actionLoading"}, handleAction), Run("menu", "", {}, handleAction),
     [Open("confirm", "") EXCEPT !.off = {"actionLoading"}], Open("details", ""), Close("details")}

\* The confirmation for critical services closes before the call is made.
ServerServicesConfirm ==
    {Close("confirm"), [Run("confirm", "confirm", {}, handleAction) EXCEPT !.closes = {"confirm"}]}

\* Ticking the rows, all of them, or none.
toggleSelect == Fields({"toggleSelect", "toggleSelectAll"}, "selected", "") \cup {Mends("selected", "")}

\* Every selected service is sent its own command; the first answer takes the flag down,
\* the last one unticks whatever is ticked by then.
executeBulkAction == Finally("selected", handleAction)

\* Stopping or restarting a critical service among them is confirmed.
handleBulkAction ==
    {Run("bulk", "", {}, executeBulkAction), Open("bulkConfirm", ""), Close("bulkConfirm"),
     [Run("bulkConfirm", "bulkConfirm", {}, executeBulkAction) EXCEPT !.closes = {"bulkConfirm"}]}

ServerServicesBulk == toggleSelect \cup If({"selected"}, handleBulkAction)

ServerServicesToolbar ==
    Of("services", {[Reload("refresh", {"services"}) EXCEPT !.off = {"discoveryLoading"}],
                    Run("discovery", "", {"discoveryLoading"},
                        Flagged("discoveryLoading",
                                Accepted([Handler(<<{"services"}>>) EXCEPT !.loads = {"services"}])))})

ServiceLogDrawerLoad == Polled(Guarded(Local("serviceLogs", {"serviceLogs"})))

ServiceLogDrawer ==
    {[Open("logs", "") EXCEPT !.picks = {"serviceLogs"}], Close("logs"),
     [Pick("lines", {"serviceLogs"}) EXCEPT !.at = "logs"],
     [Reload("logs", {"serviceLogs"}) EXCEPT !.at = "logs"]}

\* The package is installed, then discovery is queued, then the list is fetched.
WizardInstall ==
    Flagged("installing",
            Accepted([Handler(<<{"packages"}, {"services"}>>) EXCEPT !.loads = {"services"}]))

WizardPlan ==
    Flagged("savingPlan", [Handler(<<{"installPlans"}>>) EXCEPT !.loads = {"services"}])

WizardSearch == Swallows(Guarded(Local("candidates", {"catalogue"})))

\* The steps of the wizard are the mode, the package, the review and the result.
WizardSteps == {"package", "review", "result"}

\* A mode is picked in the first step.  A plan is written without looking for a package.
WizardMode(mode, step, others) ==
    [Control(<<"mode", mode>>, "wizard") EXCEPT
        !.opens = {mode, step}, !.closes = others, !.off = WizardSteps]

\* The package is looked up by name, or typed in.
WizardPackage ==
    If({"package"}, {Edits("chosen", "wizard"), [Pick("package", {"candidates"}) EXCEPT !.at = "wizard"],
                     [Control(<<"back", "package">>, "wizard") EXCEPT !.closes = {"package"}]})
    \cup If({"package", "chosen"},
            {[Control(<<"next", "review">>, "wizard") EXCEPT !.opens = {"review"}, !.closes = {"package"}]})

WizardReview ==
    If({"review", "public"}, {[Control(<<"back", "review">>, "wizard") EXCEPT
                                 !.opens = {"package"}, !.closes = {"review"}]})
    \cup If({"review", "plan"}, {[Control(<<"back", "plan">>, "wizard") EXCEPT !.closes = {"review"}]}
                               \cup Fields({"privateArtifact", "relayHost", "relayPackage"}, "chosen", "wizard"))

\* Only the last step is left while the answer is awaited, and after it.
WizardSubmit ==
    {[c EXCEPT !.opens = {"result"}, !.closes = {"review"}] :
        c \in If({"review", "chosen", "public"}, {Run("install", "wizard", {"installing", "savingPlan"}, WizardInstall)})
              \cup If({"review", "chosen", "plan"}, {Run("plan", "wizard", {"installing", "savingPlan"}, WizardPlan)})}

\* Closing forgets what was filled in; the cross is there while a plan is saved.
AddServiceWizard ==
    {Open("wizard", ""), [Close("wizard") EXCEPT
                            !.closes = {"wizard", "chosen", "public", "plan"} \cup WizardSteps, !.off = {"installing"}],
     WizardMode("public", "package", {"plan"}), WizardMode("plan", "review", {"public"})}
    \cup WizardPackage \cup WizardReview \cup WizardSubmit

ServerServices ==
    Page("ServerServices", ServerDeepLayout \cup {useServerServices, ServiceLogDrawerLoad, WizardSearch},
         {"selected", "chosen", "public", "plan"} \cup WizardSteps,
         Of("services", ServerServicesRows \cup ServerServicesBulk) \cup ServerServicesConfirm
         \cup ServerServicesToolbar \cup ServiceLogDrawer \cup AddServiceWizard)

-----------------------------------------------------------------------------
(* ServerBackup. *)

ServerBackupCreate == Run("create", "", {"useCreateBackup"}, Accepted(MutateAsync(useCreateBackup)))

ServerBackupRestore == Finally("restore", Accepted(MutateAsync(useRestoreBackup)))

ServerBackupDelete == Finally("delete", MutateAsync(useDeleteBackup))

ServerBackupRows == Of("backups", {Open("restore", ""), Open("delete", "")})

\* Another copy of the two buttons, for the backup picked from the inventory.
ServerBackupSelected ==
    Of("backups", {[Control(<<"selected", m>>, "") EXCEPT !.opens = {m}] : m \in {"restore", "delete"}})

\* Where and how often backups are made is kept by the page alone: no call sends it.
ServerBackupPlan == Fields({"destinations", "scheduleType"}, "plan", "")

ServerBackup ==
    Page("ServerBackup", ServerDeepLayout \cup {useServerBackups}, {"plan"},
         {ServerBackupCreate, Reload("refresh", {"backups"})} \cup ServerBackupRows
         \cup ServerBackupSelected \cup ServerBackupPlan
         \cup ConfirmActionDialog("restore", {}, ServerBackupRestore)
         \cup ConfirmActionDialog("delete", {}, ServerBackupDelete))

-----------------------------------------------------------------------------
(* ServerFirewall and the editor of one rule. *)

\* Every changed answer replaces the order the user has dragged the rules into.
ServerFirewallRules == Fills(useFirewallRules, {"reordered"})

ServerFirewallToggle == Run("toggle", "", {}, MutateAsync(useUpdateFirewallRule))

ServerFirewallDelete == Finally("delete", MutateAsync(useDeleteFirewallRule))

\* Applying forgets the changes it found; the dragged order is not part of the call.
ServerFirewallApply ==
    Flagged("applying",
            Accepted([MutateAsync(useApplyFirewall) EXCEPT !.shut = {"hasChanges"}, !.loads = {"firewall"}]))

\* The bar that is shown while there are changes.
ServerFirewallChanges ==
    If({"hasChanges"}, {Run("apply", "", {"applying"}, ServerFirewallApply),
                        [Mends("hasChanges", "") EXCEPT !.closes = {"reordered", "hasChanges"}]})

\* A default that is changed only counts as a change: no call sends it.
handlePolicyChange == Fields({"defaultInbound", "defaultOutbound"}, "hasChanges", "")

\* The rows are dragged into another order, switched on and off, edited and deleted.
SortableRuleRow ==
    {[Edits("reordered", "") EXCEPT !.opens = {"reordered", "hasChanges"}],
     ServerFirewallToggle, Go("rule", ""), Open("delete", "")}

ServerFirewall ==
    Page("ServerFirewall", ServerDeepLayout \cup {ServerFirewallRules}, {"reordered", "hasChanges"},
         {Reload("refresh", {"firewall"}), Go("add", "")} \cup handlePolicyChange
         \cup Of("firewall", SortableRuleRow)
         \cup ServerFirewallChanges \cup ConfirmActionDialog("delete", {}, ServerFirewallDelete))

FirewallRuleEditorLoad == Fills(Local("rule", {"firewall"}), {"edited"})

\* Saving goes back to the list.
FirewallRuleEditorSave ==
    Run("save", "", {"saving"}, Flagged("saving", [Handler(<<{"firewall"}>>) EXCEPT !.exit = TRUE]))

FirewallRuleEditorTest ==
    Run("test", "", {"isTesting"}, Flagged("isTesting", Accepted(Handler(<<{"connectivity"}>>))))

FirewallRuleEditorForm ==
    Fields({"direction", "action", "protocol", "port", "source", "note"}, "edited", "")

FirewallRuleEditor ==
    Page("FirewallRuleEditor", ServerDeepLayout \cup {FirewallRuleEditorLoad}, {"edited"},
         Of("rule", FirewallRuleEditorForm
                    \cup {FirewallRuleEditorSave, FirewallRuleEditorTest, Go("back", "")}))

-----------------------------------------------------------------------------
(* ServerCron and the editor of one job. *)

ServerCronToggle == Run("toggle", "", {}, MutateAsync(useUpdateCronJob))

ServerCronDelete == Finally("delete", MutateAsync(useDeleteCronJob))

\* The page itself refreshes the list once the run is queued.
ServerCronRun ==
    Run("runNow", "", {"runningJobs"},
        Flagged("runningJobs",
                Accepted([MutateAsync(useExecuteCronJob) EXCEPT !.keys = {serverKeys("cron")}])))

ServerCronLogs == {[Open("logs", "") EXCEPT !.picks = {"cronHistory"}], Close("logs")}

ServerCron ==
    Page("ServerCron", ServerDeepLayout \cup {useServerCron, useCronHistory}, {},
         {Reload("refresh", {"cron"}), Go("edit", "")} \cup ServerCronLogs
         \cup Of("cron", {ServerCronToggle, ServerCronRun, Open("delete", "")})
         \cup ConfirmActionDialog("delete", {}, ServerCronDelete))

\* A job that cannot be loaded takes the user back to the list of jobs.
ServerCronEditorLoad == Flees(Fills(Local("job", {"cron"}), {"edited"}))

ServerCronEditorSave ==
    Run("save", "", {"saving"}, Flagged("saving", [Handler(<<{"cron"}>>) EXCEPT !.exit = TRUE]))

ServerCronEditorDelete ==
    Finally("delete", Flagged("saving", [Handler(<<{"cron"}>>) EXCEPT !.exit = TRUE]))

ServerCronEditorForm ==
    Fields({"name", "command", "user", "working_dir", "description", "schedule"}, "edited", "")

ServerCronEditorPage ==
    Page("ServerCronEditorPage", ServerDeepLayout \cup {ServerCronEditorLoad}, {"edited"},
         Of("job", ServerCronEditorForm \cup {ServerCronEditorSave, [Open("delete", "") EXCEPT !.off = {"saving"}],
                    [Go("cancel", "") EXCEPT !.off = {"saving"}]})
         \cup ConfirmActionDialog("delete", {"saving"}, ServerCronEditorDelete))

-----------------------------------------------------------------------------
(* ServerUsers.  A handler's reload, which it awaits, is counted with its end. *)

ServerUsersLoad == Local("access", {"accounts"})

\* The action on an account, and the form it was sent from.
AccountAction(form, flag) ==
    Flagged(flag, Awaited([Handler(<<{"accounts"}>>) EXCEPT !.loads = {"access"}, !.shut = form]))

submitUserAction == Run("userForm", "", {"userActionLoading"}, AccountAction({"userForm"}, "userActionLoading"))

submitGroupAction == Run("groupForm", "", {"groupActionLoading"}, AccountAction({"groupForm"}, "groupActionLoading"))

deleteUser ==
    ConfirmActionDialog("deleteUser", {"userActionLoading"},
                        Finally("deleteUser", AccountAction({}, "userActionLoading")))

deleteGroup ==
    ConfirmActionDialog("deleteGroup", {"groupActionLoading"},
                        Finally("deleteGroup", AccountAction({}, "groupActionLoading")))

\* A row's edit button fills the form, also while an action is under way.
editUser == [Control(<<"row", "userForm">>, "") EXCEPT !.opens = {"userForm"}]

editGroup == [Control(<<"row", "groupForm">>, "") EXCEPT !.opens = {"groupForm"}]

AccountFields(names, form, flag) == {[c EXCEPT !.off = {flag}] : c \in Fields(names, form, "")}

ServerUsersUserForm ==
    AccountFields({"target", "rename_to", "home", "shell", "password", "groups", "ssh_key", "remove_home",
                   "uid", "system"}, "userForm", "userActionLoading")
    \cup {Mends("userForm", "")} \cup If({"userForm"}, {submitUserAction})

ServerUsersGroupForm ==
    AccountFields({"groupTarget", "groupRename_to", "members", "gid"}, "groupForm", "groupActionLoading")
    \cup {Mends("groupForm", "")} \cup If({"groupForm"}, {submitGroupAction})

ServerUsersRows == Of("access", {editUser, Open("deleteUser", "")})

ServerUsersGroupRows == Of("access", {editGroup, Open("deleteGroup", "")})

ServerUsers ==
    Page("ServerUsers", ServerDeepLayout \cup {ServerUsersLoad}, {"userForm", "groupForm"},
         {[Reload("refresh", {"access"}) EXCEPT
             !.off = {"access", "userActionLoading", "groupActionLoading"}]}
         \cup ServerUsersUserForm \cup ServerUsersRows \cup ServerUsersGroupForm \cup ServerUsersGroupRows
         \cup deleteUser \cup deleteGroup)

-----------------------------------------------------------------------------
(* ServerSSHKeys. *)

SSHKeysUsers == Swallows(Local("users", {"accounts"}))

\* The keys of one user; an answer is shown whichever user is chosen by then.
SSHKeysLoad == Joins(Swallows(Local("keys", {"sshKeys"})))

SSHKeyAction(flag, dialog) ==
    Flagged(flag, Awaited([Handler(<<{"sshKeys"}>>) EXCEPT !.shut = dialog, !.loads = {"keys"}]))

\* The user can be changed in the dialog too, where nothing waits for the load.
SSHKeysAdd ==
    {Open("add", ""), Close("add"), Edits("newKey", "add"), [Pick("target", {"keys"}) EXCEPT !.at = "add"]}
    \cup If({"newKey"}, {Run("add", "add", {"addLoading"}, SSHKeyAction("addLoading", {"newKey", "add"}))})

SSHKeysGenerate ==
    {Open("generate", ""), Close("generate"),
     Run("generate", "generate", {"genLoading"}, SSHKeyAction("genLoading", {"generate"}))}

SSHKeyCard == Of("keys", {Open("delete", "")})

SSHKeysDelete ==
    ConfirmActionDialog("delete", {"deleteLoading"}, SSHKeyAction("deleteLoading", {"delete"}))

UserDropdown == [Pick("user", {"keys"}) EXCEPT !.off = {"keys"}]

ServerSSHKeys ==
    Page("ServerSSHKeys", ServerDeepLayout \cup {SSHKeysUsers, SSHKeysLoad}, {"newKey"},
         {UserDropdown, [Reload("refresh", {"keys"}) EXCEPT !.off = {"keys"}]}
         \cup SSHKeyCard \cup SSHKeysAdd \cup SSHKeysGenerate \cup SSHKeysDelete)

-----------------------------------------------------------------------------
(* Packages, processes, the terminal and storage. *)

ServerPackagesLoad == Local("packages", {"packages"})

\* Suggestions are looked up for the typed name; what fails is replaced by what is known.
ServerPackagesSuggest == Swallows(Guarded(Local("suggestions", {"catalogue"})))

runPackageAction ==
    Run("action", "", {"packages", "actionLoading"},
        Flagged("actionLoading", Awaited([Handler(<<{"packages"}>>) EXCEPT !.loads = {"packages"}])))

ServerPackages ==
    Page("ServerPackages", ServerDeepLayout \cup {ServerPackagesLoad, ServerPackagesSuggest}, {},
         {[Reload("refresh", {"packages"}) EXCEPT !.off = {"packages", "actionLoading"}],
          [Pick("name", {"suggestions"}) EXCEPT !.off = {"packages", "actionLoading"}],
          runPackageAction})

ServerProcessesLoad == Local("processes", {"processes"})

ServerProcessesKill ==
    Run("kill", "", {}, Awaited([Handler(<<{"processes"}>>) EXCEPT !.loads = {"processes"}]))

ServerProcesses ==
    Page("ServerProcesses", ServerDeepLayout \cup {ServerProcessesLoad}, {},
         {[Reload("refresh", {"processes"}) EXCEPT !.off = {"processes"}]}
         \cup Of("processes", {ServerProcessesKill}))

\* The typed command is cleared when its output is there.
runCommand == Flagged("running", Awaited([Handler(<<{"node"}>>) EXCEPT !.shut = {"command"}]))

\* The button waits for the command under way, the Enter key does not.
ServerTerminal ==
    Page("ServerTerminal", ServerDeepLayout, {"command"},
         {Edits("command", "")}
         \cup If({"command"}, {Run("button", "", {"running"}, runCommand), Run("enter", "", {}, runCommand)}))

ServerStorageLoad == Joins(Local("storage", {"disks", "files"}))

\* The content of the file picked last, or of an earlier one that answers later.
ServerStorageRead == Local("file", {"fileText"})

ServerStorageChmod ==
    {Open("chmod", ""), Close("chmod"),
     Run("chmod", "chmod", {}, Awaited([Handler(<<{"files"}>>) EXCEPT !.shut = {"chmod"}]))}

refreshDisks ==
    Run("refreshDisks", "", {"storage"}, Accepted([Handler(<<{"disks"}>>) EXCEPT !.loads = {"storage"}]))

ServerStorage ==
    Page("ServerStorage", ServerDeepLayout \cup {ServerStorageLoad, ServerStorageRead}, {"chmod"},
         {[Pick("path", {"storage"}) EXCEPT !.off = {"storage"}], refreshDisks}
         \cup Of("storage", {Pick("read", {"file"})} \cup ServerStorageChmod))

-----------------------------------------------------------------------------
(* Pages that only show. *)

ServerMonitoring ==
    Page("ServerMonitoring", ServerDeepLayout \cup {Local("monitoring", {"metrics", "disks"})}, {},
         {[Reload("refresh", {"monitoring"}) EXCEPT !.off = {"monitoring"}]})

\* The filters are part of the request, and an answer is shown whatever they are by then.
ServerAuditLogs ==
    Page("ServerAuditLogs", ServerDeepLayout \cup {Local("auditLogs", {"audit"})}, {},
         {Pick("filter", {"auditLogs"}), [Reload("refresh", {"auditLogs"}) EXCEPT !.off = {"auditLogs"}]})

ServerNetwork == Page("ServerNetwork", ServerDeepLayout \cup {useServerNetworkInterfaces}, {}, {})

ServerPages ==
    {ServersPage, ServerDashboard, ServerGeneralSettings, ServerServices, ServerBackup,
     ServerFirewall, FirewallRuleEditor, ServerCron, ServerCronEditorPage, ServerUsers,
     ServerSSHKeys, ServerPackages, ServerProcesses, ServerTerminal, ServerStorage,
     ServerMonitoring, ServerAuditLogs, ServerNetwork}
=============================================================================
