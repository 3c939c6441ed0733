----------------------------- MODULE AdminPages -----------------------------
(***************************************************************************)
(* The pages of the console that manage accounts, settings, notifications  *)
(* and the catalogue, and its dashboards, in the words of PageTerms.       *)
(***************************************************************************)
EXTENDS KubernetesHooks, ServerHooks

-----------------------------------------------------------------------------
(* UsersPage, RolesPage and TeamsPage: a list beside the form of the       *)
(* record that is selected, or of a new one ("creating").  "draft" is a    *)
(* form with unsaved input, "aimed" that the user picked a record.         *)

\* A new form, a row picked, the form put back.
FormControls(list) ==
    {[Control(<<"new", list>>, "") EXCEPT !.opens = {"creating"}, !.closes = {"draft", "aimed"}],
     [Control(<<"reset", list>>, "") EXCEPT !.closes = {"draft"}]}
    \cup Of(list, {[Control(<<"row", list>>, "") EXCEPT
                      !.opens = {"aimed"}, !.closes = {"draft", "creating"}, !.off = {list}]})

\* Paging, searching and sorting load the list again; whichever answer is last stays.
ListControls(list) == {Pick("filter", {list})}

\* The confirmation is given pending={false}; deleting the selected record also aims the
\* form at the first one that is left.
DeleteDialog(list, op) ==
    Of(list, {[Open("delete", "") EXCEPT !.off = {list}]})
    \cup ConfirmActionDialog("delete", {}, Finally("delete", op))
    \cup {Run("deleteSelected", "delete", {}, Reaims({"aimed"}, [Finally("delete", op) EXCEPT
                                                !.shut = @ \cup {"draft"}]))}

\* The create and the update branch of handleSubmit; the button waits for isSaving.
SubmitButtons(list, create, update) ==
    If({"creating"}, {Run("create", "", {"isSaving"}, Flagged("isSaving", create))})
    \cup Of(list, {Run("update", "", {"isSaving", "creating"}, Flagged("isSaving", update))})

FormFacts == {"creating", "draft", "aimed"}

UsersPageLoad == FillsWhile(Local("users", {"users"}), "creating", {"creating", "draft"})

\* A created user is put behind the users the handler saw, and selected.
UsersPageCreate ==
    Patches({"users"}, [Handler(<<{"users"}>>) EXCEPT !.shut = {"creating", "draft"}])

\* An updated one replaces its row in the users the handler saw.  It is selected again,
\* whatever form is filled in by then.
UsersPageUpdate == Reaims({"aimed"}, Patches({"users"}, Handler(<<{"users"}>>)))

UsersPageDelete == Patches({"users"}, Handler(<<{"users"}>>))

UsersPageForm ==
    Fields({"username", "full_name", "email", "password", "toggleRole", "toggleTeam", "is_active"}, "draft", "")

UsersPage ==
    Page("UsersPage", {UsersPageLoad}, FormFacts,
         UsersPageForm \cup FormControls("users") \cup ListControls("users") \cup DeleteDialog("users", UsersPageDelete)
         \cup SubmitButtons("users", UsersPageCreate, UsersPageUpdate))

RolesPageLoad == FillsWhile(Local("roles", {"roles"}), "creating", {"creating", "draft"})

\* The saved role replaces its row and fills the form.
RolesPageSave ==
    Merges({"roles"}, [Handler(<<{"roles"}>>) EXCEPT !.shut = {"creating", "draft"}])

RolesPageDelete == Patches({"roles"}, Handler(<<{"roles"}>>))

RolesPageForm == Fields({"name", "slug", "description"}, "draft", "")

\* One permission, or all of a category.
RolesPagePermissions == Fields({"togglePermission", "toggleAllInCategory"}, "draft", "")

RolesPage ==
    Page("RolesPage", {RolesPageLoad}, FormFacts,
         RolesPageForm \cup RolesPagePermissions \cup FormControls("roles") \cup ListControls("roles") \cup DeleteDialog("roles", RolesPageDelete)
         \cup SubmitButtons("roles", RolesPageSave, RolesPageSave))

TeamsPageLoad == FillsWhile(Local("teams", {"teams"}), "creating", {"creating", "draft"})

TeamsPageCreate ==
    Patches({"teams"}, [Handler(<<{"teams"}>>) EXCEPT !.shut = {"creating", "draft"}])

TeamsPageUpdate ==
    Merges({"teams"}, [Handler(<<{"teams"}>>) EXCEPT !.shut = {"creating", "draft"}])

TeamsPageDelete == Patches({"teams"}, Handler(<<{"teams"}>>))

TeamsPageForm == Fields({"name", "slug", "description", "toggleMember"}, "draft", "")

TeamsPage ==
    Page("TeamsPage", {TeamsPageLoad}, FormFacts,
         TeamsPageForm \cup FormControls("teams") \cup ListControls("teams") \cup DeleteDialog("teams", TeamsPageDelete)
         \cup SubmitButtons("teams", TeamsPageCreate, TeamsPageUpdate))

-----------------------------------------------------------------------------
(* UserProfilePage.  The three sections are one record on the server, and  *)
(* one variable says which of them is being saved.                         *)

ProfileTabs == {"profile", "security", "preferences"}

ProfileForms == {"profileForm", "securityForm", "preferencesForm"}

UserProfileLoad == Fills(Swallows(Guarded(Local("settings", {"userSettings"}))), ProfileForms)

\* Every save sends all three forms; the answer is kept as what is saved.
persist(tab) ==
    OneFlag(tab, ProfileTabs, Merges({"settings"}, Handler(<<{"userSettings"}>>)))

saveProfileSection == Run("profile", "", {"profile"}, persist("profile"))

UserProfileIdentity == {saveProfileSection} \cup Fields({"fullName", "email", "jobTitle", "location"}, "profileForm", "")

saveSecuritySection == Run("security", "", {"security"}, persist("security"))

UserProfileSecurity ==
    {saveSecuritySection} \cup Fields({"requireMFA", "alertEmail", "sessionTimeout", "notifyNewLogin"}, "securityForm", "")

savePreferencesSection(name, off) == Run(name, "", off, persist("preferences"))

\* A theme is saved as soon as it is clicked, whatever is under way.  Another theme than
\* the present one also renders the provider anew, whose setTheme is a new function then:
\* the effect that depends on it loads the settings again.
UserProfileThemes ==
    {[savePreferencesSection("theme", {}) EXCEPT !.again = {"settings"}], savePreferencesSection("sameTheme", {})}

\* The theme is changed otherwise: in the top bar, or by the answer of the load.
setTheme == Reload("setTheme", {"settings"})

UserProfilePreferences ==
    {savePreferencesSection("preferences", {"preferences"})} \cup UserProfileThemes
    \cup Fields({"language", "density", "startPage"}, "preferencesForm", "")

\* The forms are not shown before their content is loaded first.
UserProfilePage ==
    Page("UserProfilePage", {UserProfileLoad}, ProfileForms,
         {setTheme} \cup
         Of("settings", UserProfileIdentity \cup UserProfileSecurity \cup UserProfilePreferences))

-----------------------------------------------------------------------------
(* GeneralSettingsPage.  One variable says which section is being saved,   *)
(* and every save loads all sections again.                                *)

SettingsKeys == {"application", "runtime", "integrations", "filters", "backup"}

SettingsForms == {"settingsForm", "integrationsForm", "filtersForm"}

GeneralSettingsLoad == Fills(Local("settings", {"settings", "integrations"}), SettingsForms)

saveSystemCategory(key) ==
    Run(key, "", {key}, OneFlag(key, SettingsKeys, [Handler(<<{"settings"}>>) EXCEPT !.loads = {"settings"}]))

\* The application and the runtime section edit one map of settings.
GeneralSettingsApplication ==
    Fields({"snapshot_interval", "edge_poll_frequency", "app_templates_url", "anonymous_statistics",
            "login_banner"}, "settingsForm", "")

GeneralSettingsBanner ==
    Fields({"login_banner_title", "login_banner_message", "login_banner_severity",
            "login_banner_button_label", "login_banner_help_text"}, "settingsForm", "")

saveApplication == saveSystemCategory("application")

GeneralSettingsRuntime ==
    Fields({"helm_repo_url", "kubeconfig_expiry", "enforce_gitops", "require_change_note",
            "enable_k8s_stacks", "force_https"}, "settingsForm", "")
    \cup {saveSystemCategory("runtime")}

\* The providers are saved in parallel.
saveIntegrations ==
    Run("integrations", "", {"integrations"},
        OneFlag("integrations", SettingsKeys,
                [Handler(<<{"integrations"}>>) EXCEPT !.loads = {"settings"}]))

\* The address and the switches of a provider, and what a kind of provider needs besides.
GeneralSettingsProviders == Fields({"updateIntegration", "updateIntegrationMetadata"}, "integrationsForm", "")

\* A provider is saved as edited, then tested; the page keeps what it shows.
GeneralSettingsTest ==
    {Run("test", "", {"testingKind"},
         Flagged("testingKind", Merges({"settings"}, Handler(<<{"integrations"}, {}>>))))}

addFilter == Fields({"addFilter"}, "filtersForm", "")

removeFilter == Fields({"removeFilter"}, "filtersForm", "")

saveContainerFilters == saveSystemCategory("filters")

GeneralSettingsFilters == addFilter \cup removeFilter \cup {saveContainerFilters}

GeneralSettingsBackup == {saveSystemCategory("backup")}

GeneralSettingsPage ==
    Page("GeneralSettingsPage", {useRuntimeFeatureFlags, GeneralSettingsLoad}, SettingsForms,
         GeneralSettingsApplication \cup GeneralSettingsBanner \cup {saveApplication, saveIntegrations}
         \cup GeneralSettingsRuntime \cup GeneralSettingsProviders
         \cup GeneralSettingsTest \cup GeneralSettingsFilters \cup GeneralSettingsBackup \cup {Go("section", "")})

-----------------------------------------------------------------------------
(* Records edited beside their list: routing rules and license keys.       *)

\* Every load puts the first rule into the form, whichever rule is selected.
RoutingRulesLoad == Fills(Local("rules", {"rules", "tags"}), {"draft", "aimed"})

RoutingRulesForm ==
    Fields({"name", "integration_kind", "description", "event_types", "priorities", "channels",
            "statuses", "tags", "tag_prefixes", "enabled"}, "draft", "")

selectRule ==
    {[Control(<<"new", "rule">>, "") EXCEPT !.opens = {"aimed"}, !.closes = {"draft"}]}
    \cup Of("rules", {[Control(<<"row", "rule">>, "") EXCEPT
                         !.opens = {"aimed"}, !.closes = {"draft"}, !.off = {"rules"}]})

saveRule ==
    Run("save", "", {"isSaving"}, Flagged("isSaving", [Handler(<<{"rules"}>>) EXCEPT !.loads = {"rules"}]))

deleteRule ==
    Run("delete", "", {"isSaving"}, Flagged("isSaving", [Handler(<<{"rules"}>>) EXCEPT !.loads = {"rules"}]))

runSimulation == Run("simulate", "", {"isSimulating"}, Flagged("isSimulating", Handler(<<{}>>)))

NotificationRoutingRulesPage ==
    Page("NotificationRoutingRulesPage", {RoutingRulesLoad}, {"draft", "aimed"},
         RoutingRulesForm \cup selectRule \cup Of("rules", {saveRule, deleteRule}) \cup {runSimulation})

LicenseLoad == Fills(Local("license", {"license", "licenseKeys"}), {"profile", "draft", "aimed"})

LicenseForms ==
    {Edits("profile", ""), Edits("draft", ""),
     [Control(<<"new", "key">>, "") EXCEPT !.opens = {"aimed"}, !.closes = {"draft"}],
     [Control(<<"row", "key">>, "") EXCEPT !.opens = {"aimed"}, !.closes = {"draft"}]}

\* The saved license comes back with the answer, over what was typed since.
saveLicenseProfile ==
    Run("profile", "", {"isSaving"},
        Flagged("isSaving", Merges({"license"}, [Handler(<<{"license"}>>) EXCEPT !.shut = {"profile"}])))

generateLicense ==
    Run("generate", "", {"isGenerating"},
        Flagged("isGenerating", [Handler(<<{"license"}>>) EXCEPT !.shut = {"profile"}, !.loads = {"license"}]))

saveLicenseKey ==
    Run("saveKey", "", {"isSaving"},
        Flagged("isSaving", [Handler(<<{"licenseKeys"}>>) EXCEPT !.loads = {"license"}]))

deleteLicenseKey ==
    Run("deleteKey", "", {"isSaving"},
        Flagged("isSaving", [Handler(<<{"licenseKeys"}>>) EXCEPT !.loads = {"license"}]))

\* What is below the buttons is not shown while the page loads.
LicenseSettingsPage ==
    Page("LicenseSettingsPage", {LicenseLoad}, {"profile", "draft", "aimed"},
         {generateLicense} \cup Of("license", {saveLicenseProfile})
         \cup Of("license", {[c EXCEPT !.off = @ \cup {"license"}] :
                                c \in LicenseForms \cup {saveLicenseKey, deleteLicenseKey}}))

-----------------------------------------------------------------------------
(* The other settings pages. *)

\* One flag for the three requests; the code is asked for once the setup has begun.
AuthenticationRequest(name, op) == Run(name, "", {"isLoading"}, Flagged("isLoading", op))

handleBeginSetup ==
    AuthenticationRequest("beginSetup", [Handler(<<{}>>) EXCEPT !.show = {"setup"}, !.shut = {"confirmCode"}])

handleConfirmSetup == AuthenticationRequest("confirmSetup", Handler(<<{"mfa"}>>))

handleResetRequest == AuthenticationRequest("reset", Handler(<<{"mfa"}>>))

AuthenticationSetup ==
    {[handleBeginSetup EXCEPT !.off = @ \cup {"setup"}]}
    \cup If({"setup"}, {Edits("confirmCode", "")}) \cup If({"setup", "confirmCode"}, {handleConfirmSetup})

AuthenticationSettingsPage ==
    Page("AuthenticationSettingsPage", {}, {"setup", "confirmCode"}, AuthenticationSetup \cup {handleResetRequest})

-----------------------------------------------------------------------------
(* LoginPage.  What a login leads to is ConsoleSession.  While a request is    *)
(* under way the forms and the links between them are not rendered.            *)

LoginPageBanner == Swallows(Guarded(Local("banner", {"loginConfiguration"})))

LoginPageModes == {"totp", "forgot", "reset", "mfa-reset"}

LoginPageMode(mode) ==
    [Control(<<"mode", mode>>, "") EXCEPT !.opens = LoginPageModes \cap {mode},
                                          !.closes = LoginPageModes \ {mode}]

\* A request that ends in the form of another mode.
LoginPageRequest(name, mode, op) ==
    Run(name, "", {"isLoading"}, Flagged("isLoading", [op EXCEPT !.shut = @ \cup (LoginPageModes \ {mode}),
                                                                 !.show = @ \cup (LoginPageModes \cap {mode})]))

LoginPageLogin == {[LoginPageRequest("login", "totp", Handler(<<{}>>)) EXCEPT !.off = @ \cup LoginPageModes]}

handleForgotPassword == LoginPageRequest("forgot", "reset", Handler(<<{"resetTokens"}>>))

handlePasswordReset == LoginPageRequest("reset", "login", Handler(<<{"resetTokens"}>>))

\* Without a token one is asked for, with a token the authenticator is reset.
handleMFAReset ==
    {[LoginPageRequest("mfaRequest", "mfa-reset", Handler(<<{"resetTokens"}>>)) EXCEPT !.off = @ \cup {"resetToken"}],
     [LoginPageRequest("mfaConfirm", "mfa-reset", [Handler(<<{"mfa"}>>) EXCEPT !.shut = {"resetToken"}]) EXCEPT
        !.need = {"resetToken"}]}

LoginPageForgot == If({"forgot"}, {handleForgotPassword})

\* The field for the token that two of the forms have.
LoginPageToken(mode) ==
    [Edits("resetToken", "") EXCEPT !.name = <<"edit", mode>>, !.off = {"isLoading"}]

LoginPageReset == If({"reset"}, {LoginPageToken("reset"), handlePasswordReset})

LoginPageMFAReset == If({"mfa-reset"}, {LoginPageToken("mfa-reset")} \cup handleMFAReset)

LoginPageLinks ==
    {[LoginPageMode(m) EXCEPT !.off = {"isLoading"}] : m \in {"login", "forgot", "mfa-reset"}}

LoginPage ==
    Page("LoginPage", {LoginPageBanner}, LoginPageModes \cup {"resetToken"},
         LoginPageLogin \cup LoginPageForgot \cup LoginPageReset \cup LoginPageMFAReset \cup LoginPageLinks)

-----------------------------------------------------------------------------
(* The pages for edge agents and feature flags. *)

EdgeComputeLoad == Fills(Local("edge", {"edge"}), {"edited"})

\* The settings are saved, then the user's copy of them.
EdgeComputeSave ==
    Run("save", "", {"isSaving"}, Flagged("isSaving", Merges({"edge"}, Handler(<<{"edge"}, {}>>))))

\* The fields can be edited, and saved, while they load.
EdgeComputeSettingsPage ==
    Page("EdgeComputeSettingsPage", {useRuntimeFeatureFlags, EdgeComputeLoad}, {"edited"},
         {EdgeComputeSave, Edits("edited", "")})

\* The page edits its own copy of the flags; the runtime's query is left as it is.
FeatureFlagsSave ==
    Run("save", "", {"isSaving"}, Flagged("isSaving", Merges({"flagList"}, Handler(<<{"flags"}>>))))

\* Mutation of FeatureFlagsSettingsPage: the flags can be toggled while they load.
FeatureFlagsSettingsPageEager ==
    Page("FeatureFlagsSettingsPage", {Fills(Local("flagList", {"flags"}), {"toggled"})}, {"toggled"},
         {FeatureFlagsSave, Edits("toggled", "")})

FeatureFlagsSettingsPage ==
    Page("FeatureFlagsSettingsPage", {Fills(Local("flagList", {"flags"}), {"toggled"})}, {"toggled"},
         Of("flagList", {FeatureFlagsSave, [Edits("toggled", "") EXCEPT !.off = {"flagList"}]}))

-----------------------------------------------------------------------------
(* NotificationsPage. *)

NotificationsLoad == Local("notifications", {"notifications"})

NotificationsPreferences == Fills(Swallows(Local("preferences", {"preferences"})), {"preferencesForm"})

\* Every action on one notification changes its row when it is answered.
NotificationAction(name) ==
    Run(name, "", {"notifications"}, Merges({"notifications"}, Handler(<<{"notifications"}>>)))

NotificationRows ==
    Of("notifications", {NotificationAction(a) : a \in {"read", "unread", "status", "delete"}}
                        \cup {Open("detail", "")})

\* Clearing removes the notifications the handler saw, and then shows none.
clearAll ==
    Run("clearAll", "", {"notifications"}, Patches({"notifications"}, Handler(<<{"notifications"}>>)))

markAllAsRead == NotificationAction("markAllRead")

savePreferences ==
    {Open("preferences", ""), Close("preferences"), Edits("preferencesForm", "preferences"),
     Run("preferences", "preferences", {"isSavingPreferences"},
         Flagged("isSavingPreferences",
                 Merges({"preferences"}, [Handler(<<{"preferences"}>>) EXCEPT !.shut = {"preferences"}])))}

testSocialIntegrations ==
    Run("test", "", {"isTestingIntegrations"}, Flagged("isTestingIntegrations", Handler(<<{}>>)))

\* The dialog and what was typed into it go when the announcement is sent.
sendAnnouncement ==
    {Open("announcement", ""), Close("announcement"), Edits("announcementDraft", "announcement")}
    \cup If({"announcementDraft"},
            {Run("announcement", "announcement", {"isSendingAnnouncement"},
                 Flagged("isSendingAnnouncement",
                         [Handler(<<{"notifications"}>>) EXCEPT
                            !.shut = {"announcement", "announcementDraft"}, !.loads = {"notifications"}]))})

NotificationDetail ==
    {Close("detail")} \cup {[NotificationAction(a) EXCEPT !.at = "detail"] :
                               a \in {"detailRead", "detailUnread", "detailStatus"}}

NotificationsPage ==
    Page("NotificationsPage", {NotificationsLoad, NotificationsPreferences}, {"preferencesForm", "announcementDraft"},
         NotificationRows \cup Of("notifications", {clearAll, markAllAsRead}) \cup savePreferences
         \cup {testSocialIntegrations} \cup sendAnnouncement \cup NotificationDetail)

-----------------------------------------------------------------------------
(* TagsPage and ApplicationsPage: a list beside the form that creates or   *)
(* edits one of its records.                                               *)

CatalogueForm(list) ==
    {[Control(<<"new", list>>, "") EXCEPT !.closes = {"draft", "editing"}], Edits("draft", "")}
    \cup Of(list, {[Control(<<"row", list>>, "") EXCEPT
                      !.opens = {"editing"}, !.closes = {"draft"}, !.off = {list}]})

\* The form is emptied, then the list is loaded again.
CatalogueSave(list) ==
    Run("save", "", {"isSaving"},
        Flagged("isSaving", [Handler(<<{list}>>) EXCEPT !.shut = {"draft", "editing"}, !.loads = {list}]))

\* Mutation of CatalogueDelete: the answer also resets the form.
CatalogueDeleteResets(list) ==
    Of(list, {Run("delete", "", {list},
                  [Merges({list}, Handler(<<{list}>>)) EXCEPT !.shut = {"draft", "editing"}])})

CatalogueDelete(list) ==
    Of(list, {Run("delete", "", {list}, Merges({list}, Handler(<<{list}>>)))})

CatalogueRefresh(list) == [Reload("refresh", {list}) EXCEPT !.off = {list}]

TagsPageLoad == Local("tags", {"tags"})

TagsPage ==
    Page("TagsPage", {TagsPageLoad}, {"draft", "editing"},
         CatalogueForm("tags") \cup {CatalogueSave("tags"), CatalogueRefresh("tags")} \cup CatalogueDelete("tags"))

ApplicationsPageLoad == Local("applications", {"applications"})

ApplicationsPage ==
    Page("ApplicationsPage", {ApplicationsPageLoad}, {"draft", "editing"},
         CatalogueForm("applications") \cup {CatalogueSave("applications"), CatalogueRefresh("applications")}
         \cup CatalogueDelete("applications"))

-----------------------------------------------------------------------------
(* RegistriesPage: the editor takes the place of the list. *)

RegistryEditor == {Open("editor", ""), Close("editor")}

handleSaveRegistry ==
    Run("save", "editor", {"useSaveRegistry"}, [Mutate(useSaveRegistry) EXCEPT !.shut = {"editor"}])

handleTestRegistry == Run("test", "editor", {"useTestRegistry"}, Mutate(useTestRegistry))

RegistryDelete ==
    {Open("delete", "")}
    \cup ConfirmActionDialog("delete", {"useDeleteRegistry"}, [Mutate(useDeleteRegistry) EXCEPT !.shut = {"delete"}])

RegistriesPage ==
    Page("RegistriesPage", {useRegistries}, {}, RegistryEditor \cup {handleSaveRegistry, handleTestRegistry} \cup RegistryDelete)

-----------------------------------------------------------------------------
(* Pages that only show: the logs, the events, the alerts and the          *)
(* dashboards of Docker, Kubernetes and the administrator.                 *)

ActivityLogsPage ==
    Page("ActivityLogsPage", {Local("activity", {"audit"})}, {}, {CatalogueRefresh("activity"), Open("inspect", ""), Close("inspect")})

AuthLogsPage == Page("AuthLogsPage", {Local("authEvents", {"audit"})}, {}, {CatalogueRefresh("authEvents")})

EventsPage == Page("EventsPage", {useRuntimeAudit}, {}, {Reload("refresh", {"audit"})})

MonitoringPage ==
    Page("MonitoringPage", {useEnvironmentInventory, Polled(Query("alerts", <<"environment-alerts", "$server">>, {"alerts"}))}, {}, {})

\* The queries of a dashboard are its own: no page invalidates them.
DashboardQuery(name, reads) == Query(name, <<"dashboard", name>>, reads)

DashboardShared ==
    {useEnvironmentInventory, DashboardQuery("applications", {"applications"}),
     DashboardQuery("notifications", {"notifications"})}

DockerDashboard ==
    Page("DockerDashboard", DashboardShared \cup
         {useServers, useContainers, useImages, useNetworks, useVolumes, useStacks, useDockerTopology,
          useRuntimeAudit, DashboardQuery("license", {"license"}),
          Polled(DashboardQuery("docker-capacity-history", {"metrics"})),
          Swallows(Polled(DashboardQuery("docker-node", {"agent", "metrics"}))),
          Swallows(Polled(DashboardQuery("docker-container-stats", {"stats"})))},
         {}, {Go("nodes", ""), Go("logs", ""), Go("containers", "")})

KubernetesOverview ==
    Page("KubernetesOverview", DashboardShared \cup
         {useNodes, usePods, useDeployments, useNamespaces, usePersistentVolumes,
          Polled(DashboardQuery("k8s-capacity-history", {"metrics"}))},
         {"selectedNode"},
         {Go("nodes", ""), Go("pods", ""), Go("deployments", "")} \cup Of("nodes", {Open("selectedNode", "")}))

AdminOverview ==
    Page("AdminOverview", DashboardShared \cup
         {useServers, Polled(DashboardQuery("presence", {"presence"})),
          Polled(DashboardQuery("audit-timeline", {"audit"})),
          Swallows(Polled(DashboardQuery("capacity-history", {"metrics"})))}
         \cup {DashboardQuery(q, {q}) : q \in {"license", "feature-flags", "users", "teams", "roles"}},
         {}, {Go("license", ""), Go("flags", ""), Go("environments", ""), Go("notifications", ""), Go("logs", "")})

AdminPages ==
    {UsersPage, RolesPage, TeamsPage, UserProfilePage, GeneralSettingsPage,
     NotificationRoutingRulesPage, LicenseSettingsPage, AuthenticationSettingsPage, LoginPage,
     EdgeComputeSettingsPage, FeatureFlagsSettingsPage, NotificationsPage, TagsPage,
     ApplicationsPage, RegistriesPage, ActivityLogsPage, AuthLogsPage, EventsPage,
     MonitoringPage, DockerDashboard, KubernetesOverview, AdminOverview}
=============================================================================
