----------------------------- MODULE DockerPages -----------------------------
(***************************************************************************)
(* The pages of the Docker feature, in the words of PageTerms.             *)
(***************************************************************************)
EXTENDS DockerHooks

-----------------------------------------------------------------------------
(* ContainersPage. *)

ContainersPageViews ==
    {useEnvironmentInventory, useContainers, Swallows(Local("tags", {"tags"})),
     useContainerLogs, useLiveContainerLogs}

\* The environment select and the all/running/exited filter are part of the key.
ContainersPageToolbar == {Pick("environment", {"containers"}), Go("deploy", "")}

\* The log dialog is opened for one container.
OpenLogs == [Open("logs", "") EXCEPT !.picks = {"logs", "liveLogs"}]

\* Start, stop, restart and pause share the hook, hence its isPending.
ContainersPageLifecycle ==
    {Run("lifecycle", "", {"useContainerAction"}, Mutate(useContainerAction))}

openTerminal == Open("terminal", "")

ContainersPageRowMenu == {openTerminal, OpenLogs, Go("edit", ""), Open("commit", ""), Open("kill", "")}

\* Closing the workspace, or its last tab, closes the terminal; another tab does not.
ContainersPageTerminal == {Close("terminal")}

ContainersPageTree ==
    Of("containers", {OpenLogs, openTerminal, Go("edit", "")})

ContainersPageCommit ==
    {Close("commit"),
     Run("commit", "commit", {"useContainerAction"},
         [Mutate(useContainerAction) EXCEPT !.shut = {"commit"}])}

\* Mutation of ContainersPageKill: the dialog's button does not wait for the call.
ContainersPageKillAgain ==
    ConfirmActionDialog("kill", {}, [Mutate(useContainerAction) EXCEPT !.shut = {"kill"}])

ContainersPageKill ==
    ConfirmActionDialog("kill", {"useContainerAction"},
                        [Mutate(useContainerAction) EXCEPT !.shut = {"kill"}])

\* Refreshing asks for the last lines again, pausing drops the live socket.
ContainerLogsModal ==
    {Close("logs"), [Reload("logs", {"logs"}) EXCEPT !.at = "logs"],
     [Pick("pause", {"liveLogs"}) EXCEPT !.at = "logs"]}

ContainersPage ==
    Page("ContainersPage", ContainersPageViews, {},
         ContainersPageToolbar \cup Of("containers", ContainersPageLifecycle \cup ContainersPageRowMenu)
         \cup ContainersPageTree \cup ContainersPageCommit \cup ContainersPageKill
         \cup ContainerLogsModal \cup ContainersPageTerminal)

-----------------------------------------------------------------------------
(* EditContainerPage: the form is filled from every new configuration. *)

EditContainerPageLoad == Fills(useContainerConfig, {"edited", "badEnv", "badPorts"})

EditContainerPageGeneral == Fields({"name", "image", "restartPolicy", "recreate", "command"}, "edited", "")

EditContainerPageEnv ==
    {[Edits("badEnv", "") EXCEPT !.opens = {"edited", "badEnv"}], Mends("badEnv", "")}

\* A row with one port of two, or a host port used twice.
EditContainerPagePorts ==
    {[Edits("badPorts", "") EXCEPT !.opens = {"edited", "badPorts"}], Mends("badPorts", "")}

EditContainerPageVolumes == Fields({"hostPath", "containerPath", "mode", "volumeRow"}, "edited", "")

EditContainerPageHealthcheck ==
    Fields({"healthcheckDisabled", "healthcheckCommand", "healthcheckInterval", "healthcheckTimeout",
            "healthcheckStartPeriod", "healthcheckRetries"}, "edited", "")

EditContainerPageErrors == {"badEnv", "badPorts"}

\* Mutation of EditContainerPageSubmit: the page awaits the call and then navigates.
EditContainerPageSubmitAsync ==
    [MutateAsync(useUpdateContainer) EXCEPT !.exit = TRUE]

EditContainerPageSubmit ==
    [Mutate(useUpdateContainer) EXCEPT !.exit = TRUE]

EditContainerPageSave ==
    {Run("apply", "", {"useUpdateContainer"} \cup EditContainerPageErrors, EditContainerPageSubmit)}

EditContainerPage ==
    Page("EditContainerPage", {EditContainerPageLoad}, {"edited"} \cup EditContainerPageErrors,
         Of("config", EditContainerPageGeneral \cup EditContainerPageEnv
                      \cup EditContainerPagePorts \cup EditContainerPageVolumes
                      \cup EditContainerPageHealthcheck \cup EditContainerPageSave)
         \cup {Go("back", "")})

-----------------------------------------------------------------------------
(* ContainerDetailPage.  Its own refreshes go to the QueryClient that          *)
(* core/api-client creates, which is not the one the pages' queries live in.   *)

ContainerDetailPageViews ==
    {useContainerConfig, useContainerLogs, useContainerStats, useLiveContainerLogs,
     useLiveContainerStats, useRuntimeAudit, useContainerFiles,
     Fills(useReadContainerFile, {"edited"})}

ContainerDetailPageRefresh == {}

ContainerDetailPageUpload ==
    [Handler(<<{"files", "file"}>>) EXCEPT !.keys = ContainerDetailPageRefresh]

ContainerDetailPageTabs ==
    {Go("back", ""), Go("edit", "")}

ContainerDetailPageFiles ==
    {Run("upload", "", {}, ContainerDetailPageUpload),
     Run("extract", "", {}, ContainerDetailPageUpload)}

\* A folder is listed by a query of its own; a file is put into the editor.
ContainerFileTree ==
    {Pick("directory", {"files"}), [Pick("file", {"file"}) EXCEPT !.closes = {"edited"}]}

ContainerDetailPageTerminal == {Open("terminal", ""), Close("terminal")}

ContainerDetailPageDownload == {Run("download", "", {}, Handler(<<{}>>))}

ContainerDetailPageEditor ==
    Of("file",
       {Edits("edited", ""),
        Run("save", "", {},
            [Mutate(useSaveContainerFile) EXCEPT !.keys = @ \cup ContainerDetailPageRefresh])}
       \cup ContainerDetailPageDownload)

ContainerDetailPage ==
    Page("ContainerDetailPage", ContainerDetailPageViews, {"edited"},
         ContainerDetailPageTabs \cup ContainerDetailPageFiles \cup ContainerFileTree
         \cup ContainerDetailPageEditor \cup ContainerDetailPageTerminal)

-----------------------------------------------------------------------------
(* ImagesPage. *)

ImagesPageViews == {useEnvironmentInventory, useImages, useRegistries, useRegistryCatalog}

ImagesPageRows ==
    Of("images",
       {Run("export", "", {"useExportImage"}, [Mutate(useExportImage) EXCEPT !.show = {"exported"}]),
        Go("deploy", ""),
        [Open("delete", "") EXCEPT !.off = {"useRemoveImage"}]})

\* The name is cleared as soon as the pull is sent.
handlePull == Consumes("pullName", Run("pull", "", {"usePullImage"}, Mutate(usePullImage)))

ImagesPagePull == {Edits("pullName", ""), handlePull}

ImagesPageExported == If({"exported"}, {Run("download", "", {}, Handler(<<{}>>))})

handlePush == Run("push", "", {"usePushImage"}, Mutate(usePushImage))

ImagesPagePush == {handlePush}

\* With the box ticked, the retag's onSuccess removes the old tag; it empties the form.
handleRetag ==
    {Run("retag", "", {"useRetagImage"}, [Mutate(useRetagImage) EXCEPT !.shut = {"retagForm"}]),
     Run("move", "", {"useRetagImage"},
         Then([Mutate(useRetagImage) EXCEPT !.shut = {"retagForm"}], useRemoveImage))}

ImagesPageRetag == {Edits("retagForm", "")} \cup If({"retagForm"}, handleRetag)

handleDeleteRegistryTag == Handler(<<{"catalog"}>>)

ImagesPageCatalog ==
    {Pick("repository", {"catalog"})}
    \cup Of("catalog", {Run("deleteTag", "", {}, handleDeleteRegistryTag)})

ImagesPageDelete ==
    ConfirmActionDialog("delete", {"useRemoveImage"},
                        [Mutate(useRemoveImage) EXCEPT !.shut = {"delete"}])

ImagesPage ==
    Page("ImagesPage", ImagesPageViews, {"exported", "pullName", "retagForm"},
         {Pick("environment", {"images"}), Go("build", "")}
         \cup ImagesPageRows \cup ImagesPagePull \cup ImagesPageExported \cup ImagesPagePush
         \cup ImagesPageRetag \cup ImagesPageCatalog \cup ImagesPageDelete)

-----------------------------------------------------------------------------
(* VolumesPage and NetworksPage: a create and an edit dialog share one hook    *)
(* and neither waits for it.                                                   *)

VolumesPageViews == {useEnvironmentInventory, useVolumes, useDockerTopology}

VolumesPageSubmit(dialog) == [Mutate(useSaveVolume) EXCEPT !.shut = {dialog}]

VolumesPageCreate == {Close("create"), Run("create", "create", {}, VolumesPageSubmit("create"))}

VolumesPageEdit == {Close("edit"), Run("edit", "edit", {}, VolumesPageSubmit("edit"))}

VolumesPageRows == Of("volumes", {Go("detail", ""), Open("edit", ""), Open("delete", "")})

VolumesPageDelete ==
    ConfirmActionDialog("delete", {"useDeleteVolume"},
                        [Mutate(useDeleteVolume) EXCEPT !.shut = {"delete"}])

VolumesPage ==
    Page("VolumesPage", VolumesPageViews, {},
         {Pick("environment", {"volumes", "topology"}), Open("create", "")}
         \cup VolumesPageCreate \cup VolumesPageEdit \cup VolumesPageRows \cup VolumesPageDelete)

NetworksPageViews == {useEnvironmentInventory, useNetworks}

NetworksPageSubmit(dialog) == [Mutate(useSaveNetwork) EXCEPT !.shut = {dialog}]

NetworksPageCreate == {Close("create"), Run("create", "create", {}, NetworksPageSubmit("create"))}

NetworksPageEdit == {Close("edit"), Run("edit", "edit", {}, NetworksPageSubmit("edit"))}

NetworksPageRows == Of("networks", {Go("detail", ""), Open("edit", ""), Open("delete", "")})

NetworksPageDelete ==
    ConfirmActionDialog("delete", {"useDeleteNetwork"},
                        [Mutate(useDeleteNetwork) EXCEPT !.shut = {"delete"}])

NetworksPage ==
    Page("NetworksPage", NetworksPageViews, {},
         {Pick("environment", {"networks"}), Open("create", "")}
         \cup NetworksPageCreate \cup NetworksPageEdit \cup NetworksPageRows \cup NetworksPageDelete)

NetworkDetailPage ==
    Page("NetworkDetailPage", {useNetworks, useDockerTopology, useContainers}, {},
         Of("containers", {Run("attach", "", {"useNetworkAttachment"}, Mutate(useNetworkAttachment))})
         \cup Of("topology", {Run("detach", "", {}, Mutate(useNetworkAttachment))})
         \cup {Go("back", "")})

\* The upload's own refresh goes to the other QueryClient, as in ContainerDetailPage.
VolumeDetailPageUpload == [Handler(<<{"files", "file"}>>) EXCEPT !.keys = {}]

VolumeDetailPageViews ==
    {useVolumes, useDockerTopology, useVolumeFiles, Fills(useReadVolumeFile, {"edited"})}

VolumeDetailPageDownload == {Run("download", "", {}, Handler(<<{}>>))}

VolumeDetailPageFiles ==
    {Pick("path", {"files"}), [Pick("file", {"file"}) EXCEPT !.closes = {"edited"}],
     Run("upload", "", {}, VolumeDetailPageUpload)}
    \cup Of("files", {Run("deleteFile", "", {}, Mutate(useDeleteVolumeFile))})

VolumeDetailPageEditor ==
    Of("file", {Edits("edited", ""), Run("save", "", {}, Mutate(useSaveVolumeFile))})

VolumeDetailPage ==
    Page("VolumeDetailPage", VolumeDetailPageViews, {"edited"},
         VolumeDetailPageFiles \cup VolumeDetailPageEditor \cup Of("files", VolumeDetailPageDownload)
         \cup {Run("backup", "", {}, Mutate(useBackupVolume)),
               Run("clone", "", {}, Mutate(useCloneVolume)), Go("back", "")})

-----------------------------------------------------------------------------
(* Stacks. *)

StacksPageRows ==
    Of("stacks",
       {Pick("stack", {"services"}), Go("edit", ""), Open("delete", ""),
        Run("startStop", "", {}, Mutate(useStackAction))})

StacksPageServices ==
    Of("services",
       {Run("restart", "", {}, Mutate(useRestartStackService)),
        Run("scale", "", {}, Mutate(useScaleStackService)), Go("service", "")})

StacksPageDelete ==
    ConfirmActionDialog("delete", {"useStackAction"},
                        [Mutate(useStackAction) EXCEPT !.shut = {"delete"}])

StacksPage ==
    Page("StacksPage", {useEnvironmentInventory, useStacks, useStackServices}, {},
         {Pick("environment", {"stacks"}), Go("new", "")}
         \cup StacksPageRows \cup StacksPageServices \cup StacksPageDelete)

ServiceDetailPage ==
    Page("ServiceDetailPage", {useStackServiceDetail, useStackServiceLogs}, {},
         {Run("restart", "", {}, Mutate(useRestartStackService)),
          Run("scale", "", {}, Mutate(useScaleStackService)), Go("back", "")})

StackEditorPageLoad == Fills(useStackDetail, {"edited"})

StackEditorPageForm ==
    Fields({"name", "composeContent", "environmentVars", "secretEntries", "configEntries"}, "edited", "")

insertSecretAsset == Fields({"insertSecret"}, "edited", "")

insertPresetImage == Fields({"insertPreset"}, "edited", "")

StackEditorPagePresets == Of("registries", insertPresetImage)

StackEditorPageRevisions == Of("stack", {Open("rollback", "")})

StackEditorPageSubmit == [Mutate(useDeployStack) EXCEPT !.exit = TRUE]

StackEditorPageSecrets ==
    {Edits("secretDraft", ""),
     [Run("saveSecret", "", {"useSaveDockerSecret"},
          [Mutate(useSaveDockerSecret) EXCEPT !.shut = {"secretDraft"}])
        EXCEPT !.need = {"secretDraft"}]}
    \cup Of("secrets", {Run("deleteSecret", "", {}, Mutate(useDeleteDockerSecret))} \cup insertSecretAsset)

StackEditorPageDeploy == {Run("deploy", "", {"useDeployStack"}, StackEditorPageSubmit)}

StackEditorPageRollback ==
    ConfirmActionDialog("rollback", {"useRollbackStack"},
                        [Mutate(useRollbackStack) EXCEPT !.shut = {"rollback"}])

StackEditorPage ==
    Page("StackEditorPage", {StackEditorPageLoad, useDockerSecrets, useRegistries}, {"edited", "secretDraft"},
         StackEditorPageForm \cup StackEditorPageSecrets \cup StackEditorPageRollback
         \cup StackEditorPageDeploy \cup {Go("back", "")}
         \cup StackEditorPagePresets \cup StackEditorPageRevisions)

-----------------------------------------------------------------------------
(* Disk usage, auto-heal, logs. *)

DiskUsagePageReclaim == MutateAsync(useReclaimDiskSpace)

DiskUsagePage ==
    Page("DiskUsagePage", {useDockerDiskUsage}, {},
         Of("diskUsage",
            {[Reload("refresh", {"diskUsage"}) EXCEPT !.off = {"diskUsage"}],
             Run("reclaim", "", {"useReclaimDiskSpace"}, DiskUsagePageReclaim)}))

\* The form serves creation and, once a row's Edit fills it, editing.
AutoHealPageSave == [Mutate(useSaveDockerAutoHealPolicy) EXCEPT !.shut = {"form"}]

AutoHealPageForm ==
    {Edits("form", ""),
     [Run("save", "", {"useSaveDockerAutoHealPolicy"}, AutoHealPageSave) EXCEPT !.need = {"form"}],
     Mends("form", "")}

AutoHealPageToolbar ==
    {Pick("environment", {"policies"}), Run("runAll", "", {}, Mutate(useRunDockerAutoHeal))}

AutoHealPageRows ==
    Of("policies",
       {Run("runOne", "", {"useRunDockerAutoHeal"}, Mutate(useRunDockerAutoHeal)),
        [Edits("form", "") EXCEPT !.name = <<"edit", "row">>],
        Run("delete", "", {}, Mutate(useDeleteDockerAutoHealPolicy)),
        [Run("deleteEdited", "", {}, [Mutate(useDeleteDockerAutoHealPolicy) EXCEPT !.shut = {"form"}])
           EXCEPT !.need = {"form"}]})

AutoHealPage ==
    Page("AutoHealPage", {useEnvironmentInventory, useDockerAutoHealPolicies}, {"form"},
         AutoHealPageToolbar \cup AutoHealPageForm \cup AutoHealPageRows)

LogsPageViews ==
    {useContainers, useContainerLogs, useLiveContainerLogs, useDockerSystemLogs, useRuntimeAudit}

LogsPageContainers == Of("containers", {Pick("container", {"logs", "liveLogs"})})

LogsPageAudit == {Pick("filters", {"audit"})}

LogsPage == Page("LogsPage", LogsPageViews, {}, LogsPageContainers \cup LogsPageAudit)

-----------------------------------------------------------------------------
(* Deploying: the form page, the template catalogue and the topology.          *)

DeployContainerPageViews ==
    {useEnvironmentInventory, useRuntimeFeatureFlags, useDockerSwarmStatus, useRegistries,
     Swallows(Local("tags", {"tags"}))}

\* Every edit of the image, the ports, the mounts or the variables; a host port that
\* two rows publish stops the submit.
PortConflicts(fact) == {Edits(fact, ""), Mends(fact, "")}

DeploySinglePorts == PortConflicts("badPorts")

\* Ports are also added, changed and removed in the cards of the compose services, and
\* they clash across services.
ServiceCard == PortConflicts("badServices")

DeployServices ==
    Fields({"addService"}, "badServices", "")
    \cup {[Mends("badServices", "") EXCEPT !.name = <<"mend", "removeService">>]}

\* The image starts empty, the stack's name does not.
DeploySingleBasics == {Edits("image", ""), Mends("image", "")}

DeployComposeBasics == {Edits("noName", ""), Mends("noName", "")}

\* The form of one container or the form of a compose stack.
DeployModes ==
    {[Control(<<"mode", "single">>, "") EXCEPT !.closes = {"compose"}],
     [Control(<<"mode", "compose">>, "") EXCEPT !.opens = {"compose"}]}

submitSingle == Run("deploySingle", "", {"useCreateContainer", "badPorts"}, Mutate(useCreateContainer))

submitCompose == Run("deployStack", "", {"useDeployStack", "badServices", "noName"}, Mutate(useDeployStack))

DeployButtons ==
    {[submitSingle EXCEPT !.need = {"image"}, !.off = @ \cup {"compose"}],
     [submitCompose EXCEPT !.need = {"compose"}]}

DeploySingleForm == {[c EXCEPT !.off = {"compose"}] : c \in DeploySingleBasics \cup DeploySinglePorts}

DeployComposeForm == If({"compose"}, DeployComposeBasics \cup DeployServices \cup ServiceCard)

DeployContainerPage ==
    Page("DeployContainerPage", DeployContainerPageViews,
         {"badPorts", "badServices", "image", "noName", "compose"},
         {Pick("environment", {"swarm"})} \cup DeployModes \cup DeploySingleForm \cup DeployComposeForm
         \cup DeployButtons)

TemplatesPageDeploy ==
    Run("deployTemplate", "", {"useCreateContainer"},
        [Mutate(useCreateContainer) EXCEPT !.flag = "deployingTemplateTitle"])

TemplatesPageCards == {TemplatesPageDeploy, Go("deploy", "")}

TemplatesPageHeader == {Go("custom", "")}

TemplatesPage ==
    Page("TemplatesPage", {useEnvironmentInventory}, {}, TemplatesPageCards \cup TemplatesPageHeader)

TopologyPageViews == {useRuntimeFeatureFlags, useEnvironmentInventory, useDockerTopology}

\* A node that is clicked is described beside the graph.
TopologyPageGraph == Of("topology", {Open("selectedNode", "")})

TopologyPage ==
    Page("TopologyPage", TopologyPageViews, {"selectedNode"},
         {Pick("environment", {"topology"})} \cup TopologyPageGraph)

-----------------------------------------------------------------------------
(* BuildArtifactsPage.  How its operations stream, are cancelled and found    *)
(* again is BuildOperations; here is what their ends do to the page.          *)

BuildArtifactsPageViews ==
    {useEnvironmentInventory, Fills(useBuildHistory, {"override"}), useRuntimeAudit,
     Swallows(Polled(Query("operations", dockerKeys("operation-history"), {"operations"})))}

invalidateBuildQueries ==
    {dockerKeys("images"), dockerKeys("build-history"), dockerKeys("audit")}

BuildArtifactsPageOperation(flag, writes) ==
    Flagged(flag, [Handler(<<writes \cup {"images", "audit", "operations"}>>) EXCEPT !.keys = invalidateBuildQueries])

\* The context that was sent is taken out of the form and the new build is selected,
\* whatever is in the form and selected by then.
runBuild ==
    Run("build", "", {"isBuildRunning"},
        [BuildArtifactsPageOperation("isBuildRunning", {"builds"}) EXCEPT !.shut = {"context", "override"}])

BuildArtifactsPageBuild ==
    {Edits("context", "")} \cup Fields({"dockerfilePath", "tags"}, "buildForm", "")
    \cup If({"context"}, {runBuild})

importArchive ==
    Run("import", "", {"isImportRunning"},
        [BuildArtifactsPageOperation("isImportRunning", {}) EXCEPT !.shut = {"archive"}])

BuildArtifactsPageImport == {Edits("archive", "")} \cup If({"archive"}, {importArchive})

\* The rebuilt image's Dockerfile and tags go into the form of new builds.
rebuildFromHistory ==
    Run("rebuild", "", {"isRebuildRunning"},
        [BuildArtifactsPageOperation("isRebuildRunning", {"builds"}) EXCEPT !.shut = {"override", "buildForm"}])

prefillFromHistory == [Control(<<"prefill", "history">>, "") EXCEPT !.closes = {"buildForm"}]

downloadStoredContext == Run("download", "", {}, Handler(<<{}>>))

BuildArtifactsPageRebuild ==
    Of("builds", {Edits("override", ""), prefillFromHistory, downloadStoredContext, rebuildFromHistory})

BuildArtifactsPageHistory == Of("builds", {[Control(<<"row", "builds">>, "") EXCEPT !.closes = {"override"}]})

BuildArtifactsPage ==
    Page("BuildArtifactsPage", BuildArtifactsPageViews, {"context", "archive", "override", "buildForm"},
         {Pick("environment", {"builds", "audit", "operations"})}
         \cup BuildArtifactsPageBuild \cup BuildArtifactsPageImport \cup BuildArtifactsPageHistory
         \cup BuildArtifactsPageRebuild)

-----------------------------------------------------------------------------
DockerPages ==
    {ContainersPage, EditContainerPage, ContainerDetailPage, ImagesPage, VolumesPage,
     NetworksPage, NetworkDetailPage, VolumeDetailPage, StacksPage, ServiceDetailPage,
     StackEditorPage, DiskUsagePage, AutoHealPage, LogsPage, DeployContainerPage,
     TemplatesPage, TopologyPage, BuildArtifactsPage}
=============================================================================
