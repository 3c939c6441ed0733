--------------------------- MODULE KubernetesPages ---------------------------
(***************************************************************************)
(* The pages of the Kubernetes feature, in the words of PageTerms.         *)
(***************************************************************************)
EXTENDS KubernetesHooks

\* The selects above every explorer page: lists are keyed by cluster and namespace,
\* or by the cluster alone.
K8sExplorerLayout(namespaced, clusterWide) ==
    {Pick("cluster", namespaced \cup clusterWide \cup {"namespaces"}), Pick("namespace", namespaced)}

\* Every page follows the clusters and, while it watches, the namespaces.
Explorer == {useClusters, useNamespaces}

\* The watch button closes the live socket, or opens it again.
Watch(live) == Reload("watch", {live})

-----------------------------------------------------------------------------
(* PodsPage, with the panel of one resource beside the table. *)

PodsPageViews ==
    {useClusters, Polled(useNamespaces), usePods, useLivePods}

PodsPageToolbar ==
    K8sExplorerLayout({"pods", "livePods"}, {})
    \cup {Reload("refresh", {"pods"}), Watch("livePods"), Go("create", "")}

PodsPageRows == {[Open("panel", "") EXCEPT !.picks = {"yaml", "podLogStream"}]}

\* Mutation of PanelYaml: the effect does not drop the answer for the resource before.
PanelYamlUnguarded == Fills(Local("yaml", {"manifests"}), {"edited"})

\* The manifest of the pod, loaded when its tab is opened, and the log socket, which
\* says in the log that it is closed.
PanelYaml == Fills(Guarded(Local("yaml", {"manifests"})), {"edited"})

PanelLogs == Clears(Live("podLogStream", {"podLogs"}))

handleExec == Run("exec", "panel", {"usePodExec"}, MutateAsync(usePodExec))

handleApplyYaml == Run("applyYaml", "panel", {"useApplyManifest"}, MutateAsync(useApplyManifest))

\* The manifest is edited, or emptied.
PanelEditor == Fields({"yamlText", "clear"}, "edited", "panel") \cup {handleApplyYaml}

\* The panel closes on success; the confirmation closes however the call ends.
handleDelete ==
    [Handler(<<{"pods"}>>) EXCEPT !.shut = {"panel", "delete"}, !.failShut = {"delete"}]

PanelFooter == {Open("delete", "panel")} \cup ConfirmActionDialog("delete", {}, handleDelete)

K8sResourceDetailPanel ==
    {handleExec, [Pick("tab", {"yaml", "podLogStream"}) EXCEPT !.at = "panel"],
     [Close("panel") EXCEPT !.closes = {"panel", "edited"}]}
    \cup PanelEditor \cup PanelFooter

PodsPage ==
    Page("PodsPage", PodsPageViews \cup {PanelYaml, PanelLogs}, {"panel", "edited"},
         PodsPageToolbar \cup PodsPageRows \cup K8sResourceDetailPanel)

-----------------------------------------------------------------------------
(* The other lists. *)

DeploymentsPageViews == {useClusters, Polled(useNamespaces), useDeployments, useLiveDeployments}

DeploymentsPageToolbar ==
    K8sExplorerLayout({"deployments", "liveDeployments"}, {})
    \cup {Reload("refresh", {"deployments"}), Watch("liveDeployments"), Go("create", "")}

\* Scaling and restarting refetch the list themselves.
DeploymentsPageScale ==
    [MutateAsync(useScaleDeployment) EXCEPT !.loads = {"deployments"}]

DeploymentsPageRestart ==
    [MutateAsync(useRestartDeployment) EXCEPT !.loads = {"deployments"}]

DeploymentsPage ==
    Page("DeploymentsPage", DeploymentsPageViews, {},
         DeploymentsPageToolbar
         \cup {Run("scale", "", {}, DeploymentsPageScale), Run("restart", "", {}, DeploymentsPageRestart)})

ServicesPage ==
    Page("ServicesPage", {useClusters, Polled(useNamespaces), useServices, useLiveServices}, {},
         K8sExplorerLayout({"services", "liveServices"}, {})
         \cup {Reload("refresh", {"services"}), Watch("liveServices"), Go("create", "")})

\* A page that only lists: its views, which its refresh button fetches again.
ListPage(name, views, namespaced, clusterWide) ==
    Page(name, Explorer \cup views, {},
         K8sExplorerLayout(namespaced, clusterWide)
         \cup {Reload("refresh", namespaced \cup clusterWide), Go("create", "")})

IngressesPage == ListPage("IngressesPage", {useIngresses}, {"ingresses"}, {})

SecretsPage == ListPage("SecretsPage", {useSecrets}, {"secrets"}, {})

JobsPage == ListPage("JobsPage", {useJobs, useCronJobs}, {"jobs", "cronjobs"}, {})

PersistentVolumesPage ==
    ListPage("PersistentVolumesPage", {usePersistentVolumes, usePersistentVolumeClaims}, {"claims"}, {"volumes"})

ConfigMapsPage == ListPage("ConfigMapsPage", {useConfigMaps}, {"configmaps"}, {})

K8sTopologyPage ==
    Page("K8sTopologyPage", Explorer \cup {useKubernetesTopology}, {},
         K8sExplorerLayout({}, {"k8sTopology"}) \cup {Go("resource", "")})

\* The typed words, the namespace and a saved preset are part of the key.
SearchPageQuery ==
    {Pick("query", {"search"}), Pick("preset", {"search"}), Reload("refresh", {"search"})}

SearchPageResults == Of("search", {Go("result", "")})

SearchPage ==
    Page("SearchPage", Explorer \cup {useKubernetesSearch}, {},
         K8sExplorerLayout({"search"}, {}) \cup SearchPageQuery \cup SearchPageResults)

\* The manifest of one configuration map, of the cluster the page was opened with.
ConfigMapDetailYaml == Local("yaml", {"manifests"})

ConfigMapDetailPage ==
    Page("ConfigMapDetailPage", Explorer \cup {useConfigMaps, ConfigMapDetailYaml}, {},
         {Pick("cluster", {"namespaces", "configmaps", "yaml"}),
          Reload("refresh", {"configmaps", "yaml"}), Go("back", ""), Go("namespace", "")})

-----------------------------------------------------------------------------
(* NamespacesPage. *)

\* Editing first loads the manifest, then goes to the create page with it.
NamespacesPageEdit == [Handler(<<{}>>) EXCEPT !.exit = TRUE]

NamespacesPageDelete ==
    [Handler(<<Kinds>>) EXCEPT !.loads = {"namespaces"}, !.shut = {"delete"}, !.failShut = {"delete"}]

NamespacesPage ==
    Page("NamespacesPage", Explorer, {},
         K8sExplorerLayout({}, {})
         \cup {Reload("refresh", {"namespaces"}), Go("create", "")}
         \cup Of("namespaces", {Run("edit", "", {}, NamespacesPageEdit), Open("delete", "")})
         \cup ConfirmActionDialog("delete", {}, NamespacesPageDelete))

-----------------------------------------------------------------------------
(* HelmReleasesPage. *)

HelmReleasesPageViews == Explorer \cup {useHelmReleases, useKubeAgentBootstrap}

HelmReleasesPageUninstall ==
    Run("uninstall", "", {}, [Mutate(useUninstallHelmRelease) EXCEPT !.loads = {"releases"}])

HelmReleasesPageInstall ==
    {Close("install"),
     Run("install", "install", {"useInstallHelmRelease"},
         [Mutate(useInstallHelmRelease) EXCEPT !.shut = {"install"}, !.loads = {"releases"}])}

\* The manifest of the agent is fetched for the token and the image typed in.
HelmReleasesPageAgent ==
    {Close("agent"), [Pick("token", {"bootstrap"}) EXCEPT !.at = "agent"]}
    \cup Of("bootstrap", {Run("applyAgent", "agent", {"useApplyManifest"}, Mutate(useApplyManifest))})

HelmReleasesPage ==
    Page("HelmReleasesPage", HelmReleasesPageViews, {},
         K8sExplorerLayout({}, {"releases", "bootstrap"})
         \cup {Reload("refresh", {"releases"}), Open("install", ""), Open("agent", "")}
         \cup Of("releases", {HelmReleasesPageUninstall})
         \cup HelmReleasesPageInstall \cup HelmReleasesPageAgent)

-----------------------------------------------------------------------------
(* Nodes. *)

DockerNodesPage ==
    Page("DockerNodesPage", {Query("servers", <<"servers", "$page">>, {"servers"}),
          Polled(Swallows(Query("dockerNodes", <<"docker-nodes", "$server">>, {"servers"})))}, {},
         {Reload("refresh", {"servers"})})

NodesPageViews ==
    {useClusters, Polled(useNamespaces), useNodes, useLiveNodes, useKubernetesNodeDetail}

\* kubectl describe of the selected node, loaded once per selection.
NodeDescribe == Swallows(Guarded(Local("describe", {"nodes", "pods"})))

NodesPageToolbar ==
    K8sExplorerLayout({}, {"nodes", "liveNodes", "nodeDetail", "describe"})
    \cup {Reload("refresh", {"nodes"}), Watch("liveNodes")}

runNodeAction(action) ==
    Run(action, "", {action},
        [MutateAsync(useKubernetesNodeAction(action)) EXCEPT !.loads = {"nodes"}])

NodesPageRows ==
    {runNodeAction(a) : a \in {"cordon", "uncordon", "drain"}}
    \cup {[Open("node", "") EXCEPT !.picks = {"nodeDetail", "describe"}]}

\* The shell of the debug pod is shown once it runs.
launchNodeDebug ==
    Run("debug", "node", {"useStartKubernetesNodeDebugSession"},
        [MutateAsync(useStartKubernetesNodeDebugSession) EXCEPT !.show = {"shell"}])

NodesPagePanel ==
    {launchNodeDebug, [Reload("detail", {"nodeDetail"}) EXCEPT !.at = "node"],
     [Close("node") EXCEPT !.closes = {"node", "shell"}]}

KubernetesNodesPage ==
    Page("KubernetesNodesPage", NodesPageViews \cup {NodeDescribe}, {"node", "shell"},
         NodesPageToolbar \cup NodesPageRows \cup NodesPagePanel)

-----------------------------------------------------------------------------
(* EnvironmentsPage. *)

EnvironmentsPageImport ==
    Run("import", "", {"useImportKubeconfig"}, MutateAsync(useImportKubeconfig))

\* Connect navigates to the page the card is on.
EnvironmentCard ==
    Of("inventory", {[Open("selected", "") EXCEPT !.off = {"selected"}],
                     [Close("selected") EXCEPT !.at = ""]})

\* The pages of the connected environment.
EnvironmentDashboardPanel == If({"selected"}, {Go("quickLink", "")})

EnvironmentsPage ==
    Page("EnvironmentsPage", {useEnvironmentInventory}, {"selected"},
         {EnvironmentsPageImport, [Reload("refresh", {"inventory"}) EXCEPT !.off = {"inventory"}]}
         \cup EnvironmentCard \cup EnvironmentDashboardPanel)

-----------------------------------------------------------------------------
(* GenericK8sResourcePage, which nineteen kinds of resource are shown with.    *)

GenericPageViews ==
    {useClusters, Polled(useNamespaces), useGenericKubernetesResources,
     useLiveGenericKubernetesResources, useKubernetesResourceHistory}

GenericPageToolbar ==
    K8sExplorerLayout({"resources", "liveResources"}, {})
    \cup {Reload("refresh", {"resources"}), Watch("liveResources"), Go("create", "")}

\* openDetail empties the editor and loads the manifest into it, whichever resource
\* is selected by the time it answers.
DetailYaml == Fills(Clears(Local("yaml", {"manifests"})), {"edited"})

openDetail == [Open("detail", "") EXCEPT !.picks = {"yaml", "history"}, !.closes = {"edited"}]

\* Rows are ticked one by one, or all that are shown.
GenericPageRows ==
    {openDetail} \cup Fields({"toggleRow", "toggleAllVisible"}, "ticked", "") \cup {Mends("ticked", "")}
    \cup If({"ticked"}, {Open("bulk", "")})

\* The key and value rows, and the text they are written back into.
GenericPageEditor == Fields({"formRows", "syncFormToYaml", "selectedYaml"}, "edited", "detail")

saveYaml ==
    Run("saveYaml", "detail", {"useApplyManifest"},
        [MutateAsync(useApplyManifest) EXCEPT !.loads = {"resources"}])

\* The resource that was selected when the rollback was confirmed is opened again.
rollbackSelected ==
    [MutateAsync(useRollbackKubernetesResource) EXCEPT
        !.loads = {"yaml", "resources"}, !.show = {"detail"}, !.shut = {"rollback"},
        !.failShut = {"rollback"}]

deleteResource ==
    [Handler(<<{"resources"}>>) EXCEPT
        !.loads = {"resources"}, !.shut = {"detail", "delete"}, !.failShut = {"delete"}]

\* One DELETE per ticked row; the first that fails ends the loop.
deleteSelected ==
    [Handler(<<{"resources"}, {"resources"}>>) EXCEPT
        !.loads = {"resources"}, !.shut = {"detail", "ticked", "bulk"}, !.failShut = {"bulk"}]

GenericPageDetail ==
    {saveYaml, Open("delete", "detail"), Go("instances", "detail"),
     [Close("detail") EXCEPT !.closes = {"detail", "edited"}]}
    \cup Of("history", {[Open("rollback", "detail") EXCEPT !.off = {"useRollbackKubernetesResource"}]})

GenericK8sResourcePage ==
    Page("GenericK8sResourcePage", GenericPageViews \cup {DetailYaml}, {"detail", "edited", "ticked"},
         GenericPageToolbar \cup GenericPageRows \cup GenericPageEditor
         \cup GenericPageDetail
         \cup ConfirmActionDialog("delete", {}, deleteResource)
         \cup ConfirmActionDialog("bulk", {}, deleteSelected)
         \cup ConfirmActionDialog("rollback", {"useRollbackKubernetesResource"}, rollbackSelected))

-----------------------------------------------------------------------------
(* K8sCreateResourcePage. *)

CreateResourceViews ==
    {useClusters, Polled(useNamespaces), Swallows(Local("tags", {"tags"}))}

\* What every kind of resource has, and a file that fills the form.
CreateResourceForm ==
    Fields({"resourceName", "resourceNamespace", "labels", "selectedTags", "upload"}, "dirty", "")

\* What a kind of workload is asked for besides.
AssistedWorkload ==
    Fields({"containerName", "image", "port", "command", "replicas", "host", "path", "serviceName"}, "dirty", "")

AssistedData ==
    Fields({"selector", "serviceType", "targetPort", "configEntries", "secretType", "secretEntries"}, "dirty", "")

KeyValueEditor == Fields({"addEntry", "updateEntry", "removeEntry"}, "dirty", "")

\* The text of the YAML tab, and the form written into it.
YamlEditor == Fields({"manifest", "applyFormToYaml"}, "dirty", "")

resetToStarter == {Mends("dirty", "")}

handleApply ==
    Run("apply", "", {"useApplyManifest"}, [Mutate(useApplyManifest) EXCEPT !.exit = TRUE])

\* A changed form asks before it is dropped.
LeavePageDialog == {Close("leave"), Go("discard", "leave")}

CreateResourceCancel ==
    {[Go("cancel", "") EXCEPT !.off = {"dirty"}], [Open("leave", "") EXCEPT !.need = {"dirty"}]}

K8sCreateResourcePage ==
    Page("K8sCreateResourcePage", CreateResourceViews, {"dirty"},
         {Pick("cluster", {"namespaces"}), handleApply} \cup CreateResourceForm \cup AssistedWorkload
         \cup AssistedData \cup KeyValueEditor \cup YamlEditor \cup resetToStarter
         \cup CreateResourceCancel \cup LeavePageDialog)

-----------------------------------------------------------------------------
KubernetesPages ==
    {PodsPage, DeploymentsPage, ServicesPage, IngressesPage, SecretsPage, JobsPage,
     PersistentVolumesPage, ConfigMapsPage, K8sTopologyPage, SearchPage,
     ConfigMapDetailPage, NamespacesPage, HelmReleasesPage, DockerNodesPage,
     KubernetesNodesPage, EnvironmentsPage, GenericK8sResourcePage, K8sCreateResourcePage}
=============================================================================
