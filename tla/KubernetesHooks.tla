--------------------------- MODULE KubernetesHooks ---------------------------
(***************************************************************************)
(* The hooks of the Kubernetes pages: what each endpoint reads or changes, *)
(* and the keys each hook caches under or invalidates.  A list hook polls  *)
(* while the page watches, which is how every page starts.                 *)
(***************************************************************************)
EXTENDS DockerHooks

k8sKeys(kind) == <<"kubernetes", kind, "$cluster">>
namespacedKey(kind) == k8sKeys(kind) \o <<"$namespace">>
k8sAll == <<"kubernetes">>

\* What applying a manifest, or installing a chart, may change.
Kinds ==
    {"pods", "deployments", "services", "ingresses", "configmaps", "secrets", "namespaces",
     "volumes", "claims", "jobs", "cronjobs", "resources", "history", "manifests"}

-----------------------------------------------------------------------------
(* Queries. *)

useClusters == useEnvironmentInventory

usePods == Polled(Query("pods", namespacedKey("pods"), {"pods"}))

usePodLogs == Query("podLogs", namespacedKey("podLogs") \o <<"$pod", "$tail">>, {"podLogs"})

useDeployments == Polled(Query("deployments", namespacedKey("deployments"), {"deployments"}))

useServices == Polled(Query("services", namespacedKey("services"), {"services"}))

useIngresses == Query("ingresses", namespacedKey("ingresses"), {"ingresses"})

useConfigMaps == Query("configmaps", namespacedKey("configmaps"), {"configmaps"})

useSecrets == Query("secrets", namespacedKey("secrets"), {"secrets"})

useNodes == Polled(Query("nodes", k8sKeys("nodes"), {"nodes"}))

useKubernetesNodeDetail ==
    Polled(Query("nodeDetail", k8sKeys("nodeDetail") \o <<"$node">>, {"nodes", "pods"}))

useNamespaces == Query("namespaces", k8sKeys("namespaces"), {"namespaces"})

usePersistentVolumes == Query("volumes", k8sKeys("persistentVolumes"), {"volumes"})

usePersistentVolumeClaims == Query("claims", namespacedKey("persistentVolumeClaims"), {"claims"})

useJobs == Query("jobs", namespacedKey("jobs"), {"jobs"})

useCronJobs == Query("cronjobs", namespacedKey("cronjobs"), {"cronjobs"})

useHelmReleases == Query("releases", k8sKeys("helmReleases"), {"releases"})

useGenericKubernetesResources ==
    Polled(Query("resources", k8sKeys("genericResources") \o <<"$kind", "$namespace">>, {"resources"}))

useKubernetesTopology ==
    Query("k8sTopology", k8sKeys("topology"),
          {"nodes", "pods", "deployments", "services", "ingresses", "configmaps", "secrets", "claims"})

useKubernetesResourceHistory ==
    Query("history", k8sKeys("resourceHistory") \o <<"$kind", "$namespace", "$name">>, {"history"})

useKubernetesSearch == Query("search", namespacedKey("search") \o <<"$query">>, Kinds \ {"history", "manifests"})

useKubeAgentBootstrap ==
    Query("bootstrap", k8sKeys("agentBootstrap") \o <<"$token", "$image">>, {"bootstrap"})

-----------------------------------------------------------------------------
(* The live lists.  A changed endpoint opens another socket, but the items     *)
(* of the one before stay until the new one delivers its first snapshot.       *)

useKubernetesListStream(name, reads) == Live(name, reads)

useLivePods == useKubernetesListStream("livePods", {"pods"})

useLiveDeployments == useKubernetesListStream("liveDeployments", {"deployments"})

useLiveServices == useKubernetesListStream("liveServices", {"services"})

useLiveNodes == useKubernetesListStream("liveNodes", {"nodes"})

useLiveGenericKubernetesResources == useKubernetesListStream("liveResources", {"resources"})

-----------------------------------------------------------------------------
(* Mutations. *)

\* A command run in a pod may do anything there; no page shows it.
usePodExec == Mutation("usePodExec", {}, {})

useScaleDeployment ==
    Mutation("useScaleDeployment", {"deployments", "pods"},
             {k8sKeys("deployments") \o <<"default">>, k8sAll})

useRestartDeployment ==
    Mutation("useRestartDeployment", {"deployments", "pods"}, {k8sKeys("deployments") \o <<"default">>})

\* One hook per action, hence one isPending per action.
useKubernetesNodeAction(action) ==
    Mutation(action, {"nodes", "pods", "audit"}, {k8sKeys("nodes"), k8sAll})

useStartKubernetesNodeDebugSession == Mutation("useStartKubernetesNodeDebugSession", {"pods"}, {})

useApplyManifest == Mutation("useApplyManifest", Kinds, {k8sAll})

useRollbackKubernetesResource == Mutation("useRollbackKubernetesResource", Kinds, {k8sAll})

useInstallHelmRelease ==
    Mutation("useInstallHelmRelease", Kinds \cup {"releases"}, {k8sKeys("helmReleases"), k8sAll})

useUninstallHelmRelease ==
    Mutation("useUninstallHelmRelease", Kinds \cup {"releases"}, {k8sKeys("helmReleases"), k8sAll})

useImportKubeconfig ==
    Mutation("useImportKubeconfig", {"environments"}, {<<"environment-inventory">>, k8sAll})
=============================================================================
