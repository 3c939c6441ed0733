----------------------------- MODULE DockerHooks -----------------------------
(***************************************************************************)
(* The hooks of the Docker pages: what each endpoint reads or changes, and *)
(* the keys each hook caches under or invalidates.  The audit trail is     *)
(* written by the endpoints that record one; the topology is computed from *)
(* containers, networks and volumes.                                       *)
(***************************************************************************)
EXTENDS PageTerms

dockerKeys(what) == <<"docker", what, "$env">>
containerKey(what) == dockerKeys("containers") \o <<"$id", what>>
stackKey == dockerKeys("stack") \o <<"$stack">>
serviceKey == dockerKeys("stack-service") \o <<"$stack", "$service">>
volumeKey(path) == dockerKeys("volumes") \o <<"$volume", "files", path>>

-----------------------------------------------------------------------------
(* Containers. *)

useContainers ==
    Swallows(Query("containers", dockerKeys("containers") \o <<"all">>, {"containers"}))

useContainerAction ==
    Mutation("useContainerAction", {"containers", "images", "audit"},
             {dockerKeys(k) : k \in {"containers", "images", "audit", "topology"}})

useContainerLogs == Polled(Swallows(Query("logs", containerKey("logs"), {"logs"})))

useContainerConfig == Query("config", containerKey("config"), {"containers"})

useContainerStats == Polled(Query("stats", containerKey("stats"), {"stats"}))

useLiveContainerLogs == Clears(Live("liveLogs", {"logs"}))

useLiveContainerStats == Live("liveStats", {"stats"})

useDockerSystemLogs ==
    Polled(Swallows(Query("systemLogs", <<"docker", "system-logs", "$env", "$lines">>, {"logs"})))

useDockerDiskUsage ==
    Query("diskUsage", dockerKeys("disk-usage"), {"containers", "images", "volumes"})

useReclaimDiskSpace ==
    Mutation("useReclaimDiskSpace", {"containers", "images", "networks", "volumes", "audit"},
             {dockerKeys(k) : k \in {"disk-usage", "containers", "images", "networks",
                                     "volumes", "topology", "audit"}})

useDockerSwarmStatus == Polled(Query("swarm", dockerKeys("swarm-status"), {"swarm"}))

useContainerFiles == Query("files", containerKey("files") \o <<"$path">>, {"files"})

useReadContainerFile ==
    Query("file", containerKey("files") \o <<"$file", "content">>, {"file"})

useSaveContainerFile ==
    Mutation("useSaveContainerFile", {"file", "files"}, {containerKey("files") \o <<"$file">>})

useCreateContainer ==
    Mutation("useCreateContainer", {"containers", "images", "audit"},
             {dockerKeys(k) : k \in {"containers", "images", "audit", "topology"}})

useUpdateContainer ==
    Mutation("useUpdateContainer", {"containers", "audit"},
             {dockerKeys(k) : k \in {"containers", "audit", "topology"}})

-----------------------------------------------------------------------------
(* Images. *)

useImages == Query("images", dockerKeys("images"), {"images"})

usePullImage ==
    Mutation("usePullImage", {"images", "audit"}, {dockerKeys("images"), dockerKeys("audit")})

usePushImage ==
    Mutation("usePushImage", {"audit"}, {dockerKeys("images"), dockerKeys("audit")})

useExportImage == Mutation("useExportImage", {"audit"}, {dockerKeys("audit")})

useBuildImage ==
    Mutation("useBuildImage", {"images", "builds", "audit"},
             {dockerKeys(k) : k \in {"images", "build-history", "audit"}})

useImportImageArchive ==
    Mutation("useImportImageArchive", {"images", "audit"},
             {dockerKeys("images"), dockerKeys("audit")})

useRetagImage == Mutation("useRetagImage", {"images"}, {dockerKeys("images")})

useRemoveImage ==
    Mutation("useRemoveImage", {"images", "audit"}, {dockerKeys("images"), dockerKeys("audit")})

-----------------------------------------------------------------------------
(* Networks and volumes. *)

useNetworks == Swallows(Query("networks", dockerKeys("networks"), {"networks"}))

useSaveNetwork ==
    Mutation("useSaveNetwork", {"networks"},
             {dockerKeys(k) : k \in {"networks", "topology", "audit"}})

\* Mutation of useDeleteNetwork: the list of networks is not invalidated.
useDeleteNetworkListKept ==
    Mutation("useDeleteNetwork", {"networks"}, {dockerKeys("topology")})

useDeleteNetwork ==
    Mutation("useDeleteNetwork", {"networks"}, {dockerKeys("networks"), dockerKeys("topology")})

useNetworkAttachment ==
    Mutation("useNetworkAttachment", {"networks"},
             {dockerKeys("networks"), dockerKeys("topology")})

useVolumes == Swallows(Query("volumes", dockerKeys("volumes"), {"volumes"}))

useSaveVolume ==
    Mutation("useSaveVolume", {"volumes"},
             {dockerKeys(k) : k \in {"volumes", "topology", "audit"}})

useDeleteVolume ==
    Mutation("useDeleteVolume", {"volumes"}, {dockerKeys("volumes"), dockerKeys("topology")})

useVolumeFiles == Query("files", volumeKey("$path"), {"files"})

useReadVolumeFile == Query("file", volumeKey("$file") \o <<"content">>, {"file"})

useSaveVolumeFile ==
    Mutation("useSaveVolumeFile", {"file", "files"}, {volumeKey("$file")})

useDeleteVolumeFile ==
    Mutation("useDeleteVolumeFile", {"files"}, {volumeKey("/"), dockerKeys("volumes")})

useBackupVolume == Mutation("useBackupVolume", {"backups"}, {})

useCloneVolume ==
    Mutation("useCloneVolume", {"volumes"}, {dockerKeys("volumes"), dockerKeys("topology")})

-----------------------------------------------------------------------------
(* Stacks. *)

useStacks == Swallows(Query("stacks", dockerKeys("stacks"), {"stacks"}))

useStackDetail == Query("stack", stackKey, {"stacks"})

useStackServices == Query("services", stackKey \o <<"services">>, {"services"})

useStackServiceDetail == Query("service", serviceKey, {"services"})

useStackServiceLogs == Polled(Query("serviceLogs", serviceKey \o <<"logs">>, {"logs"}))

useDeployStack ==
    Mutation("useDeployStack", {"stacks", "services", "containers", "audit"},
             {dockerKeys("stacks"), dockerKeys("audit")})

useDockerSecrets == Query("secrets", dockerKeys("secrets"), {"secrets"})

useSaveDockerSecret ==
    Mutation("useSaveDockerSecret", {"secrets", "audit"}, {dockerKeys("secrets")})

useDeleteDockerSecret ==
    Mutation("useDeleteDockerSecret", {"secrets", "audit"}, {dockerKeys("secrets")})

useRollbackStack ==
    Mutation("useRollbackStack", {"stacks", "services", "containers", "audit"},
             {dockerKeys("stacks"), stackKey, dockerKeys("audit")})

useStackAction ==
    Mutation("useStackAction", {"stacks", "services", "containers"},
             {dockerKeys("stacks"), dockerKeys("audit")})

useScaleStackService ==
    Mutation("useScaleStackService", {"stacks", "services"},
             {dockerKeys("stacks"), stackKey \o <<"services">>, dockerKeys("audit")})

useRestartStackService ==
    Mutation("useRestartStackService", {"services"},
             {stackKey \o <<"services">>, serviceKey, dockerKeys("audit")})

-----------------------------------------------------------------------------
(* Topology, audit, auto-heal, registries. *)

useDockerTopology ==
    Polled(Query("topology", dockerKeys("topology"), {"containers", "networks", "volumes"}))

useBuildHistory ==
    Polled(Swallows(Query("builds", dockerKeys("build-history") \o <<"$limit">>, {"builds"})))

useRuntimeAudit ==
    Polled(Swallows(Query("audit", dockerKeys("audit") \o <<"$limit", "$filters">>, {"audit"})))

useDockerAutoHealPolicies == Polled(Query("policies", dockerKeys("autoheal"), {"policies"}))

useSaveDockerAutoHealPolicy ==
    Mutation("useSaveDockerAutoHealPolicy", {"policies", "audit"},
             {dockerKeys("autoheal"), dockerKeys("audit")})

useDeleteDockerAutoHealPolicy ==
    Mutation("useDeleteDockerAutoHealPolicy", {"policies", "audit"},
             {dockerKeys("autoheal"), dockerKeys("audit")})

useRunDockerAutoHeal ==
    Mutation("useRunDockerAutoHeal", {"policies", "containers", "audit"},
             {dockerKeys(k) : k \in {"autoheal", "audit", "containers"}})

useRegistryCatalog == Query("catalog", <<"registry-catalog", "$registry", "$repository">>, {"catalog"})

useRegistries == Query("registries", <<"registries">>, {"registries"})

useSaveRegistry == Mutation("useSaveRegistry", {"registries"}, {<<"registries">>})

useDeleteRegistry == Mutation("useDeleteRegistry", {"registries"}, {<<"registries">>})

useTestRegistry == Mutation("useTestRegistry", {}, {})

useEnvironmentInventory ==
    Polled(Query("inventory", <<"environment-inventory">>,
                 {"containers", "images", "volumes", "stacks", "environments"}))

useRuntimeFeatureFlags == Query("flags", <<"settings", "feature-flags">>, {"flags"})
=============================================================================
