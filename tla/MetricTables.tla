---------------------------- MODULE MetricTables ----------------------------
(***************************************************************************)
(* Which metric goes where. A snapshot asks the source some 150 queries and*)
(* keeps each result in a field of MetricsSnapshot (src/pkg/emitter/       *)
(* snapshot.go, snapshotMetrics); the Kubecost pipelines ask the same      *)
(* queries of the adapter, which answers each from a field (src/kubecost/  *)
(* adapters/metricsquerier.go). A query is named without its prefix        *)
(* "Query"; nothing but its name and the field it uses is kept of it.      *)
(***************************************************************************)
\* The query methods of MetricsQuerierAdapter that answer from a snapshot.
StorageUseQueries ==  \* PVC and PV use, local storage.
  {"PVCBytesUsedAverage", "PVCBytesUsedMax", "KMPVInfo", "PVActiveMinutes",
   "PVUsedAverage", "PVUsedMax", "LocalStorageActiveMinutes",
   "LocalStorageUsedAvg", "LocalStorageUsedMax", "LocalStorageBytes",
   "KMLocalStorageUsedAvg", "KMLocalStorageUsedMax"}

NodeQueries ==  \* Local storage of the Kubernetes model, node capacity, load balancers.
  {"KMLocalStorageBytes", "NodeActiveMinutes", "NodeCPUCoresCapacity",
   "NodeCPUCoresAllocatable", "NodeRAMBytesCapacity",
   "NodeRAMBytesAllocatable", "NodeGPUCount", "NodeCPUModeTotal",
   "NodeIsSpot", "NodeRAMSystemPercent", "NodeRAMUserPercent",
   "LBActiveMinutes"}

ClusterAndPodQueries ==  \* Cluster, management and pod information.
  {"LBPricePerHr", "ClusterInfo", "ClusterKubeModelVersion",
   "ClusterUptime", "ClusterManagementDuration",
   "ClusterManagementPricePerHr", "Pods", "PodsUID", "PodInfo", "PodUptime",
   "PodOwners", "PodPVCVolumes"}

ContainerQueries ==  \* Pod traffic, container resources, RAM.
  {"PodNetworkEgressBytes", "PodNetworkIngressBytes", "ContainerUptime",
   "ContainerResourceRequests", "ContainerResourceLimits",
   "RAMBytesAllocated", "RAMRequests", "RAMLimits", "RAMUsageAvg",
   "RAMUsageMax", "NodeRAMPricePerGiBHr", "CPUCoresAllocated"}

ComputeQueries ==  \* CPU and GPU.
  {"CPURequests", "CPULimits", "CPUUsageAvg", "CPUUsageMax",
   "NodeCPUPricePerHr", "GPUsAllocated", "GPUsRequested", "GPUsUsageAvg",
   "GPUsUsageMax", "NodeGPUPricePerHr", "GPUInfo", "IsGPUShared"}

VolumeAndEgressQueries ==  \* Volumes and their prices, egress.
  {"PodPVCAllocation", "PVCBytesRequested", "PVCInfo", "KMPVCInfo",
   "PVBytes", "PVPricePerGiBHour", "PVInfo", "NetZoneGiB",
   "NetZonePricePerGiB", "NetRegionGiB", "NetRegionPricePerGiB",
   "NetInternetGiB"}

NetworkQueries ==  \* The rest of egress, ingress.
  {"NetInternetPricePerGiB", "NetInternetServiceGiB", "NetNatGatewayGiB",
   "NetNatGatewayPricePerGiB", "NetTransferBytes", "NetZoneIngressGiB",
   "NetRegionIngressGiB", "NetInternetIngressGiB",
   "NetInternetServiceIngressGiB", "NetNatGatewayIngressGiB",
   "NetNatGatewayIngressPricePerGiB", "NetReceiveBytes"}

LabelQueries ==  \* Labels and annotations.
  {"NamespaceUptime", "NamespaceAnnotations", "PodAnnotations",
   "NodeLabels", "NamespaceLabels", "PodLabels", "ServiceLabels",
   "DeploymentLabels", "StatefulSetLabels", "DaemonSetLabels", "JobLabels",
   "PodsWithReplicaSetOwner"}

QuotaQueries ==  \* Replica sets and resource quotas.
  {"ReplicaSetsWithoutOwners", "ReplicaSetsWithRollout",
   "ResourceQuotaUptime", "ResourceQuotaSpecCPURequestAverage",
   "ResourceQuotaSpecCPURequestMax", "ResourceQuotaSpecRAMRequestAverage",
   "ResourceQuotaSpecRAMRequestMax", "ResourceQuotaSpecCPULimitAverage",
   "ResourceQuotaSpecCPULimitMax", "ResourceQuotaSpecRAMLimitAverage",
   "ResourceQuotaSpecRAMLimitMax",
   "ResourceQuotaStatusUsedCPURequestAverage"}

QuotaUseQueries ==  \* Quota use, deployments.
  {"ResourceQuotaStatusUsedCPURequestMax",
   "ResourceQuotaStatusUsedRAMRequestAverage",
   "ResourceQuotaStatusUsedRAMRequestMax",
   "ResourceQuotaStatusUsedCPULimitAverage",
   "ResourceQuotaStatusUsedCPULimitMax",
   "ResourceQuotaStatusUsedRAMLimitAverage",
   "ResourceQuotaStatusUsedRAMLimitMax", "DeploymentInfo",
   "DeploymentUptime", "DeploymentAnnotations", "DeploymentMatchLabels",
   "StatefulSetInfo"}

WorkloadQueries ==  \* Stateful sets, daemon sets, jobs, cron jobs.
  {"StatefulSetUptime", "StatefulSetAnnotations", "StatefulSetMatchLabels",
   "DaemonSetInfo", "DaemonSetUptime", "DaemonSetAnnotations",
   "DaemonSetArguments", "JobInfo", "JobUptime", "JobAnnotations",
   "CronJobInfo", "CronJobUptime"}

OwnerQueries ==  \* Cron jobs, replica sets, namespaces, services, nodes.
  {"CronJobLabels", "CronJobAnnotations", "ReplicaSetInfo",
   "ReplicaSetUptime", "ReplicaSetLabels", "ReplicaSetAnnotations",
   "ReplicaSetOwners", "NamespaceInfo", "ServiceInfo", "ServiceUptime",
   "NodeInfo", "NodeUptime"}

DeviceQueries ==  \* Node resources, owners, devices.
  {"NodeResourceCapacities", "NodeResourcesAllocatable", "PVCUptime",
   "PVUptime", "PodsWithDaemonSetOwner", "PodsWithJobOwner",
   "ResourceQuotaInfo", "ServiceSelectorLabels", "DCGMDeviceInfo",
   "DCGMDeviceUptime", "DCGMContainerUsageAvg", "DCGMContainerUsageMax"}

AdapterQueries ==
  UNION {StorageUseQueries, NodeQueries, ClusterAndPodQueries, ContainerQueries,
         ComputeQueries, VolumeAndEgressQueries, NetworkQueries, LabelQueries,
         QuotaQueries, QuotaUseQueries, WorkloadQueries, OwnerQueries, DeviceQueries}

\* The queries of one snapshotMetrics, all in one group.
SnapshotQueries == AdapterQueries \ {"ServiceLabels"}

-----------------------------------------------------------------------------
\* Queries whose field has another name.
Shortened ==
  [PVCBytesUsedAverage |-> "PVCBytesUsedAvg",
   ResourceQuotaSpecCPURequestAverage |-> "ResourceQuotaSpecCPURequestAvg",
   ResourceQuotaSpecRAMRequestAverage |-> "ResourceQuotaSpecRAMRequestAvg",
   ResourceQuotaSpecCPULimitAverage |-> "ResourceQuotaSpecCPULimitAvg",
   ResourceQuotaSpecRAMLimitAverage |-> "ResourceQuotaSpecRAMLimitAvg",
   ResourceQuotaStatusUsedCPURequestAverage |-> "ResourceQuotaStatusUsedCPURequestAvg",
   ResourceQuotaStatusUsedRAMRequestAverage |-> "ResourceQuotaStatusUsedRAMRequestAvg",
   ResourceQuotaStatusUsedCPULimitAverage |-> "ResourceQuotaStatusUsedCPULimitAvg",
   ResourceQuotaStatusUsedRAMLimitAverage |-> "ResourceQuotaStatusUsedRAMLimitAvg"]

\* The fields of MetricsSnapshot.
MetricsField == {IF q \in DOMAIN Shortened THEN Shortened[q] ELSE q : q \in AdapterQueries}

\* The field snapshotMetrics keeps the result of q in.
FieldWritten(q) == IF q \in DOMAIN Shortened THEN Shortened[q] ELSE q

\* Mutant of FieldRead: two neighbours are swapped.
FieldSwapped(q) ==
  CASE q = "PVUsedAverage" -> "PVUsedMax"
    [] q = "PVUsedMax" -> "PVUsedAverage"
    [] OTHER -> FieldWritten(q)

\* The field the adapter answers q from.
FieldRead(q) == IF q \in DOMAIN Shortened THEN Shortened[q] ELSE q

\* The queries whose results end up in field f: none for a field that no
\* snapshot fills, which a reader finds nil.
Source == [f \in MetricsField |-> {q \in SnapshotQueries : FieldWritten(q) = f}]

-----------------------------------------------------------------------------
\* The lists of a KubernetesSnapshot that ClusterCacheAdapter answers from.
WorkloadLists ==
  {"Namespaces", "Nodes", "Pods", "Services", "DaemonSets", "Deployments",
   "StatefulSets", "ReplicaSets"}
StorageAndBatchLists ==
  {"PersistentVolumes", "PersistentVolumeClaims", "StorageClasses", "Jobs", "CronJobs",
   "PodDisruptionBudgets", "ReplicationControllers", "ResourceQuotas"}

AdapterLists == WorkloadLists \cup StorageAndBatchLists

\* The lists that have a flag, KubernetesSnapshotConfig.EnableAll.
FlaggedLists == AdapterLists \ {"CronJobs"}

\* snapshotKubernetes: a list whose flag is not set stays empty.
ListsFilled(flags) == flags \cap FlaggedLists
=============================================================================
