------------------------------ MODULE NodeStats ------------------------------
(***************************************************************************)
(* Collecting the kubelets' stats summaries (src/pkg/nodes). GetNodeData   *)
(* of the client starts one goroutine per ready node, as many at a time as *)
(* the limiter has room for, and returns when the last has ended. Each     *)
(* tries the connection methods its node allows, retries included, and     *)
(* ends with the node's stats or with an error.                            *)
(*                                                                         *)
(* With background collection, a provider repeats this on its own interval *)
(* and hands out what it recorded last. The module has no Next of its own: *)
(* ClusterSnapshot composes the steps with the snapshots that ask for the  *)
(* stats.                                                                  *)
(***************************************************************************)
EXTENDS Naturals, Sequences, FiniteSets

CONSTANTS
  Node,
  Direct,            \* nodes with an internal address that are not on Fargate,
                     \* none when the Kubernetes proxy is forced
  Retries,           \* Client.retries, for both connection methods
  ConcurrentPollers  \* a positive number, NewNodeClientConfigFromEnv sees to that

ASSUME NodeStatsAssumption ==
  /\ IsFiniteSet(Node) /\ Direct \subseteq Node
  /\ Retries \in Nat
  /\ ConcurrentPollers \in Nat \ {0}

VARIABLES
  collecting,  \* is a GetNodeData of the client running?
  ready,       \* the nodes it found ready
  polling,     \* the nodes whose goroutine holds a place in the limiter
  requests,    \* failed requests to each node
  fetched,     \* the nodes whose stats are in statsList
  failed,      \* the nodes with an error in errs
  background,  \* BackgroundNodeCollection
  provider,    \* the provider's goroutine
  everRecorded, \* is NodeStatsSummaryProvider.lastRecordedSummary set?
  recorded     \* NodeStatsSummaryProvider.stats

collectVars == <<collecting, ready, polling, requests, fetched, failed>>
providerVars == <<background, provider, everRecorded, recorded>>

\* What GetNodeData returns, the nodes with stats and those with an error, and, as an
\* observation, the nodes that were ready.
Result == [stats : SUBSET Node, errors : SUBSET Node, of : SUBSET Node]
Nothing == [stats |-> {}, errors |-> {}, of |-> {}]

NodeTypeOK ==
  /\ collecting \in BOOLEAN
  /\ ready \subseteq Node /\ polling \subseteq Node
  /\ Cardinality(polling) <= ConcurrentPollers
  /\ requests \in [Node -> Nat]
  /\ fetched \subseteq ready /\ failed \subseteq ready
  /\ background \in BOOLEAN
  /\ provider \in {"off", "initial", "waiting", "collecting"}
  /\ everRecorded \in BOOLEAN /\ recorded \in Result

NodeInit ==
  /\ collecting = FALSE /\ ready = {} /\ polling = {}
  /\ requests = [n \in Node |-> 0]
  /\ fetched = {} /\ failed = {}
  /\ background \in BOOLEAN
  /\ provider = IF background THEN "initial" ELSE "off"
  /\ everRecorded = FALSE /\ recorded = Nothing

-----------------------------------------------------------------------------
\* connectionOptions: the proxy always comes last.
connectionOptions(n) == IF n \in Direct THEN <<"direct", "proxy">> ELSE <<"proxy">>

\* How many requests retrieveNodeData makes before it gives up.
Requests(n) == Len(connectionOptions(n)) * (Retries + 1)

Ended(n) == n \in failed \cup fetched

\* GetNodeData lists the nodes that have a Ready condition.
BeginCollection ==
  /\ ~collecting
  /\ collecting' = TRUE
  /\ ready' \in SUBSET Node
  /\ polling' = {}
  /\ UNCHANGED <<requests, fetched, failed>>

\* Mutant of LimiterHasRoom: one goroutine too many.
LimiterOverfull == Cardinality(polling) <= ConcurrentPollers

LimiterHasRoom == Cardinality(polling) < ConcurrentPollers

\* The next goroutine starts as soon as the limiter has room.
StartPoller(n) ==
  /\ collecting
  /\ n \in ready \ polling /\ ~Ended(n)
  /\ LimiterHasRoom
  /\ polling' = polling \cup {n}
  /\ UNCHANGED <<collecting, ready, requests, fetched, failed>>

\* Mutant of ReleasePlace: only a goroutine that has no error gives its place back.
ReleaseUnlessFailed(n) == polling' = IF n \in failed' THEN polling ELSE polling \ {n}

\* The deferred receive from the limiter, whichever way the goroutine ends.
ReleasePlace(n) == polling' = polling \ {n}

EndsWithStats(n) ==
  /\ fetched' = fetched \cup {n} /\ UNCHANGED failed
  /\ ReleasePlace(n)

EndsWithError(n) ==
  /\ failed' = failed \cup {n} /\ UNCHANGED fetched
  /\ ReleasePlace(n)

\* A request is answered with a summary, or with a body that is none: that is an
\* error at once, without trying another connection.
RequestAnswered(n) ==
  /\ n \in polling /\ ~Ended(n)
  /\ EndsWithStats(n) \/ EndsWithError(n)
  /\ UNCHANGED <<collecting, ready, requests>>

\* A request fails; after the last one allowed the node has failed.
RequestFails(n) ==
  /\ n \in polling /\ ~Ended(n)
  /\ requests' = [requests EXCEPT ![n] = @ + 1]
  /\ IF requests'[n] = Requests(n) THEN EndsWithError(n)
                                   ELSE UNCHANGED <<polling, fetched, failed>>
  /\ UNCHANGED <<collecting, ready>>

\* Mutant of Collected: the wait for the goroutines is missing.
CollectedEarly == collecting

\* wg.Wait() returns.
Collected == collecting /\ \A n \in ready : Ended(n) /\ n \notin polling

Summaries == [stats |-> fetched, errors |-> failed, of |-> ready]

\* GetNodeData returns; its variables are gone.
EndCollection ==
  /\ collecting' = FALSE
  /\ ready' = {} /\ fetched' = {} /\ failed' = {}
  /\ requests' = [n \in Node |-> 0]
  /\ UNCHANGED polling

-----------------------------------------------------------------------------
\* The provider's first request is made before Start returns, a later one when its
\* timer fires, however long RefreshInterval is.
ProviderBegins ==
  /\ \/ provider = "initial" /\ provider' = "initial"
     \/ provider = "waiting" /\ provider' = "collecting"
  /\ BeginCollection
  /\ UNCHANGED <<background, everRecorded, recorded>>

\* Mutant of Keeps: a failed lookup overwrites the previous results.
KeepsNothing == FALSE

\* When the result is not recorded: at first if there are no stats, later if there
\* are none because of an error.
Keeps == fetched = {} /\ (provider = "initial" \/ failed # {})

ProviderEnds ==
  /\ provider \in {"initial", "collecting"} /\ Collected
  /\ EndCollection
  /\ \/ Keeps /\ UNCHANGED <<recorded, everRecorded>>
     \/ ~Keeps /\ recorded' = Summaries /\ everRecorded' = TRUE
  /\ provider' = "waiting"
  /\ UNCHANGED background

\* The bearer token cannot be read: an error and no stats, without a request. Later
\* on this changes nothing.
ProviderTokenFails ==
  /\ provider = "initial" /\ ~collecting
  /\ provider' = "waiting"
  /\ UNCHANGED <<background, everRecorded, recorded, collectVars>>

\* Steps of a collection, whoever began it.
PollerStep ==
  /\ \E n \in Node : StartPoller(n) \/ RequestAnswered(n) \/ RequestFails(n)
  /\ UNCHANGED providerVars

ProviderStep == ProviderBegins \/ ProviderEnds \/ ProviderTokenFails
=============================================================================
