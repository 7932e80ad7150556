----------------------------- MODULE ShardRouting -----------------------------
(****************************************************************************)
(* Several instances behind the proxy Worker (shard.rs, leases.rs, app.rs,     *)
(* webhook.rs): the Worker (external) places acquires and GitHub deliveries on *)
(* any instance and stamps its shard on them; the instance learns its identity *)
(* from such a header, in two stores, and mints a lease id that hashes back to *)
(* it, since every later request for the lease is routed by that hash.  The    *)
(* autoscaler's table of jobs is in the memory of the instance a delivery      *)
(* reached.                                                                    *)
(****************************************************************************)
EXTENDS Integers, FiniteSets

CONSTANTS
  NumShards,     \* FABRIC_NUM_SHARDS, the same for the Worker and the instances
  Hashes,        \* values of fnv1a_32, a few consecutive numbers
  RoutedJobs,    \* GitHub jobs
  MaxRouted      \* bound on the leases

ASSUME ShardAssumption == NumShards \in Nat \ {0} /\ Hashes \subseteq Nat

VARIABLES
  shardOn,    \* shardOn[k]: the instance's this_shard and num_shards
  pgLedger,   \* the ledger is cross-instance safe
  routed,     \* leases: their hash, home, job, and how they were minted
  jobsOn,    \* jobsOn[k]: jobs the autoscaler of instance k knows
  github      \* github[j]: what GitHub has to say about the job

shardVars == <<shardOn, pgLedger, routed, jobsOn, github>>

Instances == 0 .. NumShards - 1
SHARD_UNKNOWN == -1

(* set_boot_num_shards, from FABRIC_NUM_SHARDS. *)
BootCount(n) == n

ShardInit ==
  /\ shardOn = [k \in Instances |-> [this |-> SHARD_UNKNOWN, num |-> BootCount(NumShards)]]
  /\ pgLedger \in BOOLEAN
  /\ routed = {}
  /\ jobsOn = [k \in Instances |-> [j \in RoutedJobs |-> "unseen"]]
  /\ github = [j \in RoutedJobs |-> "idle"]

(* shard_of *)
ShardOf(hash, n) == hash % n

(* observe_shard stores the count, and then the shard. *)
ObserveCount(k) ==
  /\ shardOn' = [shardOn EXCEPT ![k].num = NumShards]
  /\ UNCHANGED <<pgLedger, routed, jobsOn, github>>

ObserveThis(k) ==
  /\ shardOn[k].num = NumShards
  /\ shardOn' = [shardOn EXCEPT ![k].this = k]
  /\ UNCHANGED <<pgLedger, routed, jobsOn, github>>

(* acquire_shard_target: the headers, or what was learned, or shard 0. *)
AcquireShardTarget(k, headers) ==
  IF headers THEN <<k % NumShards, NumShards>>
  ELSE <<IF shardOn[k].this = SHARD_UNKNOWN THEN 0 ELSE shardOn[k].this, shardOn[k].num>>

(* Mutant: the first id drawn. *)
FirstDraw(target, n) == {[hash |-> h, exhausted |-> FALSE] : h \in Hashes}

(* mint_lease_id_for_shard: rejection sampling, and the last id when none of *)
(* the tries hits.                                                           *)
MintLeaseIdForShard(target, n) ==
  {[hash |-> h, exhausted |-> n > 1 /\ ShardOf(h, n) # target % n] : h \in Hashes}

(* acquire refuses a per-process ledger at more than one shard. *)
RoutedAcquire(k, headers, j) ==
  LET target == AcquireShardTarget(k, headers)
      known == headers \/ shardOn[k].this # SHARD_UNKNOWN
  IN  /\ Cardinality(routed) < MaxRouted
      /\ target[2] > 1 => pgLedger
      /\ \E id \in MintLeaseIdForShard(target[1], target[2]) :
           routed' = routed \cup {[hash |-> id.hash, exhausted |-> id.exhausted, home |-> k, job |-> j,
                                   known |-> known, live |-> TRUE]}
      /\ shardOn' = IF headers THEN [shardOn EXCEPT ![k] = [this |-> k, num |-> NumShards]] ELSE shardOn

(* POST /v1/leases, through the Worker or directly. *)
ClientAcquire(k) ==
  /\ \E headers \in BOOLEAN : RoutedAcquire(k, headers, "none")
  /\ UNCHANGED <<pgLedger, jobsOn, github>>

(* handle_queued, of a job this instance has not seen; a refused acquire *)
(* leaves a tombstone.                                                   *)
DeliverQueued(k, j) ==
  /\ github[j] = "idle" /\ jobsOn[k][j] = "unseen"
  /\ github' = [github EXCEPT ![j] = "queued"]
  /\ \/ RoutedAcquire(k, NumShards > 1, j) /\ jobsOn' = [jobsOn EXCEPT ![k][j] = "leased"]
     \/ jobsOn' = [jobsOn EXCEPT ![k][j] = "gone"] /\ UNCHANGED <<shardOn, routed>>
  /\ UNCHANGED pgLedger

(* handle_completed: cancels the lease this instance's table has. *)
DeliverCompleted(k, j) ==
  /\ github[j] = "queued"
  /\ github' = [github EXCEPT ![j] = "completed"]
  /\ routed' = IF jobsOn[k][j] = "leased"
               THEN {IF l.job = j /\ l.home = k THEN [l EXCEPT !.live = FALSE] ELSE l : l \in routed}
               ELSE routed
  /\ jobsOn' = [jobsOn EXCEPT ![k][j] = "gone"]
  /\ UNCHANGED <<shardOn, pgLedger>>

ShardNext ==
  \E k \in Instances :
    \/ ObserveCount(k) \/ ObserveThis(k) \/ ClientAcquire(k)
    \/ \E j \in RoutedJobs : DeliverQueued(k, j) \/ DeliverCompleted(k, j)

ShardSpec == ShardInit /\ [][ShardNext]_shardVars

--------------------------------------------------------------------------------
(* The whole life of a lease stays on the instance that acquired it: when the *)
(* headers were there, or the instance knew its shard, and a try of the mint  *)
(* hit, the Worker routes the lease's id back to its home.                    *)
LeaseRoutesHome == \A l \in routed : l.known /\ ~l.exhausted => ShardOf(l.hash, NumShards) = l.home

(* Instances that count leases each in their own memory admit nothing, not    *)
(* even for a caller without headers before the first header has come.        *)
NoUnsafeAdmission == NumShards > 1 /\ ~pgLedger => routed = {}

(* A job that completed has its lease cancelled at once.                      *)
CompletedIsReclaimed == \A l \in routed : l.job # "none" /\ l.live => github[l.job] # "completed"

(* A lease's id routes back to the instance that minted it, and instances     *)
(* that cannot see each other's leases admit nothing.                         *)
LeasesStayHome == LeaseRoutesHome /\ NoUnsafeAdmission
===============================================================================
