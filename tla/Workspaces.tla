------------------------------ MODULE Workspaces ------------------------------
(***************************************************************************)
(* The workspace lifecycle of the runner: DedupSpawner, which coalesces    *)
(* concurrent spawns of one lease behind a slot, its sweep and eviction,   *)
(* and attach and resume, which go past the slots.                         *)
(*                                                                         *)
(* The lock of the slot map is held for single steps only; docker runs,    *)
(* probes and teardowns happen outside it.  A container is known by its    *)
(* name, which the lease determines; docker refuses a name that is in use  *)
(* and, with --rm, forgets it when the container dies.                     *)
(***************************************************************************)
EXTENDS Integers, FiniteSets

CONSTANTS
  WsCallers,     \* threads
  WsLeases, WsFences,
  CeilingFences, \* the fences that the snapshot's original fence covers
  WsMaxEntries,  \* max_entries
  DedupWindow,   \* dedup_window
  WsMaxNow

ASSUME WorkspacesAssumption ==
  /\ CeilingFences \subseteq WsFences /\ WsMaxEntries \in Nat \ {0}
  /\ DedupWindow \in Nat \ {0} /\ WsMaxNow \in Nat

VARIABLES
  wsSlots,    \* entries: per lease, none, pending, ready or failed
  wsBox,      \* per lease, which container holds its name: 0 for none
  wsSpawned,  \* per lease, how many containers were started
  wsCaller,   \* where each thread is
  wsNow,
  wsDiscards  \* of the slots discarded as dead: the container probed, the container of the slot

wsVars == <<wsSlots, wsBox, wsSpawned, wsCaller, wsNow, wsDiscards>>

WsOps == {"spawn", "attach", "resume", "evict"}
WsEntry(kind) == [kind |-> kind, box |-> 0, fence |-> "none", at |-> 0]
WsReady(box, fence) == [kind |-> "ready", box |-> box, fence |-> fence, at |-> wsNow]

WsInit ==
  /\ wsSlots = [l \in WsLeases |-> WsEntry("none")]
  /\ wsBox = [l \in WsLeases |-> 0] /\ wsSpawned = [l \in WsLeases |-> 0]
  /\ wsCaller = [c \in WsCallers |-> [op |-> "none", at |-> "idle", lease |-> "none", fence |-> "none", box |-> 0, reaped |-> {}]]
  /\ wsNow = 0 /\ wsDiscards = {}

WsTypeOK ==
  /\ \A l \in WsLeases : wsSlots[l].kind \in {"none", "pending", "ready", "failed"}
  /\ wsBox \in [WsLeases -> 0..Cardinality(WsCallers)] /\ \A l \in WsLeases : wsBox[l] <= wsSpawned[l]

LeaseOf(c) == wsCaller[c].lease
WsGoto(c, at) == wsCaller' = [wsCaller EXCEPT ![c].at = at]

(* notify_all: every waiter looks at its slot again. *)
WakeAll(callers) == [d \in WsCallers |-> IF callers[d].at = "waiting" THEN [callers[d] EXCEPT !.at = "claim"] ELSE callers[d]]

(* resume refuses a fence that the original one does not cover. *)
FirstStep(op, fence) ==
  CASE op = "spawn" -> "reap"
    [] op = "resume" -> IF fence \in CeilingFences THEN "run" ELSE "failed"
    [] OTHER -> op

(* A thread enters one of the operations. *)
WsStart(c, op, l, fence) ==
  /\ wsCaller[c].at = "idle"
  /\ wsCaller' = [wsCaller EXCEPT ![c].op = op, ![c].lease = l, ![c].fence = IF op = "evict" THEN @ ELSE fence,
                                  ![c].at = FirstStep(op, fence)]
  /\ UNCHANGED <<wsSlots, wsBox, wsSpawned, wsNow, wsDiscards>>

--------------------------------------------------------------------------------
(* spawn_or_join *)

Expired(l) == wsSlots[l].kind = "ready" /\ wsNow - wsSlots[l].at >= DedupWindow

(* reap_locked: failed and expired slots go; then, while the map is full, the *)
(* oldest ready ones.  The slot of the caller is kept.                        *)
ReapLocked(c) ==
  LET swept == {l \in WsLeases \ {LeaseOf(c)} : wsSlots[l].kind = "failed" \/ Expired(l)}
      left == {l \in WsLeases \ swept : wsSlots[l].kind # "none"}
      ready == {l \in left \ {LeaseOf(c)} : wsSlots[l].kind = "ready"}
  IN  /\ wsCaller[c].at = "reap"
      /\ \E oldest \in SUBSET ready :
           /\ \A l \in oldest, k \in ready \ oldest : wsSlots[l].at <= wsSlots[k].at
           /\ oldest = ready \/ Cardinality(left \ oldest) < WsMaxEntries
           /\ \A l \in oldest : Cardinality(left \ oldest) + 1 >= WsMaxEntries
           /\ LET reaped == {l \in swept : wsSlots[l].kind = "ready"} \cup oldest
              IN  wsCaller' = [wsCaller EXCEPT ![c].at = IF reaped = {} THEN "claim" ELSE "teardown", ![c].reaped = reaped]
           /\ wsSlots' = [l \in WsLeases |-> IF l \in swept \cup oldest THEN WsEntry("none") ELSE wsSlots[l]]
      /\ UNCHANGED <<wsBox, wsSpawned, wsNow, wsDiscards>>

(* teardown_reaped, and the hook of evict_checked: by name, outside the lock; *)
(* a failure is reported and not tried again.                                 *)
TeardownHook(c) ==
  /\ wsCaller[c].at = "teardown"
  /\ \E l \in wsCaller[c].reaped :
       /\ wsCaller' = [wsCaller EXCEPT ![c].reaped = @ \ {l},
            ![c].at = IF wsCaller[c].reaped # {l} THEN @ ELSE IF wsCaller[c].op = "evict" THEN "done" ELSE "claim"]
       /\ wsBox' \in {wsBox, [wsBox EXCEPT ![l] = 0]}
  /\ UNCHANGED <<wsSlots, wsSpawned, wsNow, wsDiscards>>

(* The caller takes the slot. *)
TakeSlot(c) == wsSlots' = [wsSlots EXCEPT ![LeaseOf(c)] = WsEntry("pending")] /\ WsGoto(c, "run")

ClaimReady(c) ==
  /\ wsCaller[c].at = "claim" /\ wsSlots[LeaseOf(c)].kind = "ready" /\ ~Expired(LeaseOf(c))
  /\ wsCaller' = [wsCaller EXCEPT ![c].box = wsSlots[LeaseOf(c)].box,
                  ![c].at = IF wsSlots[LeaseOf(c)].fence = wsCaller[c].fence THEN "probe" ELSE "refused"]
  /\ UNCHANGED <<wsSlots, wsBox, wsSpawned, wsNow, wsDiscards>>

WaitForPending(c) ==
  /\ wsCaller[c].at = "claim" /\ wsSlots[LeaseOf(c)].kind = "pending" /\ WsGoto(c, "waiting")
  /\ UNCHANGED <<wsSlots, wsBox, wsSpawned, wsNow, wsDiscards>>

ClaimFree(c) ==
  /\ wsCaller[c].at = "claim"
  /\ wsSlots[LeaseOf(c)].kind \in {"none", "failed"} \/ Expired(LeaseOf(c))
  /\ TakeSlot(c)
  /\ UNCHANGED <<wsBox, wsSpawned, wsNow, wsDiscards>>

(* is_alive of the cached handle, by name, or the box cannot be reached. *)
ProbeCached(c) ==
  /\ wsCaller[c].at = "probe"
  /\ WsGoto(c, IF wsBox[LeaseOf(c)] # 0 THEN "done" ELSE "discard") \/ WsGoto(c, "failed")
  /\ UNCHANGED <<wsSlots, wsBox, wsSpawned, wsNow, wsDiscards>>

(* The corpse's slot is discarded and the loop goes on under the same lock. *)
DiscardDead(c) ==
  LET slot == wsSlots[LeaseOf(c)]
  IN  /\ wsCaller[c].at = "discard"
      /\ IF slot.kind = "pending" THEN WsGoto(c, "waiting") /\ UNCHANGED <<wsSlots, wsDiscards>>
         ELSE /\ TakeSlot(c)
              /\ wsDiscards' = IF slot.kind = "ready" THEN wsDiscards \cup {<<wsCaller[c].box, slot.box>>} ELSE wsDiscards
      /\ UNCHANGED <<wsBox, wsSpawned, wsNow>>

(* spawn_workspace: docker run, whose answer may be lost.  For a resume the   *)
(* state payload is restored next, and may fail.                              *)
DockerRun(c) ==
  LET l == LeaseOf(c)
      next == IF wsCaller[c].op = "resume" THEN "restore" ELSE "publish"
  IN  /\ wsCaller[c].at = "run"
      /\ \/ /\ wsBox[l] = 0
            /\ wsSpawned' = [wsSpawned EXCEPT ![l] = @ + 1] /\ wsBox' = [wsBox EXCEPT ![l] = wsSpawned[l] + 1]
            /\ \E box \in {0, wsSpawned[l] + 1} : wsCaller' = [wsCaller EXCEPT ![c].at = next, ![c].box = box]
         \/ /\ wsCaller' = [wsCaller EXCEPT ![c].at = next, ![c].box = 0] /\ UNCHANGED <<wsBox, wsSpawned>>
      /\ UNCHANGED <<wsSlots, wsNow, wsDiscards>>

(* Mutant: a failed spawn forgets to notify. *)
PublishedQuietly(c, callers) == IF wsCaller[c].box = 0 THEN callers ELSE WakeAll(callers)

Published(c, callers) == WakeAll(callers)

PublishSpawn(c) ==
  /\ wsCaller[c].at = "publish"
  /\ wsSlots' = [wsSlots EXCEPT ![LeaseOf(c)] =
       IF wsCaller[c].box = 0 THEN WsEntry("failed") ELSE WsReady(wsCaller[c].box, wsCaller[c].fence)]
  /\ wsCaller' = Published(c, [wsCaller EXCEPT ![c].at = IF wsCaller[c].box = 0 THEN "failed" ELSE "done"])
  /\ UNCHANGED <<wsBox, wsSpawned, wsNow, wsDiscards>>

--------------------------------------------------------------------------------
(* evict_checked, attach_workspace, resume_workspace *)

EvictWakes(callers) == WakeAll(callers)

EvictChecked(c) ==
  LET l == LeaseOf(c)
      next == IF wsSlots[l].kind = "ready" THEN "teardown" ELSE "done"
  IN  /\ wsCaller[c].at = "evict"
      /\ wsSlots' = [wsSlots EXCEPT ![l] = WsEntry("none")]
      /\ wsCaller' = EvictWakes([wsCaller EXCEPT ![c].at = next, ![c].reaped = {l}])
      /\ UNCHANGED <<wsBox, wsSpawned, wsNow, wsDiscards>>

AttachWorkspace(c) ==
  /\ wsCaller[c].at = "attach" /\ WsGoto(c, IF wsBox[LeaseOf(c)] # 0 THEN "done" ELSE "failed")
  /\ UNCHANGED <<wsSlots, wsBox, wsSpawned, wsNow, wsDiscards>>

RestoreStatePayload(c) ==
  /\ wsCaller[c].at = "restore"
  /\ \/ wsCaller[c].box # 0 /\ wsBox[LeaseOf(c)] # 0 /\ WsGoto(c, "done")
     \/ WsGoto(c, "failed")
  /\ UNCHANGED <<wsSlots, wsBox, wsSpawned, wsNow, wsDiscards>>

(* The container dies; time passes. *)
WsCrash(l) ==
  /\ wsBox[l] # 0 /\ wsBox' = [wsBox EXCEPT ![l] = 0]
  /\ UNCHANGED <<wsSlots, wsSpawned, wsCaller, wsNow, wsDiscards>>

WsTick ==
  /\ wsNow < WsMaxNow /\ wsNow' = wsNow + 1
  /\ UNCHANGED <<wsSlots, wsBox, wsSpawned, wsCaller, wsDiscards>>

WsNext ==
  \/ \E c \in WsCallers :
       \/ \E op \in WsOps, l \in WsLeases, fence \in WsFences : WsStart(c, op, l, fence)
       \/ ReapLocked(c) \/ TeardownHook(c) \/ ClaimReady(c) \/ WaitForPending(c) \/ ClaimFree(c)
       \/ ProbeCached(c) \/ DiscardDead(c) \/ DockerRun(c) \/ PublishSpawn(c)
       \/ EvictChecked(c) \/ AttachWorkspace(c) \/ RestoreStatePayload(c)
  \/ \E l \in WsLeases : WsCrash(l)
  \/ WsTick

WsSpec == WsInit /\ [][WsNext]_wsVars

--------------------------------------------------------------------------------
(* No wakeup is lost: a thread that waits on the condition variable waits for *)
(* a pending slot, and some thread is still to publish that slot, although    *)
(* slots are evicted, discarded and taken over in between.                    *)
WaitersHaveASpawner ==
  \A c \in WsCallers : wsCaller[c].at = "waiting" =>
    /\ wsSlots[LeaseOf(c)].kind = "pending"
    /\ \E d \in WsCallers : wsCaller[d].at \in {"run", "publish"} /\ wsCaller[d].op = "spawn" /\ LeaseOf(d) = LeaseOf(c)

(* "Only remove if it is still the same dead entry": the slot discarded after *)
(* a probe that found its container dead is the slot of that container.       *)
DiscardsOnlyTheDead == \A d \in wsDiscards : d[1] = d[2]
===============================================================================
