-------------------------- MODULE RunnerCredentials --------------------------
(****************************************************************************)
(* The secrets a box is given (runner_broker.rs, runner_cas_mint.rs,          *)
(* runner_inject.rs, envelope_inject.rs, cred_ticket.rs, ingest_token.rs,     *)
(* handlers/cas_cred.rs, handlers/test_mint.rs): finalize registers a JIT     *)
(* runner with GitHub, mints a CAS PAT that is to die with the lease, keeps   *)
(* its token in the stash and gives the box a ticket that redeems it once.    *)
(* The test mint issues a ticket for a lease that is Held from the start.     *)
(* GitHub and the mint service are external; a call of theirs may fail before *)
(* or after it took effect, and the service stamps expiries by its own clock. *)
(****************************************************************************)
EXTENDS Integers, Sequences, FiniteSets

CONSTANTS
  CredLeases,    \* leases that hydrate from the CAS
  TestLeases,    \* those of them that the test mint issues
  Redeemers,     \* cas-cred requests
  GitHubApp,     \* TRUE: GitHubAppBroker (two legs), FALSE: PatBroker
  CredTtl,       \* lease length
  SkewMargin,    \* MINT_TTL_SKEW_MARGIN_MS
  MaxDrift,      \* how far the service's stamp may be from the time of the request
  MaxMints,      \* bound on the PATs the service creates
  CredMaxNow     \* bound on the clock

ASSUME CredAssumption ==
  /\ TestLeases \subseteq CredLeases
  /\ CredTtl \in Nat /\ SkewMargin \in Nat /\ MaxDrift \in Nat /\ CredTtl > SkewMargin

VARIABLES
  credNow,
  life,        \* life[l]: the ledger's state, its deadline, and whether the end was cleaned up
  issue,       \* issue[l]: where finalize (or the test mint) is, and the ttl it asked for
  pats,        \* the service's PATs, in order of creation
  patIds,      \* AppState.pat_ids: lease -> PAT
  pendingCred, \* AppState.pending_cred: lease -> PAT
  boxEnv,      \* boxEnv[l]: secrets in the environment of the lease's box
  redeem       \* redeem[r]: a request to cas-cred

credVars == <<credNow, life, issue, pats, patIds, pendingCred, boxEnv, redeem>>

NoIssue == [at |-> "idle", ttl |-> 0, asked |-> 0]
NoRedeem == [at |-> "idle", lease |-> "none", holder |-> "none"]

CredInit ==
  /\ credNow = 0
  /\ life = [l \in CredLeases |-> [state |-> "none", deadline |-> 0, clean |-> TRUE]]
  /\ issue = [l \in CredLeases |-> NoIssue]
  /\ pats = <<>>
  /\ patIds = <<>>
  /\ pendingCred = <<>>
  /\ boxEnv = [l \in CredLeases |-> {}]
  /\ redeem = [r \in Redeemers |-> NoRedeem]

CredPut(f, k, v) == [j \in DOMAIN f \cup {k} |-> IF j = k THEN v ELSE f[j]]
CredDrop(f, k) == [j \in DOMAIN f \ {k} |-> f[j]]
IssueGoes(l, at) == issue' = [issue EXCEPT ![l].at = at]

--------------------------------------------------------------------------------
(* Tickets: a MAC of a domain and the lease id under the signer's key *)

IngestToken(l) == <<"envelope-ingest", l>>
Ticket(l) == <<"cred-ticket", l>>

Verifies(l, presented) == presented = Ticket(l)

--------------------------------------------------------------------------------
(* revoke_pat_for: the stash and the id go; the revoke may fail and is not repeated. *)
RevokePatFor(l) ==
  /\ patIds' = CredDrop(patIds, l)
  /\ pendingCred' = CredDrop(pendingCred, l)
  /\ pats' \in IF l \in DOMAIN patIds
               THEN {[pats EXCEPT ![patIds[l]] = [@ EXCEPT !.tried = TRUE, !.revoked = ok]] : ok \in BOOLEAN}
               ELSE {pats}

--------------------------------------------------------------------------------
(* finalize_admitted_lease, from the runner registration to the Held lease *)

FirstLeg == IF GitHubApp THEN "app_token" ELSE "jitconfig"

Admit(l) ==
  /\ life[l].state = "none" /\ l \notin TestLeases
  /\ life' = [life EXCEPT ![l] = [state |-> "pending", deadline |-> credNow + CredTtl, clean |-> FALSE]]
  /\ boxEnv' = [boxEnv EXCEPT ![l] = {IngestToken(l)}]
  /\ IssueGoes(l, FirstLeg)
  /\ UNCHANGED <<credNow, pats, patIds, pendingCred, redeem>>

(* installation_token: a signed JWT for an access token; any failure rolls back. *)
InstallationToken(l) ==
  /\ issue[l].at = "app_token"
  /\ \E ok \in BOOLEAN : IssueGoes(l, IF ok THEN "jitconfig" ELSE "rollback")
  /\ UNCHANGED <<credNow, life, pats, patIds, pendingCred, boxEnv, redeem>>

(* jit_config: the configuration goes to the box; a refusal, a malformed or *)
(* a lost answer (GitHub may have registered the runner) rolls back.         *)
JitConfig(l) ==
  /\ issue[l].at = "jitconfig"
  /\ \/ boxEnv' = [boxEnv EXCEPT ![l] = @ \cup {<<"jitconfig", l>>}] /\ IssueGoes(l, "stale")
     \/ UNCHANGED boxEnv /\ IssueGoes(l, "rollback")
  /\ UNCHANGED <<credNow, life, pats, patIds, pendingCred, redeem>>

(* A PAT of an earlier attempt is revoked before the next is minted. *)
RevokeStale(l) ==
  /\ issue[l].at = "stale"
  /\ RevokePatFor(l)
  /\ IssueGoes(l, "ask")
  /\ UNCHANGED <<credNow, life, boxEnv, redeem>>

(* Mutant: the whole remaining time is asked for. *)
MintTtlUnshrunk(deadline, at) == IF deadline > at THEN deadline - at ELSE 0

(* The remaining time less the skew margin, saturating. *)
MintTtl(deadline, at) == IF deadline > at + SkewMargin THEN deadline - at - SkewMargin ELSE 0

(* HttpCasPatMint::mint up to the call; a zero ttl is never asked for. *)
AskMint(l) ==
  LET ttl == MintTtl(life[l].deadline, credNow)
  IN  /\ issue[l].at = "ask"
      /\ issue' = [issue EXCEPT ![l] = IF ttl = 0 THEN [NoIssue EXCEPT !.at = "rollback"]
                                       ELSE [at |-> "post", ttl |-> ttl, asked |-> credNow]]
      /\ UNCHANGED <<credNow, life, pats, patIds, pendingCred, boxEnv, redeem>>

(* The service creates a PAT, its stamp delay and skew away from the request. *)
ServiceMints(l) ==
  /\ issue[l].at = "post" /\ Len(pats) < MaxMints
  /\ \E drift \in (-1)..MaxDrift :
       pats' = Append(pats, [lease |-> l, drift |-> drift, expires |-> issue[l].asked + drift + issue[l].ttl,
                             accepted |-> FALSE, tried |-> FALSE, revoked |-> FALSE, handed |-> <<>>])
  /\ IssueGoes(l, "answer")
  /\ UNCHANGED <<credNow, life, patIds, pendingCred, boxEnv, redeem>>

(* The service refuses, or is not reached. *)
ServiceRefuses(l) ==
  /\ issue[l].at = "post"
  /\ IssueGoes(l, "rollback")
  /\ UNCHANGED <<credNow, life, pats, patIds, pendingCred, boxEnv, redeem>>

(* The answer is lost (Unreachable) or malformed (BadResponse). *)
MintAnswerLost(l) ==
  /\ issue[l].at = "answer"
  /\ IssueGoes(l, "rollback")
  /\ UNCHANGED <<credNow, life, pats, patIds, pendingCred, boxEnv, redeem>>

LatestPat(l) == CHOOSE n \in DOMAIN pats : pats[n].lease = l /\ \A k \in DOMAIN pats : pats[k].lease = l => k <= n

(* TtlExceedsLease *)
AcceptsMint(expires, deadline) == expires <= deadline

(* A good answer: the token is stashed, the box gets a ticket, the id is *)
(* recorded; an expiry past the deadline is refused and not recorded.    *)
MintAnswered(l) ==
  LET n == LatestPat(l)
  IN  /\ issue[l].at = "answer"
      /\ IF AcceptsMint(pats[n].expires, life[l].deadline)
         THEN /\ pats' = [pats EXCEPT ![n].accepted = TRUE]
              /\ pendingCred' = CredPut(pendingCred, l, n)
              /\ patIds' = CredPut(patIds, l, n)
              /\ boxEnv' = [boxEnv EXCEPT ![l] = @ \cup {Ticket(l)}]
              /\ IssueGoes(l, IF l \in TestLeases THEN "done" ELSE "provision")
         ELSE IssueGoes(l, "rollback") /\ UNCHANGED <<pats, pendingCred, patIds, boxEnv>>
      /\ UNCHANGED <<credNow, life, redeem>>

(* The provider has no capacity: the lease is queued again with its PAT, and *)
(* finalize starts over.                                                     *)
ProvisionRetried(l) ==
  /\ issue[l].at = "provision"
  /\ IssueGoes(l, FirstLeg)
  /\ UNCHANGED <<credNow, life, pats, patIds, pendingCred, boxEnv, redeem>>

ProvisionFails(l) ==
  /\ issue[l].at = "provision"
  /\ IssueGoes(l, "rollback")
  /\ UNCHANGED <<credNow, life, pats, patIds, pendingCred, boxEnv, redeem>>

(* The Held transition, which an ended lease refuses. *)
Provisioned(l) ==
  /\ issue[l].at = "provision"
  /\ IF life[l].state = "pending"
     THEN life' = [life EXCEPT ![l].state = "held"] /\ IssueGoes(l, "done")
     ELSE IssueGoes(l, "rollback") /\ UNCHANGED life
  /\ UNCHANGED <<credNow, pats, patIds, pendingCred, boxEnv, redeem>>

(* rollback_pending_admission: the row and the secrets go, forget_lease is not *)
(* called; the test mint only removes its row.                                 *)
RollbackIssue(l) ==
  /\ issue[l].at = "rollback"
  /\ life' = [life EXCEPT ![l].state = "ended", ![l].clean = TRUE]
  /\ IF l \in TestLeases THEN UNCHANGED <<pats, patIds, pendingCred>> ELSE RevokePatFor(l)
  /\ issue' = [issue EXCEPT ![l] = [NoIssue EXCEPT !.at = "done"]]
  /\ UNCHANGED <<credNow, boxEnv, redeem>>

--------------------------------------------------------------------------------
(* mint_cred_ticket: the lease is Held before the mint is asked *)

TestMint(l) ==
  /\ l \in TestLeases /\ life[l].state = "none"
  /\ life' = [life EXCEPT ![l] = [state |-> "held", deadline |-> credNow + CredTtl, clean |-> FALSE]]
  /\ IssueGoes(l, "ask")
  /\ UNCHANGED <<credNow, pats, patIds, pendingCred, boxEnv, redeem>>

--------------------------------------------------------------------------------
(* A close, the reaper, a crash or a kill ends the lease; a stale Pending row *)
(* is swept.                                                                  *)
LeaseEnded(l) ==
  /\ life[l].state \in {"pending", "held"}
  /\ life' = [life EXCEPT ![l].state = "ended"]
  /\ UNCHANGED <<credNow, issue, pats, patIds, pendingCred, boxEnv, redeem>>

(* revoke_pat_for and forget_lease, after the terminal transition. *)
CleanUp(l) ==
  /\ life[l].state = "ended" /\ ~life[l].clean
  /\ life' = [life EXCEPT ![l].clean = TRUE]
  /\ RevokePatFor(l)
  /\ UNCHANGED <<credNow, issue, boxEnv, redeem>>

--------------------------------------------------------------------------------
(* redeem, by whoever holds the environment of a box *)

Answered(status) == [NoRedeem EXCEPT !.at = status]

RedeemCheck(r, l, holder) ==
  /\ redeem[r].at = "idle" /\ holder \in CredLeases
  /\ \E presented \in boxEnv[holder] :
       redeem' = [redeem EXCEPT ![r] =
         IF Verifies(l, presented) /\ life[l].state = "held"
         THEN [at |-> "take", lease |-> l, holder |-> holder] ELSE Answered("refused")]
  /\ UNCHANGED <<credNow, life, issue, pats, patIds, pendingCred, boxEnv>>

(* take_cred *)
TakeCred(l) == pendingCred' = CredDrop(pendingCred, l)

RedeemTake(r) ==
  LET l == redeem[r].lease
  IN  /\ redeem[r].at = "take"
      /\ IF l \in DOMAIN pendingCred
         THEN /\ pats' = [pats EXCEPT ![pendingCred[l]].handed = Append(@, redeem[r].holder)]
              /\ TakeCred(l)
              /\ redeem' = [redeem EXCEPT ![r] = Answered("ok")]
         ELSE redeem' = [redeem EXCEPT ![r] = Answered("gone")] /\ UNCHANGED <<pats, pendingCred>>
      /\ UNCHANGED <<credNow, life, issue, patIds, boxEnv>>

CredTick ==
  /\ credNow < CredMaxNow
  /\ credNow' = credNow + 1
  /\ UNCHANGED <<life, issue, pats, patIds, pendingCred, boxEnv, redeem>>

CredNext ==
  \/ \E l \in CredLeases :
       \/ Admit(l) \/ InstallationToken(l) \/ JitConfig(l) \/ RevokeStale(l)
       \/ AskMint(l) \/ ServiceMints(l) \/ ServiceRefuses(l) \/ MintAnswerLost(l) \/ MintAnswered(l)
       \/ ProvisionRetried(l) \/ ProvisionFails(l) \/ Provisioned(l) \/ RollbackIssue(l)
       \/ TestMint(l) \/ LeaseEnded(l) \/ CleanUp(l)
  \/ \E r \in Redeemers : RedeemTake(r) \/ \E l, holder \in CredLeases : RedeemCheck(r, l, holder)
  \/ CredTick

CredSpec == CredInit /\ [][CredNext]_credVars

--------------------------------------------------------------------------------
(* A PAT the fabric accepted expires by the lease's deadline whatever the      *)
(* service's clock says, and as long as delay and skew stay within the margin  *)
(* so does every PAT, the ones whose answer was lost and which are never       *)
(* revoked included.                                                           *)
NoPatOutlivesLease ==
  \A n \in DOMAIN pats :
    pats[n].accepted \/ pats[n].drift <= SkewMargin => pats[n].expires <= life[pats[n].lease].deadline

(* A token leaves the fabric at most once, and to the box of its own lease,   *)
(* although requests race each other, the end of the lease and its rollback.  *)
TokenLeavesOnce ==
  \A n \in DOMAIN pats :
    /\ Len(pats[n].handed) <= 1
    /\ \A i \in DOMAIN pats[n].handed : pats[n].handed[i] = pats[n].lease

CredSettled(l) == life[l].state = "ended" /\ life[l].clean /\ issue[l].at = "done"

NoSecretLeft(l) ==
  /\ l \notin DOMAIN patIds \cup DOMAIN pendingCred
  /\ \A n \in DOMAIN pats : pats[n].lease = l /\ pats[n].accepted => pats[n].tried

(* Once an acquired lease has ended and its handlers are through, nothing of  *)
(* its credential is kept and a revoke of every PAT it used was attempted,    *)
(* also when it ended while finalize was minting, or was finalized again.     *)
SecretsDieWithLease == \A l \in CredLeases \ TestLeases : CredSettled(l) => NoSecretLeft(l)

(* Lease credentials: a PAT expires by its lease's deadline, its token leaves  *)
(* the fabric at most once, and no secret is kept after the lease.             *)
CredentialsDieWithTheLease == NoPatOutlivesLease /\ TokenLeavesOnce /\ SecretsDieWithLease

(* The same of the leases of the test mint: "it SELF-EXPIRES (the reaper      *)
(* reclaims it + the recorded PAT is revoked at expiry)".                     *)
TestMintSelfExpires == \A l \in TestLeases : CredSettled(l) => NoSecretLeft(l)
===============================================================================
