----------------------------- MODULE Attestation -----------------------------
(****************************************************************************)
(* What the fabric key signs (attestation.rs, runner attest/mod.rs): the       *)
(* frozen chain, the two result bindings and the metrics binding are four      *)
(* byte strings signed raw with ONE key and no tag that says which is which;   *)
(* only their framing keeps them apart.  A string is a sequence of symbols, a  *)
(* u32 is one symbol and a u64 two (high, low).  SHA-256 and ed25519 are       *)
(* external: a digest or a signature stands for exactly what it was made of.   *)
(****************************************************************************)
EXTENDS Integers, Sequences

CONSTANTS
  Strings,   \* field values
  Exits,     \* exit codes
  Counts,    \* values of the metrics' counters, all below 2^32
  MaxList    \* bound on the artifacts of a result and on the tools of a breakdown

ASSUME AttAssumption ==
  Strings \subseteq Seq(Int) /\ Exits \subseteq Int /\ Counts \subseteq Int /\ MaxList \in Nat

VARIABLES
  signed,    \* the message the fabric signed
  presented  \* the message a verifier was shown with that signature

attVars == <<signed, presented>>

(* lp: the length, then the bytes. *)
Lp(s) == <<Len(s)>> \o s

(* A counter below 2^32: its high word is 0. *)
U64(n) == <<0, n>>

(* The parts one after the other, as a loop over a list appends them to out. *)
Concat(parts) ==
  LET out[n \in 0..Len(parts)] == IF n = 0 THEN <<>> ELSE out[n - 1] \o parts[n]
  IN  out[Len(parts)]

LpAll(strings) == Concat([i \in 1..Len(strings) |-> Lp(strings[i])])

ArtifactParts(artifacts) ==
  [i \in 1..Len(artifacts) |-> Lp(artifacts[i].path) \o Lp(artifacts[i].digest)]

ToolParts(tools) == [i \in 1..Len(tools) |-> Lp(tools[i].tool) \o U64(tools[i].count)]

(* result_binding_preimage: no verdict in it. *)
ResultBinding(r) == Lp(r.memo_key) \o Lp(r.stdout_ref) \o Lp(r.stderr_ref)

(* result_binding_preimage_v2: the verdict and the artifacts in order. *)
ResultBindingV2(r) ==
  ResultBinding(r) \o <<r.exit>> \o <<Len(r.artifacts)>> \o Concat(ArtifactParts(r.artifacts))

(* sig_preimage *)
ChainPreimage(c) ==
  Lp(c.tree) \o Lp(c.def) \o Lp(c.runner) \o Lp(c.model) \o <<Len(c.principal)>> \o LpAll(c.principal)

(* intent_metrics_preimage: lease and tenant, the counters, the tool breakdown. *)
MetricsPreimage(m) ==
  Lp(m.lease) \o Lp(m.tenant) \o U64(m.tokens) \o U64(m.wall)
    \o <<Len(m.tools)>> \o Concat(ToolParts(m.tools)) \o U64(m.cost)

Lists(S) == UNION {[1..n -> S] : n \in 0..MaxList}

(* attest_no_result signs the empty result. *)
NoResult == [memo_key |-> <<>>, stdout_ref |-> <<>>, stderr_ref |-> <<>>, exit |-> 0, artifacts |-> <<>>]

Results == {NoResult} \cup
           [memo_key : Strings, stdout_ref : Strings, stderr_ref : Strings, exit : Exits,
            artifacts : Lists([path : Strings, digest : Strings])]

(* chain_over: the model is never claimed; build_attestation, attest_close_result *)
(* and attest_no_result all pass the authenticated tenant as the one principal.   *)
Chains == [tree : Strings, def : Strings, runner : Strings, model : {<<>>}, principal : {<<p>> : p \in Strings}]

Metrics == [lease : Strings, tenant : Strings, tokens : Counts, wall : Counts, cost : Counts,
            tools : Lists([tool : Strings, count : Counts])]

Messages ==
  [kind : {"v1", "v2"}, of : Results] \cup [kind : {"chain"}, of : Chains] \cup [kind : {"metrics"}, of : Metrics]

Preimage(m) ==
  CASE m.kind = "v1" -> ResultBinding(m.of)
    [] m.kind = "v2" -> ResultBindingV2(m.of)
    [] m.kind = "chain" -> ChainPreimage(m.of)
    [] m.kind = "metrics" -> MetricsPreimage(m.of)

Nothing == [kind |-> "none"]

AttInit == signed = Nothing /\ presented = Nothing

(* One of the sign_chain, sign_result_binding, sign_result_binding_v2 and *)
(* sign_intent_metrics calls of a response.                               *)
Sign(m) ==
  /\ signed = Nothing
  /\ signed' = m
  /\ UNCHANGED presented

(* verify_raw: the signature is over the recomputed pre-image. *)
SignatureVerifies(m) == Preimage(m) = Preimage(signed)

(* verify_chain, verify_execution and verify_execution_v2 accept one message. *)
Present(m) ==
  /\ signed # Nothing /\ presented = Nothing
  /\ SignatureVerifies(m)
  /\ presented' = m
  /\ UNCHANGED signed

AttNext == \E m \in Messages : Sign(m) \/ Present(m)

AttSpec == AttInit /\ [][AttNext]_attVars

--------------------------------------------------------------------------------
Covered(m) ==
  IF m.kind = "v1" THEN <<m.of.memo_key, m.of.stdout_ref, m.of.stderr_ref>> ELSE m.of

(* A signature the fabric made for one kind of message is never accepted for *)
(* another kind, nor for other values of the fields that kind covers.        *)
AcceptedWasSigned ==
  presented # Nothing => presented.kind = signed.kind /\ Covered(presented) = Covered(signed)
===============================================================================
