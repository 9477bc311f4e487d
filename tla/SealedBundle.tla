----------------------------- MODULE SealedBundle -----------------------------
(***************************************************************************)
(* A verdict bundle in a file, from the producer that seals it over the    *)
(* signer to the gate of a deployment pipeline: bundle_v04.py, signing.py, *)
(* engine.py verify_bundle and ci_gate.py.  The file may be edited between *)
(* any two of them.  A digest and a signature are modelled by what they    *)
(* cover: the payload they were computed from.                             *)
(***************************************************************************)
EXTENDS Integers, FiniteSets

CONSTANTS
    Keys,        \* Ed25519 key pairs
    Signers,     \* names of signers
    Bodies,      \* what the covered fields say beside the verdict
    MaxFileEdits \* bound of the exploration: edits of the file

Verdicts == {"PROMOTE", "REJECT", "INCONCLUSIVE"}
Versions == {"v0.1", "v0.4"}

\* Everything the digest covers.
Payloads == [verdict: Verdicts, body: Bodies]
NoPayload == [verdict |-> "none", body |-> "none"]
Unsigned == [key |-> "none", signer |-> "none", payload |-> NoPayload, digest |-> NoPayload]

VARIABLES
    file,      \* the bundle: version, wellformed, payload, digest, signature
    sealed,    \* payloads whose digest their producer computed
    signed,    \* pairs of a key and a payload its holder signed
    edited     \* edits so far

bundleVars == <<file, sealed, signed, edited>>

BundleInit ==
    /\ \E version \in Versions, p \in Payloads :
         /\ file = [version |-> version, wellformed |-> TRUE, payload |-> p,
                    digest |-> p, signature |-> Unsigned]
         /\ sealed = {p}
    /\ signed = {}
    /\ edited = 0

-----------------------------------------------------------------------------
(* Integrity.                                                              *)

\* compute_v04_digest and _bundle_digest_of against the recorded digest.
DigestHolds(doc) == doc.digest = doc.payload

\* _validate_bundle, then the digest.
Intact(doc) == doc.wellformed /\ DigestHolds(doc)

\* sign_bundle: a broken or an already signed bundle is refused.
Sign(key, signer) ==
    /\ file.version = "v0.4" /\ Intact(file) /\ file.signature = Unsigned
    /\ file' = [file EXCEPT !.signature =
                  [key |-> key, signer |-> signer,
                   payload |-> file.payload, digest |-> file.digest]]
    /\ signed' = signed \cup {<<key, file.payload>>}
    /\ UNCHANGED <<sealed, edited>>

\* Variant with a fault, for the mutation runs: the signed payload is not compared.
Binds_anything(doc) == TRUE

\* _payload_bytes: all of the bundle but its signature section, the recorded
\* digest included.
Binds(doc) == /\ doc.signature.payload = doc.payload
              /\ doc.signature.digest = doc.digest

\* A trust store, or none: the keys it has, the signers it allows (all of them
\* when it names none), whether it requires a signed verdict and signed evidence.
NoStore == [keys |-> {"none"}, signers |-> {}, verdict |-> FALSE, evidence |-> FALSE]
Stores == {NoStore} \cup
          [keys: SUBSET Keys, signers: SUBSET Signers, verdict: BOOLEAN, evidence: BOOLEAN]

\* verify_signed_bundle: the code of the first check that fails, or "ok".
SignedVerification(doc, store, requireSigned) ==
    LET required == requireSigned \/ store.verdict IN
    IF ~doc.wellformed THEN "INTEGRITY"
    ELSE IF ~DigestHolds(doc) THEN "DIGEST_INVALID"
    ELSE IF doc.signature = Unsigned
         THEN IF ~required THEN "ok"
              ELSE IF store.verdict THEN "UNTRUSTED_SIGNER" ELSE "SIGNATURE_MISSING"
    ELSE IF ~Binds(doc) THEN "SIGNATURE_INVALID"
    ELSE IF doc.signature.key \notin store.keys THEN "UNTRUSTED_SIGNER"
    ELSE IF store.signers # {} /\ doc.signature.signer \notin store.signers
         THEN "UNTRUSTED_SIGNER"
    ELSE IF store.evidence THEN "EVIDENCE_SIGNATURES_INVALID"
    ELSE "ok"

\* The verification gate_bundle chooses for the bundle and its flags.
Verification(doc, store, requireSigned) ==
    IF doc.version = "v0.1"
    THEN IF requireSigned \/ store # NoStore THEN "usage"
         ELSE IF Intact(doc) THEN "ok" ELSE "INTEGRITY"
    ELSE IF requireSigned \/ store # NoStore THEN SignedVerification(doc, store, requireSigned)
    ELSE IF ~doc.wellformed THEN "INTEGRITY"
    ELSE IF ~DigestHolds(doc) THEN "DIGEST_INVALID" ELSE "ok"

-----------------------------------------------------------------------------
(* The gate.                                                               *)

Refused(exit) == [decision |-> "FAIL", exit |-> exit, blocked |-> FALSE]

\* GateOutcome.verified; "blocked" says that the requirement is satisfied.
Outcome(verdict, required, failInconclusive) ==
    LET satisfied == verdict = required
        shrugs == verdict = "INCONCLUSIVE" /\ ~failInconclusive /\ ~satisfied
    IN  [decision |-> IF satisfied THEN "PASS"
                      ELSE IF shrugs THEN "PASS_WITHOUT_BLOCK" ELSE "FAIL",
         exit |-> IF satisfied \/ shrugs THEN 0
                  ELSE IF verdict = "INCONCLUSIVE" THEN 6 ELSE 5,
         blocked |-> satisfied]

\* gate_bundle after its verification, and the exit codes _cmd_gate gives its
\* exceptions.
Gate(verdict, verification, required, failInconclusive) ==
    IF verification = "usage" THEN Refused(2)
    ELSE IF verification # "ok" THEN Refused(4)
    ELSE IF failInconclusive /\ required = "INCONCLUSIVE" THEN Refused(2)
    ELSE Outcome(verdict, required, failInconclusive)

-----------------------------------------------------------------------------
(* The file changes: a field is edited by hand, another producer seals what  *)
(* the file says now, the signature section is taken out, or the document is *)
(* spoilt.                                                                   *)

Edit ==
    /\ \E p \in Payloads : p # file.payload /\ file' = [file EXCEPT !.payload = p]
    /\ UNCHANGED <<sealed, signed>>

Reseal ==
    /\ file' = [file EXCEPT !.digest = file.payload]
    /\ sealed' = sealed \cup {file.payload}
    /\ UNCHANGED signed

Strip ==
    /\ file' = [file EXCEPT !.signature = Unsigned]
    /\ UNCHANGED <<sealed, signed>>

Spoil ==
    /\ file' = [file EXCEPT !.wellformed = FALSE]
    /\ UNCHANGED <<sealed, signed>>

FileChanges ==
    /\ edited < MaxFileEdits /\ edited' = edited + 1
    /\ Edit \/ Reseal \/ Strip \/ Spoil

BundleNext == FileChanges \/ \E key \in Keys, signer \in Signers : Sign(key, signer)
BundleSpec == BundleInit /\ [][BundleNext]_bundleVars

-----------------------------------------------------------------------------
(* Properties.                                                             *)

BundleTypeOK ==
    /\ file \in [version: Versions, wellformed: BOOLEAN, payload: Payloads, digest: Payloads,
                 signature: {Unsigned} \cup [key: Keys, signer: Signers, payload: Payloads,
                                            digest: Payloads]]
    /\ sealed \subseteq Payloads
    /\ signed \subseteq Keys \X Payloads
    /\ edited \in Nat

\* Whatever happened to the file, a gate that lets a deployment through (exit 0)
\* read a payload some producer sealed, with the required verdict or, unless the
\* caller asked otherwise, an inconclusive one.  When a signature is demanded, by
\* the flag or by the store, or there is one and a store to check it with, the
\* holder of a key in the store signed just that payload.  A store that only has
\* keys demands nothing: an unsigned bundle passes it (ci_gate.py 107-162, 270-362;
\* signing.py 336-501).
GatePassIsBacked ==
    \A store \in Stores, requireSigned \in BOOLEAN :
      LET verification == Verification(file, store, requireSigned) IN
      \A required \in Verdicts, failInconclusive \in BOOLEAN :
        LET o == Gate(file.payload.verdict, verification, required, failInconclusive) IN
        o.exit = 0 =>
          /\ file.payload \in sealed
          /\ \/ file.payload.verdict = required
             \/ file.payload.verdict = "INCONCLUSIVE" /\ ~failInconclusive
          /\ o.blocked => file.payload.verdict = required
          /\ requireSigned \/ store.verdict \/ (store # NoStore /\ file.signature # Unsigned) =>
               \E key \in store.keys : <<key, file.payload>> \in signed

=============================================================================
