------------------------------ MODULE CaseImport ------------------------------
(***************************************************************************)
(* import_case (engine.py) step by step over a source root on disk: the    *)
(* evidence of each side is hashed and compared with the case's binding    *)
(* (evidence.py), then read again for its text; so is the attested         *)
(* evidence; the verdict is drawn and bound into a bundle.  Whoever works  *)
(* on the source root may rewrite a file between any two of these steps.   *)
(* The case file itself has been loaded and validated (caseconfig.py).     *)
(***************************************************************************)
EXTENDS VerdictEngine

CONSTANTS
    Contents,    \* contents each file can have; also what its hash identifies
    DocOf,       \* a content as VerdictEngine sees it
    Policies,    \* policies of valid cases: primary, least, most, gates
    MaxEdits     \* bound of the exploration: rewrites

Files == {"baseline", "candidate", "attestation"}
Sides == {"baseline", "candidate"}
NoDocument == "missing"   \* no such file

ASSUME ContentsAssumption ==
    /\ \A s \in Sides : \A d \in Contents[s] : DocOf[d] \in Documents
    /\ \A f \in Files : NoDocument \notin Contents[f]

\* _as_policy; the workload is the one the documents have.
ASSUME PoliciesAssumption ==
    \A p \in Policies : /\ p.primary \in SerialMetrics
                        /\ {p.least, p.most} \subseteq Nat \cup {NaN}
                        /\ p.gates # {}

VARIABLES
    disk,      \* the files of the source root
    case,      \* the case: policy, bound hashes, attested statuses
    import,    \* the import: its pc, the texts read, verified attestations
    bundle,    \* the bundle: verdict, reason and the hashes it names
    edits      \* rewrites so far, and whether one fell between hash and read

importVars == <<disk, case, import, bundle, edits>>

NoBundle == [verdict |-> "none", reason |-> "none"]

\* load_case_config: thresholds that are not below 0, an attestation at most for
\* each gate, and the hashes of the files as they are now.
ImportInit ==
    /\ disk \in {d \in [Files -> UNION {Contents[f] : f \in Files}] :
                   \A f \in Files : d[f] \in Contents[f]}
    /\ case \in [policy: Policies, bound: {disk}, attested: {"pass", "fail", "none"}]
    /\ import = [pc |-> "hash", side |-> "baseline",
                 text |-> [s \in Sides |-> NoDocument], verified |-> FALSE]
    /\ bundle = NoBundle
    /\ edits = [count |-> 0, torn |-> FALSE]

-----------------------------------------------------------------------------

Decided(ruling) ==
    /\ bundle' = [verdict |-> ruling[1], reason |-> ruling[2]]
    /\ import' = [import EXCEPT !.pc = "done"]

Inconclusive(reason) == Decided(<<"INCONCLUSIVE", reason>>)

\* Variant with a fault, for the mutation runs: the hash is not compared.
HashMatches_unchecked(file) == TRUE

HashMatches(file) == disk[file] = case.bound[file]

\* load_artifact, first pass: the file is there, and has the bound hash.
HashSide ==
    /\ import.pc = "hash"
    /\ IF disk[import.side] = NoDocument THEN Inconclusive("EVIDENCE_UNAVAILABLE")
       ELSE IF ~HashMatches(import.side) THEN Inconclusive("EVIDENCE_HASH_MISMATCH")
       ELSE import' = [import EXCEPT !.pc = "read"] /\ UNCHANGED bundle
    /\ UNCHANGED <<disk, case, edits>>

\* load_artifact, second pass: the file is opened again.  A file that is gone
\* now raises out of the import; one that does not decode is unavailable.
ReadSide ==
    /\ import.pc = "read"
    /\ LET now == disk[import.side] IN
       IF now = NoDocument THEN import' = [import EXCEPT !.pc = "raised"] /\ UNCHANGED bundle
       ELSE IF DocOf[now].form = "undecodable" THEN Inconclusive("EVIDENCE_UNAVAILABLE")
       ELSE /\ import' = [import EXCEPT !.text[import.side] = now,
                                        !.side = "candidate",
                                        !.pc = IF import.side = "baseline"
                                               THEN "hash" ELSE "adapt"]
            /\ UNCHANGED bundle
    /\ UNCHANGED <<disk, case, edits>>

Text(s) == DocOf[import.text[s]]

\* adapt() of both sides: a document with a non-finite number decides nothing.
Adapt ==
    /\ import.pc = "adapt"
    /\ IF \E s \in Sides : Text(s).form = "nonfinite"
       THEN Inconclusive("NONFINITE_EVIDENCE")
       ELSE /\ import' = [import EXCEPT !.pc = IF case.attested = "none" THEN "decide"
                                               ELSE "attest"]
            /\ UNCHANGED bundle
    /\ UNCHANGED <<disk, case, edits>>

\* The same two passes over the attested evidence: a file that is missing, that
\* has another hash or does not decode is passed over, and its gate stays missing.
HashAttestation ==
    /\ import.pc = "attest"
    /\ import' = [import EXCEPT !.pc =
          IF disk["attestation"] # NoDocument /\ HashMatches("attestation")
          THEN "attest_read" ELSE "decide"]
    /\ UNCHANGED <<disk, case, bundle, edits>>

ReadAttestation ==
    /\ import.pc = "attest_read"
    /\ LET now == disk["attestation"] IN
       import' = IF now = NoDocument THEN [import EXCEPT !.pc = "raised"]
                 ELSE [import EXCEPT !.pc = "decide",
                                     !.verified = DocOf[now].form # "undecodable"]
    /\ UNCHANGED <<disk, case, bundle, edits>>

\* The gates of the case, of which "quality" can only be attested.
Attested(kase, verified) ==
    IF kase.attested # "none" /\ verified THEN [g \in {"quality"} |-> kase.attested]
    ELSE [g \in {} |-> "none"]

RulingOn(kase, base, cand, verified) ==
    Ruling(kase.policy, Side(base), Side(cand),
           {GateStatus(g, Side(base), Side(cand), Attested(kase, verified)) :
              g \in kase.policy.gates})

DecideCase ==
    /\ import.pc = "decide"
    /\ Decided(RulingOn(case, Text("baseline"), Text("candidate"), import.verified))
    /\ UNCHANGED <<disk, case, edits>>

ImportStep ==
    \/ HashSide \/ ReadSide \/ Adapt \/ HashAttestation \/ ReadAttestation \/ DecideCase

\* The file that was hashed and is about to be read, if there is one.
Between(f) ==
    \/ import.pc = "read" /\ f = import.side
    \/ import.pc = "attest_read" /\ f = "attestation"

\* A file is rewritten or removed.
Rewrite ==
    /\ edits.count < MaxEdits /\ import.pc \notin {"done", "raised"}
    /\ \E f \in Files : \E d \in Contents[f] \cup {NoDocument} :
         /\ d # disk[f]
         /\ disk' = [disk EXCEPT ![f] = d]
         /\ edits' = [count |-> edits.count + 1,
                      torn  |-> edits.torn \/ Between(f)]
    /\ UNCHANGED <<case, import, bundle>>

ImportNext == ImportStep \/ Rewrite
ImportSpec == ImportInit /\ [][ImportNext]_importVars

-----------------------------------------------------------------------------
(* Properties.                                                             *)

\* The gates that the bound attestation proves.
Proven(kase) ==
    IF kase.attested = "pass" /\ DocOf[kase.bound["attestation"]].form # "undecodable"
    THEN {"quality"} ELSE {}

\* What a case deserves on its bound evidence, said without the rules' order:
\* the primary metric is positive and comparable, every gate has passed (what the
\* machine does not test is proven), first tokens come no later and the gain is no
\* smaller than the policy allows.  A threshold that is NaN asks for nothing, not
\* even for the samples it is about.
Deserves(kase, proven) ==
    LET doc(s) == DocOf[kase.bound[s]]
        value(s, m) == Sample(doc(s), m)
        m == kase.policy.primary
        gain == IF m \in LowerBetter THEN value("baseline", m) - value("candidate", m)
                ELSE value("candidate", m) - value("baseline", m)
    IN  /\ \A s \in Sides : doc(s).form = "known" /\ value(s, m) # Absent
        /\ OutputBudget(doc("baseline")) = OutputBudget(doc("candidate"))
        /\ value("baseline", m) > 0
        /\ kase.policy.least # NaN => 100 * gain >= kase.policy.least * value("baseline", m)
        /\ kase.policy.most # NaN =>
             /\ \A s \in Sides : value(s, "ttft_s") # Absent
             /\ \/ value("baseline", "ttft_s") = 0
                \/ 100 * (value("candidate", "ttft_s") - value("baseline", "ttft_s"))
                     <= kase.policy.most * value("baseline", "ttft_s")
        /\ "request_success" \in kase.policy.gates =>
             \A s \in Sides : \A i \in DOMAIN doc(s).rows : doc(s).rows[i].finish = "length"
        /\ kase.policy.gates \ {"request_success"} \subseteq proven

\* A case is promoted only when its bound evidence deserves it, unless a file was
\* rewritten between the hash and the read of it; and it is promoted whenever its
\* evidence deserves it and no file was rewritten at all (engine.py 171-269,
\* 398-555; evidence.py 76-110).
PromotedAsDeserved ==
    import.pc = "done" /\ ~edits.torn =>
      /\ bundle.verdict = "PROMOTE" => Deserves(case, Proven(case))
      /\ edits.count = 0 /\ Deserves(case, Proven(case)) => bundle.verdict = "PROMOTE"

=============================================================================
