---------------------------- MODULE Offline_proofs ----------------------------
(***************************************************************************)
(* The properties of the offline tools, for any contents, policies, keys,  *)
(* writers and answers, any size of a workload and any number of edits,    *)
(* though a run bounds them all.  Each tool has an inductive invariant:    *)
(*   ImportInv  what was hashed and read so far is what the case binds,    *)
(*              unless a file was rewritten in between;                    *)
(*   BundleInv  where the two fields of a bundle that an editor cannot     *)
(*              forge come from, the digest and the signature;             *)
(*   DirInv     whose files a directory can have, at each step of the      *)
(*              publishing and of the verification;                        *)
(*   ReplayInv  an artifact that loads has an answer for every case so     *)
(*              far, and a ruling is the evaluation of two of them.        *)
(* They are put together for the specification of them all.  At the end,   *)
(* what the planners compute, which is checked over small inputs only.     *)
(***************************************************************************)
EXTENDS Offline, SequenceTheorems, FiniteSetTheorems, WellFoundedInduction, TLAPS

-----------------------------------------------------------------------------
(* Medians of natural numbers are natural numbers.                         *)

LEMMA SmallestOf ==
    ASSUME NEW S \in SUBSET Nat, S # {}
    PROVE  \E m \in S : \A g \in S : m <= g
<1> DEFINE less == {ss \in Nat \X Nat : ss[1] < ss[2]}
<1>1. IsWellFoundedOn(less, Nat)
    BY NatLessThanWellFounded DEF OpToRel
<1>2. PICK m \in S : \A g \in S : <<g, m>> \notin less
    <2> HIDE DEF less
    <2> QED BY <1>1, WFMin
<1>3. ASSUME NEW g \in S PROVE m <= g
    <2>1. <<g, m>> \in Nat \X Nat /\ ~(<<g, m>> \in less)
        BY <1>2
    <2>2. ~(<<g, m>>[1] < <<g, m>>[2])
        BY <2>1
    <2>3. ~(g < m) /\ g \in Nat /\ m \in Nat
        BY <2>1, <2>2
    <2> QED BY <2>3
<1> QED BY <1>3

\* Finitely many values have a bound: take an index set with the fewest elements
\* on which they have none, and one element out of it.
LEMMA Bounded ==
    ASSUME NEW D, IsFiniteSet(D), NEW f \in [D -> Nat]
    PROVE  \E m \in Nat : \A i \in D : f[i] <= m
<1> DEFINE Bound(S) == \E m \in Nat : \A i \in S : f[i] <= m
           Bad == {n \in Nat : \E S \in SUBSET D : IsFiniteSet(S) /\ Cardinality(S) = n /\ ~Bound(S)}
<1> SUFFICES ASSUME ~Bound(D) PROVE FALSE
    OBVIOUS
<1>1. Cardinality(D) \in Bad
    BY FS_CardinalityType
<1>2. PICK n \in Bad : \A g \in Bad : n <= g
    <2> HIDE DEF Bad
    <2>1. Bad \subseteq Nat
        BY DEF Bad
    <2> QED BY <1>1, <2>1, SmallestOf
<1>3. PICK S \in SUBSET D : IsFiniteSet(S) /\ Cardinality(S) = n /\ ~Bound(S)
    OBVIOUS
<1>4. S # {}
    BY <1>3
<1>5. PICK x \in S : TRUE
    BY <1>4
<1>6. IsFiniteSet(S \ {x}) /\ Cardinality(S \ {x}) = n - 1 /\ n \in Nat
    BY <1>3, FS_RemoveElement
<1>7. n - 1 \notin Bad
    BY <1>2, <1>6
<1>8. Cardinality(S \ {x}) \in Nat
    BY <1>6, FS_CardinalityType
<1>9. Bound(S \ {x})
    BY <1>6, <1>7, <1>8
<1>10. PICK m \in Nat : \A i \in S \ {x} : f[i] <= m
    BY <1>9
<1>11. f[x] \in Nat /\ \A i \in S : f[i] \in Nat
    OBVIOUS
<1>12. Bound(S)
    <2>1. CASE f[x] <= m
        <3>1. \A i \in S : f[i] <= m
            BY <1>10, <2>1
        <3> QED BY <3>1
    <2>2. CASE ~(f[x] <= m)
        <3>1. \A i \in S : f[i] <= f[x]
            BY <1>10, <1>11, <2>2
        <3> QED BY <1>11, <3>1
    <2> QED BY <2>1, <2>2
<1> QED BY <1>3, <1>12

LEMMA RankedIsValue ==
    ASSUME NEW D, IsFiniteSet(D), NEW f \in [D -> Nat], NEW r \in 1..Cardinality(D)
    PROVE  Ranked(f, r) \in Nat
<1> DEFINE UpTo(v) == {i \in D : f[i] <= v}
           Below(v) == {i \in D : f[i] < v}
           Enough == {v \in Nat : Cardinality(UpTo(v)) >= r}
<1>0. Cardinality(D) \in Nat
    BY FS_CardinalityType
<1>1. ASSUME NEW v \in Nat
      PROVE  /\ IsFiniteSet(UpTo(v)) /\ IsFiniteSet(Below(v))
             /\ Cardinality(UpTo(v)) \in Nat /\ Cardinality(Below(v)) \in Nat
    BY FS_Subset, FS_CardinalityType
<1>2. Enough # {}
    <2>1. PICK m \in Nat : \A i \in D : f[i] <= m
        BY Bounded
    <2>2. UpTo(m) = D
        BY <2>1
    <2>3. Cardinality(UpTo(m)) >= r
        BY <1>0, <2>2
    <2> QED BY <2>3
<1>3. PICK v \in Enough : \A g \in Enough : v <= g
    <2> HIDE DEF Enough
    <2>1. Enough \subseteq Nat
        BY DEF Enough
    <2> QED BY <1>2, <2>1, SmallestOf
<1>4. v \in Nat /\ Cardinality(UpTo(v)) >= r
    OBVIOUS
<1>5. Cardinality(Below(v)) < r
    <2>1. CASE v = 0
        <3>1. Below(v) = {}
            BY <2>1
        <3> QED BY <3>1, FS_EmptySet
    <2>2. CASE v # 0
        <3>1. v - 1 \in Nat /\ v - 1 \notin Enough
            BY <1>3, <1>4, <2>2
        <3>2. ~(Cardinality(UpTo(v - 1)) >= r)
            BY <3>1
        <3>3. Below(v) = UpTo(v - 1)
            BY <1>4, <3>1
        <3>4. Cardinality(UpTo(v - 1)) \in Nat
            BY <1>1, <3>1
        <3> HIDE DEF UpTo, Below
        <3> QED BY <3>2, <3>3, <3>4
    <2> QED BY <2>1, <2>2
<1>6. \E i \in D : f[i] = v
    <2> SUFFICES ASSUME \A i \in D : f[i] # v PROVE FALSE
        OBVIOUS
    <2>1. UpTo(v) = Below(v)
        BY <1>4
    <2> QED BY <1>1, <1>4, <1>5, <2>1
<1>7. DOMAIN f = D
    OBVIOUS
<1> DEFINE Fits(w) == /\ Cardinality({i \in DOMAIN f : f[i] < w}) < r
                      /\ Cardinality({i \in DOMAIN f : f[i] <= w}) >= r
<1>8. v \in {f[i] : i \in DOMAIN f} /\ Fits(v)
    BY <1>4, <1>5, <1>6, <1>7
<1>9. {f[i] : i \in DOMAIN f} \subseteq Nat
    BY <1>7
<1>10. Ranked(f, r) = CHOOSE w \in {f[i] : i \in DOMAIN f} : Fits(w)
    BY DEF Ranked
<1> HIDE DEF Fits
<1> QED BY <1>8, <1>9, <1>10

LEMMA MedianIsNat ==
    ASSUME NEW D, IsFiniteSet(D), D # {}, NEW f \in [D -> Nat]
    PROVE  Median2(f) \in Nat
<1> DEFINE n == Cardinality(D)
<1>1. n \in Nat /\ n # 0 /\ DOMAIN f = D
    BY FS_CardinalityType, FS_EmptySet
<1> HIDE DEF n
<1>2. (n + 1) \div 2 \in 1..n /\ n \div 2 + 1 \in 1..n
    BY <1>1
<1>3. Ranked(f, (n + 1) \div 2) \in Nat /\ Ranked(f, n \div 2 + 1) \in Nat
    BY <1>2, RankedIsValue DEF n
<1> QED BY <1>1, <1>3 DEF Median2, n

-----------------------------------------------------------------------------
(* The decision of a case.                                                 *)

Numbers == Nat \cup {Absent}

LEMMA BlockMedianType ==
    ASSUME NEW scalar \in Numbers, NEW D, IsFiniteSet(D), NEW column \in [D -> Numbers]
    PROVE  BlockMedian(scalar, column) \in Numbers
<1> DEFINE present == {i \in DOMAIN column : column[i] # Absent}
           f == [i \in present |-> column[i]]
<1>1. present \subseteq D /\ IsFiniteSet(present)
    BY FS_Subset
<1>2. f \in [present -> Nat]
    BY <1>1 DEF Numbers
<1>3. present # {} => Median2(f) \in Nat
    <2> HIDE DEF present, f
    <2> QED BY <1>1, <1>2, MedianIsNat
<1>4. BlockMedian(scalar, column) = IF scalar # Absent THEN 2 * scalar
                                    ELSE IF present = {} THEN Absent ELSE Median2(f)
    BY DEF BlockMedian
<1> HIDE DEF present, f
<1> QED BY <1>3, <1>4 DEF Numbers

LEMMA SampleType ==
    ASSUME NEW doc \in Documents, NEW m \in SerialMetrics
    PROVE  Sample(doc, m) \in Numbers
<1> DEFINE D == 1..Len(doc.rows)
           middles == [i \in DOMAIN doc.rows |-> doc.rows[i].middle[m]]
           plains == [i \in DOMAIN doc.rows |-> doc.rows[i].plain[m]]
<1>1. doc.rows \in Seq([finish: STRING, tokens: Nat, plain: Readings, middle: Readings])
      /\ doc.plain \in Readings /\ doc.middle \in Readings
    BY DEF Documents
<1>2. DOMAIN doc.rows = D /\ Len(doc.rows) \in Nat
    BY <1>1
<1>3. IsFiniteSet(D)
    BY <1>2, FS_Interval
<1>4. middles \in [D -> Numbers] /\ plains \in [D -> Numbers]
    <2> DEFINE Row == [finish: STRING, tokens: Nat, plain: Readings, middle: Readings]
    <2>1. \A i \in D : doc.rows[i] \in Row
        <3>1. doc.rows \in Seq(Row)
            BY <1>1
        <3> HIDE DEF Row
        <3> QED BY <1>2, <3>1, ElementOfSeq
    <2>2. \A i \in D : doc.rows[i].middle \in Readings /\ doc.rows[i].plain \in Readings
        BY <2>1
    <2>3. \A i \in D : doc.rows[i].middle[m] \in Numbers /\ doc.rows[i].plain[m] \in Numbers
        BY <2>2 DEF Readings, Numbers
    <2> HIDE DEF D
    <2> QED BY <1>2, <2>3
<1>5. doc.plain[m] \in Numbers /\ doc.middle[m] \in Numbers
    BY <1>1 DEF Readings, Numbers
<1> HIDE DEF D
<1>6. BlockMedian(doc.middle[m], middles) \in Numbers /\ BlockMedian(doc.plain[m], plains) \in Numbers
    BY <1>3, <1>4, <1>5, BlockMedianType
<1> QED BY <1>6 DEF Sample

\* What the two sides of a known document say.
LEMMA SideFacts ==
    ASSUME NEW doc \in Documents, doc.form \in {"known", "unknown"}
    PROVE  /\ doc.form = "unknown" => Side(doc).schema = "unsupported"
           /\ doc.form = "known" =>
                /\ Side(doc).schema = "recognized" /\ Side(doc).budget = OutputBudget(doc)
                /\ \A m \in SerialMetrics : Side(doc).samples[m] = Sample(doc, m)
                /\ Side(doc).machine = RequestSuccess(doc)
BY DEF Side

\* A gate passes when the machine, or failing that an attestation, says so.
LEMMA GatePasses ==
    ASSUME NEW b, NEW c, b.schema = "recognized", c.schema = "recognized",
           b.machine \in {"pass", "fail"}, c.machine \in {"pass", "fail"},
           NEW kase, kase.attested \in {"pass", "fail", "none"}, NEW verified \in BOOLEAN, NEW g
    PROVE  LET status == GateStatus(g, b, c, Attested(kase, verified))
           IN  /\ status \in {"pass", "fail", "missing"}
               /\ status = "pass" <=>
                    \/ g = "request_success" /\ b.machine = "pass" /\ c.machine = "pass"
                    \/ g # "request_success" /\ g = "quality" /\ verified /\ kase.attested = "pass"
<1> DEFINE statuses == {s.machine : s \in {x \in {b, c} : x.schema = "recognized"}}
           attested == Attested(kase, verified)
<1>1. statuses = {b.machine, c.machine}
    OBVIOUS
<1>2. GateStatus(g, b, c, attested) =
        IF g = "request_success" /\ statuses # {} THEN Combine(statuses)
        ELSE IF g \in DOMAIN attested THEN attested[g] ELSE "missing"
    BY DEF GateStatus
<1>3. Combine(statuses) = IF "fail" \in {b.machine, c.machine} THEN "fail" ELSE "pass"
    BY <1>1 DEF Combine
<1>4. CASE kase.attested # "none" /\ verified
    <2>1. attested = [x \in {"quality"} |-> kase.attested]
        BY <1>4 DEF Attested
    <2>2. DOMAIN attested = {"quality"} /\ (g = "quality" => attested[g] = kase.attested)
        BY <2>1
    <2> HIDE DEF attested, statuses
    <2> QED BY <1>1, <1>2, <1>3, <1>4, <2>2 DEF attested
<1>5. CASE ~(kase.attested # "none" /\ verified)
    <2>1. attested = [x \in {} |-> "none"]
        BY <1>5 DEF Attested
    <2>2. DOMAIN attested = {}
        BY <2>1
    <2> HIDE DEF attested, statuses
    <2> QED BY <1>1, <1>2, <1>3, <1>5, <2>2 DEF attested
<1> QED BY <1>4, <1>5

\* The rules in their order promote exactly when none of them applies.
LEMMA RulingPromotes ==
    ASSUME NEW policy, NEW b, NEW c, NEW gates
    PROVE  Ruling(policy, b, c, gates)[1] = "PROMOTE" <=>
             /\ "unsupported" \notin {b.schema, c.schema}
             /\ Comparable(b, c, policy.primary)
             /\ "fail" \notin gates /\ "missing" \notin gates
             /\ policy.most # NaN =>
                  /\ Comparable(b, c, "ttft_s")
                  /\ ~TTFTRegressed(b.samples["ttft_s"], c.samples["ttft_s"], policy.most)
             /\ b.samples[policy.primary] # 0
             /\ ~GainBelow(policy.primary, b.samples[policy.primary], c.samples[policy.primary], policy.least)
<1> DEFINE first == "unsupported" \in {b.schema, c.schema}
           second == ~Comparable(b, c, policy.primary)
           third == "fail" \in gates
           fourth == "missing" \in gates
           fifth == policy.most # NaN /\ ~Comparable(b, c, "ttft_s")
           sixth == policy.most # NaN /\ TTFTRegressed(b.samples["ttft_s"], c.samples["ttft_s"], policy.most)
           seventh == b.samples[policy.primary] = 0
           eighth == GainBelow(policy.primary, b.samples[policy.primary], c.samples[policy.primary], policy.least)
<1>1. Ruling(policy, b, c, gates) =
        IF first THEN <<"INCONCLUSIVE", "UNSUPPORTED_SCHEMA">>
        ELSE IF second THEN <<"INCONCLUSIVE", "METRIC_NOT_COMPARABLE">>
        ELSE IF third THEN <<"REJECT", "HARD_GATE_FAILED">>
        ELSE IF fourth THEN <<"INCONCLUSIVE", "REQUIRED_GATE_MISSING">>
        ELSE IF fifth THEN <<"INCONCLUSIVE", "METRIC_NOT_COMPARABLE">>
        ELSE IF sixth THEN <<"REJECT", "TTFT_REGRESSION">>
        ELSE IF seventh THEN <<"INCONCLUSIVE", "METRIC_NOT_COMPARABLE">>
        ELSE IF eighth THEN <<"REJECT", "INSUFFICIENT_EFFECT">>
        ELSE <<"PROMOTE", "PRIMARY_EFFECT_PASSED">>
    BY DEF Ruling
<1> HIDE DEF first, second, third, fourth, fifth, sixth, seventh, eighth
<1>2. Ruling(policy, b, c, gates)[1] = "PROMOTE" <=>
        ~first /\ ~second /\ ~third /\ ~fourth /\ ~fifth /\ ~sixth /\ ~seventh /\ ~eighth
    BY <1>1
<1> QED BY <1>2 DEF first, second, third, fourth, fifth, sixth, seventh, eighth

Bound(kase, s) == DocOf[kase.bound[s]]
BoundRuling(kase, verified) == RulingOn(kase, Bound(kase, "baseline"), Bound(kase, "candidate"), verified)

LEMMA PromotesDeserving ==
    ASSUME NEW kase, kase.policy \in Policies, kase.attested \in {"pass", "fail", "none"},
           \A s \in Sides : Bound(kase, s) \in Documents /\ Bound(kase, s).form \in {"known", "unknown"},
           NEW verified \in BOOLEAN
    PROVE  BoundRuling(kase, verified)[1] = "PROMOTE"
             <=> Deserves(kase, IF verified /\ kase.attested = "pass" THEN {"quality"} ELSE {})
<1> DEFINE p == kase.policy
           proven == IF verified /\ kase.attested = "pass" THEN {"quality"} ELSE {}
           m == p.primary
           b == Bound(kase, "baseline")
           c == Bound(kase, "candidate")
           gates == {GateStatus(g, Side(b), Side(c), Attested(kase, verified)) : g \in p.gates}
<1>0. /\ b \in Documents /\ c \in Documents /\ b.form \in {"known", "unknown"} /\ c.form \in {"known", "unknown"}
      /\ m \in SerialMetrics /\ "ttft_s" \in SerialMetrics
      /\ p.least \in Nat \cup {NaN} /\ p.most \in Nat \cup {NaN}
    BY PoliciesAssumption DEF Sides, SerialMetrics, LowerBetter
<1>1. BoundRuling(kase, verified) = Ruling(p, Side(b), Side(c), gates)
    BY DEF BoundRuling, RulingOn
<1>2. Deserves(kase, proven) <=>
        /\ b.form = "known" /\ c.form = "known"
        /\ Sample(b, m) # Absent /\ Sample(c, m) # Absent
        /\ OutputBudget(b) = OutputBudget(c)
        /\ Sample(b, m) > 0
        /\ p.least # NaN =>
             100 * (IF m \in LowerBetter THEN Sample(b, m) - Sample(c, m) ELSE Sample(c, m) - Sample(b, m))
               >= p.least * Sample(b, m)
        /\ p.most # NaN =>
             /\ Sample(b, "ttft_s") # Absent /\ Sample(c, "ttft_s") # Absent
             /\ \/ Sample(b, "ttft_s") = 0
                \/ 100 * (Sample(c, "ttft_s") - Sample(b, "ttft_s")) <= p.most * Sample(b, "ttft_s")
        /\ "request_success" \in p.gates => RequestSuccess(b) = "pass" /\ RequestSuccess(c) = "pass"
        /\ p.gates \ {"request_success"} \subseteq proven
    BY DEF Deserves, Bound, Sides, RequestSuccess
<1> HIDE DEF p, m, b, c
<1>3. CASE b.form = "unknown" \/ c.form = "unknown"
    <2>1. "unsupported" \in {Side(b).schema, Side(c).schema}
        BY <1>0, <1>3, SideFacts
    <2> QED BY <1>1, <1>2, <1>3, <2>1, RulingPromotes
<1>4. CASE b.form = "known" /\ c.form = "known"
    <2>1. /\ Side(b).schema = "recognized" /\ Side(c).schema = "recognized"
          /\ Side(b).budget = OutputBudget(b) /\ Side(c).budget = OutputBudget(c)
          /\ Side(b).samples[m] = Sample(b, m) /\ Side(c).samples[m] = Sample(c, m)
          /\ Side(b).samples["ttft_s"] = Sample(b, "ttft_s") /\ Side(c).samples["ttft_s"] = Sample(c, "ttft_s")
          /\ Side(b).machine = RequestSuccess(b) /\ Side(c).machine = RequestSuccess(c)
        BY <1>0, <1>4, SideFacts
    <2>2. RequestSuccess(b) \in {"pass", "fail"} /\ RequestSuccess(c) \in {"pass", "fail"}
        BY DEF RequestSuccess
    <2>3. "fail" \notin gates /\ "missing" \notin gates <=>
            /\ "request_success" \in p.gates => RequestSuccess(b) = "pass" /\ RequestSuccess(c) = "pass"
            /\ p.gates \ {"request_success"} \subseteq proven
        <3> DEFINE status(g) == GateStatus(g, Side(b), Side(c), Attested(kase, verified))
        <3>1. \A g : /\ status(g) \in {"pass", "fail", "missing"}
                     /\ status(g) = "pass" <=>
                          \/ g = "request_success" /\ RequestSuccess(b) = "pass" /\ RequestSuccess(c) = "pass"
                          \/ g # "request_success" /\ g = "quality" /\ verified /\ kase.attested = "pass"
            BY <2>1, <2>2, GatePasses
        <3>2. gates = {status(g) : g \in p.gates}
            OBVIOUS
        <3> HIDE DEF status, gates
        <3>3. "fail" \notin gates /\ "missing" \notin gates <=> \A g \in p.gates : status(g) = "pass"
            BY <3>1, <3>2
        <3> QED BY <3>1, <3>3
    <2>4. Sample(b, m) \in Numbers /\ Sample(c, m) \in Numbers
          /\ Sample(b, "ttft_s") \in Numbers /\ Sample(c, "ttft_s") \in Numbers
        BY <1>0, SampleType
    <2> DEFINE bm == Sample(b, m)
               cm == Sample(c, m)
               bt == Sample(b, "ttft_s")
               ct == Sample(c, "ttft_s")
    <2>5. Comparable(Side(b), Side(c), m) <=> OutputBudget(b) = OutputBudget(c) /\ bm # Absent /\ cm # Absent
        BY <2>1 DEF Comparable
    <2>6. Comparable(Side(b), Side(c), "ttft_s") <=> OutputBudget(b) = OutputBudget(c) /\ bt # Absent /\ ct # Absent
        BY <2>1 DEF Comparable
    <2> HIDE DEF gates, bm, cm, bt, ct
    <2>7. BoundRuling(kase, verified)[1] = "PROMOTE" <=>
            /\ OutputBudget(b) = OutputBudget(c) /\ bm # Absent /\ cm # Absent
            /\ "fail" \notin gates /\ "missing" \notin gates
            /\ p.most # NaN => bt # Absent /\ ct # Absent /\ ~TTFTRegressed(bt, ct, p.most)
            /\ bm # 0 /\ ~GainBelow(m, bm, cm, p.least)
        <3>1. "unsupported" \notin {Side(b).schema, Side(c).schema}
            BY <2>1
        <3> QED BY <1>1, <2>1, <2>5, <2>6, <3>1, RulingPromotes DEF bm, cm, bt, ct, m
    <2>8. bt # Absent /\ ct # Absent /\ p.most # NaN =>
            (~TTFTRegressed(bt, ct, p.most) <=> (bt = 0 \/ 100 * (ct - bt) <= p.most * bt))
        <3> SUFFICES ASSUME bt # Absent, ct # Absent, p.most # NaN
                     PROVE  ~TTFTRegressed(bt, ct, p.most) <=> (bt = 0 \/ 100 * (ct - bt) <= p.most * bt)
            OBVIOUS
        <3>1. bt \in Nat /\ ct \in Nat /\ p.most \in Nat /\ p.most * bt \in Nat
            BY <1>0, <2>4 DEF Numbers, bt, ct
        <3> QED BY <3>1 DEF TTFTRegressed
    <2>9. bm # Absent /\ cm # Absent /\ p.least # NaN =>
            (~GainBelow(m, bm, cm, p.least) <=>
               100 * (IF m \in LowerBetter THEN bm - cm ELSE cm - bm) >= p.least * bm)
        <3> SUFFICES ASSUME bm # Absent, cm # Absent, p.least # NaN
                     PROVE  ~GainBelow(m, bm, cm, p.least) <=>
                              100 * (IF m \in LowerBetter THEN bm - cm ELSE cm - bm) >= p.least * bm
            OBVIOUS
        <3>1. bm \in Nat /\ cm \in Nat /\ p.least \in Nat /\ p.least * bm \in Nat
            BY <1>0, <2>4 DEF Numbers, bm, cm
        <3> QED BY <3>1 DEF GainBelow
    <2>10. p.least = NaN => ~GainBelow(m, bm, cm, p.least)
        BY DEF GainBelow
    <2>11. bm # Absent => (bm # 0 <=> bm > 0)
        BY <2>4 DEF Numbers, bm
    <2> QED BY <1>2, <1>4, <2>3, <2>7, <2>8, <2>9, <2>10, <2>11 DEF bm, cm, bt, ct
<1> QED BY <1>0, <1>3, <1>4

-----------------------------------------------------------------------------
(* The import.                                                             *)

Stored(f) == Contents[f] \cup {NoDocument}
AllStored == UNION {Stored(f) : f \in Files}

ImportStates == {"hash", "read", "adapt", "attest", "attest_read", "decide", "done", "raised"}

ImportTypes ==
    /\ disk \in [Files -> AllStored] /\ \A f \in Files : disk[f] \in Stored(f)
    /\ case \in [policy: Policies, bound: [Files -> AllStored], attested: {"pass", "fail", "none"}]
    /\ \A f \in Files : case.bound[f] \in Contents[f]
    /\ import \in [pc: ImportStates, side: Sides,
                   text: [Sides -> AllStored], verified: BOOLEAN]
    /\ edits \in [count: Nat, torn: BOOLEAN]

ReadAsBound(s) == import.text[s] = case.bound[s] /\ Bound(case, s).form # "undecodable"

Judged == \A s \in Sides : Bound(case, s).form \in {"known", "unknown"}

\* The bound attestation was to be verified, and can be.
Attestable == case.attested # "none" /\ DocOf[case.bound["attestation"]].form # "undecodable"

\* The evidence of both sides has been read, and can be judged.
Adapted == /\ import.side = "candidate" /\ ReadAsBound("baseline") /\ ReadAsBound("candidate")
           /\ Judged

\* What a file rewritten between the hash and the read of it would break.
BoundIsRead ==
    /\ import.pc = "read" => disk[import.side] = case.bound[import.side]
    /\ import.pc \in {"hash", "read", "adapt"} /\ import.side = "candidate" => ReadAsBound("baseline")
    /\ import.pc = "adapt" => import.side = "candidate" /\ ReadAsBound("candidate")
    /\ import.pc \in {"attest", "attest_read", "decide"} => Adapted
    /\ import.pc \in {"attest", "attest_read"} => case.attested # "none"
    /\ import.pc = "attest_read" => disk["attestation"] = case.bound["attestation"]
    /\ import.verified => Attestable
    /\ import.pc \in {"decide", "done"} /\ edits.count = 0 =>
         \/ Attestable => import.verified
         \/ import.pc = "done" /\ bundle.verdict # "PROMOTE" /\ ~Deserves(case, Proven(case))
    /\ import.pc = "done" =>
         \/ Judged /\ bundle.verdict = BoundRuling(case, import.verified)[1]
         \/ bundle.verdict # "PROMOTE" /\ (edits.count = 0 => ~Deserves(case, Proven(case)))

ImportInv ==
    /\ ImportTypes
    /\ edits.count = 0 => disk = case.bound /\ ~edits.torn
    /\ ~edits.torn => BoundIsRead

LEMMA BoundDocuments ==
    ASSUME ImportInv, NEW s \in Sides PROVE Bound(case, s) \in Documents
<1>1. s \in Files /\ case.bound[s] \in Contents[s]
    BY DEF ImportInv, ImportTypes, Files, Sides
<1> QED BY <1>1, ContentsAssumption DEF Bound

LEMMA ImportInitial == ImportInit => ImportInv
<1> SUFFICES ASSUME ImportInit PROVE ImportInv
    OBVIOUS
<1>1. disk \in [Files -> AllStored] /\ \A f \in Files : disk[f] \in Contents[f]
    BY DEF ImportInit, AllStored, Stored
<1>2. case \in [policy: Policies, bound: {disk}, attested: {"pass", "fail", "none"}]
      /\ case.bound = disk
    BY DEF ImportInit
<1>3. import = [pc |-> "hash", side |-> "baseline",
                text |-> [s \in Sides |-> NoDocument], verified |-> FALSE]
      /\ edits = [count |-> 0, torn |-> FALSE]
    BY DEF ImportInit
<1>4. NoDocument \in AllStored
    BY DEF AllStored, Stored, Files
<1>5. ImportTypes
    BY <1>1, <1>2, <1>3, <1>4 DEF ImportTypes, ImportStates, Stored, Sides
<1>6. BoundIsRead
    BY <1>3 DEF BoundIsRead
<1> QED BY <1>2, <1>3, <1>5, <1>6 DEF ImportInv

\* A step that decides without the rules, on evidence that deserves nothing.
LEMMA Undeserved ==
    ASSUME ImportInv, NEW reason, Inconclusive(reason), UNCHANGED <<disk, case, edits>>,
           edits.count = 0 => ~Deserves(case, Proven(case))
    PROVE  ImportInv'
<1>1. /\ import' = [import EXCEPT !.pc = "done"]
      /\ bundle' = [verdict |-> "INCONCLUSIVE", reason |-> reason]
    BY DEF Inconclusive, Decided
<1>2. ImportTypes' /\ import'.pc = "done" /\ import'.verified = import.verified
      /\ bundle'.verdict = "INCONCLUSIVE"
    BY <1>1 DEF ImportInv, ImportTypes, ImportStates
<1>3. edits'.count = 0 => ~Deserves(case, Proven(case))'
    BY <1>2 DEF Proven
<1>4. ~edits.torn => (import'.verified => Attestable')
    BY <1>2 DEF ImportInv, BoundIsRead, Attestable
<1>5. ~edits.torn => BoundIsRead'
    BY <1>2, <1>3, <1>4 DEF BoundIsRead
<1> QED BY <1>2, <1>5 DEF ImportInv

LEMMA HashSideKeeps ==
    ASSUME ImportInv, HashSide PROVE ImportInv'
<1> DEFINE s == import.side
<1>1. /\ ImportTypes /\ s \in Sides /\ s \in Files /\ import.pc = "hash"
      /\ UNCHANGED <<disk, case, edits>>
    BY DEF ImportInv, ImportTypes, HashSide, Sides, Files
<1>2. (disk[s] # NoDocument /\ HashMatches(s)) \/ edits.count # 0
    <2>1. case.bound[s] # NoDocument
        BY <1>1, ContentsAssumption DEF ImportTypes
    <2> QED BY <2>1 DEF ImportInv, HashMatches
<1>3. CASE disk[s] = NoDocument
    BY <1>1, <1>2, <1>3, Undeserved DEF HashSide
<1>4. CASE disk[s] # NoDocument /\ ~HashMatches(s)
    BY <1>1, <1>2, <1>4, Undeserved DEF HashSide
<1>5. CASE disk[s] # NoDocument /\ HashMatches(s)
    <2>1. import' = [import EXCEPT !.pc = "read"] /\ disk[s] = case.bound[s]
        BY <1>5 DEF HashSide, HashMatches
    <2>2. /\ ImportTypes' /\ import'.pc = "read" /\ import'.side = s /\ import'.text = import.text
          /\ import'.verified = import.verified
        BY <1>1, <2>1 DEF ImportTypes, ImportStates
    <2>3. ~edits.torn => BoundIsRead'
        BY <1>1, <2>1, <2>2 DEF ImportInv, BoundIsRead, ReadAsBound, Judged, Attestable
    <2> QED BY <1>1, <2>2, <2>3 DEF ImportInv
<1> QED BY <1>3, <1>4, <1>5

LEMMA ReadSideKeeps ==
    ASSUME ImportInv, ReadSide PROVE ImportInv'
<1> DEFINE s == import.side
           now == disk[s]
           next == [import EXCEPT !.text[s] = now, !.side = "candidate",
                                  !.pc = IF s = "baseline" THEN "hash" ELSE "adapt"]
<1>1. /\ ImportTypes /\ s \in Sides /\ s \in Files /\ import.pc = "read"
      /\ UNCHANGED <<disk, case, edits>> /\ now \in AllStored
      /\ ~edits.torn => BoundIsRead /\ now = case.bound[s]
    BY DEF ImportInv, ImportTypes, ReadSide, Sides, Files, BoundIsRead
<1>2. CASE now = NoDocument
    <2>1. import' = [import EXCEPT !.pc = "raised"] /\ UNCHANGED bundle
        BY <1>2 DEF ReadSide
    <2>2. ImportTypes' /\ import'.pc = "raised"
        BY <1>1, <2>1 DEF ImportTypes, ImportStates
    <2>3. import'.verified = import.verified
        BY <1>1, <2>1 DEF ImportTypes
    <2>4. ~edits.torn => BoundIsRead'
        BY <1>1, <2>2, <2>3 DEF BoundIsRead, Attestable
    <2> QED BY <1>1, <2>2, <2>4 DEF ImportInv
<1>3. CASE now # NoDocument /\ DocOf[now].form = "undecodable"
    <2>1. edits.count = 0 => now = case.bound[s]
        BY <1>1 DEF ImportInv
    <2>2. edits.count = 0 => ~Deserves(case, Proven(case))
        BY <1>1, <1>3, <2>1 DEF Deserves
    <2>3. Inconclusive("EVIDENCE_UNAVAILABLE")
        BY <1>3 DEF ReadSide
    <2> QED BY <1>1, <2>2, <2>3, Undeserved
<1>4. CASE now # NoDocument /\ DocOf[now].form # "undecodable"
    <2>1. import' = next /\ UNCHANGED bundle
        BY <1>4 DEF ReadSide
    <2>2. /\ import'.text = [import.text EXCEPT ![s] = now] /\ import'.side = "candidate"
          /\ import'.pc = IF s = "baseline" THEN "hash" ELSE "adapt"
          /\ import'.verified = import.verified
          /\ import' \in [pc: ImportStates, side: Sides,
                          text: [Sides -> AllStored], verified: BOOLEAN]
        <3> HIDE DEF now
        <3> QED BY <1>1, <2>1 DEF ImportTypes, ImportStates, Sides
    <2> HIDE DEF next
    <2>3. ImportTypes'
        BY <1>1, <2>2 DEF ImportTypes
    <2>4. ASSUME ~edits.torn, NEW x \in Sides, x = s \/ s = "candidate" PROVE ReadAsBound(x)'
        <3>1. CASE x = s
            <4>1. import'.text[x] = case.bound[x] /\ Bound(case, x).form # "undecodable"
                BY <1>1, <1>4, <2>2, <2>4, <3>1 DEF Bound, ImportTypes
            <4> QED BY <1>1, <4>1 DEF ReadAsBound, Bound
        <3>2. CASE x # s
            <4>1. x = "baseline" /\ s = "candidate"
                BY <2>4, <3>2 DEF Sides
            <4>2. ReadAsBound(x) /\ import'.text[x] = import.text[x]
                BY <1>1, <2>2, <2>4, <4>1 DEF BoundIsRead, ImportTypes
            <4> QED BY <1>1, <4>2 DEF ReadAsBound, Bound
        <3> QED BY <3>1, <3>2
    <2>5. ~edits.torn => BoundIsRead'
        BY <1>1, <2>2, <2>4 DEF BoundIsRead, Attestable, Sides
    <2> QED BY <1>1, <2>3, <2>5 DEF ImportInv
<1> QED BY <1>2, <1>3, <1>4

LEMMA AdaptKeeps ==
    ASSUME ImportInv, Adapt PROVE ImportInv'
<1> DEFINE then == IF case.attested = "none" THEN "decide" ELSE "attest"
<1>1. /\ ImportTypes /\ import.pc = "adapt" /\ UNCHANGED <<disk, case, edits>>
      /\ ~edits.torn => BoundIsRead
    BY DEF ImportInv, Adapt
<1>2. ~edits.torn => /\ import.side = "candidate"
                     /\ \A s \in Sides : ReadAsBound(s) /\ Text(s) = Bound(case, s)
    BY <1>1 DEF BoundIsRead, ReadAsBound, Sides, Text, Bound
<1>3. CASE \E s \in Sides : Text(s).form = "nonfinite"
    <2>1. Inconclusive("NONFINITE_EVIDENCE")
        BY <1>3 DEF Adapt
    <2>2. ~edits.torn => ~Deserves(case, Proven(case))
        BY <1>2, <1>3 DEF Deserves, Bound
    <2>3. edits.count = 0 => ~edits.torn
        BY DEF ImportInv
    <2> QED BY <1>1, <2>1, <2>2, <2>3, Undeserved
<1>4. CASE ~\E s \in Sides : Text(s).form = "nonfinite"
    <2>1. import' = [import EXCEPT !.pc = then] /\ UNCHANGED bundle
        BY <1>4 DEF Adapt
    <2>2. /\ ImportTypes' /\ import'.pc = then /\ import'.side = import.side
          /\ import'.text = import.text /\ import'.verified = import.verified
        BY <1>1, <2>1 DEF ImportTypes, ImportStates
    <2>3. ~edits.torn => Judged
        BY <1>2, <1>4, BoundDocuments DEF Judged, ReadAsBound, Documents
    <2>4. ~edits.torn => Adapted'
        BY <1>1, <1>2, <2>2, <2>3 DEF Adapted, ReadAsBound, Judged, Bound, Sides
    <2>5. ~edits.torn => BoundIsRead'
        BY <1>1, <2>2, <2>4 DEF BoundIsRead, Attestable
    <2> QED BY <1>1, <2>2, <2>5 DEF ImportInv
<1> QED BY <1>3, <1>4

\* A step of the attestation leaves what was read, and may verify the attestation.
LEMMA AttestationStep ==
    ASSUME ImportInv, import.pc \in {"attest", "attest_read"}, UNCHANGED <<disk, case, bundle, edits>>,
           NEW then \in {"attest_read", "decide", "raised"}, NEW verified \in BOOLEAN,
           import' = [import EXCEPT !.pc = then, !.verified = verified],
           ~edits.torn /\ then = "attest_read" => disk["attestation"] = case.bound["attestation"],
           ~edits.torn /\ verified => Attestable,
           edits.count = 0 /\ then = "decide" /\ Attestable => verified
    PROVE  ImportInv'
<1>1. /\ ImportTypes' /\ import'.pc = then /\ import'.side = import.side
      /\ import'.text = import.text /\ import'.verified = verified
    BY DEF ImportInv, ImportTypes, ImportStates
<1>2. ~edits.torn => Adapted' /\ case.attested # "none"
    BY <1>1 DEF ImportInv, BoundIsRead, Adapted, ReadAsBound, Judged, Bound
<1>3. Attestable' <=> Attestable
    BY DEF Attestable
<1>4. ~edits.torn => BoundIsRead'
    BY <1>1, <1>2, <1>3 DEF BoundIsRead
<1> QED BY <1>1, <1>4 DEF ImportInv

LEMMA HashAttestationKeeps ==
    ASSUME ImportInv, HashAttestation PROVE ImportInv'
<1> DEFINE matches == disk["attestation"] # NoDocument /\ HashMatches("attestation")
           then == IF matches THEN "attest_read" ELSE "decide"
<1>1. /\ import.pc = "attest" /\ UNCHANGED <<disk, case, bundle, edits>>
      /\ import' = [import EXCEPT !.pc = then]
    BY DEF HashAttestation
<1>2. import' = [import EXCEPT !.pc = then, !.verified = import.verified] /\ import.verified \in BOOLEAN
    BY <1>1 DEF ImportInv, ImportTypes
<1>3. "attestation" \in Files /\ case.bound["attestation"] # NoDocument
    BY ContentsAssumption DEF ImportInv, ImportTypes, Files
<1>4. edits.count = 0 => matches
    BY <1>3 DEF ImportInv, HashMatches
<1>5. matches => disk["attestation"] = case.bound["attestation"]
    BY DEF HashMatches
<1>6. ~edits.torn /\ import.verified => Attestable
    BY DEF ImportInv, BoundIsRead
<1> HIDE DEF matches
<1> QED BY <1>1, <1>2, <1>4, <1>5, <1>6, AttestationStep

LEMMA ReadAttestationKeeps ==
    ASSUME ImportInv, ReadAttestation PROVE ImportInv'
<1> DEFINE now == disk["attestation"]
           decodes == DocOf[now].form # "undecodable"
<1>1. /\ import.pc = "attest_read" /\ UNCHANGED <<disk, case, bundle, edits>>
      /\ ~edits.torn => now = case.bound["attestation"] /\ case.attested # "none"
      /\ edits.count = 0 => ~edits.torn
    BY DEF ReadAttestation, ImportInv, BoundIsRead
<1>2. ~edits.torn => (decodes <=> Attestable)
    BY <1>1 DEF Attestable
<1>3. CASE now = NoDocument
    <2>1. import' = [import EXCEPT !.pc = "raised", !.verified = import.verified]
          /\ import.verified \in BOOLEAN
        BY <1>3 DEF ReadAttestation, ImportInv, ImportTypes
    <2>2. ~edits.torn /\ import.verified => Attestable
        BY DEF ImportInv, BoundIsRead
    <2> QED BY <1>1, <2>1, <2>2, AttestationStep
<1>4. CASE now # NoDocument
    <2>1. import' = [import EXCEPT !.pc = "decide", !.verified = decodes] /\ decodes \in BOOLEAN
        BY <1>4 DEF ReadAttestation
    <2> HIDE DEF decodes, now
    <2> QED BY <1>1, <1>2, <2>1, AttestationStep
<1> QED BY <1>3, <1>4

LEMMA DecideKeeps ==
    ASSUME ImportInv, DecideCase PROVE ImportInv'
<1> DEFINE ruling0 == RulingOn(case, Text("baseline"), Text("candidate"), import.verified)
<1>1. /\ ImportTypes /\ import.pc = "decide" /\ UNCHANGED <<disk, case, edits>>
      /\ ~edits.torn => BoundIsRead
    BY DEF ImportInv, DecideCase
<1>2. import' = [import EXCEPT !.pc = "done"] /\ bundle' = [verdict |-> ruling0[1], reason |-> ruling0[2]]
    BY DEF DecideCase, Decided
<1>3. ~edits.torn => Judged /\ ruling0 = BoundRuling(case, import.verified)
    BY <1>1 DEF BoundIsRead, Adapted, ReadAsBound, Sides, Text, Bound, BoundRuling
<1> HIDE DEF ruling0
<1>4. ImportTypes' /\ import'.pc = "done" /\ import'.verified = import.verified
      /\ bundle'.verdict = ruling0[1]
    BY <1>1, <1>2 DEF ImportTypes, ImportStates
<1>5. ~edits.torn => Judged' /\ bundle'.verdict = (BoundRuling(case, import.verified)[1])'
    BY <1>1, <1>3, <1>4 DEF Judged, Bound, BoundRuling
<1>6. ~edits.torn => BoundIsRead'
    BY <1>1, <1>4, <1>5 DEF BoundIsRead, Attestable
<1> QED BY <1>1, <1>4, <1>6 DEF ImportInv

LEMMA RewriteKeeps ==
    ASSUME ImportInv, Rewrite PROVE ImportInv'
<1> DEFINE Rewritten(f, d) ==
             /\ disk' = [disk EXCEPT ![f] = d]
             /\ edits' = [count |-> edits.count + 1,
                          torn  |-> edits.torn \/ Between(f)]
<1>0. PICK f \in Files : \E d \in Stored(f) : Rewritten(f, d)
    BY DEF Rewrite, Stored
<1>1. PICK d \in Stored(f) : Rewritten(f, d)
    BY <1>0
<1>2. ImportTypes /\ UNCHANGED <<case, import, bundle>> /\ import.pc # "done"
    BY DEF ImportInv, Rewrite
<1>3. d \in AllStored
    BY DEF AllStored
<1>4. edits' \in [count: Nat, torn: BOOLEAN] /\ edits'.count # 0
      /\ edits'.torn = (edits.torn \/ Between(f))
    BY <1>1, <1>2 DEF ImportTypes
<1>5. ImportTypes'
    BY <1>1, <1>2, <1>3, <1>4 DEF ImportTypes
<1>6. ~edits'.torn => BoundIsRead'
    <2> SUFFICES ASSUME ~edits'.torn PROVE BoundIsRead'
        OBVIOUS
    <2>1. BoundIsRead /\ ~(import.pc = "read" /\ f = import.side)
          /\ ~(import.pc = "attest_read" /\ f = "attestation")
        BY <1>4 DEF ImportInv, Between
    <2>2. import.pc = "read" => disk'[import.side] = case.bound[import.side]
        BY <1>1, <1>2, <2>1 DEF BoundIsRead, ImportTypes, Sides, Files
    <2>3. import.pc = "attest_read" => disk'["attestation"] = case.bound["attestation"]
        BY <1>1, <1>2, <2>1 DEF BoundIsRead, ImportTypes, Files
    <2> QED BY <1>2, <1>4, <2>1, <2>2, <2>3
            DEF BoundIsRead, Adapted, Attestable, ReadAsBound, Judged, Bound
<1> QED BY <1>4, <1>5, <1>6 DEF ImportInv

LEMMA ImportNextKeeps == ImportInv /\ [ImportNext]_importVars => ImportInv'
<1> SUFFICES ASSUME ImportInv, [ImportNext]_importVars PROVE ImportInv'
    OBVIOUS
<1>1. CASE UNCHANGED importVars
    BY <1>1 DEF importVars, ImportInv, ImportTypes, BoundIsRead, Adapted, Attestable, ReadAsBound,
                 Judged, Bound
<1> QED BY <1>1, HashSideKeeps, ReadSideKeeps, AdaptKeeps, HashAttestationKeeps, ReadAttestationKeeps,
           DecideKeeps, RewriteKeeps DEF ImportNext, ImportStep

LEMMA ImportDeserves == ImportInv => PromotedAsDeserved
<1> SUFFICES ASSUME ImportInv, import.pc = "done", ~edits.torn
             PROVE  /\ bundle.verdict = "PROMOTE" => Deserves(case, Proven(case))
                    /\ edits.count = 0 /\ Deserves(case, Proven(case)) => bundle.verdict = "PROMOTE"
    BY DEF PromotedAsDeserved
<1> DEFINE passed == IF import.verified /\ case.attested = "pass" THEN {"quality"} ELSE {}
<1>1. /\ \/ Judged /\ bundle.verdict = BoundRuling(case, import.verified)[1]
         \/ bundle.verdict # "PROMOTE" /\ (edits.count = 0 => ~Deserves(case, Proven(case)))
      /\ import.verified => Attestable
      /\ edits.count = 0 => \/ Attestable => import.verified
                            \/ ~Deserves(case, Proven(case))
    BY DEF ImportInv, BoundIsRead
<1>2. case.policy \in Policies /\ case.attested \in {"pass", "fail", "none"} /\ import.verified \in BOOLEAN
    BY DEF ImportInv, ImportTypes
<1>3. Judged => (BoundRuling(case, import.verified)[1] = "PROMOTE" <=> Deserves(case, passed))
    BY <1>2, BoundDocuments, PromotesDeserving DEF Judged
<1>4. passed \subseteq Proven(case)
    BY <1>1 DEF Proven, Attestable
<1>5. (Attestable => import.verified) => passed = Proven(case)
    BY <1>1 DEF Proven, Attestable
<1>6. Deserves(case, passed) => Deserves(case, Proven(case))
    <2> HIDE DEF passed
    <2> QED BY <1>4 DEF Deserves
<1> HIDE DEF passed
<1> QED BY <1>1, <1>3, <1>5, <1>6

-----------------------------------------------------------------------------
(* The bundle.                                                             *)

Provenance ==
    /\ file.digest \in sealed
    /\ file.signature # Unsigned => <<file.signature.key, file.signature.payload>> \in signed

BundleInv == BundleTypeOK /\ Provenance

Signatures == [key: Keys, signer: Signers, payload: Payloads, digest: Payloads]
BundleFiles == [version: Versions, wellformed: BOOLEAN, payload: Payloads, digest: Payloads,
              signature: {Unsigned} \cup Signatures]

-----------------------------------------------------------------------------
(* The bundle and the changes to its file.                                 *)

LEMMA InvInit == BundleInit => BundleInv
<1> SUFFICES ASSUME BundleInit PROVE BundleInv
    OBVIOUS
<1>1. PICK version \in Versions, p \in Payloads :
        /\ file = [version |-> version, wellformed |-> TRUE, payload |-> p,
                   digest |-> p, signature |-> Unsigned]
        /\ sealed = {p}
    BY DEF BundleInit
<1>2. BundleTypeOK
    BY <1>1 DEF BundleInit, BundleTypeOK
<1>3. Provenance
    BY <1>1 DEF Provenance
<1> QED BY <1>2, <1>3 DEF BundleInv

\* Signing: the key signs the payload the file has.
LEMMA InvSign ==
    ASSUME BundleInv, NEW key \in Keys, NEW signer \in Signers, Sign(key, signer)
    PROVE  BundleInv'
<1> DEFINE s == [key |-> key, signer |-> signer, payload |-> file.payload, digest |-> file.digest]
<1>1. file \in BundleFiles /\ sealed \subseteq Payloads /\ signed \subseteq Keys \X Payloads
      /\ edited \in Nat
    BY DEF BundleInv, BundleTypeOK, BundleFiles, Signatures
<1>2. file' = [file EXCEPT !.signature = s] /\ UNCHANGED <<sealed, edited>>
      /\ signed' = signed \cup {<<key, file.payload>>}
    BY DEF Sign
<1>3. s \in Signatures
    BY <1>1 DEF Signatures, BundleFiles
<1>4. file' \in BundleFiles /\ file'.signature = s /\ file'.digest = file.digest
    <2> HIDE DEF s
    <2> QED BY <1>1, <1>2, <1>3 DEF BundleFiles
<1>5. BundleTypeOK'
    BY <1>1, <1>2, <1>4 DEF BundleTypeOK, BundleFiles, Signatures
<1>6. Provenance'
    BY <1>2, <1>4 DEF BundleInv, Provenance
<1> QED BY <1>5, <1>6 DEF BundleInv

\* What is done to the file leaves a digest somebody sealed and, if any, a
\* signature somebody made.
LEMMA InvFileChanges ==
    ASSUME BundleInv, FileChanges
    PROVE  BundleInv'
<1>1. file \in BundleFiles /\ sealed \subseteq Payloads /\ signed \subseteq Keys \X Payloads
      /\ edited \in Nat /\ edited' = edited + 1
    BY DEF BundleInv, BundleTypeOK, BundleFiles, Signatures, FileChanges
<1>2. CASE Edit
    <2>1. PICK p \in Payloads : file' = [file EXCEPT !.payload = p]
        BY <1>2 DEF Edit
    <2>2. UNCHANGED <<sealed, signed>>
        BY <1>2 DEF Edit
    <2>3. file' \in BundleFiles /\ file'.digest = file.digest /\ file'.signature = file.signature
        BY <1>1, <2>1 DEF BundleFiles
    <2> QED BY <1>1, <2>2, <2>3 DEF BundleInv, BundleTypeOK, Provenance, BundleFiles, Signatures
<1>3. CASE Reseal
    <2>1. file' = [file EXCEPT !.digest = file.payload] /\ UNCHANGED signed
          /\ sealed' = sealed \cup {file.payload}
        BY <1>3 DEF Reseal
    <2>2. file' \in BundleFiles /\ file'.digest = file.payload /\ file'.signature = file.signature
          /\ file.payload \in Payloads
        BY <1>1, <2>1 DEF BundleFiles
    <2> QED BY <1>1, <2>1, <2>2 DEF BundleInv, BundleTypeOK, Provenance, BundleFiles, Signatures
<1>4. CASE Strip
    <2>1. file' = [file EXCEPT !.signature = Unsigned] /\ UNCHANGED <<sealed, signed>>
        BY <1>4 DEF Strip
    <2>2. file' \in BundleFiles /\ file'.digest = file.digest /\ file'.signature = Unsigned
        <3> HIDE DEF Unsigned
        <3> QED BY <1>1, <2>1 DEF BundleFiles
    <2> QED BY <1>1, <2>1, <2>2 DEF BundleInv, BundleTypeOK, Provenance, BundleFiles, Signatures
<1>5. CASE Spoil
    <2>1. file' = [file EXCEPT !.wellformed = FALSE] /\ UNCHANGED <<sealed, signed>>
        BY <1>5 DEF Spoil
    <2>2. file' \in BundleFiles /\ file'.digest = file.digest /\ file'.signature = file.signature
        BY <1>1, <2>1 DEF BundleFiles
    <2> QED BY <1>1, <2>1, <2>2 DEF BundleInv, BundleTypeOK, Provenance, BundleFiles, Signatures
<1> QED BY <1>2, <1>3, <1>4, <1>5 DEF FileChanges

LEMMA InvStep == BundleInv /\ [BundleNext]_bundleVars => BundleInv'
<1> SUFFICES ASSUME BundleInv, [BundleNext]_bundleVars PROVE BundleInv'
    OBVIOUS
<1>1. CASE FileChanges
    BY <1>1, InvFileChanges
<1>2. CASE \E key \in Keys, signer \in Signers : Sign(key, signer)
    BY <1>2, InvSign
<1>3. CASE UNCHANGED bundleVars
    BY <1>3 DEF bundleVars, BundleInv, BundleTypeOK, Provenance
<1> QED BY <1>1, <1>2, <1>3 DEF BundleNext

-----------------------------------------------------------------------------
(* The gate.                                                               *)

\* A verification that succeeds found the recorded digest to hold and, when a
\* signature is demanded or one meets a store, one that binds this payload under a
\* key of the store.
LEMMA VerificationSound ==
    ASSUME NEW store \in Stores, NEW requireSigned \in BOOLEAN,
           Verification(file, store, requireSigned) = "ok"
    PROVE  /\ DigestHolds(file)
           /\ requireSigned \/ store.verdict \/ (store # NoStore /\ file.signature # Unsigned) =>
                /\ file.signature # Unsigned
                /\ file.signature.payload = file.payload
                /\ file.signature.key \in store.keys
<1>1. NoStore.verdict = FALSE
    BY DEF NoStore
<1>2. CASE file.version = "v0.1"
    <2>1. ~requireSigned /\ store = NoStore /\ Intact(file)
        BY <1>2 DEF Verification
    <2> QED BY <1>1, <2>1 DEF Intact
<1>3. CASE file.version # "v0.1" /\ ~(requireSigned \/ store # NoStore)
    BY <1>1, <1>3 DEF Verification
<1>4. CASE file.version # "v0.1" /\ (requireSigned \/ store # NoStore)
    <2>1. SignedVerification(file, store, requireSigned) = "ok"
        BY <1>4 DEF Verification
    <2>2. DigestHolds(file)
        BY <2>1 DEF SignedVerification
    <2>3. requireSigned \/ store.verdict \/ (store # NoStore /\ file.signature # Unsigned)
            => file.signature # Unsigned
        BY <2>1 DEF SignedVerification
    <2>4. file.signature # Unsigned => Binds(file) /\ file.signature.key \in store.keys
        BY <2>1 DEF SignedVerification
    <2> QED BY <2>2, <2>3, <2>4 DEF Binds
<1> QED BY <1>2, <1>3, <1>4

\* Exit 0 is given to a verified bundle only, and by its sealed verdict.
LEMMA GateSound ==
    ASSUME NEW verdict, NEW verification, NEW required, NEW failInconclusive \in BOOLEAN,
           Gate(verdict, verification, required, failInconclusive).exit = 0
    PROVE  /\ verification = "ok"
           /\ verdict = required \/ (verdict = "INCONCLUSIVE" /\ ~failInconclusive)
           /\ Gate(verdict, verification, required, failInconclusive).blocked =>
                verdict = required
<1>1. verification # "usage" /\ verification = "ok"
    BY DEF Gate, Refused
<1>2. ~(failInconclusive /\ required = "INCONCLUSIVE")
    BY <1>1 DEF Gate, Refused
<1>3. Gate(verdict, verification, required, failInconclusive)
        = Outcome(verdict, required, failInconclusive)
    BY <1>1, <1>2 DEF Gate
<1>4. Outcome(verdict, required, failInconclusive).exit = 0
    BY <1>3
<1>5. verdict = required \/ (verdict = "INCONCLUSIVE" /\ ~failInconclusive)
    <2> SUFFICES ASSUME verdict # required, ~(verdict = "INCONCLUSIVE" /\ ~failInconclusive)
                 PROVE  FALSE
        OBVIOUS
    <2>1. Outcome(verdict, required, failInconclusive).exit
            = IF verdict = "INCONCLUSIVE" THEN 6 ELSE 5
        <3> DEFINE satisfied == verdict = required
                   shrugs == verdict = "INCONCLUSIVE" /\ ~failInconclusive /\ ~satisfied
        <3>1. ~satisfied /\ ~shrugs
            OBVIOUS
        <3>2. Outcome(verdict, required, failInconclusive).exit
                = IF satisfied \/ shrugs THEN 0 ELSE IF verdict = "INCONCLUSIVE" THEN 6 ELSE 5
            BY ZenonT(60) DEF Outcome
        <3> QED BY <3>1, <3>2
    <2> QED BY <1>4, <2>1
<1>6. Outcome(verdict, required, failInconclusive).blocked = (verdict = required)
    BY DEF Outcome
<1> QED BY <1>1, <1>3, <1>5, <1>6

LEMMA InvBacks == BundleInv => GatePassIsBacked
<1> SUFFICES ASSUME BundleInv,
                    NEW store \in Stores, NEW requireSigned \in BOOLEAN,
                    NEW required \in Verdicts, NEW failInconclusive \in BOOLEAN,
                    Gate(file.payload.verdict, Verification(file, store, requireSigned),
                         required, failInconclusive).exit = 0
             PROVE  /\ file.payload \in sealed
                    /\ \/ file.payload.verdict = required
                       \/ file.payload.verdict = "INCONCLUSIVE" /\ ~failInconclusive
                    /\ Gate(file.payload.verdict, Verification(file, store, requireSigned),
                            required, failInconclusive).blocked => file.payload.verdict = required
                    /\ requireSigned \/ store.verdict \/ (store # NoStore /\ file.signature # Unsigned) =>
                         \E key \in store.keys : <<key, file.payload>> \in signed
    BY DEF GatePassIsBacked
<1>1. Verification(file, store, requireSigned) = "ok"
    BY GateSound
<1>2. DigestHolds(file)
    BY <1>1, VerificationSound
<1>3. file.payload \in sealed
    BY <1>2 DEF DigestHolds, BundleInv, Provenance
<1>4. requireSigned \/ store.verdict \/ (store # NoStore /\ file.signature # Unsigned) =>
        \E key \in store.keys : <<key, file.payload>> \in signed
    BY <1>1, VerificationSound DEF BundleInv, Provenance
<1> QED BY <1>3, <1>4, GateSound

-----------------------------------------------------------------------------
(* The directory of an experiment.  A temporary directory that is being    *)
(* written holds files of its writer only; a file of an experiment is seen *)
(* at the destination, or by the verification, only after its writer's     *)
(* rename.                                                                 *)

AllNames == Names \cup {"absent"}
Values == Writers \cup {"none", "absent", "broken", "edited"}
Dirs == UNION {[N -> Values] : N \in SUBSET AllNames}
WriterStates == {"starting", "measured", "making", "writing", "cleaning", "published",
                 "refused", "failed", "crashed"}
ReaderStates == {"idle", "runs", "statistics", "listing", "verify", "valid", "invalid"}

DirTypeOK ==
    /\ dest \in Dirs
    /\ temp \in [Writers -> Dirs]
    /\ writer \in [Writers -> WriterStates]
    /\ reader \in [pc: ReaderStates, of: Values, got: Dirs]
    /\ changes \in Nat

\* A temporary directory that can still be renamed.
DraftsAreOwn ==
    \A w \in Writers : writer[w] = "writing" =>
      DOMAIN temp[w] \subseteq FilesOf(w) /\ \A n \in DOMAIN temp[w] : temp[w][n] = w

OfPublished(dir) == \A n \in DOMAIN dir : dir[n] \in Writers => writer[dir[n]] = "published"

\* What the verification has read at each of its steps.
ReadSoFar ==
    reader.pc \notin {"idle", "invalid"} =>
      /\ "experiment" \in DOMAIN reader.got /\ reader.got["experiment"] = reader.of
      /\ OfPublished(reader.got)
      /\ reader.pc = "runs" => DOMAIN reader.got = {"experiment"}
      /\ reader.pc = "statistics" =>
           DOMAIN reader.got = {"experiment", "run"} /\ (reader.of \in Writers => reader.of \in Measured)
      /\ reader.pc \in {"listing", "verify", "valid"} /\ reader.of \in Writers =>
           DOMAIN reader.got = FilesOf(reader.of)
      /\ reader.pc = "valid" => DigestsHold

DirInv ==
    /\ DirTypeOK
    /\ DraftsAreOwn
    /\ PublishedIsWhole
    /\ OfPublished(dest)
    /\ ReadSoFar

-----------------------------------------------------------------------------
(* Directories.                                                            *)

LEMMA DirIn ==
    ASSUME NEW d \in Dirs
    PROVE  DOMAIN d \subseteq AllNames /\ d \in [DOMAIN d -> Values]
BY DEF Dirs

LEMMA DirOf ==
    ASSUME NEW N \in SUBSET AllNames, NEW d \in [N -> Values]
    PROVE  d \in Dirs
BY DEF Dirs

LEMMA WithDir ==
    ASSUME NEW d \in Dirs, NEW n \in Names, NEW c \in Values
    PROVE  /\ With(d, n, c) \in Dirs
           /\ DOMAIN With(d, n, c) = DOMAIN d \cup {n}
           /\ \A k \in DOMAIN d \cup {n} : With(d, n, c)[k] = IF k = n THEN c ELSE d[k]
<1>1. DOMAIN d \cup {n} \in SUBSET AllNames
    BY DirIn DEF AllNames
<1>2. With(d, n, c) \in [DOMAIN d \cup {n} -> Values]
    BY DirIn DEF With
<1> QED BY <1>1, <1>2, DirOf DEF With

LEMMA WithoutDir ==
    ASSUME NEW d \in Dirs, NEW n
    PROVE  /\ Without(d, n) \in Dirs
           /\ DOMAIN Without(d, n) = DOMAIN d \ {n}
           /\ \A k \in DOMAIN d \ {n} : Without(d, n)[k] = d[k]
<1>1. DOMAIN d \ {n} \in SUBSET AllNames
    BY DirIn
<1>2. Without(d, n) \in [DOMAIN d \ {n} -> Values]
    BY DirIn DEF Without
<1> QED BY <1>1, <1>2, DirOf DEF Without

LEMMA EmptyDirs ==
    /\ NoDirectory \in Dirs /\ DOMAIN NoDirectory = {"absent"} /\ NoDirectory["absent"] = "absent"
    /\ Empty \in Dirs /\ DOMAIN Empty = {}
    /\ Empty # NoDirectory
<1>1. NoDirectory \in [{"absent"} -> Values] /\ {"absent"} \in SUBSET AllNames
    BY DEF NoDirectory, Values, AllNames
<1>2. Empty \in [{} -> Values] /\ {} \in SUBSET AllNames
    BY DEF Empty
<1>3. NoDirectory \in Dirs /\ Empty \in Dirs
    BY <1>1, <1>2, DirOf
<1> QED BY <1>3 DEF NoDirectory, Empty

LEMMA WholeDir ==
    ASSUME NEW w \in Writers
    PROVE  /\ FilesOf(w) \subseteq Names /\ "run" \in FilesOf(w) /\ "experiment" \in FilesOf(w)
           /\ Whole(w) \in Dirs /\ DOMAIN Whole(w) = FilesOf(w)
           /\ \A n \in FilesOf(w) : Whole(w)[n] = w
           /\ Whole(w) # NoDirectory /\ Whole(w) # Empty
<1>1. FilesOf(w) \subseteq Names /\ "run" \in FilesOf(w) /\ "experiment" \in FilesOf(w)
    BY DEF FilesOf, Names
<1>2. Whole(w) \in [FilesOf(w) -> Values] /\ FilesOf(w) \in SUBSET AllNames
    BY <1>1 DEF Whole, Values, AllNames
<1>3. Whole(w) \in Dirs /\ DOMAIN Whole(w) = FilesOf(w) /\ \A n \in FilesOf(w) : Whole(w)[n] = w
    BY <1>2, DirOf DEF Whole
<1>4. Whole(w) # NoDirectory /\ Whole(w) # Empty
    BY <1>1, <1>3, EmptyDirs
<1> QED BY <1>1, <1>3, <1>4

LEMMA WholeIs ==
    ASSUME NEW w \in Writers, NEW d \in Dirs,
           DOMAIN d = FilesOf(w), \A n \in DOMAIN d : d[n] = w
    PROVE  d = Whole(w)
<1>1. d = [n \in FilesOf(w) |-> d[n]]
    BY DirIn
<1> QED BY <1>1 DEF Whole

\* A file that is missing is found.
LEMMA NextIsMissing ==
    ASSUME NEW w \in Writers, FilesOf(w) \ DOMAIN temp[w] # {}
    PROVE  NextFile(w) \in FilesOf(w) \ DOMAIN temp[w]
<1> DEFINE missing == FilesOf(w) \ DOMAIN temp[w]
           first(i) == Order[i] \in missing /\ \A j \in 1..(i - 1) : Order[j] \notin missing
<1>1. Order[1] = "run" /\ Order[2] = "statistics" /\ Order[3] = "experiment"
    BY DEF Order
<1>2. missing \subseteq {Order[1], Order[2], Order[3]}
    BY <1>1 DEF FilesOf
<1>3. \E i \in 1..3 : first(i)
    <2>1. CASE Order[1] \in missing
        <3>1. first(1)
            BY <2>1
        <3> QED BY <3>1
    <2>2. CASE Order[1] \notin missing /\ Order[2] \in missing
        <3>1. first(2)
            BY <2>2
        <3> QED BY <3>1
    <2>3. CASE Order[1] \notin missing /\ Order[2] \notin missing
        <3>1. Order[3] \in missing
            BY <1>2, <2>3
        <3>2. \A j \in 1..(3 - 1) : Order[j] \notin missing
            <4> SUFFICES ASSUME NEW j \in 1..2 PROVE Order[j] \notin missing
                OBVIOUS
            <4>1. j = 1 \/ j = 2
                OBVIOUS
            <4> QED BY <4>1, <2>3
        <3>3. first(3)
            BY <3>1, <3>2
        <3> QED BY <3>3
    <2> QED BY <2>1, <2>2, <2>3
<1>4. NextFile(w) = Order[CHOOSE i \in 1..3 : first(i)]
    BY DEF NextFile
<1>5. first(CHOOSE i \in 1..3 : first(i))
    <2> HIDE DEF first
    <2> QED BY <1>3
<1> QED BY <1>4, <1>5

-----------------------------------------------------------------------------
(* The invariant.                                                          *)

LEMMA DirInvInit == DirInit => DirInv
<1> SUFFICES ASSUME DirInit PROVE DirInv
    OBVIOUS
<1>1. DirTypeOK
    BY EmptyDirs DEF DirInit, DirTypeOK, NotReading, WriterStates, ReaderStates, Values
<1>2. DraftsAreOwn
    BY DEF DirInit, DraftsAreOwn
<1>3. PublishedIsWhole
    BY DEF DirInit, PublishedIsWhole
<1>4. OfPublished(dest)
    BY EmptyDirs, WritersAssumption DEF DirInit, OfPublished
<1>5. ReadSoFar
    BY DEF DirInit, ReadSoFar, NotReading
<1> QED BY <1>1, <1>2, <1>3, <1>4, <1>5 DEF DirInv

\* Nobody's rename is undone, so what was read of published experiments stays so.
LEMMA ReaderKept ==
    ASSUME DirInv, UNCHANGED reader,
           \A x \in Writers : writer[x] = "published" => writer'[x] = "published"
    PROVE  ReadSoFar'
<1>1. OfPublished(reader.got) => OfPublished(reader.got)'
    BY DEF OfPublished
<1>2. DigestsHold => DigestsHold'
    BY DEF DigestsHold
<1> QED BY <1>1, <1>2 DEF DirInv, ReadSoFar

\* A step of a writer that neither renames nor has renamed.
LEMMA WriterFrame ==
    ASSUME DirInv, NEW w \in Writers, NEW pc \in WriterStates \ {"published"},
           writer[w] # "published", writer' = [writer EXCEPT ![w] = pc],
           UNCHANGED <<dest, reader, changes>>
    PROVE  PublishedIsWhole' /\ OfPublished(dest)' /\ ReadSoFar'
<1>1. writer \in [Writers -> WriterStates]
    BY DEF DirInv, DirTypeOK
<1>2. \A x \in Writers : writer'[x] = "published" <=> writer[x] = "published"
    BY <1>1
<1>3. PublishedIsWhole'
    BY <1>2 DEF DirInv, PublishedIsWhole
<1>4. OfPublished(dest)'
    BY <1>2 DEF DirInv, OfPublished
<1> QED BY <1>2, <1>3, <1>4, ReaderKept

LEMMA WriterKeeps ==
    ASSUME DirInv, NEW w \in Writers, WriterStep(w)
    PROVE  DirInv'
<1>0. /\ dest \in Dirs /\ temp \in [Writers -> Dirs] /\ writer \in [Writers -> WriterStates]
      /\ reader \in [pc: ReaderStates, of: Values, got: Dirs] /\ changes \in Nat
    BY DEF DirInv, DirTypeOK
<1>1. CASE LookForDestination(w)
    <2>1. PICK pc \in {"refused", "measured", "making"} : writer' = [writer EXCEPT ![w] = pc]
        BY <1>1 DEF LookForDestination, Moves
    <2>2. writer[w] # "published" /\ UNCHANGED <<dest, temp, reader, changes>>
        BY <1>1 DEF LookForDestination
    <2>3. pc \in WriterStates \ {"published", "writing"}
        BY DEF WriterStates
    <2>4. DirTypeOK' /\ DraftsAreOwn'
        BY <1>0, <2>1, <2>2, <2>3 DEF DirTypeOK, DirInv, DraftsAreOwn
    <2> QED BY <2>1, <2>2, <2>3, <2>4, WriterFrame DEF DirInv
<1>2. CASE MakeTemp(w)
    <2>1. PICK pc \in {"writing", "failed"} :
            /\ writer' = [writer EXCEPT ![w] = pc]
            /\ pc = "writing" => temp' = [temp EXCEPT ![w] = Empty]
            /\ pc = "failed" => temp' = temp
        BY <1>2 DEF MakeTemp, Moves
    <2>2. writer[w] # "published" /\ UNCHANGED <<dest, reader, changes>>
        BY <1>2 DEF MakeTemp
    <2>3. pc \in WriterStates \ {"published"}
        BY DEF WriterStates
    <2>4. DirTypeOK'
        BY <1>0, <2>1, <2>2, <2>3, EmptyDirs DEF DirTypeOK
    <2>5. DraftsAreOwn'
        BY <1>0, <2>1, EmptyDirs DEF DirInv, DraftsAreOwn
    <2> QED BY <2>1, <2>2, <2>3, <2>4, <2>5, WriterFrame DEF DirInv
<1>3. CASE WriteFile(w)
    <2>1. PICK content \in {w, "broken"} :
            /\ temp' = [temp EXCEPT ![w] = With(temp[w], NextFile(w), content)]
            /\ writer' = [writer EXCEPT ![w] = IF content = w THEN "writing" ELSE "cleaning"]
        <3>1. PICK content \in {w, "broken"} :
                /\ temp' = [temp EXCEPT ![w] = With(temp[w], NextFile(w), content)]
                /\ IF content = w THEN UNCHANGED writer ELSE Moves(w, "cleaning")
            BY <1>3 DEF WriteFile
        <3>2. writer[w] = "writing"
            BY <1>3 DEF WriteFile
        <3> QED BY <1>0, <3>1, <3>2 DEF Moves
    <2>2. writer[w] = "writing" /\ UNCHANGED <<dest, reader, changes>>
        BY <1>3 DEF WriteFile
    <2>3. NextFile(w) \in FilesOf(w)
        BY <1>3, NextIsMissing DEF WriteFile
    <2>4. NextFile(w) \in Names /\ content \in Values
        BY <2>3, WholeDir DEF Values
    <2> DEFINE d == With(temp[w], NextFile(w), content)
    <2>5. /\ d \in Dirs /\ DOMAIN d = DOMAIN temp[w] \cup {NextFile(w)}
          /\ \A k \in DOMAIN d : d[k] = IF k = NextFile(w) THEN content ELSE temp[w][k]
        BY <1>0, <2>4, WithDir
    <2>6. temp' = [temp EXCEPT ![w] = d]
        BY <2>1
    <2> HIDE DEF d
    <2>7. DirTypeOK'
        BY <1>0, <2>1, <2>2, <2>5, <2>6 DEF DirTypeOK, WriterStates
    <2>8. DraftsAreOwn'
        <3>1. writer'[w] = "writing" => content = w
            BY <1>0, <2>1
        <3>2. content = w => DOMAIN d \subseteq FilesOf(w) /\ \A k \in DOMAIN d : d[k] = w
            BY <2>2, <2>3, <2>5 DEF DirInv, DraftsAreOwn
        <3>3. \A x \in Writers \ {w} : temp'[x] = temp[x] /\ writer'[x] = writer[x]
            BY <1>0, <2>1, <2>6
        <3>4. temp'[w] = d
            BY <1>0, <2>6
        <3> QED BY <3>1, <3>2, <3>3, <3>4 DEF DirInv, DraftsAreOwn
    <2> QED BY <2>1, <2>2, <2>7, <2>8, WriterFrame DEF DirInv, WriterStates
<1>4. CASE Publish(w)
    <2>1. writer[w] = "writing" /\ Written(w) /\ UNCHANGED <<reader, changes>>
        BY <1>4 DEF Publish
    <2>2. CASE Moves(w, "cleaning") /\ UNCHANGED <<dest, temp>>
        <3>1. writer' = [writer EXCEPT ![w] = "cleaning"] /\ "cleaning" \in WriterStates \ {"published"}
            BY <2>2 DEF Moves, WriterStates
        <3>2. DirTypeOK' /\ DraftsAreOwn'
            BY <1>0, <2>1, <2>2, <3>1 DEF DirTypeOK, DirInv, DraftsAreOwn
        <3> QED BY <2>1, <2>2, <3>1, <3>2, WriterFrame DEF DirInv
    <2>3. CASE CanTake /\ dest' = temp[w] /\ temp' = [temp EXCEPT ![w] = NoDirectory]
               /\ Moves(w, "published")
        <3>1. writer' = [writer EXCEPT ![w] = "published"] /\ "published" \in WriterStates
            BY <2>3 DEF Moves, WriterStates
        <3>2. \A x \in Writers : writer'[x] = IF x = w THEN "published" ELSE writer[x]
            BY <1>0, <3>1
        <3>3. dest' = Whole(w)
            <4>1. DOMAIN temp[w] = FilesOf(w) /\ \A n \in DOMAIN temp[w] : temp[w][n] = w
                BY <2>1 DEF Written, DirInv, DraftsAreOwn
            <4>2. temp[w] = Whole(w)
                BY <1>0, <4>1, WholeIs
            <4> QED BY <2>3, <4>2
        <3>4. DirTypeOK'
            BY <1>0, <2>1, <2>3, <3>1, <3>3, EmptyDirs, WholeDir DEF DirTypeOK
        <3>5. DraftsAreOwn'
            BY <1>0, <2>3, <3>2 DEF DirInv, DraftsAreOwn
        <3>6. PublishedIsWhole'
            <4> SUFFICES ASSUME changes = 0
                         PROVE  \A x \in Writers : writer'[x] = "published" => dest' = Whole(x)
                BY <2>1, <3>2 DEF PublishedIsWhole
            <4>1. \A x \in Writers : writer[x] # "published"
                BY <2>3, WholeDir DEF DirInv, PublishedIsWhole, CanTake
            <4> QED BY <3>2, <3>3, <4>1
        <3>7. OfPublished(dest)'
            BY <3>2, <3>3, WholeDir DEF OfPublished
        <3>8. ReadSoFar'
            BY <2>1, <3>2, ReaderKept
        <3> QED BY <3>4, <3>5, <3>6, <3>7, <3>8 DEF DirInv
    <2> QED BY <1>4, <2>2, <2>3 DEF Publish
<1>5. CASE CleanUp(w)
    <2>1. PICK left \in {NoDirectory, temp[w]} : temp' = [temp EXCEPT ![w] = left]
        BY <1>5 DEF CleanUp
    <2>2. /\ writer[w] # "published" /\ writer' = [writer EXCEPT ![w] = "failed"]
          /\ UNCHANGED <<dest, reader, changes>>
        BY <1>5 DEF CleanUp, Moves
    <2>3. "failed" \in WriterStates \ {"published"} /\ left \in Dirs
        BY <1>0, EmptyDirs DEF WriterStates
    <2>4. DirTypeOK' /\ DraftsAreOwn'
        BY <1>0, <2>1, <2>2, <2>3 DEF DirTypeOK, DirInv, DraftsAreOwn
    <2> QED BY <2>2, <2>3, <2>4, WriterFrame DEF DirInv
<1>6. CASE Crash(w)
    <2>1. /\ writer[w] # "published" /\ writer' = [writer EXCEPT ![w] = "crashed"]
          /\ UNCHANGED <<dest, temp, reader, changes>>
        BY <1>6 DEF Crash, Moves
    <2>2. "crashed" \in WriterStates \ {"published"}
        BY DEF WriterStates
    <2>3. DirTypeOK' /\ DraftsAreOwn'
        BY <1>0, <2>1, <2>2 DEF DirTypeOK, DirInv, DraftsAreOwn
    <2> QED BY <2>1, <2>2, <2>3, WriterFrame DEF DirInv
<1> QED BY <1>1, <1>2, <1>3, <1>4, <1>5, <1>6 DEF WriterStep

-----------------------------------------------------------------------------
(* The verification changes nothing but what it has read.                  *)

LEMMA ReaderFrame ==
    ASSUME DirInv, UNCHANGED <<dest, temp, writer, changes>>,
           reader' \in [pc: ReaderStates, of: Values, got: Dirs], ReadSoFar'
    PROVE  DirInv'
<1>1. DirTypeOK' /\ DraftsAreOwn' /\ PublishedIsWhole' /\ OfPublished(dest)'
    BY DEF DirInv, DirTypeOK, DraftsAreOwn, PublishedIsWhole, OfPublished
<1> QED BY <1>1 DEF DirInv

LEMMA InvalidKeeps ==
    ASSUME DirInv, Invalid, UNCHANGED <<dest, temp, writer, changes>>
    PROVE  DirInv'
<1>1. reader' = [pc |-> "invalid", of |-> "none", got |-> Empty]
    BY DEF Invalid, NotReading
<1>2. reader' \in [pc: ReaderStates, of: Values, got: Dirs]
    BY <1>1, EmptyDirs DEF ReaderStates, Values
<1>3. ReadSoFar'
    BY <1>1 DEF ReadSoFar
<1> QED BY <1>2, <1>3, ReaderFrame

\* One more file, which is as published as the destination it is read from.
LEMMA LoadKeeps ==
    ASSUME DirInv, NEW name \in Names \ {"experiment"}, NEW pc \in {"statistics", "listing"},
           Load(name, pc), UNCHANGED <<dest, temp, writer, changes>>,
           "experiment" \in DOMAIN reader.got, reader.got["experiment"] = reader.of,
           OfPublished(reader.got),
           pc = "statistics" =>
             /\ DOMAIN reader.got \cup {name} = {"experiment", "run"}
             /\ reader.of \in Writers => reader.of \in Measured,
           pc = "listing" /\ reader.of \in Writers =>
             DOMAIN reader.got \cup {name} = FilesOf(reader.of)
    PROVE  DirInv'
<1>1. CASE ~Loads(name)
    BY <1>1, InvalidKeeps DEF Load
<1>2. CASE Loads(name)
    <2> DEFINE got == With(reader.got, name, dest[name])
    <2>1. dest \in Dirs /\ reader \in [pc: ReaderStates, of: Values, got: Dirs]
        BY DEF DirInv, DirTypeOK
    <2>2. name \in DOMAIN dest /\ dest[name] \in Values /\ reader.got \in Dirs /\ reader.of \in Values
        BY <1>2, <2>1, DirIn DEF Loads
    <2>3. /\ got \in Dirs /\ DOMAIN got = DOMAIN reader.got \cup {name}
          /\ \A k \in DOMAIN reader.got \cup {name} :
               got[k] = IF k = name THEN dest[name] ELSE reader.got[k]
        <3>1. name \in Names
            OBVIOUS
        <3>2. got \in Dirs /\ DOMAIN got = DOMAIN reader.got \cup {name}
            BY <2>2, <3>1, WithDir
        <3>3. \A k \in DOMAIN reader.got \cup {name} :
                got[k] = IF k = name THEN dest[name] ELSE reader.got[k]
            BY DEF With
        <3> QED BY <3>2, <3>3
    <2>4. reader' = [reader EXCEPT !.pc = pc, !.got = got]
        BY <1>2 DEF Load
    <2> HIDE DEF got
    <2>5. reader'.pc = pc /\ reader'.of = reader.of /\ reader'.got = got
        BY <2>1, <2>4
    <2>6. reader' \in [pc: ReaderStates, of: Values, got: Dirs]
        BY <2>1, <2>3, <2>4 DEF ReaderStates
    <2>7. OfPublished(reader.got)' 
        <3>1. \A k \in DOMAIN got : got[k] \in Writers => writer[got[k]] = "published"
            BY <2>2, <2>3 DEF OfPublished, DirInv
        <3> QED BY <2>5, <3>1 DEF OfPublished
    <2>8. "experiment" \in DOMAIN got /\ got["experiment"] = reader.of
        BY <2>3
    <2>9. ReadSoFar'
        BY <2>3, <2>5, <2>7, <2>8 DEF ReadSoFar
    <2> QED BY <2>6, <2>9, ReaderFrame
<1> QED BY <1>1, <1>2

LEMMA ReaderKeeps ==
    ASSUME DirInv, ReaderStep
    PROVE  DirInv'
<1>0. dest \in Dirs /\ reader \in [pc: ReaderStates, of: Values, got: Dirs]
    BY DEF DirInv, DirTypeOK
<1>u. UNCHANGED <<dest, temp, writer, changes>>
    BY DEF ReaderStep, ReadManifest, ReadRuns, ReadStatistics, ListFiles, Verify, ReadAgain
<1>1. CASE ReadManifest
    <2>1. CASE dest # NoDirectory /\ Loads("experiment")
        <3> DEFINE got == [n \in {"experiment"} |-> dest["experiment"]]
        <3>1. "experiment" \in DOMAIN dest /\ dest["experiment"] \in Values
            BY <1>0, <2>1, DirIn DEF Loads
        <3>2. got \in [{"experiment"} -> Values] /\ {"experiment"} \in SUBSET AllNames
            BY <3>1 DEF AllNames, Names
        <3>3. got \in Dirs /\ DOMAIN got = {"experiment"} /\ got["experiment"] = dest["experiment"]
            BY <3>2, DirOf
        <3>4. reader' = [reader EXCEPT !.pc = "runs", !.of = dest["experiment"], !.got = got]
            BY <1>1, <2>1 DEF ReadManifest
        <3> HIDE DEF got
        <3>5. reader'.pc = "runs" /\ reader'.of = dest["experiment"] /\ reader'.got = got
            BY <1>0, <3>4
        <3>6. reader' \in [pc: ReaderStates, of: Values, got: Dirs]
            BY <1>0, <3>1, <3>3, <3>4 DEF ReaderStates
        <3>7. OfPublished(reader.got)'
            BY <1>u, <3>1, <3>3, <3>5 DEF OfPublished, DirInv
        <3>8. ReadSoFar'
            BY <3>3, <3>5, <3>7 DEF ReadSoFar
        <3> QED BY <1>u, <3>6, <3>8, ReaderFrame
    <2>2. CASE ~(dest # NoDirectory /\ Loads("experiment"))
        <3>1. Invalid
            BY <1>1, <2>2 DEF ReadManifest
        <3> QED BY <1>u, <3>1, InvalidKeeps
    <2> QED BY <2>1, <2>2
<1>2. CASE ReadRuns
    <2>1. reader.pc = "runs"
        BY <1>2 DEF ReadRuns
    <2>2. /\ "experiment" \in DOMAIN reader.got /\ reader.got["experiment"] = reader.of
          /\ OfPublished(reader.got) /\ DOMAIN reader.got = {"experiment"}
        BY <2>1 DEF DirInv, ReadSoFar
    <2>3. PICK statistics \in Refers(reader.of) :
            Load("run", IF statistics THEN "statistics" ELSE "listing")
        BY <1>2 DEF ReadRuns
    <2>4. reader.of \in Writers => (statistics <=> reader.of \in Measured)
        BY <2>3 DEF Refers
    <2>5. "run" \in Names \ {"experiment"}
        BY DEF Names
    <2>6. CASE statistics
        <3>1. Load("run", "statistics")
            BY <2>3, <2>6
        <3>2. DOMAIN reader.got \cup {"run"} = {"experiment", "run"}
            BY <2>2
        <3> QED BY <1>u, <2>2, <2>4, <2>5, <2>6, <3>1, <3>2, LoadKeeps
    <2>7. CASE ~statistics
        <3>1. Load("run", "listing")
            BY <2>3, <2>7
        <3>2. reader.of \in Writers => DOMAIN reader.got \cup {"run"} = FilesOf(reader.of)
            BY <2>2, <2>4, <2>7 DEF FilesOf
        <3> QED BY <1>u, <2>2, <2>5, <3>1, <3>2, LoadKeeps
    <2> QED BY <2>6, <2>7
<1>3. CASE ReadStatistics
    <2>1. reader.pc = "statistics" /\ Load("statistics", "listing")
        BY <1>3 DEF ReadStatistics
    <2>2. /\ "experiment" \in DOMAIN reader.got /\ reader.got["experiment"] = reader.of
          /\ OfPublished(reader.got) /\ DOMAIN reader.got = {"experiment", "run"}
          /\ reader.of \in Writers => reader.of \in Measured
        BY <2>1 DEF DirInv, ReadSoFar
    <2>3. reader.of \in Writers => DOMAIN reader.got \cup {"statistics"} = FilesOf(reader.of)
        BY <2>2 DEF FilesOf
    <2>4. "statistics" \in Names \ {"experiment"}
        BY DEF Names
    <2> QED BY <1>u, <2>1, <2>2, <2>3, <2>4, LoadKeeps
<1>4. CASE ListFiles
    <2>1. CASE Invalid
        BY <1>u, <2>1, InvalidKeeps
    <2>2. CASE reader' = [reader EXCEPT !.pc = "verify"]
        <3>1. reader.pc = "listing"
            BY <1>4 DEF ListFiles
        <3>2. reader'.pc = "verify" /\ reader'.of = reader.of /\ reader'.got = reader.got
            BY <1>0, <2>2
        <3>3. reader' \in [pc: ReaderStates, of: Values, got: Dirs]
            BY <1>0, <2>2 DEF ReaderStates
        <3>4. ReadSoFar'
            BY <1>u, <3>1, <3>2 DEF DirInv, ReadSoFar, OfPublished
        <3> QED BY <1>u, <3>3, <3>4, ReaderFrame
    <2> QED BY <1>4, <2>1, <2>2 DEF ListFiles
<1>5. CASE Verify
    <2>1. CASE ~DigestsHold
        BY <1>5, <1>u, <2>1, InvalidKeeps DEF Verify
    <2>2. CASE DigestsHold
        <3>1. reader.pc = "verify" /\ reader' = [reader EXCEPT !.pc = "valid"]
            BY <1>5, <2>2 DEF Verify
        <3>2. reader'.pc = "valid" /\ reader'.of = reader.of /\ reader'.got = reader.got
            BY <1>0, <3>1
        <3>3. reader' \in [pc: ReaderStates, of: Values, got: Dirs]
            BY <1>0, <3>1 DEF ReaderStates
        <3>4. DigestsHold'
            BY <2>2, <3>2 DEF DigestsHold
        <3>5. ReadSoFar'
            BY <1>u, <3>1, <3>2, <3>4 DEF DirInv, ReadSoFar, OfPublished
        <3> QED BY <1>u, <3>3, <3>5, ReaderFrame
    <2> QED BY <2>1, <2>2
<1>6. CASE ReadAgain
    <2>1. reader' = [pc |-> "idle", of |-> "none", got |-> Empty]
        BY <1>6 DEF ReadAgain, NotReading
    <2>2. reader' \in [pc: ReaderStates, of: Values, got: Dirs]
        BY <2>1, EmptyDirs DEF ReaderStates, Values
    <2>3. ReadSoFar'
        BY <2>1 DEF ReadSoFar
    <2> QED BY <1>u, <2>2, <2>3, ReaderFrame
<1> QED BY <1>1, <1>2, <1>3, <1>4, <1>5, <1>6 DEF ReaderStep

-----------------------------------------------------------------------------

\* Whatever the operator does, no file of an experiment appears by it.
LEMMA OperatorKeeps ==
    ASSUME DirInv, OperatorStep
    PROVE  DirInv'
<1>0. dest \in Dirs /\ changes \in Nat
    BY DEF DirInv, DirTypeOK
<1>u. UNCHANGED <<temp, writer, reader>> /\ changes' = changes + 1
    BY DEF OperatorStep
<1>1. dest' \in Dirs /\ OfPublished(dest)'
    <2>1. CASE dest' = Empty \/ dest' = NoDirectory
        BY <2>1, EmptyDirs, WritersAssumption DEF OfPublished
    <2>2. CASE \E n \in DOMAIN dest : dest' = Without(dest, n)
        <3>1. PICK n \in DOMAIN dest : dest' = Without(dest, n)
            BY <2>2
        <3>2. /\ dest' \in Dirs /\ DOMAIN dest' = DOMAIN dest \ {n}
              /\ \A k \in DOMAIN dest \ {n} : dest'[k] = dest[k]
            BY <1>0, <3>1, WithoutDir
        <3>3. \A k \in DOMAIN dest' : dest'[k] \in Writers => writer[dest'[k]] = "published"
            BY <3>2 DEF OfPublished, DirInv
        <3> QED BY <1>u, <3>2, <3>3 DEF OfPublished
    <2>3. CASE \E n \in Names : dest' = With(dest, n, "edited")
        <3>1. "edited" \in Values /\ "edited" \notin Writers
            BY WritersAssumption DEF Values
        <3>2. PICK n \in Names : dest' = With(dest, n, "edited")
            BY <2>3
        <3>3. /\ dest' \in Dirs /\ DOMAIN dest' = DOMAIN dest \cup {n}
              /\ \A k \in DOMAIN dest \cup {n} : dest'[k] = IF k = n THEN "edited" ELSE dest[k]
            <4>1. With(dest, n, "edited") \in Dirs /\ DOMAIN With(dest, n, "edited") = DOMAIN dest \cup {n}
                BY <1>0, <3>1, WithDir
            <4>2. \A k \in DOMAIN dest \cup {n} :
                    With(dest, n, "edited")[k] = IF k = n THEN "edited" ELSE dest[k]
                BY DEF With
            <4> QED BY <3>2, <4>1, <4>2
        <3>4. \A k \in DOMAIN dest' : dest'[k] \in Writers => writer[dest'[k]] = "published"
            BY <3>1, <3>3 DEF OfPublished, DirInv
        <3> QED BY <1>u, <3>3, <3>4 DEF OfPublished
    <2> QED BY <2>1, <2>2, <2>3 DEF OperatorStep
<1>2. DirTypeOK'
    BY <1>1, <1>u, <1>0 DEF DirInv, DirTypeOK
<1>3. DraftsAreOwn' /\ PublishedIsWhole'
    BY <1>0, <1>u DEF DirInv, DraftsAreOwn, PublishedIsWhole
<1>4. ReadSoFar'
    BY <1>u, ReaderKept
<1> QED BY <1>1, <1>2, <1>3, <1>4 DEF DirInv

LEMMA DirInvStep == DirInv /\ [DirNext]_dirVars => DirInv'
<1> SUFFICES ASSUME DirInv, [DirNext]_dirVars PROVE DirInv'
    OBVIOUS
<1>1. ASSUME NEW w \in Writers, WriterStep(w) PROVE DirInv'
    BY <1>1, WriterKeeps
<1>2. CASE UNCHANGED dirVars
    <2>1. DirTypeOK' /\ DraftsAreOwn' /\ PublishedIsWhole' /\ OfPublished(dest)'
        BY <1>2 DEF dirVars, DirInv, DirTypeOK, DraftsAreOwn, PublishedIsWhole, OfPublished
    <2>2. ReadSoFar'
        BY <1>2, ReaderKept DEF dirVars
    <2> QED BY <2>1, <2>2 DEF DirInv
<1> QED BY <1>1, <1>2, ReaderKeeps, OperatorKeeps DEF DirNext


-----------------------------------------------------------------------------
(* The replay gate.                                                        *)

Tooling == {"none", "ok", "skipped", "error"}
Entries ==
    [succeeded: BOOLEAN, usage: BOOLEAN, tools: Tooling, quality: -1..100,
     ttft_s: Measurements, decode_tokens_per_s: Measurements]
Artifacts == [protocol: Protocols, workload: Workloads, entries: Seq(Entries), intact: BOOLEAN]

LEMMA EntryFields ==
    ASSUME NEW entries \in Seq(Entries)
    PROVE  /\ Len(entries) \in Nat /\ DOMAIN entries = 1..Len(entries)
           /\ IsFiniteSet(DOMAIN entries) /\ Cardinality(DOMAIN entries) = Len(entries)
           /\ \A i \in DOMAIN entries :
                /\ entries[i] \in Entries
                /\ entries[i].succeeded \in BOOLEAN /\ entries[i].tools \in Tooling
                /\ entries[i].quality \in -1..100
                /\ \A m \in Metrics : entries[i][m] \in Measurements
<1>1. Len(entries) \in Nat /\ DOMAIN entries = 1..Len(entries)
    OBVIOUS
<1>2. IsFiniteSet(1..Len(entries)) /\ Cardinality(1..Len(entries)) = Len(entries)
    <2>1. 1 <= Len(entries) \/ Len(entries) = 0
        BY <1>1
    <2>2. 0 \in Int /\ 1 \in Int /\ Len(entries) \in Int
        BY <1>1
    <2>3. IsFiniteSet(1..Len(entries)) /\ Cardinality(1..Len(entries)) = IF 1 > Len(entries) THEN 0 ELSE Len(entries) - 1 + 1
        BY <2>2, FS_Interval
    <2> QED BY <1>1, <2>1, <2>3
<1>3. \A i \in DOMAIN entries : entries[i] \in Entries
    BY <1>1, ElementOfSeq
<1>4. \A e \in Entries : /\ e.succeeded \in BOOLEAN /\ e.tools \in Tooling /\ e.quality \in -1..100
                         /\ e.ttft_s \in Measurements /\ e.decode_tokens_per_s \in Measurements
    BY DEF Entries
<1>5. \A e \in Entries : \A m \in Metrics : e[m] \in Measurements
    BY <1>4 DEF Metrics
<1> QED BY <1>1, <1>2, <1>3, <1>4, <1>5

LEMMA TypicalType ==
    ASSUME NEW entries \in Seq(Entries), NEW m \in Metrics
    PROVE  Typical(entries, m) \in Measurements
<1> DEFINE measured == {i \in SucceededIn(entries) : entries[i][m] # Unmeasured}
           f == [i \in measured |-> entries[i][m]]
<1>1. measured \subseteq DOMAIN entries /\ IsFiniteSet(measured)
    <2>1. measured \subseteq DOMAIN entries
        BY DEF SucceededIn
    <2> QED BY <2>1, EntryFields, FS_Subset
<1>2. f \in [measured -> Nat]
    BY <1>1, EntryFields DEF Measurements, Unmeasured
<1>3. Typical(entries, m) = IF measured = {} THEN Unmeasured ELSE Median2(f)
    BY DEF Typical
<1> HIDE DEF measured, f
<1>4. measured # {} => Median2(f) \in Nat
    BY <1>1, <1>2, MedianIsNat
<1> QED BY <1>3, <1>4 DEF Measurements

LEMMA FewFail ==
    ASSUME NEW entries \in Seq(Entries), ~RequestsFail(entries)
    PROVE  100 * Cardinality({i \in DOMAIN entries : ~entries[i].succeeded}) <= Cardinality(DOMAIN entries)
<1> DEFINE S == SucceededIn(entries)
           D == DOMAIN entries
           F == {i \in D : ~entries[i].succeeded}
           s == Cardinality(S)
           d == Cardinality(D)
           x == Cardinality(F)
<1>1. IsFiniteSet(D) /\ d = Len(entries) /\ d \in Nat
    BY EntryFields
<1>2. S \subseteq D /\ F = D \ S /\ D \cap S = S
    BY DEF SucceededIn
<1>3. x = d - s /\ s \in Nat
    <2>1. IsFiniteSet(S)
        BY <1>1, <1>2, FS_Subset
    <2>2. Cardinality(S) \in Nat
        BY <2>1, FS_CardinalityType
    <2>3. Cardinality(D \ S) = Cardinality(D) - Cardinality(D \cap S)
        BY <1>1, FS_Difference
    <2> QED BY <1>2, <2>2, <2>3
<1>4. ~(100 * s < 99 * d)
    BY <1>1 DEF RequestsFail
<1> HIDE DEF s, d, x
<1>5. 100 * x <= d
    BY <1>1, <1>3, <1>4
<1> QED BY <1>5 DEF x, d

LEMMA FewToolErrors ==
    ASSUME NEW entries \in Seq(Entries), ~ToolsFail(entries)
    PROVE  20 * Cardinality({i \in DOMAIN entries : entries[i].tools = "error"})
             <= Cardinality({i \in DOMAIN entries : entries[i].tools # "none"})
<1> DEFINE C == {i \in DOMAIN entries : entries[i].tools # "none"}
           G == {i \in C : entries[i].tools \in {"ok", "skipped"}}
           E == {i \in DOMAIN entries : entries[i].tools = "error"}
           c == Cardinality(C)
           g == Cardinality(G)
           x == Cardinality(E)
<1>1. IsFiniteSet(C) /\ IsFiniteSet(G) /\ c \in Nat /\ g \in Nat
    <2>1. IsFiniteSet(C)
        BY EntryFields, FS_Subset
    <2>2. IsFiniteSet(G)
        BY <2>1, FS_Subset
    <2> QED BY <2>1, <2>2, FS_CardinalityType
<1>2. E = C \ G /\ C \cap G = G
    BY EntryFields DEF Tooling
<1>3. x = c - g
    <2>1. IsFiniteSet(C)
        BY EntryFields, FS_Subset
    <2>2. Cardinality(C \ G) = Cardinality(C) - Cardinality(C \cap G)
        BY <2>1, FS_Difference
    <2>3. Cardinality(E) = Cardinality(C) - Cardinality(G)
        BY <1>2, <2>2
    <2> QED BY <2>3
<1>4. C = {} \/ ~(100 * g < 95 * c)
    BY DEF ToolsFail
<1>5. C = {} => c = 0 /\ g = 0
    <2>1. C = {} => G = {}
        OBVIOUS
    <2> QED BY <2>1, FS_EmptySet
<1> HIDE DEF c, g, x, C
<1>6. 20 * x <= c
    BY <1>1, <1>3, <1>4, <1>5
<1> QED BY <1>6 DEF x, c, C

\* What the evaluation found when it found nothing.
LEMMA PassIsClean ==
    ASSUME NEW base \in Artifacts, NEW cand \in Artifacts,
           Evaluate(base, cand).decision = "PASS"
    PROVE  /\ base.protocol = cand.protocol /\ base.workload = cand.workload
           /\ ~UsageMissing(cand.entries)
           /\ ~RequestsFail(cand.entries) /\ ~ToolsFail(cand.entries) /\ ~QualityFails(cand.entries)
           /\ \A m \in Metrics :
                \/ Unmeasured \in {Typical(base.entries, m), Typical(cand.entries, m)}
                \/ /\ ~Grows(m, Typical(base.entries, m), Typical(cand.entries, m))
                   /\ ~Shrinks(m, Typical(base.entries, m), Typical(cand.entries, m))
<1> DEFINE mismatches == Mismatches(base, cand)
           hard == HardReasons(cand.entries)
           metric == MetricReasons(base.entries, cand.entries)
           usage == UsageMissing(base.entries) \/ UsageMissing(cand.entries)
<1>1. Evaluate(base, cand) =
        IF mismatches # {} THEN [decision |-> "INCONCLUSIVE", reasons |-> mismatches]
        ELSE IF usage THEN [decision |-> "INCONCLUSIVE", reasons |-> {"usage_missing"}]
        ELSE IF hard # {} THEN [decision |-> "FAIL", reasons |-> hard]
        ELSE IF metric # {} THEN [decision |-> "FAIL", reasons |-> metric]
        ELSE [decision |-> "PASS", reasons |-> {}]
    BY DEF Evaluate
<1> HIDE DEF mismatches, hard, metric, usage
<1>2. mismatches = {} /\ ~usage /\ hard = {} /\ metric = {}
    BY <1>1
<1>3. base.protocol = cand.protocol /\ base.workload = cand.workload
    <2>1. "protocol_mismatch" \notin mismatches /\ "workload_hash_mismatch" \notin mismatches
        BY <1>2
    <2> QED BY <2>1 DEF mismatches, Mismatches
<1>4. ~RequestsFail(cand.entries) /\ ~ToolsFail(cand.entries) /\ ~QualityFails(cand.entries)
    <2>1. /\ "request_success_below_min" \notin hard /\ "tool_failure" \notin hard
          /\ "quality_below_min" \notin hard
        BY <1>2
    <2> QED BY <2>1 DEF hard, HardReasons
<1>5. ASSUME NEW m \in Metrics, Typical(base.entries, m) # Unmeasured, Typical(cand.entries, m) # Unmeasured
      PROVE  /\ ~Grows(m, Typical(base.entries, m), Typical(cand.entries, m))
             /\ ~Shrinks(m, Typical(base.entries, m), Typical(cand.entries, m))
    <2>1. <<m, "regression">> \notin metric /\ <<m, "improvement">> \notin metric
        BY <1>2
    <2> QED BY <1>5, <2>1 DEF metric, MetricReasons
<1> QED BY <1>2, <1>3, <1>4, <1>5 DEF usage

LEMMA Within ==
    ASSUME NEW b \in Nat, NEW c \in Nat, NEW m \in Metrics, ~Grows(m, b, c), ~Shrinks(m, b, c)
    PROVE  /\ m = "ttft_s" => 100 * c >= 80 * b /\ 100 * c <= 110 * b
           /\ m = "decode_tokens_per_s" => 100 * c >= 50 * b /\ 100 * c <= 105 * b
<1>1. CASE m = "ttft_s"
    <2>1. Growth[m] = 10 /\ Shrinkage[m] = 20
        BY <1>1 DEF Growth, Shrinkage, Metrics
    <2> QED BY <1>1, <2>1 DEF Grows, Shrinks
<1>2. CASE m = "decode_tokens_per_s"
    <2>1. Growth[m] = 5 /\ Shrinkage[m] = 50
        BY <1>2 DEF Growth, Shrinkage, Metrics
    <2> QED BY <1>2, <2>1 DEF Grows, Shrinks
<1> QED BY <1>1, <1>2 DEF Metrics

ReplayTypes ==
    /\ replaying \in ReplayArms \cup {"gate", "decided", "raised"}
    /\ artifact \in [ReplayArms -> Artifacts]

\* How far the two replays are, and what the gate ruled on.
ReplayProgress ==
    LET base == artifact["baseline"]
        cand == artifact["candidate"]
    IN  /\ replaying = "baseline" => Len(base.entries) < CaseCount /\ Len(cand.entries) = 0
        /\ replaying = "candidate" => Len(base.entries) = CaseCount /\ Len(cand.entries) < CaseCount
        /\ replaying \in {"gate", "decided"} =>
             Len(base.entries) = CaseCount /\ Len(cand.entries) = CaseCount
        /\ ruling = IF replaying = "decided" THEN Evaluate(base, cand) ELSE NoRuling

ReplayInv == ReplayTypes /\ ReplayProgress

LEMMA ReplayInitial == ReplayInit => ReplayInv
<1> SUFFICES ASSUME ReplayInit PROVE ReplayInv
    OBVIOUS
<1>1. \A a \in ReplayArms : artifact[a] \in Artifacts /\ artifact[a].entries = <<>>
    <2>1. artifact \in [ReplayArms -> [protocol: Protocols, workload: Workloads,
                                       entries: {<<>>}, intact: {TRUE}]]
        BY DEF ReplayInit
    <2>2. <<>> \in Seq(Entries)
        OBVIOUS
    <2> QED BY <2>1, <2>2 DEF Artifacts
<1>2. artifact \in [ReplayArms -> Artifacts]
    BY <1>1 DEF ReplayInit
<1>3. "baseline" \in ReplayArms /\ "candidate" \in ReplayArms
    BY DEF ReplayArms
<1>4. replaying = "baseline" /\ ruling = NoRuling
    BY DEF ReplayInit
<1>5. \A a \in ReplayArms : Len(artifact[a].entries) = 0
    BY <1>1
<1> QED BY <1>2, <1>3, <1>4, <1>5, CaseCountAssumption DEF ReplayInv, ReplayTypes, ReplayProgress

LEMMA EntryType ==
    ASSUME NEW raw \in Answers PROVE Entry(raw) \in Entries
<1>1. raw \in RawAnswer
    BY AnswersAssumption
<1>2. FailedEntry \in Entries
    BY DEF FailedEntry, Entries, Tooling, Measurements, Unmeasured
<1>3. [succeeded |-> TRUE, usage |-> raw.usage, tools |-> raw.tools, quality |-> raw.quality,
       ttft_s |-> raw.ttft_s, decode_tokens_per_s |-> raw.decode_tokens_per_s] \in Entries
    BY <1>1 DEF RawAnswer, Entries, Tooling
<1> QED BY <1>2, <1>3 DEF Entry

LEMMA ReplayCaseKeeps ==
    ASSUME ReplayInv, ReplayCase PROVE ReplayInv'
<1> DEFINE a == replaying
<1>1. PICK raw \in Answers : artifact' = [artifact EXCEPT ![a].entries = Append(artifact[a].entries, Entry(raw))]
    BY DEF ReplayCase
<1>2. /\ a \in ReplayArms /\ ruling' = ruling /\ artifact \in [ReplayArms -> Artifacts]
      /\ ruling = NoRuling
      /\ replaying' = IF Len(artifact[a].entries) + 1 < CaseCount THEN a
                      ELSE IF a = "baseline" THEN "candidate" ELSE "gate"
    BY DEF ReplayCase, ReplayInv, ReplayTypes, ReplayProgress, ReplayArms
<1> DEFINE longer == Append(artifact[a].entries, Entry(raw))
<1>3. artifact[a].entries \in Seq(Entries) /\ artifact[a] \in Artifacts
    BY <1>2 DEF Artifacts
<1>4. longer \in Seq(Entries) /\ Len(longer) = Len(artifact[a].entries) + 1
      /\ Len(artifact[a].entries) \in Nat
    BY <1>3, EntryType, AppendProperties
<1> HIDE DEF longer
<1>5. /\ artifact' \in [ReplayArms -> Artifacts]
      /\ artifact'[a].entries = longer
      /\ \A b \in ReplayArms : b # a => artifact'[b] = artifact[b]
    <2>1. artifact' = [artifact EXCEPT ![a] = [artifact[a] EXCEPT !.entries = longer]]
        BY <1>1 DEF longer
    <2>2. [artifact[a] EXCEPT !.entries = longer] \in Artifacts
          /\ [artifact[a] EXCEPT !.entries = longer].entries = longer
        BY <1>3, <1>4 DEF Artifacts
    <2> HIDE DEF a
    <2> QED BY <1>2, <2>1, <2>2
<1>6. CaseCount \in Nat \ {0}
    BY CaseCountAssumption
<1>7. CASE a = "baseline"
    <2>1. Len(artifact[a].entries) < CaseCount /\ Len(artifact["candidate"].entries) = 0
        BY <1>7 DEF ReplayInv, ReplayProgress
    <2>2. Len(artifact'["baseline"].entries) = Len(artifact[a].entries) + 1
          /\ artifact'["candidate"] = artifact["candidate"]
        BY <1>4, <1>5, <1>7 DEF ReplayArms
    <2>3. CASE Len(artifact[a].entries) + 1 < CaseCount
        <3>1. replaying' = "baseline"
            BY <1>2, <1>7, <2>3
        <3> QED BY <1>2, <1>5, <2>1, <2>2, <2>3, <3>1 DEF ReplayInv, ReplayTypes, ReplayProgress, ReplayArms
    <2>4. CASE ~(Len(artifact[a].entries) + 1 < CaseCount)
        <3>1. replaying' = "candidate" /\ Len(artifact[a].entries) + 1 = CaseCount
            BY <1>2, <1>4, <1>6, <1>7, <2>1, <2>4
        <3> QED BY <1>2, <1>5, <1>6, <2>1, <2>2, <3>1 DEF ReplayInv, ReplayTypes, ReplayProgress, ReplayArms
    <2> QED BY <2>3, <2>4
<1>8. CASE a = "candidate"
    <2>1. Len(artifact[a].entries) < CaseCount /\ Len(artifact["baseline"].entries) = CaseCount
        BY <1>8 DEF ReplayInv, ReplayProgress
    <2>2. Len(artifact'["candidate"].entries) = Len(artifact[a].entries) + 1
          /\ artifact'["baseline"] = artifact["baseline"]
        BY <1>4, <1>5, <1>8 DEF ReplayArms
    <2>3. CASE Len(artifact[a].entries) + 1 < CaseCount
        <3>1. replaying' = "candidate"
            BY <1>2, <1>8, <2>3
        <3> QED BY <1>2, <1>5, <2>1, <2>2, <2>3, <3>1 DEF ReplayInv, ReplayTypes, ReplayProgress, ReplayArms
    <2>4. CASE ~(Len(artifact[a].entries) + 1 < CaseCount)
        <3>1. replaying' = "gate" /\ Len(artifact[a].entries) + 1 = CaseCount
            BY <1>2, <1>4, <1>6, <1>8, <2>1, <2>4
        <3> QED BY <1>2, <1>5, <2>1, <2>2, <3>1 DEF ReplayInv, ReplayTypes, ReplayProgress, ReplayArms
    <2> QED BY <2>3, <2>4
<1> QED BY <1>2, <1>7, <1>8 DEF ReplayArms

LEMMA EditArtifactKeeps ==
    ASSUME ReplayInv, EditArtifact PROVE ReplayInv'
<1> DEFINE Edited(a, i) == artifact' = [artifact EXCEPT ![a].entries[i] = [artifact[a].entries[i] EXCEPT !.succeeded = TRUE],
                                                        ![a].intact = FALSE]
<1>1. PICK a \in ReplayArms : \E i \in DOMAIN artifact[a].entries : Edited(a, i)
    BY DEF EditArtifact
<1>2. PICK i \in DOMAIN artifact[a].entries : Edited(a, i)
    BY <1>1
<1> DEFINE e == [artifact[a].entries[i] EXCEPT !.succeeded = TRUE]
           entries == [artifact[a].entries EXCEPT ![i] = e]
           edit == [artifact[a] EXCEPT !.entries = entries, !.intact = FALSE]
<1>3. artifact[a].entries \in Seq(Entries) /\ artifact[a] \in Artifacts /\ artifact \in [ReplayArms -> Artifacts]
    BY DEF ReplayInv, ReplayTypes, Artifacts
<1>4. e \in Entries
    <2>1. artifact[a].entries[i] \in Entries
        BY <1>3, EntryFields
    <2> QED BY <2>1 DEF Entries
<1>5. entries \in Seq(Entries) /\ Len(entries) = Len(artifact[a].entries)
    <2> HIDE DEF e
    <2> QED BY <1>3, <1>4, ExceptSeq
<1>6. artifact' = [artifact EXCEPT ![a] = edit]
    BY <1>2, <1>3 DEF Artifacts
<1> HIDE DEF entries
<1>7. edit \in Artifacts /\ edit.entries = entries
    BY <1>3, <1>5 DEF Artifacts
<1> HIDE DEF edit
<1>8. artifact' \in [ReplayArms -> Artifacts]
      /\ \A b \in ReplayArms : Len(artifact'[b].entries) = Len(artifact[b].entries)
    BY <1>3, <1>5, <1>6, <1>7
<1>9. replaying = "gate" /\ UNCHANGED <<replaying, ruling>>
    BY DEF EditArtifact
<1> QED BY <1>8, <1>9 DEF ReplayInv, ReplayTypes, ReplayProgress, ReplayArms

LEMMA ReplayNextKeeps == ReplayInv /\ [ReplayNext]_replayVars => ReplayInv'
<1> SUFFICES ASSUME ReplayInv, [ReplayNext]_replayVars PROVE ReplayInv'
    OBVIOUS
<1>1. CASE UNCHANGED replayVars
    BY <1>1 DEF replayVars, ReplayInv, ReplayTypes, ReplayProgress
<1>2. CASE ReplayRaises
    BY <1>2 DEF ReplayRaises, ReplayInv, ReplayTypes, ReplayProgress, ReplayArms
<1>3. CASE ReplayGate
    BY <1>3 DEF ReplayGate, ReplayInv, ReplayTypes, ReplayProgress, ReplayArms
<1> QED BY <1>1, <1>2, <1>3, ReplayCaseKeeps, EditArtifactKeeps DEF ReplayNext

LEMMA ReplayClean == ReplayInv => ReplayPassIsClean
<1> SUFFICES ASSUME ReplayInv, ruling.decision = "PASS" PROVE ReplayPassIsClean
    BY DEF ReplayPassIsClean
<1> DEFINE base == artifact["baseline"]
           cand == artifact["candidate"]
<1>1. base \in Artifacts /\ cand \in Artifacts /\ cand.entries \in Seq(Entries) /\ base.entries \in Seq(Entries)
    BY DEF ReplayInv, ReplayTypes, ReplayArms, Artifacts
<1>2. replaying = "decided" /\ Evaluate(base, cand).decision = "PASS"
      /\ Len(cand.entries) = Len(base.entries)
    BY DEF ReplayInv, ReplayProgress, NoRuling
<1>3. /\ base.protocol = cand.protocol /\ base.workload = cand.workload
      /\ ~UsageMissing(cand.entries)
      /\ ~RequestsFail(cand.entries) /\ ~ToolsFail(cand.entries) /\ ~QualityFails(cand.entries)
    BY <1>1, <1>2, PassIsClean
<1>4. ASSUME NEW m \in Metrics
      PROVE  \/ Unmeasured \in {Typical(base.entries, m), Typical(cand.entries, m)}
             \/ /\ m = "ttft_s" => 100 * Typical(cand.entries, m) >= 80 * Typical(base.entries, m)
                                   /\ 100 * Typical(cand.entries, m) <= 110 * Typical(base.entries, m)
                /\ m = "decode_tokens_per_s" => 100 * Typical(cand.entries, m) >= 50 * Typical(base.entries, m)
                                                /\ 100 * Typical(cand.entries, m) <= 105 * Typical(base.entries, m)
    <2>1. Typical(base.entries, m) \in Measurements /\ Typical(cand.entries, m) \in Measurements
        BY <1>1, TypicalType
    <2>2. \/ Unmeasured \in {Typical(base.entries, m), Typical(cand.entries, m)}
          \/ /\ ~Grows(m, Typical(base.entries, m), Typical(cand.entries, m))
             /\ ~Shrinks(m, Typical(base.entries, m), Typical(cand.entries, m))
        BY <1>1, <1>2, PassIsClean
    <2> HIDE DEF base, cand
    <2> QED BY <2>1, <2>2, Within DEF Measurements
<1>5. 100 * Cardinality({i \in DOMAIN cand.entries : ~cand.entries[i].succeeded}) <= Cardinality(DOMAIN cand.entries)
    BY <1>1, <1>3, FewFail
<1>6. 20 * Cardinality({i \in DOMAIN cand.entries : cand.entries[i].tools = "error"})
        <= Cardinality({i \in DOMAIN cand.entries : cand.entries[i].tools # "none"})
    BY <1>1, <1>3, FewToolErrors
<1>7. ASSUME NEW i \in DOMAIN cand.entries, cand.entries[i].succeeded
      PROVE  cand.entries[i].usage /\ cand.entries[i].quality \in {Unmeasured} \cup 90..100
    <2>1. cand.entries[i].usage
        BY <1>3, <1>7 DEF UsageMissing
    <2>2. cand.entries[i].quality = Unmeasured \/ ~(cand.entries[i].quality < 90)
        BY <1>3, <1>7 DEF QualityFails, SucceededIn
    <2>3. cand.entries[i].quality \in -1..100
        BY <1>1, EntryFields
    <2> QED BY <2>1, <2>2, <2>3
<1>8. "ttft_s" \in Metrics /\ "decode_tokens_per_s" \in Metrics
    BY DEF Metrics
<1>9. \/ Unmeasured \in {Typical(base.entries, "ttft_s"), Typical(cand.entries, "ttft_s")}
      \/ /\ 100 * Typical(cand.entries, "ttft_s") >= 80 * Typical(base.entries, "ttft_s")
         /\ 100 * Typical(cand.entries, "ttft_s") <= 110 * Typical(base.entries, "ttft_s")
    BY <1>4, <1>8
<1>10. \/ Unmeasured \in {Typical(base.entries, "decode_tokens_per_s"), Typical(cand.entries, "decode_tokens_per_s")}
       \/ /\ 100 * Typical(cand.entries, "decode_tokens_per_s") >= 50 * Typical(base.entries, "decode_tokens_per_s")
          /\ 100 * Typical(cand.entries, "decode_tokens_per_s") <= 105 * Typical(base.entries, "decode_tokens_per_s")
    BY <1>4, <1>8
<1> QED BY <1>2, <1>3, <1>5, <1>6, <1>7, <1>9, <1>10 DEF ReplayPassIsClean

-----------------------------------------------------------------------------
(* The tools together.                                                     *)

ImportHolds == IF tool = "import" THEN ImportInv ELSE ImportIdle
BundleHolds == IF tool = "bundle" THEN BundleInv ELSE BundleIdle
ReplayHolds == IF tool = "replay" THEN ReplayInv ELSE ReplayIdle

OfflineInv == ImportHolds /\ BundleHolds /\ DirInv /\ ReplayHolds

LEMMA OfflineInit == Init => OfflineInv
<1> SUFFICES ASSUME Init PROVE OfflineInv
    OBVIOUS
<1>1. ImportHolds
    BY ImportInitial DEF Init, ImportHolds
<1>2. BundleHolds
    BY InvInit DEF Init, BundleHolds
<1>3. ReplayHolds
    BY ReplayInitial DEF Init, ReplayHolds
<1>4. DirInv
    BY DirInvInit DEF Init
<1> QED BY <1>1, <1>2, <1>3, <1>4 DEF OfflineInv

\* A tool's part of the invariant is kept by its own steps and by those of the others.
LEMMA ImportHoldsOn ==
    ASSUME ImportHolds, UNCHANGED tool,
           (tool = "import" /\ ImportNext) \/ UNCHANGED importVars
    PROVE  ImportHolds'
<1>1. CASE tool = "import"
    BY <1>1, ImportNextKeeps DEF ImportHolds
<1>2. CASE tool # "import"
    BY <1>2 DEF ImportHolds, ImportIdle, importVars
<1> QED BY <1>1, <1>2

LEMMA BundleHoldsOn ==
    ASSUME BundleHolds, UNCHANGED tool,
           (tool = "bundle" /\ BundleNext) \/ UNCHANGED bundleVars
    PROVE  BundleHolds'
<1>1. CASE tool = "bundle"
    BY <1>1, InvStep DEF BundleHolds
<1>2. CASE tool # "bundle"
    BY <1>2 DEF BundleHolds, BundleIdle, bundleVars
<1> QED BY <1>1, <1>2

LEMMA ReplayHoldsOn ==
    ASSUME ReplayHolds, UNCHANGED tool,
           (tool = "replay" /\ ReplayNext) \/ UNCHANGED replayVars
    PROVE  ReplayHolds'
<1>1. CASE tool = "replay"
    BY <1>1, ReplayNextKeeps DEF ReplayHolds
<1>2. CASE tool # "replay"
    BY <1>2 DEF ReplayHolds, ReplayIdle, replayVars
<1> QED BY <1>1, <1>2

LEMMA OfflineStep == OfflineInv /\ [Next]_vars => OfflineInv'
<1> SUFFICES ASSUME OfflineInv, [Next]_vars PROVE OfflineInv'
    OBVIOUS
<1>1. /\ UNCHANGED tool
      /\ (tool = "import" /\ ImportNext) \/ UNCHANGED importVars
      /\ (tool = "bundle" /\ BundleNext) \/ UNCHANGED bundleVars
      /\ DirNext \/ UNCHANGED dirVars
      /\ (tool = "replay" /\ ReplayNext) \/ UNCHANGED replayVars
    BY DEF Next, vars
<1>2. ImportHolds' /\ BundleHolds' /\ ReplayHolds'
    BY <1>1, ImportHoldsOn, BundleHoldsOn, ReplayHoldsOn DEF OfflineInv
<1>3. DirInv'
    BY <1>1, DirInvStep DEF OfflineInv
<1> QED BY <1>2, <1>3 DEF OfflineInv

\* The variables of the tool in use keep their types.
THEOREM OfflineTypeCorrect ==
    Spec => [](/\ tool = "import" => ImportTypes
               /\ tool = "bundle" => BundleTypeOK
               /\ DirTypeOK
               /\ tool = "replay" => ReplayTypes)
<1>1. OfflineInv => /\ tool = "import" => ImportTypes
                    /\ tool = "bundle" => BundleTypeOK
                    /\ DirTypeOK
                    /\ tool = "replay" => ReplayTypes
    BY DEF OfflineInv, ImportHolds, ImportInv, BundleHolds, BundleInv, DirInv,
           ReplayHolds, ReplayInv
<1> QED BY <1>1, OfflineInit, OfflineStep, PTL DEF Spec

\* For any documents and policies and any number of edits: a case none of whose files
\* was rewritten between its hash and its read is promoted only if the bound evidence
\* deserves it and, when nothing was edited at all, also if it does (engine.py import_case).
THEOREM CasePromotedAsDeserved == Spec => []PromotedAsDeserved
<1>1. OfflineInv => PromotedAsDeserved
    <2>1. ImportIdle => PromotedAsDeserved
        BY DEF ImportIdle, PromotedAsDeserved
    <2> QED BY <2>1, ImportDeserves DEF OfflineInv, ImportHolds
<1> QED BY <1>1, OfflineInit, OfflineStep, PTL DEF Spec

\* For any keys, signers and bodies and any number of edits: what the gate lets
\* through was sealed by a producer with a verdict that allows it; and when a
\* signature is demanded, or one meets a store, the holder of a key in the store
\* signed just that.  A store with keys alone does not demand one.
THEOREM GatePassBacked == Spec => []GatePassIsBacked
<1>1. OfflineInv => GatePassIsBacked
    <2>1. BundleIdle => GatePassIsBacked
        <3> SUFFICES ASSUME BundleIdle,
                            NEW store \in Stores, NEW requireSigned \in BOOLEAN,
                            NEW required \in Verdicts, NEW failInconclusive \in BOOLEAN,
                            Gate(file.payload.verdict, Verification(file, store, requireSigned),
                                 required, failInconclusive).exit = 0
                     PROVE  FALSE
            BY DEF GatePassIsBacked
        <3>1. Verification(file, store, requireSigned) # "ok"
            BY DEF BundleIdle, Verification, Intact
        <3> QED BY <3>1, GateSound
    <2> QED BY <2>1, InvBacks DEF OfflineInv, BundleHolds
<1> QED BY <1>1, OfflineInit, OfflineStep, PTL DEF Spec

\* Until the operator changes it, the destination is absent or the whole experiment
\* of the one process whose rename succeeded, however many publish to it and however
\* they fail (write_ab_experiment).
THEOREM PublishedWhole == Spec => []PublishedIsWhole
<1>1. OfflineInv => PublishedIsWhole
    BY DEF OfflineInv, DirInv
<1> QED BY <1>1, OfflineInit, OfflineStep, PTL DEF Spec

\* A verification that succeeds has read the whole experiment of one process that
\* published it, whatever happened to the directory between its reads
\* (load_and_verify_ab_experiment).
THEOREM LoadedWhole == Spec => []LoadedIsWhole
<1>1. DirInv => LoadedIsWhole
    <2> SUFFICES ASSUME DirInv, reader.pc = "valid"
                 PROVE  \E w \in Writers : writer[w] = "published" /\ reader.got = Whole(w)
        BY DEF LoadedIsWhole
    <2>1. /\ "experiment" \in DOMAIN reader.got /\ reader.got["experiment"] = reader.of
          /\ OfPublished(reader.got) /\ DigestsHold
          /\ reader.of \in Writers => DOMAIN reader.got = FilesOf(reader.of)
        BY DEF DirInv, ReadSoFar
    <2>2. reader.of \in Writers /\ \A n \in DOMAIN reader.got : reader.got[n] = reader.of
        BY <2>1 DEF DigestsHold
    <2>3. writer[reader.of] = "published"
        BY <2>1, <2>2 DEF OfPublished
    <2>4. reader.got \in Dirs
        BY DEF DirInv, DirTypeOK
    <2>5. reader.got = Whole(reader.of)
        BY <2>1, <2>2, <2>4, WholeIs
    <2> QED BY <2>2, <2>3, <2>5
<1>2. OfflineInv => LoadedIsWhole
    BY <1>1 DEF OfflineInv
<1> QED BY <1>2, OfflineInit, OfflineStep, PTL DEF Spec

\* Whatever the answers and however many the cases of the workload: a replay that
\* passes compared like with like, and its candidate failed, erred, slowed and
\* changed no more than the gate's limits (replay_gate.py ReplayGate.evaluate).
THEOREM ReplayPassClean == Spec => []ReplayPassIsClean
<1>1. OfflineInv => ReplayPassIsClean
    <2>1. ReplayIdle => ReplayPassIsClean
        BY DEF ReplayIdle, ReplayPassIsClean, NoRuling
    <2> QED BY <2>1, ReplayClean DEF OfflineInv, ReplayHolds
<1> QED BY <1>1, OfflineInit, OfflineStep, PTL DEF Spec

-----------------------------------------------------------------------------
(* The planners: domination, the frontier, and the memory of a plan.       *)

Planner == INSTANCE Planning

LEMMA DominationIsOrder ==
    ASSUME NEW M, NEW direction \in [M -> {Planner!Lower, Planner!Higher}],
           NEW x \in [M -> Int], NEW y \in [M -> Int], NEW z \in [M -> Int]
    PROVE  /\ ~Planner!Dominates(direction, x, x)
           /\ Planner!Dominates(direction, x, y) /\ Planner!Dominates(direction, y, z)
                => Planner!Dominates(direction, x, z)
<1> DEFINE gain(a, b, m) == Planner!Improvement(direction[m], b[m], a[m])
<1>1. DOMAIN direction = M
    OBVIOUS
<1>2. \A m \in M : /\ gain(x, x, m) = 0 /\ gain(x, y, m) \in Int /\ gain(y, z, m) \in Int
                   /\ gain(x, z, m) = gain(x, y, m) + gain(y, z, m)
    BY DEF Planner!Improvement, Planner!Lower, Planner!Higher
<1>3. \A a, b : Planner!Dominates(direction, a, b)
                  <=> (\A m \in M : gain(a, b, m) >= 0) /\ (\E m \in M : gain(a, b, m) > 0)
    BY <1>1 DEF Planner!Dominates, Planner!AsGood, Planner!Better
<1> HIDE DEF gain
<1>4. ~Planner!Dominates(direction, x, x)
    BY <1>2, <1>3
<1>5. ASSUME Planner!Dominates(direction, x, y), Planner!Dominates(direction, y, z)
      PROVE  Planner!Dominates(direction, x, z)
    BY <1>2, <1>3, <1>5
<1> QED BY <1>4, <1>5

\* Frontier and Winner as compute_pareto_frontier builds them, from any finite set
\* of trials with any objectives and any constraints: a feasible trial is left out
\* only when a trial of the frontier dominates it, no trial of the frontier
\* dominates another, there is a frontier as soon as a trial is feasible, and one
\* trial wins exactly when it dominates every other feasible one, so never one of
\* two equal trials.  Of the feasible trials that dominate a dominated one, take
\* one that fewest others dominate.
THEOREM FrontierIsRight ==
    ASSUME NEW M, NEW direction \in [M -> {Planner!Lower, Planner!Higher}],
           NEW Ids, IsFiniteSet(Ids), NEW trials \in [Ids -> [M -> Int]], NEW bounds
    PROVE  LET frontier == Planner!Frontier(direction, trials, bounds)
               feasible == {t \in Ids : Planner!Feasible(trials[t], bounds)}
               over(a, b) == Planner!Dominates(direction, trials[a], trials[b])
               winner == Planner!Winner(direction, trials, bounds)
           IN  /\ \A t \in feasible \ frontier : \E f \in frontier : over(f, t)
               /\ \A f, g \in frontier : ~over(f, g)
               /\ winner = "NO_FEASIBLE_TRIALS" <=> feasible = {}
               /\ winner = "SINGLE_WINNER"
                    <=> \E t \in feasible : \A u \in feasible \ {t} : over(t, u)
<1> DEFINE frontier == Planner!Frontier(direction, trials, bounds)
           feasible == {t \in Ids : Planner!Feasible(trials[t], bounds)}
           over(a, b) == Planner!Dominates(direction, trials[a], trials[b])
           winner == Planner!Winner(direction, trials, bounds)
           above(t) == {a \in feasible : over(a, t)}
<1>1. frontier = {t \in feasible : above(t) = {}}
    <2>1. DOMAIN trials = Ids
        OBVIOUS
    <2> QED BY <2>1 DEF Planner!Frontier, Planner!FeasibleIds
<1>2. feasible \in SUBSET Ids /\ \A t \in feasible : trials[t] \in [M -> Int]
    OBVIOUS
<1>3. \A a, b, c \in feasible : ~over(a, a) /\ (over(a, b) /\ over(b, c) => over(a, c))
    BY <1>2, DominationIsOrder
<1>4. \A t : IsFiniteSet(above(t)) /\ Cardinality(above(t)) \in Nat
    <2> TAKE t
    <2>1. above(t) \in SUBSET Ids
        BY <1>2
    <2> HIDE DEF above
    <2> QED BY <2>1, FS_Subset, FS_CardinalityType
<1>5. /\ winner = "NO_FEASIBLE_TRIALS" <=> frontier = {}
      /\ winner = "SINGLE_WINNER" <=> \E t \in frontier : frontier = {t}
    BY DEF Planner!Winner
<1> HIDE DEF frontier, feasible, over, winner
<1>6. ASSUME NEW t \in feasible, t \notin frontier
      PROVE  \E f \in frontier : over(f, t)
    <2> DEFINE sizes == {Cardinality(above(a)) : a \in above(t)}
    <2>1. sizes \in SUBSET Nat /\ sizes # {}
        <3>1. above(t) # {}
            BY <1>1, <1>6
        <3> HIDE DEF above
        <3> QED BY <1>4, <3>1
    <2>2. PICK n \in sizes : \A k \in sizes : n <= k
        BY <2>1, SmallestOf
    <2>3. PICK f \in above(t) : Cardinality(above(f)) = n
        BY <2>2
    <2>4. ASSUME NEW a \in above(f) PROVE FALSE
        <3>1. a \in feasible /\ f \in feasible /\ over(a, f) /\ over(f, t)
            BY <2>3, <2>4
        <3>2. a \in above(t)
            BY <1>3, <3>1, <1>6
        <3>3. above(a) \in SUBSET above(f) /\ a \notin above(a)
            BY <1>3, <3>1
        <3>4. Cardinality(above(a)) <= Cardinality(above(f)) /\ above(a) # above(f)
            <4> HIDE DEF above
            <4> QED BY <1>4, <2>4, <3>3, FS_Subset
        <3>5. Cardinality(above(a)) # Cardinality(above(f))
            <4> HIDE DEF above
            <4> QED BY <1>4, <3>3, <3>4, FS_Subset
        <3>6. n <= Cardinality(above(a))
            BY <2>2, <3>2
        <3> HIDE DEF above
        <3> QED BY <1>4, <2>3, <3>4, <3>5, <3>6
    <2>5. f \in frontier
        BY <1>1, <2>3, <2>4
    <2> QED BY <2>3, <2>5
<1>7. \A f, g \in frontier : ~over(f, g)
    BY <1>1
<1>8. frontier = {} <=> feasible = {}
    BY <1>1, <1>6
<1>9. (\E t \in frontier : frontier = {t})
        <=> \E t \in feasible : \A u \in feasible \ {t} : over(t, u)
    <2>1. ASSUME NEW t, frontier = {t}
          PROVE  t \in feasible /\ \A u \in feasible \ {t} : over(t, u)
        BY <1>1, <1>6, <2>1
    <2>2. ASSUME NEW t \in feasible, \A u \in feasible \ {t} : over(t, u)
          PROVE  frontier = {t}
        <3>1. \A u \in feasible \ {t} : u \notin frontier
            BY <1>1, <2>2
        <3>2. t \in frontier
            BY <1>1, <1>3, <2>2
        <3> QED BY <1>1, <3>1, <3>2
    <2> QED BY <2>1, <2>2
<1>10. /\ \A t \in feasible \ frontier : \E f \in frontier : over(f, t)
       /\ \A f, g \in frontier : ~over(f, g)
       /\ winner = "NO_FEASIBLE_TRIALS" <=> feasible = {}
       /\ winner = "SINGLE_WINNER"
            <=> \E t \in feasible : \A u \in feasible \ {t} : over(t, u)
    BY <1>5, <1>6, <1>7, <1>8, <1>9
<1> QED BY <1>10 DEF frontier, feasible, over, winner

\* plan_capacity's classification of any sizes: an error exactly when the reserve
\* exceeds the memory; NO_FIT exactly when, besides, the weights, the reserve and
\* the caches of the requests asked for exceed it, although the code compares the
\* concurrency with an integer quotient; and FIT exactly when they use less than
\* 0.8500005 of it, since the code compares the utilization rounded to millionths.
THEOREM CapacityIsRight ==
    ASSUME NEW weights \in Nat, NEW reserve \in Nat, NEW request \in Nat \ {0},
           NEW memory \in Nat \ {0}, NEW target \in Nat \ {0}
    PROVE  LET load  == Planner!Load(weights, reserve, request, target)
               class == Planner!Classification(weights, reserve, request, memory, target)
           IN  /\ class = "INVALID" <=> reserve > memory
               /\ class = "NO_FIT" <=> reserve <= memory /\ load > memory
               /\ class = "FIT" <=> 2000000 * load < 1700001 * memory
<1> DEFINE load  == Planner!Load(weights, reserve, request, target)
           class == Planner!Classification(weights, reserve, request, memory, target)
           most  == Planner!SafeMax(weights, reserve, request, memory)
           used  == Planner!Millionths(load, memory)
           need  == target * request
           free  == memory - (weights + reserve)
<1>1. need \in Nat /\ need >= request /\ load = weights + reserve + need /\ free \in Int
    <2>1. target * request >= request /\ target * request \in Nat
        OBVIOUS
    <2> QED BY <2>1 DEF Planner!Load
<1>2. target > most <=> need > free
    <2>1. CASE free > 0
        <3> DEFINE q == free \div request
        <3>1. q \in Nat /\ q * request <= free /\ free < (q + 1) * request
            BY <1>1, <2>1
        <3>2. most = q
            BY <2>1 DEF Planner!SafeMax
        <3> HIDE DEF q, free, most
        <3>3. CASE target > q
            <4>1. target >= q + 1 /\ q + 1 \in Nat
                BY <3>1, <3>3
            <4>2. target * request >= (q + 1) * request
                BY <4>1
            <4> QED BY <1>1, <3>1, <3>2, <3>3, <4>2
        <3>4. CASE ~(target > q)
            <4>1. target <= q
                BY <3>1, <3>4
            <4>2. target * request <= q * request
                BY <3>1, <4>1
            <4> QED BY <1>1, <3>1, <3>2, <3>4, <4>2
        <3> QED BY <3>3, <3>4
    <2>2. CASE ~(free > 0)
        <3>1. most = 0
            BY <2>2 DEF Planner!SafeMax
        <3> HIDE DEF most, free, need
        <3> QED BY <1>1, <2>2, <3>1
    <2> QED BY <2>1, <2>2
<1>3. load \in Nat /\ load >= reserve /\ (need > free <=> load > memory)
    <2> HIDE DEF need, load
    <2> QED BY <1>1
<1>4. used > 850000 <=> 2000000 * load >= 1700001 * memory
    <2> DEFINE q == (2000000 * load + memory) \div (2 * memory)
    <2>1. /\ used = q
          /\ q \in Nat
          /\ q * (2 * memory) <= 2000000 * load + memory
          /\ 2000000 * load + memory < (q + 1) * (2 * memory)
        <3> HIDE DEF load
        <3> QED BY <1>3 DEF Planner!Millionths
    <2> HIDE DEF q, load, used
    <2>2. CASE q > 850000
        <3>1. q * (2 * memory) >= 850001 * (2 * memory)
            BY <2>1, <2>2
        <3> QED BY <1>3, <2>1, <2>2, <3>1
    <2>3. CASE ~(q > 850000)
        <3>1. (q + 1) * (2 * memory) <= 850001 * (2 * memory)
            BY <2>1, <2>3
        <3> QED BY <1>3, <2>1, <2>3, <3>1
    <2> QED BY <2>2, <2>3
<1>5. class = IF reserve > memory THEN "INVALID" ELSE IF target > most THEN "NO_FIT"
              ELSE IF used > 850000 THEN "RISK" ELSE "FIT"
    BY DEF Planner!Classification
<1> HIDE DEF need, free, most, used
<1>6. /\ class = "INVALID" <=> reserve > memory
      /\ class = "NO_FIT" <=> reserve <= memory /\ load > memory
      /\ class = "FIT" <=> 2000000 * load < 1700001 * memory
    <2> HIDE DEF load, class
    <2> QED BY <1>2, <1>3, <1>4, <1>5
<1> QED BY <1>6 DEF load, class

=============================================================================
