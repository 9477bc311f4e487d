--------------------------- MODULE TrialStore_proofs ---------------------------
(***************************************************************************)
(* The history of the trial registry only grows and its state table never  *)
(* contradicts it, for any processes, files, bundles and changes of the    *)
(* directory.  The inductive invariant: the image an open transaction      *)
(* works on has the committed events, and matches them as the committed    *)
(* tables do; a process that is about to record a bundle has one in hand.  *)
(***************************************************************************)
EXTENDS TrialStore, SequenceTheorems, FiniteSetTheorems, WellFoundedInduction, TLAPS

Rows == [status: {"none", "valid", "invalid", "missing"},
         digest: Bundles \cup {None}, file: Files \cup {None}]
Tables == [events: Seq(Bundles), trials: [Cases -> Rows]]

Contents == Bundles \cup Cases \cup Other
Steppers == {"idle", "absent", "lookup", "check", "insert", "report", "load", "mark", "finish"}

\* What the steps of a call rely on.
InHand(l) ==
    /\ l.pc \in {"lookup", "check", "insert"} => l.bundle \in Bundles /\ l.file \in Files
    /\ l.pc = "mark" => l.mark \in Cases /\ l.file \in Files
    /\ l.todo \subseteq Files

Locals ==
    {l \in [pc: Steppers, op: {"none", "register", "reindex"}, bundle: Bundles \cup {None},
            file: Files \cup {None}, mark: Cases \cup {None}, todo: SUBSET Files,
            seen: SUBSET Cases, stale: SUBSET Cases, calm: BOOLEAN] : InHand(l)}

StoreTypes ==
    /\ disk \in [Files -> Contents]
    /\ edits \in Nat
    /\ db \in Tables /\ draft \in Tables
    /\ writer \in Procs \cup {Nobody}
    /\ proc \in [Procs -> Locals]

\* RowMatchesHistory of any image of the tables.
Matches(t) ==
    \A c \in Cases :
        /\ t.trials[c].status = "valid" => t.trials[c].digest # None
        /\ t.trials[c].digest # None => Newest(t, c, t.trials[c].digest)

StoreInv ==
    /\ StoreTypes
    /\ draft.events = db.events
    /\ Matches(db) /\ Matches(draft)

-----------------------------------------------------------------------------
(* The tables.                                                             *)

LEMMA WithBundleFacts ==
    ASSUME NEW t \in Tables, NEW b \in Bundles, NEW f \in Files, Matches(t)
    PROVE  /\ WithBundle(t, b, f) \in Tables
           /\ Matches(WithBundle(t, b, f))
           /\ IsPrefix(t.events, WithBundle(t, b, f).events)
<1> DEFINE row == [status |-> "valid", digest |-> b, file |-> f]
           u == WithBundle(t, b, f)
<1>1. CaseOf[b] \in Cases
    BY CaseOfAssumption
<1>2. t.events \in Seq(Bundles) /\ t.trials \in [Cases -> Rows]
    BY DEF Tables
<1>3. row \in Rows /\ row.status = "valid" /\ row.digest = b
    BY DEF Rows
<1>4. u.events = Append(t.events, b) /\ u.trials = [t.trials EXCEPT ![CaseOf[b]] = row]
    BY DEF WithBundle
<1>5. u = [events |-> u.events, trials |-> u.trials]
    BY DEF WithBundle
<1> HIDE DEF u, row
<1>6. /\ u.events \in Seq(Bundles) /\ Len(u.events) = Len(t.events) + 1
      /\ \A i \in 1..Len(t.events) : u.events[i] = t.events[i]
      /\ u.events[Len(t.events) + 1] = b
    BY <1>2, <1>4, AppendProperties
<1>7. u.trials \in [Cases -> Rows]
    BY <1>1, <1>2, <1>3, <1>4
<1>8. u \in Tables
    BY <1>5, <1>6, <1>7 DEF Tables
<1>9. Matches(u)
    <2> SUFFICES ASSUME NEW c \in Cases
                 PROVE  /\ u.trials[c].status = "valid" => u.trials[c].digest # None
                        /\ u.trials[c].digest # None => Newest(u, c, u.trials[c].digest)
        BY DEF Matches
    <2>1. CASE c = CaseOf[b]
        <3>1. u.trials[c] = row
            BY <1>1, <1>2, <1>4, <2>1
        <3>2. b # None
            BY ValuesAssumption
        <3>3. Len(t.events) + 1 \in DOMAIN u.events
              /\ \A k \in DOMAIN u.events : ~(k > Len(t.events) + 1)
            BY <1>2, <1>6
        <3>4. Newest(u, c, b)
            BY <1>6, <2>1, <3>3 DEF Newest
        <3> QED BY <1>3, <3>1, <3>2, <3>4
    <2>2. CASE c # CaseOf[b]
        <3>1. u.trials[c] = t.trials[c]
            BY <1>2, <1>4, <2>2
        <3>2. ASSUME NEW d, Newest(t, c, d) PROVE Newest(u, c, d)
            <4>1. PICK i \in DOMAIN t.events :
                    /\ t.events[i] = d /\ CaseOf[d] = c
                    /\ \A k \in DOMAIN t.events : k > i => CaseOf[t.events[k]] # c
                BY <3>2 DEF Newest
            <4>2. DOMAIN t.events = 1..Len(t.events) /\ DOMAIN u.events = 1..(Len(t.events) + 1)
                  /\ Len(t.events) \in Nat
                BY <1>2, <1>6
            <4>3. i \in DOMAIN u.events /\ u.events[i] = d
                BY <1>6, <4>1, <4>2
            <4>4. ASSUME NEW k \in DOMAIN u.events, k > i PROVE CaseOf[u.events[k]] # c
                <5>1. CASE k = Len(t.events) + 1
                    BY <1>6, <2>2, <5>1
                <5>2. CASE k # Len(t.events) + 1
                    <6>1. k \in 1..Len(t.events)
                        BY <4>2, <5>2
                    <6> QED BY <1>6, <4>1, <4>2, <4>4, <6>1
                <5> QED BY <5>1, <5>2
            <4> QED BY <4>1, <4>3, <4>4 DEF Newest
        <3> QED BY <3>1, <3>2 DEF Matches
    <2> QED BY <2>1, <2>2
<1>10. IsPrefix(t.events, u.events)
    <2>1. SubSeq(t.events, 1, Len(t.events)) = SubSeq(u.events, 1, Len(t.events))
        BY <1>2, <1>6
    <2> QED BY <1>2, <1>6, <2>1 DEF IsPrefix
<1> QED BY <1>8, <1>9, <1>10 DEF u

LEMMA WithInvalidFacts ==
    ASSUME NEW t \in Tables, NEW c \in Cases, NEW f \in Files, Matches(t)
    PROVE  /\ WithInvalid(t, c, f) \in Tables
           /\ Matches(WithInvalid(t, c, f))
           /\ WithInvalid(t, c, f).events = t.events
<1> DEFINE row == [status |-> "invalid", digest |-> None, file |-> f]
           u == WithInvalid(t, c, f)
<1>1. t.events \in Seq(Bundles) /\ t.trials \in [Cases -> Rows]
    BY DEF Tables
<1>2. row \in Rows /\ row.status = "invalid" /\ row.digest = None
    BY DEF Rows
<1>3. u = [events |-> t.events, trials |-> [t.trials EXCEPT ![c] = row]]
    BY DEF WithInvalid, Tables
<1> HIDE DEF u, row
<1>4. u.events = t.events /\ u.trials \in [Cases -> Rows]
      /\ \A d \in Cases : u.trials[d] = IF d = c THEN row ELSE t.trials[d]
    BY <1>1, <1>2, <1>3
<1>5. u \in Tables
    BY <1>1, <1>3, <1>4 DEF Tables
<1>6. Matches(u)
    BY <1>2, <1>4 DEF Matches, Newest
<1> QED BY <1>4, <1>5, <1>6 DEF u

LEMMA WithMissingFacts ==
    ASSUME NEW t \in Tables, NEW cs \in SUBSET Cases, Matches(t)
    PROVE  /\ WithMissing(t, cs) \in Tables
           /\ Matches(WithMissing(t, cs))
           /\ WithMissing(t, cs).events = t.events
<1> DEFINE gone(c) == [t.trials[c] EXCEPT !.status = "missing"]
           rows == [c \in Cases |-> IF c \in cs THEN gone(c) ELSE t.trials[c]]
           u == WithMissing(t, cs)
<1>1. t.events \in Seq(Bundles) /\ t.trials \in [Cases -> Rows]
    BY DEF Tables
<1>2. \A c \in Cases : gone(c) \in Rows /\ gone(c).status = "missing"
                       /\ gone(c).digest = t.trials[c].digest
    BY <1>1 DEF Rows
<1>3. u = [events |-> t.events, trials |-> rows]
    BY SMTT(20) DEF WithMissing, Tables
<1> HIDE DEF u, gone
<1>4. u.events = t.events /\ u.trials \in [Cases -> Rows]
      /\ \A c \in Cases : u.trials[c] = IF c \in cs THEN gone(c) ELSE t.trials[c]
    BY <1>1, <1>2, <1>3
<1>5. u \in Tables
    <2> HIDE DEF rows
    <2> QED BY <1>1, <1>3, <1>4 DEF Tables
<1>6. Matches(u)
    BY <1>2, <1>4 DEF Matches, Newest
<1> QED BY <1>4, <1>5, <1>6 DEF u

-----------------------------------------------------------------------------
(* The invariant.                                                          *)

LEMMA ViewFacts ==
    ASSUME StoreInv, NEW p \in Procs
    PROVE  View(p) \in Tables /\ Matches(View(p)) /\ View(p).events = db.events
BY DEF StoreInv, StoreTypes, View

LEMMA IdleLocal == Idle \in Locals /\ Absent \in Locals
<1>1. Idle \in Locals
    BY DEF Idle, Locals, InHand, Steppers
<1>2. Absent \in Locals
    BY DEF Absent, Idle, Locals, InHand, Steppers
<1> QED BY <1>1, <1>2

LEMMA StoreInit == Init => StoreInv
<1> SUFFICES ASSUME Init PROVE StoreInv
    OBVIOUS
<1>1. NoRow \in Rows /\ NoRow.status = "none" /\ NoRow.digest = None
    BY DEF NoRow, Rows
<1>2. db \in Tables /\ draft \in Tables /\ draft.events = db.events
    BY <1>1 DEF Init, Tables
<1>3. Matches(db) /\ Matches(draft)
    BY <1>1 DEF Init, Matches
<1>4. proc \in [Procs -> Locals]
    BY IdleLocal DEF Init
<1>5. disk \in [Files -> Contents] /\ edits \in Nat /\ writer \in Procs \cup {Nobody}
    BY DEF Init, Contents, Other
<1> QED BY <1>2, <1>3, <1>4, <1>5 DEF StoreInv, StoreTypes

\* The first file of a listing that is not empty.
LEMMA LeastFile ==
    ASSUME NEW S \in SUBSET Nat, S # {}
    PROVE  \E m \in S : \A g \in S : m <= g
<1> DEFINE less == {ss \in Nat \X Nat : ss[1] < ss[2]}
<1>1. IsWellFoundedOn(less, Nat)
    BY NatLessThanWellFounded DEF OpToRel
<1>2. PICK m \in S : \A g \in S : <<g, m>> \notin less
    <2> HIDE DEF less
    <2> QED BY <1>1, WFMin
<1>3. ASSUME NEW g \in S PROVE m <= g
    <2>1. <<g, m>> \in Nat \X Nat /\ ~(<<g, m>> \in less)
        BY <1>2
    <2>2. ~(<<g, m>>[1] < <<g, m>>[2])
        BY <2>1
    <2>3. ~(g < m) /\ g \in Nat /\ m \in Nat
        BY <2>1, <2>2
    <2> QED BY <2>3
<1> QED BY <1>3

-----------------------------------------------------------------------------
(* What a step does to the local variables of its process.                 *)

LEMMA LocalFields ==
    ASSUME NEW l \in Locals
    PROVE  /\ l \in [pc: Steppers, op: {"none", "register", "reindex"}, bundle: Bundles \cup {None},
                     file: Files \cup {None}, mark: Cases \cup {None}, todo: SUBSET Files,
                     seen: SUBSET Cases, stale: SUBSET Cases, calm: BOOLEAN]
           /\ InHand(l)
BY DEF Locals

LEMMA PcLocal ==
    ASSUME NEW l \in Locals, NEW pc \in Steppers,
           pc = "insert" => l.pc = "check", pc = "check" => l.pc = "lookup",
           pc \notin {"lookup", "mark"}
    PROVE  [l EXCEPT !.pc = pc] \in Locals
BY LocalFields DEF Locals, InHand

LEMMA DisturbedLocal ==
    ASSUME NEW l \in Locals
    PROVE  [l EXCEPT !.calm = FALSE] \in Locals
BY LocalFields DEF Locals, InHand

LEMMA AfterRowLocal ==
    ASSUME NEW l \in Locals, l.bundle \in Bundles
    PROVE  AfterRow(l) \in Locals
<1>1. CaseOf[l.bundle] \in Cases
    BY CaseOfAssumption
<1>2. CASE l.op = "register"
    <2>1. "report" \in Steppers
        BY DEF Steppers
    <2> QED BY <1>2, <2>1, PcLocal DEF AfterRow
<1>3. CASE l.op # "register"
    <2> DEFINE n == [l EXCEPT !.pc = "load", !.seen = l.seen \cup {CaseOf[l.bundle]}]
    <2>1. AfterRow(l) = n
        BY <1>3 DEF AfterRow
    <2>2. n \in Locals
        BY <1>1, LocalFields DEF Locals, InHand, Steppers
    <2> QED BY <2>1, <2>2
<1> QED BY <1>2, <1>3

LEMMA PrefixOfItself ==
    ASSUME StoreInv PROVE IsPrefix(db.events, db.events)
BY DEF StoreInv, StoreTypes, Tables, IsPrefix

-----------------------------------------------------------------------------
(* The three ways a step of a process goes on.                             *)

LEMMA Stepped ==
    ASSUME StoreInv, NEW p \in Procs, NEW l \in Locals, Steps(p, l),
           UNCHANGED <<disk, edits, db, writer, draft>>
    PROVE  StoreInv' /\ IsPrefix(db.events, db'.events)
<1>1. proc' \in [Procs -> Locals]
    BY DEF StoreInv, StoreTypes, Steps
<1>2. StoreTypes'
    BY <1>1 DEF StoreInv, StoreTypes
<1>3. draft'.events = db'.events /\ Matches(db)' /\ Matches(draft)'
    BY DEF StoreInv, Matches, Newest
<1> QED BY <1>2, <1>3, PrefixOfItself DEF StoreInv

LEMMA Left ==
    ASSUME StoreInv, NEW p \in Procs, Leave(p)
    PROVE  StoreInv' /\ IsPrefix(db.events, db'.events)
<1>1. proc' \in [Procs -> Locals]
    BY IdleLocal DEF StoreInv, StoreTypes, Leave
<1>2. UNCHANGED <<disk, edits, db>> /\ draft' \in {draft, db} /\ writer' \in {writer, Nobody}
    BY DEF Leave
<1>3. StoreTypes'
    BY <1>1, <1>2 DEF StoreInv, StoreTypes
<1>4. draft'.events = db'.events /\ Matches(db)' /\ Matches(draft)'
    BY <1>2 DEF StoreInv, Matches, Newest
<1> QED BY <1>2, <1>3, <1>4, PrefixOfItself DEF StoreInv

LEMMA Committed ==
    ASSUME StoreInv, NEW p \in Procs, NEW l \in Locals, NEW t \in Tables, Matches(t),
           IsPrefix(db.events, t.events),
           Commit(t), CommitSteps(p, l), UNCHANGED <<disk, edits>>
    PROVE  StoreInv' /\ IsPrefix(db.events, db'.events)
<1>1. proc' \in [Procs -> Locals]
    <2>1. \A q \in Procs : Disturbed(q) \in Locals
        BY DisturbedLocal DEF StoreInv, StoreTypes, Disturbed
    <2> QED BY <2>1 DEF CommitSteps
<1>2. db' = t /\ draft' = t /\ writer' = Nobody
    BY DEF Commit
<1>3. StoreTypes'
    BY <1>1, <1>2 DEF StoreInv, StoreTypes
<1>4. draft'.events = db'.events /\ Matches(db)' /\ Matches(draft)'
    BY <1>2 DEF Matches, Newest
<1> QED BY <1>2, <1>3, <1>4 DEF StoreInv

-----------------------------------------------------------------------------

LEMMA StepKeeps ==
    ASSUME StoreInv, NEW p \in Procs, Step(p)
    PROVE  StoreInv' /\ IsPrefix(db.events, db'.events)
<1> DEFINE l == proc[p]
<1>0. l \in Locals /\ disk \in [Files -> Contents]
    BY DEF StoreInv, StoreTypes
<1>v. View(p) \in Tables /\ Matches(View(p)) /\ View(p).events = db.events
    BY ViewFacts
<1>1. ASSUME NEW f \in Files, Register(p, f) PROVE StoreInv' /\ IsPrefix(db.events, db'.events)
    <2> DEFINE n == [Idle EXCEPT !.pc = "lookup", !.op = "register", !.bundle = disk[f], !.file = f]
    <2>1. n \in Locals
        BY <1>1 DEF Register, Idle, Locals, InHand, Steppers
    <2>2. Steps(p, n) /\ UNCHANGED <<disk, edits, db, writer, draft>>
        BY <1>1 DEF Register
    <2> HIDE DEF n
    <2> QED BY <2>1, <2>2, Stepped
<1>2. CASE LookUp(p)
    <2> DEFINE n == IF Recorded(View(p), l.bundle) THEN Idle ELSE [l EXCEPT !.pc = "check"]
    <2>1. l.pc = "lookup" /\ Steps(p, n) /\ UNCHANGED <<disk, edits, db, writer, draft>>
        BY <1>2 DEF LookUp
    <2>2. n \in Locals
        BY <1>0, <2>1, IdleLocal, PcLocal DEF Steppers
    <2> HIDE DEF n
    <2> QED BY <2>1, <2>2, Stepped
<1>3. CASE CheckDigest(p)
    <2> DEFINE n == IF Recorded(View(p), l.bundle) THEN AfterRow(l) ELSE [l EXCEPT !.pc = "insert"]
    <2>1. l.pc = "check" /\ Steps(p, n) /\ UNCHANGED <<disk, edits, db, writer, draft>>
        BY <1>3 DEF CheckDigest
    <2>2. AfterRow(l) \in Locals
        BY <1>0, <2>1, LocalFields, AfterRowLocal DEF InHand
    <2>3. [l EXCEPT !.pc = "insert"] \in Locals
        BY <1>0, <2>1, PcLocal DEF Steppers
    <2>4. n \in Locals
        BY <2>2, <2>3
    <2> HIDE DEF n
    <2> QED BY <2>1, <2>4, Stepped
<1>4. CASE InsertRow(p)
    <2> DEFINE t == WithBundle(View(p), l.bundle, l.file)
    <2>1. /\ l.pc = "insert" /\ Commit(t) /\ CommitSteps(p, AfterRow(l))
          /\ UNCHANGED <<disk, edits>>
        BY <1>4 DEF InsertRow
    <2>2. l.bundle \in Bundles /\ l.file \in Files
        BY <1>0, <2>1, LocalFields DEF InHand
    <2>3. t \in Tables /\ Matches(t) /\ IsPrefix(View(p).events, t.events)
        BY <1>v, <2>2, WithBundleFacts
    <2>4. AfterRow(l) \in Locals
        BY <1>0, <2>2, AfterRowLocal
    <2>5. IsPrefix(db.events, t.events)
        BY <1>v, <2>3
    <2> HIDE DEF t, l
    <2> QED BY <2>1, <2>3, <2>4, <2>5, Committed
<1>5. CASE Report(p)
    BY <1>5, Left DEF Report
<1>6. CASE Reindex(p)
    <2> DEFINE n == [Idle EXCEPT !.pc = "load", !.op = "reindex", !.calm = TRUE,
                                 !.todo = {f \in Files : disk[f] # None}]
    <2>1. n \in Locals
        BY DEF Idle, Locals, InHand, Steppers
    <2>2. Steps(p, n) /\ UNCHANGED <<disk, edits, db, writer, draft>>
        BY <1>6 DEF Reindex
    <2> HIDE DEF n
    <2> QED BY <2>1, <2>2, Stepped
<1>7. CASE LoadFile(p)
    <2> DEFINE f == First(l.todo)
               next == [l EXCEPT !.todo = l.todo \ {f}, !.file = f]
    <2>1. /\ l.pc = "load" /\ l.todo # {}
          /\ \/ disk[f] \in Bundles /\ Steps(p, [next EXCEPT !.pc = "check", !.bundle = disk[f]])
             \/ disk[f] \in Cases /\ Steps(p, [next EXCEPT !.pc = "mark", !.mark = disk[f]])
             \/ disk[f] = Foreign /\ Steps(p, next)
          /\ UNCHANGED <<disk, edits, db, writer, draft>>
        BY <1>7 DEF LoadFile
    <2>2. f \in Files
        <3>1. l.todo \subseteq Files
            BY <1>0, LocalFields
        <3>2. f \in l.todo
            <4>1. \E m \in l.todo : \A g \in l.todo : m <= g
                BY <2>1, <3>1, FilesAssumption, LeastFile
            <4> QED BY <4>1 DEF First
        <3> QED BY <3>1, <3>2
    <2>3. next \in Locals
        <3> HIDE DEF f
        <3> QED BY <1>0, <2>1, <2>2, LocalFields DEF Locals, InHand
    <2>4. ASSUME disk[f] \in Bundles
          PROVE  [next EXCEPT !.pc = "check", !.bundle = disk[f]] \in Locals
        <3> HIDE DEF f
        <3> QED BY <1>0, <2>2, <2>4, LocalFields DEF Locals, InHand, Steppers
    <2>5. ASSUME disk[f] \in Cases
          PROVE  [next EXCEPT !.pc = "mark", !.mark = disk[f]] \in Locals
        <3> HIDE DEF f
        <3> QED BY <1>0, <2>2, <2>5, LocalFields DEF Locals, InHand, Steppers
    <2> HIDE DEF next, f, l
    <2> QED BY <2>1, <2>3, <2>4, <2>5, Stepped
<1>8. CASE LoadFails(p)
    BY <1>8, Left DEF LoadFails
<1>9. CASE MarkInvalid(p)
    <2> DEFINE t == WithInvalid(View(p), l.mark, l.file)
               n == [l EXCEPT !.pc = "load", !.seen = l.seen \cup {l.mark}]
    <2>1. l.pc = "mark" /\ draft' = t /\ writer' = p /\ Steps(p, n) /\ UNCHANGED <<db, disk, edits>>
        BY <1>9 DEF MarkInvalid, Change
    <2>2. l.mark \in Cases /\ l.file \in Files
        BY <1>0, <2>1, LocalFields DEF InHand
    <2>3. t \in Tables /\ Matches(t) /\ t.events = db.events
        BY <1>v, <2>2, WithInvalidFacts
    <2>4. n \in Locals
        BY <1>0, <2>2, LocalFields DEF Locals, InHand, Steppers
    <2> HIDE DEF t, n, l
    <2>5. proc' \in [Procs -> Locals]
        BY <2>1, <2>4 DEF Steps, StoreInv, StoreTypes
    <2>6. StoreTypes'
        BY <2>1, <2>3, <2>5 DEF StoreInv, StoreTypes
    <2>7. draft'.events = db'.events /\ Matches(db)' /\ Matches(draft)'
        BY <2>1, <2>3 DEF StoreInv, Matches, Newest
    <2> QED BY <2>1, <2>6, <2>7, PrefixOfItself DEF StoreInv
<1>10. CASE Sweep(p)
    <2> DEFINE gone == {c \in Cases \ l.seen : View(p).trials[c].status \in {"valid", "invalid"}}
               n == [l EXCEPT !.pc = "finish", !.stale = gone]
    <2>1. Steps(p, n) /\ UNCHANGED <<disk, edits, db, writer, draft>>
        BY <1>10 DEF Sweep
    <2>2. gone \in SUBSET Cases
        OBVIOUS
    <2> HIDE DEF gone
    <2>3. n \in Locals
        BY <1>0, <2>2, LocalFields DEF Locals, InHand, Steppers
    <2> HIDE DEF n
    <2> QED BY <2>1, <2>3, Stepped
<1>11. CASE Finish(p)
    <2>1. UNCHANGED <<disk, edits>>
        BY <1>11 DEF Finish
    <2>2. CASE l.stale # {} \/ writer = p
        <3> DEFINE t == WithMissing(View(p), l.stale)
        <3>1. Commit(t) /\ CommitSteps(p, Idle)
            BY <1>11, <2>2 DEF Finish
        <3>2. l.stale \in SUBSET Cases
            BY <1>0, LocalFields
        <3>3. t \in Tables /\ Matches(t) /\ t.events = db.events
            BY <1>v, <3>2, WithMissingFacts
        <3>4. IsPrefix(db.events, t.events)
            BY <3>3, PrefixOfItself
        <3> HIDE DEF t
        <3> QED BY <2>1, <3>1, <3>3, <3>4, IdleLocal, Committed
    <2>3. CASE ~(l.stale # {} \/ writer = p)
        <3>1. Steps(p, Idle) /\ UNCHANGED <<db, writer, draft>>
            BY <1>11, <2>3 DEF Finish
        <3> QED BY <2>1, <3>1, IdleLocal, Stepped
    <2> QED BY <2>2, <2>3
<1>12. CASE DatabaseLocked(p)
    BY <1>12, Left DEF DatabaseLocked
<1>13. CASE Killed(p)
    BY <1>13, Left DEF Killed
<1> QED BY <1>1, <1>2, <1>3, <1>4, <1>5, <1>6, <1>7, <1>8, <1>9, <1>10, <1>11, <1>12, <1>13
        DEF Step

LEMMA EditKeeps ==
    ASSUME StoreInv, NEW f \in Files, NEW c \in Contents, Edit(f, c)
    PROVE  StoreInv' /\ IsPrefix(db.events, db'.events)
<1>1. proc' \in [Procs -> Locals]
    BY DisturbedLocal DEF StoreInv, StoreTypes, Edit, Disturbed
<1>2. UNCHANGED <<db, writer, draft>> /\ disk' \in [Files -> Contents] /\ edits' \in Nat
    BY DEF StoreInv, StoreTypes, Edit
<1>3. StoreTypes'
    BY <1>1, <1>2 DEF StoreInv, StoreTypes
<1>4. draft'.events = db'.events /\ Matches(db)' /\ Matches(draft)'
    BY <1>2 DEF StoreInv, Matches, Newest
<1> QED BY <1>2, <1>3, <1>4, PrefixOfItself DEF StoreInv

LEMMA StoreStep == StoreInv /\ [Next]_vars => StoreInv' /\ IsPrefix(db.events, db'.events)
<1> SUFFICES ASSUME StoreInv, [Next]_vars PROVE StoreInv' /\ IsPrefix(db.events, db'.events)
    OBVIOUS
<1>1. ASSUME NEW p \in Procs, Step(p) PROVE StoreInv' /\ IsPrefix(db.events, db'.events)
    BY <1>1, StepKeeps
<1>2. ASSUME NEW f \in Files, NEW c \in Contents, Edit(f, c)
      PROVE  StoreInv' /\ IsPrefix(db.events, db'.events)
    BY <1>2, EditKeeps
<1>3. CASE UNCHANGED vars
    <2>1. StoreTypes' /\ draft'.events = db'.events /\ Matches(db)' /\ Matches(draft)' /\ db' = db
        BY <1>3 DEF vars, StoreInv, StoreTypes, Matches, Newest
    <2> QED BY <2>1, PrefixOfItself DEF StoreInv
<1> QED BY <1>1, <1>2, <1>3 DEF Next, Contents

-----------------------------------------------------------------------------

\* Whatever processes register and reindex at once, whoever is killed where, and
\* whatever happens to the files, the committed history is only ever extended
\* (trialstore.py, the schema's "append-only").
THEOREM HistoryGrows == Spec => AppendOnly
<1>1. StoreInv /\ [Next]_vars => [IsPrefix(db.events, db'.events)]_vars
    BY StoreStep
<1> QED BY <1>1, StoreInit, StoreStep, PTL DEF Spec, AppendOnly

\* A row of the state table that names a digest names the newest one of its case,
\* and a valid row names one, in every committed image of the tables
\* (_register_row and the statements of reindex).
THEOREM RowsMatch == Spec => []RowMatchesHistory
<1>1. StoreInv => RowMatchesHistory
    BY DEF StoreInv, Matches, RowMatchesHistory
<1> QED BY <1>1, StoreInit, StoreStep, PTL DEF Spec

-----------------------------------------------------------------------------
(* How often a digest is recorded.                                         *)

Places(b) == {i \in DOMAIN db.events : db.events[i] = b}

\* The processes that found b unrecorded and have not inserted it yet.
About(b) == {p \in Procs : proc[p].pc = "insert" /\ proc[p].bundle = b}

\* Every process that takes part has recorded a digest at most once, or is about to.
RepeatsInv ==
    /\ StoreInv
    /\ \A b \in Bundles : /\ IsFiniteSet(Places(b))
                          /\ Cardinality(Places(b)) + Cardinality(About(b)) <= Cardinality(Present)

\* What a step of a process does to the history and to who is about to extend it.
Quiet(p) ==
    /\ db'.events = db.events
    /\ proc'[p].pc # "insert"

Decides(p) ==
    /\ db'.events = db.events
    /\ proc'[p].bundle = proc[p].bundle /\ ~Recorded(db, proc[p].bundle)

Records(p) ==
    /\ proc[p].pc = "insert" /\ proc[p].bundle \in Bundles
    /\ db'.events = Append(db.events, proc[p].bundle)
    /\ proc'[p].pc # "insert"

Others(p) ==
    /\ DOMAIN proc' = Procs
    /\ \A q \in Procs \ {p} : proc'[q] = proc[q] \/ proc'[q] = Disturbed(q)

\* The two shapes of the change of the local variables.
LEMMA StepsFacts ==
    ASSUME StoreInv, NEW p \in Procs, NEW l, Steps(p, l)
    PROVE  proc'[p] = l /\ Others(p)
BY DEF StoreInv, StoreTypes, Steps, Others

LEMMA CommitFacts ==
    ASSUME StoreInv, NEW p \in Procs, NEW l, CommitSteps(p, l)
    PROVE  proc'[p] = l /\ Others(p)
BY DEF CommitSteps, Others

LEMMA LeaveFacts ==
    ASSUME StoreInv, NEW p \in Procs, Leave(p)
    PROVE  proc'[p] = Idle /\ Others(p) /\ db' = db
BY DEF StoreInv, StoreTypes, Leave, Others

LEMMA AfterRowPc ==
    ASSUME NEW l \in Locals
    PROVE  AfterRow(l).pc \in {"report", "load"}
BY LocalFields DEF AfterRow

LEMMA StepRecords ==
    ASSUME StoreInv, NEW p \in Procs, Step(p)
    PROVE  /\ Others(p)
           /\ proc[p].pc # "absent" /\ proc'[p].pc # "absent"
           /\ Quiet(p) \/ Decides(p) \/ Records(p)
<1> DEFINE l == proc[p]
<1>0. l \in Locals
    BY DEF StoreInv, StoreTypes
<1>i. Idle.pc = "idle"
    BY DEF Idle
<1>e. ASSUME NEW pc PROVE [l EXCEPT !.pc = pc].pc = pc /\ [l EXCEPT !.pc = pc].bundle = l.bundle
    BY <1>0, LocalFields
<1>v. \A b : Recorded(View(p), b) <=> Recorded(db, b)
    BY ViewFacts DEF Recorded
<1>a. AfterRow(l).pc \in {"report", "load"}
    BY <1>0, AfterRowPc
<1>1. ASSUME NEW f \in Files, Register(p, f) PROVE Others(p) /\ l.pc = "idle" /\ proc'[p].pc = "lookup" /\ db' = db
    <2> DEFINE n == [Idle EXCEPT !.pc = "lookup", !.op = "register", !.bundle = disk[f], !.file = f]
    <2>1. n.pc = "lookup"
        BY DEF Idle
    <2>2. Steps(p, n) /\ l.pc = "idle" /\ db' = db
        BY <1>1 DEF Register
    <2> HIDE DEF n, l
    <2> QED BY <2>1, <2>2, StepsFacts
<1>2. CASE LookUp(p)
    <2> DEFINE n == IF Recorded(View(p), l.bundle) THEN Idle ELSE [l EXCEPT !.pc = "check"]
    <2>1. l.pc = "lookup" /\ Steps(p, n) /\ db' = db
        BY <1>2 DEF LookUp
    <2>2. n.pc \in {"idle", "check"}
        BY <1>i, <1>e
    <2> HIDE DEF n, l
    <2> QED BY <2>1, <2>2, StepsFacts DEF Quiet, l
<1>3. CASE CheckDigest(p)
    <2> DEFINE n == IF Recorded(View(p), l.bundle) THEN AfterRow(l) ELSE [l EXCEPT !.pc = "insert"]
    <2>1. l.pc = "check" /\ Steps(p, n) /\ db' = db
        BY <1>3 DEF CheckDigest
    <2>2. CASE Recorded(View(p), l.bundle)
        <3>1. n.pc \in {"report", "load"}
            BY <1>a, <2>2
        <3> HIDE DEF n, l
        <3> QED BY <2>1, <3>1, StepsFacts DEF Quiet, l
    <2>3. CASE ~Recorded(View(p), l.bundle)
        <3>1. n.pc = "insert" /\ n.bundle = l.bundle /\ ~Recorded(db, l.bundle)
            BY <1>e, <1>v, <2>3
        <3> HIDE DEF n, l
        <3> QED BY <2>1, <3>1, StepsFacts DEF Decides, l
    <2> QED BY <2>2, <2>3
<1>4. CASE InsertRow(p)
    <2>1. l.pc = "insert" /\ CommitSteps(p, AfterRow(l)) /\ db'.events = Append(db.events, l.bundle)
        BY <1>4, ViewFacts DEF InsertRow, Commit, WithBundle
    <2>2. l.bundle \in Bundles
        BY <1>0, <2>1, LocalFields DEF InHand
    <2> HIDE DEF l
    <2> QED BY <1>a, <2>1, <2>2, CommitFacts DEF Records, l
<1>5. CASE Report(p)
    BY <1>5, <1>i, LeaveFacts DEF Report, Quiet
<1>6. CASE Reindex(p)
    <2> DEFINE n == [Idle EXCEPT !.pc = "load", !.op = "reindex", !.calm = TRUE,
                                 !.todo = {f \in Files : disk[f] # None}]
    <2>1. n.pc = "load"
        BY DEF Idle
    <2>2. Steps(p, n) /\ l.pc = "idle" /\ db' = db
        BY <1>6 DEF Reindex
    <2> HIDE DEF n, l
    <2> QED BY <2>1, <2>2, StepsFacts DEF Quiet, l
<1>7. CASE LoadFile(p)
    <2> DEFINE next(f) == [l EXCEPT !.todo = l.todo \ {f}, !.file = f]
               valid(f) == [next(f) EXCEPT !.pc = "check", !.bundle = disk[f]]
               marked(f) == [next(f) EXCEPT !.pc = "mark", !.mark = disk[f]]
    <2>1. /\ l.pc = "load" /\ db' = db
          /\ \E f : Steps(p, valid(f)) \/ Steps(p, marked(f)) \/ Steps(p, next(f))
        BY <1>7 DEF LoadFile
    <2>2. PICK f : Steps(p, valid(f)) \/ Steps(p, marked(f)) \/ Steps(p, next(f))
        BY <2>1
    <2>3. valid(f).pc = "check" /\ marked(f).pc = "mark" /\ next(f).pc = l.pc
        BY <1>0, LocalFields
    <2> HIDE DEF next, valid, marked, l
    <2> QED BY <2>1, <2>2, <2>3, StepsFacts DEF Quiet, l
<1>8. CASE LoadFails(p)
    BY <1>8, <1>i, LeaveFacts DEF LoadFails, Quiet
<1>9. CASE MarkInvalid(p)
    <2> DEFINE n == [l EXCEPT !.pc = "load", !.seen = l.seen \cup {l.mark}]
    <2>1. l.pc = "mark" /\ Steps(p, n) /\ db' = db
        BY <1>9 DEF MarkInvalid, Change
    <2>2. n.pc = "load"
        BY <1>0, LocalFields
    <2> HIDE DEF n, l
    <2> QED BY <2>1, <2>2, StepsFacts DEF Quiet, l
<1>10. CASE Sweep(p)
    <2> DEFINE n == [l EXCEPT !.pc = "finish",
                !.stale = {c \in Cases \ l.seen : View(p).trials[c].status \in {"valid", "invalid"}}]
    <2>1. l.pc = "load" /\ Steps(p, n) /\ db' = db
        BY <1>10 DEF Sweep
    <2>2. n.pc = "finish"
        BY <1>0, LocalFields
    <2> HIDE DEF n, l
    <2> QED BY <2>1, <2>2, StepsFacts DEF Quiet, l
<1>11. CASE Finish(p)
    <2>1. CASE l.stale # {} \/ writer = p
        <3>1. Commit(WithMissing(View(p), l.stale)) /\ CommitSteps(p, Idle) /\ l.pc = "finish"
            BY <1>11, <2>1 DEF Finish
        <3>2. db'.events = db.events
            <4>1. l.stale \in SUBSET Cases
                BY <1>0, LocalFields
            <4> QED BY <3>1, <4>1, ViewFacts, WithMissingFacts DEF Commit
        <3> QED BY <1>i, <3>1, <3>2, CommitFacts DEF Quiet
    <2>2. CASE ~(l.stale # {} \/ writer = p)
        <3>1. Steps(p, Idle) /\ db' = db /\ l.pc = "finish"
            BY <1>11, <2>2 DEF Finish
        <3> QED BY <1>i, <3>1, StepsFacts DEF Quiet
    <2> QED BY <2>1, <2>2
<1>12. CASE DatabaseLocked(p)
    BY <1>12, <1>i, LeaveFacts DEF DatabaseLocked, Quiet
<1>13. CASE Killed(p)
    BY <1>13, <1>i, LeaveFacts DEF Killed, Quiet
<1>14. ASSUME NEW f \in Files, Register(p, f)
       PROVE  Others(p) /\ l.pc # "absent" /\ proc'[p].pc # "absent" /\ Quiet(p)
    BY <1>1, <1>14 DEF Quiet
<1> QED BY <1>2, <1>3, <1>4, <1>5, <1>6, <1>7, <1>8, <1>9, <1>10, <1>11, <1>12, <1>13, <1>14
        DEF Step

LEMMA DisturbedFacts ==
    ASSUME StoreInv, NEW q \in Procs
    PROVE  /\ Disturbed(q).pc = proc[q].pc /\ Disturbed(q).bundle = proc[q].bundle
           /\ proc[q].pc = "absent" => (proc[q] = Absent => Disturbed(q) = Absent)
           /\ Disturbed(q) = Absent => proc[q].pc = "absent"
<1>1. proc[q] \in Locals
    BY DEF StoreInv, StoreTypes
<1>2. Disturbed(q).pc = proc[q].pc /\ Disturbed(q).bundle = proc[q].bundle
    BY <1>1, LocalFields DEF Disturbed
<1>3. [Absent EXCEPT !.calm = FALSE] = Absent
    <2> DEFINE fields == {"pc", "op", "bundle", "file", "mark", "todo", "seen", "stale", "calm"}
    <2>1. Absent = [x \in fields |-> Absent[x]] /\ Absent.calm = FALSE
        BY DEF Absent, Idle
    <2> QED BY <2>1
<1>4. Absent.pc = "absent"
    BY DEF Absent, Idle
<1> QED BY <1>2, <1>3, <1>4 DEF Disturbed

\* Who takes part does not change: only a process that does takes steps.
LEMMA PresentKept ==
    ASSUME StoreInv, NEW p \in Procs, Others(p), proc[p].pc # "absent", proc'[p].pc # "absent",
           \A q \in Procs : proc[q].pc = "absent" => proc[q] = Absent
    PROVE  /\ Present' = Present
           /\ \A q \in Procs : proc'[q].pc = "absent" => proc'[q] = Absent
<1>1. Absent.pc = "absent"
    BY DEF Absent, Idle
<1>2. \A q \in Procs \ {p} : proc'[q] = Absent <=> proc[q] = Absent
    BY <1>1, DisturbedFacts DEF Others
<1>3. \A q \in Procs : proc'[q].pc = "absent" => proc'[q] = Absent
    BY <1>2, DisturbedFacts DEF Others
<1> QED BY <1>1, <1>2, <1>3 DEF Present

\* Only p may come to be about to record a digest, and it no longer is after it did.
LEMMA AboutChange ==
    ASSUME StoreInv, NEW p \in Procs, Others(p), NEW b
    PROVE  /\ About(b)' \subseteq About(b) \cup {p}
           /\ proc'[p].pc # "insert" => About(b)' \subseteq About(b) \ {p}
           /\ proc'[p].bundle # b => About(b)' \subseteq About(b) \ {p}
BY DisturbedFacts DEF Others, About

LEMMA AboutPresent ==
    ASSUME NEW b
    PROVE  /\ About(b) \subseteq Present /\ IsFiniteSet(Present) /\ IsFiniteSet(About(b))
           /\ Cardinality(About(b)) \in Nat /\ Cardinality(About(b)) <= Cardinality(Present)
           /\ Cardinality(Present) \in Nat
<1>1. About(b) \subseteq Present
    BY DEF About, Present, Absent, Idle
<1>2. IsFiniteSet(Present)
    BY ProcsAssumption, FS_Subset DEF Present
<1> QED BY <1>1, <1>2, FS_Subset, FS_CardinalityType

\* The places of a digest when the history has one event more.
LEMMA PlacesAppend ==
    ASSUME StoreInv, NEW d \in Bundles, db'.events = Append(db.events, d), NEW b
    PROVE  Places(b)' = IF b = d THEN Places(b) \cup {Len(db.events) + 1} ELSE Places(b)
<1>1. db.events \in Seq(Bundles)
    BY DEF StoreInv, StoreTypes, Tables
<1>2. /\ Len(db.events) \in Nat /\ DOMAIN db.events = 1..Len(db.events)
      /\ DOMAIN db'.events = 1..(Len(db.events) + 1)
      /\ \A i \in 1..Len(db.events) : db'.events[i] = db.events[i]
      /\ db'.events[Len(db.events) + 1] = d
    BY <1>1, AppendProperties
<1>3. ASSUME NEW i PROVE i \in Places(b)' <=> (i \in Places(b) \/ (b = d /\ i = Len(db.events) + 1))
    BY <1>2 DEF Places
<1> QED BY <1>3

TakesPart == \A q \in Procs : proc[q].pc = "absent" => proc[q] = Absent

LEMMA RepeatsStep ==
    ASSUME RepeatsInv, TakesPart, NEW p \in Procs, Step(p)
    PROVE  RepeatsInv' /\ TakesPart'
<1>1. StoreInv /\ StoreInv'
    BY StepKeeps DEF RepeatsInv
<1>2. /\ Others(p) /\ proc[p].pc # "absent" /\ proc'[p].pc # "absent"
      /\ Quiet(p) \/ Decides(p) \/ Records(p)
    BY <1>1, StepRecords
<1>3. Present' = Present /\ TakesPart'
    BY <1>1, <1>2, PresentKept DEF TakesPart
<1>4. ASSUME NEW b \in Bundles
      PROVE  IsFiniteSet(Places(b))' /\
             Cardinality(Places(b))' + Cardinality(About(b))' <= Cardinality(Present)
    <2>0. IsFiniteSet(Places(b)) /\ Cardinality(Places(b)) \in Nat
          /\ Cardinality(Places(b)) + Cardinality(About(b)) <= Cardinality(Present)
        BY FS_CardinalityType DEF RepeatsInv
    <2>a. /\ IsFiniteSet(About(b)) /\ Cardinality(About(b)) \in Nat
          /\ Cardinality(Present) \in Nat
        BY AboutPresent
    <2>b. /\ IsFiniteSet(About(b)') /\ Cardinality(About(b)') \in Nat
          /\ Cardinality(About(b)') <= Cardinality(Present')
        <3>1. About(b)' \subseteq Present' /\ Present' = Present
            BY <1>3 DEF About, Present, Absent, Idle
        <3>2. IsFiniteSet(Present)
            BY AboutPresent
        <3> QED BY <3>1, <3>2, FS_Subset, FS_CardinalityType
    <2>1. ASSUME db'.events = db.events, proc'[p].pc # "insert" \/ proc'[p].bundle # b
          PROVE  IsFiniteSet(Places(b)') /\ Cardinality(Places(b)') + Cardinality(About(b)') <= Cardinality(Present)
        <3>1. Places(b)' = Places(b)
            BY <2>1 DEF Places
        <3>2. About(b)' \subseteq About(b)
            BY <1>1, <1>2, <2>1, AboutChange
        <3>3. Cardinality(About(b)') <= Cardinality(About(b))
            BY <2>a, <3>2, FS_Subset
        <3> QED BY <2>0, <2>a, <2>b, <3>1, <3>3
    <2>2. CASE Quiet(p)
        BY <2>1, <2>2 DEF Quiet
    <2>3. CASE Decides(p)
        <3>1. CASE proc[p].bundle # b
            BY <2>1, <2>3, <3>1 DEF Decides
        <3>2. CASE proc[p].bundle = b
            <4>1. Places(b)' = {}
                BY <2>3, <3>2 DEF Decides, Recorded, Places
            <4>2. IsFiniteSet(Places(b)') /\ Cardinality(Places(b)') = 0
                BY <4>1, FS_EmptySet
            <4> QED BY <1>3, <2>b, <4>2
        <3> QED BY <3>1, <3>2
    <2>4. CASE Records(p)
        <3>1. Places(b)' = IF b = proc[p].bundle THEN Places(b) \cup {Len(db.events) + 1} ELSE Places(b)
            BY <1>1, <2>4, PlacesAppend DEF Records
        <3>2. About(b)' \subseteq About(b) \ {p}
            BY <1>1, <1>2, <2>4, AboutChange DEF Records
        <3>3. CASE b = proc[p].bundle
            <4>1. p \in About(b)
                BY <2>4, <3>3 DEF Records, About
            <4>2. IsFiniteSet(About(b) \ {p}) /\ Cardinality(About(b) \ {p}) = Cardinality(About(b)) - 1
                BY <2>a, <4>1, FS_RemoveElement
            <4>3. Cardinality(About(b)') <= Cardinality(About(b)) - 1
                BY <3>2, <4>2, FS_Subset
            <4>4. IsFiniteSet(Places(b)') /\ Cardinality(Places(b)') <= Cardinality(Places(b)) + 1
                  /\ Cardinality(Places(b)') \in Nat
                <5> DEFINE S == Places(b)
                           x == Len(db.events) + 1
                <5>1. Places(b)' = S \cup {x} /\ IsFiniteSet(S) /\ Cardinality(S) \in Nat
                    BY <2>0, <3>1, <3>3
                <5> HIDE DEF S, x
                <5>2. IsFiniteSet(S \cup {x})
                      /\ Cardinality(S \cup {x}) = IF x \in S THEN Cardinality(S) ELSE Cardinality(S) + 1
                    BY <5>1, FS_AddElement
                <5>3. IsFiniteSet(Places(b)') /\ Cardinality(Places(b)') <= Cardinality(S) + 1
                      /\ Cardinality(Places(b)') \in Nat
                    BY <5>1, <5>2
                <5> QED BY <5>3 DEF S
            <4> QED BY <2>0, <2>a, <2>b, <4>3, <4>4
        <3>4. CASE b # proc[p].bundle
            <4>1. Places(b)' = Places(b)
                BY <3>1, <3>4
            <4>2. Cardinality(About(b)') <= Cardinality(About(b))
                BY <2>a, <3>2, FS_Subset
            <4> QED BY <2>0, <2>a, <2>b, <4>1, <4>2
        <3> QED BY <3>3, <3>4
    <2> QED BY <1>2, <2>2, <2>3, <2>4
<1> QED BY <1>1, <1>3, <1>4 DEF RepeatsInv

LEMMA RepeatsEdit ==
    ASSUME RepeatsInv, TakesPart, NEW f \in Files, NEW c \in Contents, Edit(f, c)
    PROVE  RepeatsInv' /\ TakesPart'
<1>1. StoreInv /\ StoreInv'
    BY EditKeeps DEF RepeatsInv
<1>2. db' = db /\ \A q \in Procs : proc'[q] = Disturbed(q)
    BY DEF Edit
<1>3. Absent.pc = "absent"
    BY DEF Absent, Idle
<1>4. TakesPart' /\ Present' = Present
    BY <1>1, <1>2, <1>3, DisturbedFacts DEF TakesPart, Present
<1>5. \A b : Places(b)' = Places(b) /\ About(b)' = About(b)
    BY <1>1, <1>2, DisturbedFacts DEF Places, About
<1> QED BY <1>1, <1>4, <1>5 DEF RepeatsInv

LEMMA RepeatsInit == Init => RepeatsInv /\ TakesPart
<1> SUFFICES ASSUME Init PROVE RepeatsInv /\ TakesPart
    OBVIOUS
<1>1. \A q \in Procs : proc[q] \in {Idle, Absent} /\ proc[q].pc # "insert"
    BY DEF Init, Idle, Absent
<1>2. TakesPart
    BY <1>1 DEF TakesPart, Idle
<1>3. ASSUME NEW b \in Bundles
      PROVE  IsFiniteSet(Places(b)) /\ Cardinality(Places(b)) + Cardinality(About(b)) <= Cardinality(Present)
    <2>1. Places(b) = {} /\ About(b) = {}
        BY <1>1 DEF Init, Places, About
    <2> QED BY <2>1, AboutPresent, FS_EmptySet
<1> QED BY <1>2, <1>3, StoreInit DEF RepeatsInv

LEMMA RepeatsNext == RepeatsInv /\ TakesPart /\ [Next]_vars => RepeatsInv' /\ TakesPart'
<1> SUFFICES ASSUME RepeatsInv, TakesPart, [Next]_vars PROVE RepeatsInv' /\ TakesPart'
    OBVIOUS
<1>1. CASE UNCHANGED vars
    <2>1. StoreInv'
        BY StoreStep DEF RepeatsInv
    <2>2. TakesPart' /\ Present' = Present /\ \A b : Places(b)' = Places(b) /\ About(b)' = About(b)
        BY <1>1 DEF vars, TakesPart, Present, Places, About
    <2> QED BY <2>1, <2>2 DEF RepeatsInv
<1> QED BY <1>1, RepeatsStep, RepeatsEdit DEF Next, Contents

\* "Duplicate bundle digests are idempotent (no new row)", for any finite set of
\* processes: a digest is recorded at most as often as there are processes, although
\* the look-up and the insertion are not one transaction (trialstore.py 13,
\* _register_row).
THEOREM RepeatsAreBounded == Spec => []RepeatsBounded
<1>1. RepeatsInv => RepeatsBounded
    <2> SUFFICES ASSUME RepeatsInv, NEW b \in Bundles
                 PROVE  Cardinality({i \in DOMAIN db.events : db.events[i] = b}) <= Cardinality(Present)
        BY DEF RepeatsBounded
    <2>1. IsFiniteSet(Places(b)) /\ Cardinality(Places(b)) + Cardinality(About(b)) <= Cardinality(Present)
        BY DEF RepeatsInv
    <2>2. Cardinality(Places(b)) \in Nat /\ Cardinality(About(b)) \in Nat /\ Cardinality(Present) \in Nat
        BY <2>1, AboutPresent, FS_CardinalityType
    <2> QED BY <2>1, <2>2 DEF Places
<1> QED BY <1>1, RepeatsInit, RepeatsNext, PTL DEF Spec

-----------------------------------------------------------------------------
(* What a reindex that nobody disturbs knows.                              *)

\* A case of the history has a row.
RowsExist(t) == \A i \in DOMAIN t.events : t.trials[CaseOf[t.events[i]]].status # "none"

InMiddle == {"check", "insert", "mark"}
Standing(t, l) == {c \in Cases \ l.seen : t.trials[c].status \in {"valid", "invalid"}}

\* Every file is still listed, in hand, or its case seen; what was seen is on disk
\* and has a row in the tables t the process sees; and what is about to be swept is
\* exactly what was not seen.
Right(l, t) ==
    /\ l.pc \in InMiddle \cup {"load", "finish"} /\ l.op = "reindex"
    /\ \A f \in Files : f \in l.todo \/ Named(f) \subseteq l.seen \/ (l.pc \in InMiddle /\ f = l.file)
    /\ l.pc \in {"check", "insert"} => l.bundle = disk[l.file]
    /\ l.pc = "mark" => l.mark = disk[l.file]
    /\ l.seen \subseteq OnDisk
    /\ \A c \in l.seen : t.trials[c].status # "none"
    /\ l.pc = "finish" => l.todo = {} /\ l.stale = Standing(t, l)

SweepsRight(p) == Right(proc[p], View(p))

SweepInv ==
    /\ StoreInv
    /\ RowsExist(db) /\ RowsExist(draft)
    /\ \A p \in Procs : proc[p].calm => SweepsRight(p)

LEMMA BundleRows ==
    ASSUME NEW t \in Tables, NEW b \in Bundles, NEW f \in Files, RowsExist(t)
    PROVE  LET u == WithBundle(t, b, f)
           IN  /\ RowsExist(u) /\ u.trials[CaseOf[b]].status = "valid"
               /\ \A c \in Cases : c # CaseOf[b] => u.trials[c] = t.trials[c]
<1> DEFINE u == WithBundle(t, b, f)
<1>1. t.events \in Seq(Bundles) /\ t.trials \in [Cases -> Rows] /\ CaseOf \in [Bundles -> Cases]
    BY CaseOfAssumption DEF Tables
<1>2. /\ u.events = Append(t.events, b)
      /\ u.trials[CaseOf[b]].status = "valid"
      /\ \A c \in Cases : c # CaseOf[b] => u.trials[c] = t.trials[c]
    BY <1>1 DEF WithBundle
<1>3. DOMAIN u.events = 1..(Len(t.events) + 1) /\ u.events[Len(t.events) + 1] = b
      /\ \A i \in 1..Len(t.events) : u.events[i] = t.events[i] /\ i \in DOMAIN t.events
      /\ Len(t.events) \in Nat
    BY <1>1, <1>2, AppendProperties
<1> HIDE DEF u
<1>4. ASSUME NEW i \in DOMAIN u.events PROVE u.trials[CaseOf[u.events[i]]].status # "none"
    <2>1. CASE i = Len(t.events) + 1
        BY <1>2, <1>3, <2>1
    <2>2. CASE i # Len(t.events) + 1
        <3>1. i \in 1..Len(t.events)
            BY <1>3, <2>2
        <3>2. CaseOf[u.events[i]] \in Cases /\ t.trials[CaseOf[u.events[i]]].status # "none"
            BY <1>1, <1>3, <3>1 DEF RowsExist
        <3> QED BY <1>2, <3>2
    <2> QED BY <2>1, <2>2
<1> QED BY <1>2, <1>4 DEF RowsExist, u

LEMMA InvalidRows ==
    ASSUME NEW t \in Tables, NEW c \in Cases, NEW f \in Files, RowsExist(t)
    PROVE  LET u == WithInvalid(t, c, f)
           IN  /\ RowsExist(u) /\ u.trials[c].status = "invalid"
               /\ \A d \in Cases : d # c => u.trials[d] = t.trials[d]
<1> DEFINE u == WithInvalid(t, c, f)
           row == [status |-> "invalid", digest |-> None, file |-> f]
<1>1. t.trials \in [Cases -> Rows]
    BY DEF Tables
<1>2. u.events = t.events /\ u.trials = [t.trials EXCEPT ![c] = row] /\ row.status = "invalid"
    BY DEF WithInvalid, Tables
<1> HIDE DEF u, row
<1>3. u.trials[c].status = "invalid" /\ \A d \in Cases : d # c => u.trials[d] = t.trials[d]
    BY <1>1, <1>2
<1>4. \A d : u.trials[d].status = "none" => t.trials[d].status = "none"
    BY <1>1, <1>2, <1>3
<1> QED BY <1>2, <1>3, <1>4 DEF RowsExist, u

LEMMA MissingRows ==
    ASSUME NEW t \in Tables, NEW cs \in SUBSET Cases, RowsExist(t)
    PROVE  LET u == WithMissing(t, cs)
           IN  /\ RowsExist(u)
               /\ \A c \in cs : u.trials[c].status = "missing"
               /\ \A c \in Cases \ cs : u.trials[c] = t.trials[c]
<1> DEFINE u == WithMissing(t, cs)
           rows == [c \in Cases |-> IF c \in cs THEN [t.trials[c] EXCEPT !.status = "missing"]
                                    ELSE t.trials[c]]
<1>1. t.trials \in [Cases -> Rows] /\ t.events \in Seq(Bundles)
    BY DEF Tables
<1>2. u.events = t.events /\ u.trials = rows
    BY SMTT(20) DEF WithMissing, Tables
<1>3. \A c \in cs : [t.trials[c] EXCEPT !.status = "missing"].status = "missing"
    BY <1>1 DEF Rows
<1> HIDE DEF u
<1>4. /\ \A c \in cs : u.trials[c].status = "missing"
      /\ \A c \in Cases \ cs : u.trials[c] = t.trials[c]
    BY <1>2, <1>3
<1>5. \A i \in DOMAIN t.events : CaseOf[t.events[i]] \in Cases
    BY <1>1, CaseOfAssumption
<1>6. RowsExist(u)
    BY <1>2, <1>4, <1>5 DEF RowsExist
<1> QED BY <1>4, <1>6 DEF u

\* A bundle that is recorded has a row for its case.
LEMMA RecordedRow ==
    ASSUME NEW t \in Tables, RowsExist(t), NEW b, Recorded(t, b)
    PROVE  t.trials[CaseOf[b]].status # "none"
BY DEF RowsExist, Recorded

LEMMA ViewRows ==
    ASSUME SweepInv, NEW p \in Procs
    PROVE  View(p) \in Tables /\ Matches(View(p)) /\ RowsExist(View(p)) /\ View(p).events = db.events
BY ViewFacts DEF SweepInv, View

\* An undisturbed process sees what it saw, whatever p does.
LEMMA CalmOthers ==
    ASSUME StoreInv, NEW p \in Procs, Step(p), NEW q \in Procs \ {p}, proc'[q].calm
    PROVE  proc'[q] = proc[q] /\ View(q)' = View(q) /\ disk' = disk
<1>1. proc[q] \in Locals /\ p # Nobody /\ q # Nobody
    BY ProcsAssumption DEF StoreInv, StoreTypes
<1>2. ~Disturbed(q).calm
    BY <1>1, LocalFields DEF Disturbed
<1>3. ASSUME NEW l, Steps(p, l), UNCHANGED <<disk, db, writer, draft>>
      PROVE  proc'[q] = proc[q] /\ View(q)' = View(q) /\ disk' = disk
    BY <1>3, StepsFacts DEF View, Steps, StoreInv, StoreTypes
<1>4. ASSUME NEW l, CommitSteps(p, l) PROVE FALSE
    BY <1>2, <1>4 DEF CommitSteps
<1>5. ASSUME Leave(p) PROVE proc'[q] = proc[q] /\ View(q)' = View(q) /\ disk' = disk
    BY <1>1, <1>5 DEF Leave, View, StoreInv, StoreTypes
<1>6. ASSUME NEW t, NEW l, Change(p, t), MayWrite(p), Steps(p, l), disk' = disk
      PROVE  proc'[q] = proc[q] /\ View(q)' = View(q) /\ disk' = disk
    BY <1>1, <1>6 DEF Change, MayWrite, View, Steps, StoreInv, StoreTypes
<1>7. ASSUME NEW f \in Files, Register(p, f) PROVE proc'[q] = proc[q] /\ View(q)' = View(q) /\ disk' = disk
    BY <1>3, <1>7 DEF Register
<1>8. CASE LookUp(p) \/ CheckDigest(p) \/ Reindex(p) \/ Sweep(p)
    BY <1>3, <1>8 DEF LookUp, CheckDigest, Reindex, Sweep
<1>9. CASE LoadFile(p)
    BY <1>3, <1>9 DEF LoadFile
<1>10. CASE InsertRow(p)
    BY <1>4, <1>10 DEF InsertRow
<1>11. CASE Report(p) \/ LoadFails(p) \/ DatabaseLocked(p) \/ Killed(p)
    BY <1>5, <1>11 DEF Report, LoadFails, DatabaseLocked, Killed
<1>12. CASE MarkInvalid(p)
    BY <1>6, <1>12 DEF MarkInvalid
<1>13. CASE Finish(p)
    <2>1. CASE proc[p].stale # {} \/ writer = p
        BY <1>4, <1>13, <2>1 DEF Finish
    <2>2. CASE ~(proc[p].stale # {} \/ writer = p)
        BY <1>3, <1>13, <2>2 DEF Finish
    <2> QED BY <2>1, <2>2
<1> QED BY <1>7, <1>8, <1>9, <1>10, <1>11, <1>12, <1>13 DEF Step

\* Rows are never taken away.
LEMMA RowsKept ==
    ASSUME SweepInv, NEW p \in Procs, Step(p)
    PROVE  RowsExist(db)' /\ RowsExist(draft)'
<1> DEFINE l == proc[p]
<1>0. l \in Locals /\ View(p) \in Tables /\ RowsExist(View(p)) /\ RowsExist(db) /\ RowsExist(draft)
    BY ViewRows DEF SweepInv, StoreInv, StoreTypes
<1>1. ASSUME db' \in {db, draft, View(p)}, draft' \in {db, draft, View(p)}
      PROVE  RowsExist(db)' /\ RowsExist(draft)'
    BY <1>0, <1>1 DEF RowsExist
<1>2. CASE \/ \E f \in Files : Register(p, f)
           \/ LookUp(p) \/ CheckDigest(p) \/ Reindex(p) \/ Sweep(p) \/ LoadFile(p)
    BY <1>1, <1>2 DEF Register, LookUp, CheckDigest, Reindex, Sweep, LoadFile
<1>3. CASE Report(p) \/ LoadFails(p) \/ DatabaseLocked(p) \/ Killed(p)
    BY <1>1, <1>3 DEF Report, LoadFails, DatabaseLocked, Killed, Leave
<1>4. CASE InsertRow(p)
    <2> DEFINE t == WithBundle(View(p), l.bundle, l.file)
    <2>1. l.pc = "insert" /\ db' = t /\ draft' = t
        BY <1>4 DEF InsertRow, Commit
    <2>2. RowsExist(t)
        BY <1>0, <2>1, LocalFields, BundleRows DEF InHand
    <2> HIDE DEF t
    <2> QED BY <2>1, <2>2 DEF RowsExist
<1>5. CASE MarkInvalid(p)
    <2> DEFINE t == WithInvalid(View(p), l.mark, l.file)
    <2>1. l.pc = "mark" /\ db' = db /\ draft' = t
        BY <1>5 DEF MarkInvalid, Change
    <2>2. RowsExist(t)
        BY <1>0, <2>1, LocalFields, InvalidRows DEF InHand
    <2> HIDE DEF t
    <2> QED BY <1>0, <2>1, <2>2 DEF RowsExist
<1>6. CASE Finish(p)
    <2> DEFINE t == WithMissing(View(p), l.stale)
    <2>1. (db' = t /\ draft' = t) \/ UNCHANGED <<db, draft>>
        BY <1>6 DEF Finish, Commit
    <2>2. RowsExist(t)
        <3>1. l.stale \in SUBSET Cases
            BY <1>0, LocalFields
        <3> QED BY <1>0, <3>1, MissingRows
    <2> HIDE DEF t
    <2> QED BY <1>0, <2>1, <2>2 DEF RowsExist
<1> QED BY <1>2, <1>3, <1>4, <1>5, <1>6 DEF Step

-----------------------------------------------------------------------------
(* A reindex stays right on every step of its own.                         *)

LEMMA NamedFacts ==
    ASSUME StoreInv, NEW f \in Files
    PROVE  /\ disk[f] \in Bundles => Named(f) = {CaseOf[disk[f]]}
           /\ disk[f] \in Cases => Named(f) = {disk[f]}
           /\ disk[f] \notin Bundles \cup Cases => Named(f) = {}
           /\ Named(f) \subseteq OnDisk
BY ValuesAssumption DEF Named, OnDisk

LEMMA RightStays ==
    ASSUME NEW p \in Procs, NEW l, NEW t, Right(l, t), disk' = disk,
           proc'[p] = l, View(p)' = t
    PROVE  SweepsRight(p)'
BY DEF SweepsRight, Right, Named, OnDisk, Standing

LEMMA ReadingRight ==
    ASSUME StoreInv, NEW t,
           NEW l \in Locals, l.pc = "load", l.op = "reindex", l.seen = {},
           l.todo = {f \in Files : disk[f] # None}
    PROVE  Right(l, t)
<1>1. ASSUME NEW f \in Files, disk[f] = None PROVE Named(f) = {}
    BY <1>1, NamedFacts, ValuesAssumption DEF Other
<1> QED BY <1>1 DEF Right, InMiddle

\* The file in hand becomes the one whose case is seen.
LEMMA SeenRight ==
    ASSUME StoreInv, NEW l \in Locals, NEW t, Right(l, t), l.pc \in InMiddle,
           NEW c \in Cases, Named(l.file) = {c}, l.file \in Files,
           NEW u, u.trials[c].status # "none",
           \A d \in Cases : d # c => u.trials[d] = t.trials[d],
           NEW n, n.pc = "load", n.op = "reindex", n.todo = l.todo, n.seen = l.seen \cup {c}
    PROVE  Right(n, u)
<1>1. l.seen \subseteq Cases
    BY LocalFields
<1>2. n.seen \subseteq OnDisk
    BY NamedFacts DEF Right
<1>3. \A d \in n.seen : u.trials[d].status # "none"
    BY <1>1 DEF Right
<1>4. \A f \in Files : f \in n.todo \/ Named(f) \subseteq n.seen
    BY DEF Right
<1> QED BY <1>2, <1>3, <1>4 DEF Right, InMiddle

LEMMA AfterRowRight ==
    ASSUME StoreInv, NEW l \in Locals, NEW t, Right(l, t), l.pc \in {"check", "insert"},
           NEW u, u.trials[CaseOf[l.bundle]].status # "none",
           \A d \in Cases : d # CaseOf[l.bundle] => u.trials[d] = t.trials[d]
    PROVE  Right(AfterRow(l), u)
<1> DEFINE c == CaseOf[l.bundle]
           n == AfterRow(l)
<1>1. l.bundle \in Bundles /\ l.file \in Files /\ c \in Cases
    BY LocalFields, CaseOfAssumption DEF InHand
<1>2. Named(l.file) = {c}
    BY <1>1, NamedFacts DEF Right
<1>3. n.pc = "load" /\ n.op = "reindex" /\ n.todo = l.todo /\ n.seen = l.seen \cup {c}
    <2>1. l.op = "reindex" /\ n = [l EXCEPT !.pc = "load", !.seen = l.seen \cup {c}]
        BY DEF Right, AfterRow
    <2> HIDE DEF n, c
    <2> QED BY <2>1, LocalFields
<1>4. u.trials[c].status # "none" /\ \A d \in Cases : d # c => u.trials[d] = t.trials[d]
    OBVIOUS
<1>5. l.pc \in InMiddle
    BY DEF InMiddle
<1> HIDE DEF n, c
<1>6. Right(n, u)
    BY <1>1, <1>2, <1>3, <1>4, <1>5, SeenRight
<1> QED BY <1>6 DEF n

\* The next file of the listing is in hand, or names no case.
LEMMA LoadedRight ==
    ASSUME StoreInv, NEW l \in Locals, NEW t, Right(l, t), l.pc = "load",
           NEW f \in l.todo, NEW n, n.op = l.op, n.todo = l.todo \ {f}, n.file = f, n.seen = l.seen,
           \/ n.pc = "check" /\ n.bundle = disk[f]
           \/ n.pc = "mark" /\ n.mark = disk[f]
           \/ n.pc = "load" /\ Named(f) = {}
    PROVE  Right(n, t)
<1>1. l.todo \subseteq Files
    BY LocalFields
<1>2. \A g \in Files : g \in n.todo \/ Named(g) \subseteq n.seen \/ (n.pc \in InMiddle /\ g = n.file)
    BY DEF Right, InMiddle
<1> QED BY <1>1, <1>2 DEF Right, InMiddle

LEMMA OwnStepRight ==
    ASSUME SweepInv, NEW p \in Procs, Step(p), proc'[p].calm
    PROVE  SweepsRight(p)' /\ disk' = disk
<1> DEFINE l == proc[p]
<1>0. StoreInv /\ l \in Locals /\ p # Nobody
    BY ProcsAssumption DEF SweepInv, StoreInv, StoreTypes
<1>v. View(p) \in Tables /\ RowsExist(View(p))
    BY ViewRows
<1>r. l.calm => Right(l, View(p))
    BY DEF SweepInv, SweepsRight
<1>i. ~Idle.calm
    BY DEF Idle
<1>s. ASSUME NEW n, Steps(p, n), UNCHANGED <<disk, edits, db, writer, draft>>
      PROVE  proc'[p] = n /\ View(p)' = View(p) /\ disk' = disk
    BY <1>0, <1>s, StepsFacts DEF View
<1>t. ASSUME NEW n, Steps(p, n), UNCHANGED <<disk, edits, db, writer, draft>>, Right(n, View(p))
      PROVE  SweepsRight(p)' /\ disk' = disk
    BY <1>s, <1>t, RightStays
<1>1. ASSUME NEW f \in Files, Register(p, f) PROVE FALSE
    <2> DEFINE n == [Idle EXCEPT !.pc = "lookup", !.op = "register", !.bundle = disk[f], !.file = f]
    <2>1. ~n.calm
        BY DEF Idle
    <2>2. Steps(p, n) /\ UNCHANGED <<disk, edits, db, writer, draft>>
        BY <1>1 DEF Register
    <2> HIDE DEF n
    <2> QED BY <1>s, <2>1, <2>2
<1>2. CASE LookUp(p)
    <2> DEFINE n == [l EXCEPT !.pc = "check"]
    <2>1. l.pc = "lookup" /\ Steps(p, IF Recorded(View(p), l.bundle) THEN Idle ELSE n)
          /\ UNCHANGED <<disk, edits, db, writer, draft>>
        BY <1>2 DEF LookUp
    <2>2. n.calm = l.calm /\ ~l.calm
        BY <1>0, <1>r, <2>1, LocalFields DEF Right, InMiddle
    <2> HIDE DEF n
    <2> QED BY <1>i, <1>s, <2>1, <2>2
<1>3. CASE CheckDigest(p)
    <2> DEFINE n == [l EXCEPT !.pc = "insert"]
    <2>1. l.pc = "check" /\ Steps(p, IF Recorded(View(p), l.bundle) THEN AfterRow(l) ELSE n)
          /\ UNCHANGED <<disk, edits, db, writer, draft>>
        BY <1>3 DEF CheckDigest
    <2>2. CASE Recorded(View(p), l.bundle)
        <3>1. l.calm
            <4>1. AfterRow(l).calm = l.calm
                BY <1>0, LocalFields DEF AfterRow
            <4> QED BY <1>s, <2>1, <2>2, <4>1
        <3>2. Right(AfterRow(l), View(p))
            <4>1. View(p).trials[CaseOf[l.bundle]].status # "none"
                BY <1>v, <2>2, RecordedRow
            <4> HIDE DEF l
            <4> QED BY <1>0, <1>r, <2>1, <3>1, <4>1, AfterRowRight
        <3> HIDE DEF l
        <3> QED BY <1>t, <2>1, <2>2, <3>2
    <2>3. CASE ~Recorded(View(p), l.bundle)
        <3>1. n.calm = l.calm /\ n.pc = "insert" /\ n.op = l.op /\ n.todo = l.todo /\ n.seen = l.seen
              /\ n.file = l.file /\ n.bundle = l.bundle
            BY <1>0, LocalFields
        <3> HIDE DEF n
        <3>2. Right(l, View(p))
            BY <1>r, <1>s, <2>1, <2>3, <3>1
        <3>3. Right(n, View(p))
            BY <2>1, <3>1, <3>2 DEF Right, InMiddle
        <3> QED BY <1>t, <2>1, <2>3, <3>3
    <2> QED BY <2>2, <2>3
<1>4. CASE InsertRow(p)
    <2> DEFINE t == WithBundle(View(p), l.bundle, l.file)
    <2>1. l.pc = "insert" /\ disk' = disk /\ writer' = Nobody /\ db' = t /\ proc'[p] = AfterRow(l)
        BY <1>0, <1>4, CommitFacts DEF InsertRow, Commit, CommitSteps, StoreInv, StoreTypes
    <2>2. l.bundle \in Bundles /\ l.file \in Files
        BY <1>0, <2>1, LocalFields DEF InHand
    <2>3. t.trials[CaseOf[l.bundle]].status # "none"
          /\ \A d \in Cases : d # CaseOf[l.bundle] => t.trials[d] = View(p).trials[d]
        BY <1>v, <2>2, BundleRows
    <2>4. l.calm
        <3>1. AfterRow(l).calm = l.calm
            BY <1>0, LocalFields DEF AfterRow
        <3> QED BY <2>1, <3>1
    <2>5. View(p)' = t
        BY <1>0, <2>1 DEF View
    <2>6. Right(AfterRow(l), t)
        <3> HIDE DEF l, t
        <3> QED BY <1>0, <1>r, <2>1, <2>3, <2>4, AfterRowRight
    <2> HIDE DEF l, t
    <2> QED BY <2>1, <2>5, <2>6, RightStays
<1>5. CASE Reindex(p)
    <2> DEFINE n == [Idle EXCEPT !.pc = "load", !.op = "reindex", !.calm = TRUE,
                                 !.todo = {f \in Files : disk[f] # None}]
    <2>1. n \in Locals /\ n.pc = "load" /\ n.op = "reindex" /\ n.seen = {}
          /\ n.todo = {f \in Files : disk[f] # None}
        BY DEF Idle, Locals, InHand, Steppers
    <2>2. Steps(p, n) /\ UNCHANGED <<disk, edits, db, writer, draft>>
        BY <1>5 DEF Reindex
    <2> HIDE DEF n
    <2> QED BY <1>0, <1>t, <2>1, <2>2, ReadingRight
<1>6. CASE LoadFile(p)
    <2> DEFINE f == First(l.todo)
               next == [l EXCEPT !.todo = l.todo \ {f}, !.file = f]
               checks == [next EXCEPT !.pc = "check", !.bundle = disk[f]]
               marks == [next EXCEPT !.pc = "mark", !.mark = disk[f]]
    <2>1. /\ l.pc = "load" /\ l.todo # {}
          /\ \/ disk[f] \in Bundles /\ Steps(p, checks)
             \/ disk[f] \in Cases /\ Steps(p, marks)
             \/ disk[f] = Foreign /\ Steps(p, next)
          /\ UNCHANGED <<disk, edits, db, writer, draft>>
        BY <1>6 DEF LoadFile
    <2>2. f \in l.todo /\ l.todo \subseteq Files
        <3>1. l.todo \subseteq Files
            BY <1>0, LocalFields
        <3>2. \E m \in l.todo : \A g \in l.todo : m <= g
            BY <2>1, <3>1, FilesAssumption, LeastFile
        <3> QED BY <3>1, <3>2 DEF First
    <2> HIDE DEF f
    <2>3. /\ next.op = l.op /\ next.todo = l.todo \ {f} /\ next.file = f /\ next.seen = l.seen
          /\ next.pc = "load" /\ next.calm = l.calm
        BY <1>0, <2>1, LocalFields
    <2>4. /\ checks.op = l.op /\ checks.todo = l.todo \ {f} /\ checks.file = f /\ checks.seen = l.seen
          /\ checks.pc = "check" /\ checks.calm = l.calm /\ checks.bundle = disk[f]
        BY <1>0, <2>1, LocalFields
    <2>5. /\ marks.op = l.op /\ marks.todo = l.todo \ {f} /\ marks.file = f /\ marks.seen = l.seen
          /\ marks.pc = "mark" /\ marks.calm = l.calm /\ marks.mark = disk[f]
        BY <1>0, <2>1, LocalFields
    <2> HIDE DEF next, checks, marks
    <2>6. l.calm /\ Right(l, View(p))
        BY <1>r, <1>s, <2>1, <2>3, <2>4, <2>5
    <2>7. disk[f] = Foreign => Named(f) = {}
        BY <1>0, <2>2, NamedFacts, ValuesAssumption DEF Other
    <2> HIDE DEF l
    <2>8. CASE disk[f] \in Bundles /\ Steps(p, checks)
        <3>1. Right(checks, View(p))
            BY <1>0, <2>1, <2>2, <2>4, <2>6, LoadedRight
        <3> QED BY <1>t, <2>1, <2>8, <3>1
    <2>9. CASE disk[f] \in Cases /\ Steps(p, marks)
        <3>1. Right(marks, View(p))
            BY <1>0, <2>1, <2>2, <2>5, <2>6, LoadedRight
        <3> QED BY <1>t, <2>1, <2>9, <3>1
    <2>10. CASE disk[f] = Foreign /\ Steps(p, next)
        <3>1. Right(next, View(p))
            BY <1>0, <2>1, <2>2, <2>3, <2>6, <2>7, <2>10, LoadedRight
        <3> QED BY <1>t, <2>1, <2>10, <3>1
    <2> QED BY <2>1, <2>8, <2>9, <2>10
<1>7. CASE Report(p) \/ LoadFails(p) \/ DatabaseLocked(p) \/ Killed(p)
    BY <1>0, <1>7, <1>i, LeaveFacts DEF Report, LoadFails, DatabaseLocked, Killed, Leave, StoreInv, StoreTypes
<1>8. CASE MarkInvalid(p)
    <2> DEFINE t == WithInvalid(View(p), l.mark, l.file)
               n == [l EXCEPT !.pc = "load", !.seen = l.seen \cup {l.mark}]
    <2>1. l.pc = "mark" /\ draft' = t /\ writer' = p /\ proc'[p] = n /\ disk' = disk
        BY <1>0, <1>8 DEF MarkInvalid, Change, Steps, StoreInv, StoreTypes
    <2>2. l.mark \in Cases /\ l.file \in Files
        BY <1>0, <2>1, LocalFields DEF InHand
    <2>3. t.trials[l.mark].status # "none" /\ \A d \in Cases : d # l.mark => t.trials[d] = View(p).trials[d]
        BY <1>v, <2>2, InvalidRows
    <2>4. n.pc = "load" /\ n.op = l.op /\ n.todo = l.todo /\ n.seen = l.seen \cup {l.mark} /\ n.calm = l.calm
        BY <1>0, LocalFields
    <2>5. View(p)' = t
        BY <2>1 DEF View
    <2> HIDE DEF t, n
    <2>6. Right(l, View(p))
        BY <1>r, <2>1, <2>4
    <2>7. Named(l.file) = {l.mark} /\ l.pc \in InMiddle /\ n.op = "reindex"
        BY <1>0, <2>1, <2>2, <2>4, <2>6, NamedFacts DEF Right, InMiddle
    <2> HIDE DEF l
    <2>8. Right(n, t)
        BY <1>0, <2>2, <2>3, <2>4, <2>6, <2>7, SeenRight
    <2> QED BY <2>1, <2>5, <2>8, RightStays
<1>9. CASE Sweep(p)
    <2> DEFINE n == [l EXCEPT !.pc = "finish", !.stale = Standing(View(p), l)]
    <2>1. l.pc = "load" /\ l.todo = {} /\ Steps(p, n) /\ UNCHANGED <<disk, edits, db, writer, draft>>
        BY <1>9 DEF Sweep, Standing
    <2>2. /\ n.pc = "finish" /\ n.op = l.op /\ n.todo = l.todo /\ n.seen = l.seen /\ n.calm = l.calm
          /\ n.stale = Standing(View(p), l)
        BY <1>0, LocalFields
    <2> HIDE DEF n
    <2>3. Right(l, View(p))
        BY <1>r, <1>s, <2>1, <2>2
    <2> HIDE DEF l
    <2>4. Standing(View(p), n) = Standing(View(p), l)
        BY <2>2 DEF Standing
    <2>5. Right(n, View(p))
        BY <2>1, <2>2, <2>3, <2>4 DEF Right, InMiddle
    <2> QED BY <1>t, <2>1, <2>5
<1>10. CASE Finish(p)
    <2>1. proc'[p] = Idle
        BY <1>0, <1>10, StepsFacts, CommitFacts DEF Finish, CommitSteps, Steps, StoreInv, StoreTypes
    <2> QED BY <1>i, <2>1
<1> QED BY <1>1, <1>2, <1>3, <1>4, <1>5, <1>6, <1>7, <1>8, <1>9, <1>10 DEF Step

LEMMA SweepStep ==
    ASSUME SweepInv, NEW p \in Procs, Step(p)
    PROVE  SweepInv'
<1>1. StoreInv /\ StoreInv' /\ RowsExist(db)' /\ RowsExist(draft)'
    BY StepKeeps, RowsKept DEF SweepInv
<1>2. ASSUME NEW q \in Procs, q # p, proc'[q].calm PROVE SweepsRight(q)'
    <2>1. proc'[q] = proc[q] /\ View(q)' = View(q) /\ disk' = disk
        BY <1>1, <1>2, CalmOthers
    <2>2. Right(proc[q], View(q))
        BY <1>2, <2>1 DEF SweepInv, SweepsRight
    <2> QED BY <2>1, <2>2, RightStays
<1>3. proc'[p].calm => SweepsRight(p)'
    BY OwnStepRight
<1> QED BY <1>1, <1>2, <1>3 DEF SweepInv

LEMMA SweepEdit ==
    ASSUME SweepInv, NEW f \in Files, NEW c \in Contents, Edit(f, c)
    PROVE  SweepInv'
<1>1. StoreInv /\ StoreInv'
    BY EditKeeps DEF SweepInv
<1>2. ASSUME NEW q \in Procs PROVE ~proc'[q].calm
    <2>1. proc[q] \in Locals
        BY <1>1 DEF StoreInv, StoreTypes
    <2>2. ~Disturbed(q).calm
        BY <2>1, LocalFields DEF Disturbed
    <2> QED BY <2>2 DEF Edit
<1>3. RowsExist(db)' /\ RowsExist(draft)'
    BY DEF Edit, SweepInv, RowsExist
<1> QED BY <1>1, <1>2, <1>3 DEF SweepInv

LEMMA SweepInit == Init => SweepInv
<1>1. Init => \A q \in Procs : ~proc[q].calm
    BY DEF Init, Idle, Absent
<1>2. Init => RowsExist(db) /\ RowsExist(draft)
    BY DEF Init, RowsExist
<1> QED BY <1>1, <1>2, StoreInit DEF SweepInv

LEMMA SweepNext == SweepInv /\ [Next]_vars => SweepInv'
<1> SUFFICES ASSUME SweepInv, [Next]_vars PROVE SweepInv'
    OBVIOUS
<1>1. CASE UNCHANGED vars
    <2>1. StoreInv'
        BY StoreStep DEF SweepInv
    <2>2. RowsExist(db)' /\ RowsExist(draft)'
        BY <1>1 DEF vars, SweepInv, RowsExist
    <2>3. ASSUME NEW q \in Procs, proc'[q].calm PROVE SweepsRight(q)'
        <3>1. Right(proc[q], View(q)) /\ proc'[q] = proc[q] /\ View(q)' = View(q) /\ disk' = disk
            BY <1>1, <2>3 DEF vars, SweepInv, SweepsRight, View
        <3> QED BY <3>1, RightStays
    <2> QED BY <2>1, <2>2, <2>3 DEF SweepInv
<1> QED BY <1>1, SweepStep, SweepEdit DEF Next, Contents

\* The last step of a reindex that was not disturbed.
LEMMA FinishSweeps ==
    ASSUME SweepInv, NEW p \in Procs, Finish(p), proc[p].calm, NEW c \in Cases
    PROVE  LET status == db'.trials[c].status
           IN  IF c \in OnDisk THEN status # "none" ELSE status \in {"none", "missing"}
<1> DEFINE l == proc[p]
           t == WithMissing(View(p), l.stale)
           status == db'.trials[c].status
<1>0. StoreInv /\ l \in Locals
    BY DEF SweepInv, StoreInv, StoreTypes
<1>1. View(p) \in Tables /\ RowsExist(View(p)) /\ View(p).trials[c].status \in {"none", "valid", "invalid", "missing"}
    BY ViewRows DEF Tables, Rows
<1>2. Right(l, View(p)) /\ l.pc = "finish"
    BY DEF SweepInv, SweepsRight, Finish
<1>3. l.stale \in SUBSET Cases /\ l.stale = Standing(View(p), l)
    BY <1>0, <1>2, LocalFields DEF Right
<1>4. /\ \A d \in l.stale : t.trials[d].status = "missing"
      /\ \A d \in Cases \ l.stale : t.trials[d] = View(p).trials[d]
    BY <1>1, <1>3, MissingRows
<1>5. status = IF c \in l.stale THEN "missing" ELSE View(p).trials[c].status
    <2>1. CASE l.stale # {} \/ writer = p
        <3>1. db' = t
            BY <2>1 DEF Finish, Commit
        <3> HIDE DEF t
        <3> QED BY <1>4, <3>1
    <2>2. CASE ~(l.stale # {} \/ writer = p)
        <3>1. db' = View(p) /\ l.stale = {}
            BY <2>2 DEF Finish, View
        <3> QED BY <3>1
    <2> QED BY <2>1, <2>2
<1> HIDE DEF t, status
<1>6. OnDisk = l.seen
    <2>1. OnDisk \subseteq l.seen
        BY <1>2 DEF OnDisk, Right, InMiddle
    <2> QED BY <1>2, <2>1 DEF Right
<1>7. CASE c \in OnDisk
    BY <1>2, <1>3, <1>5, <1>6, <1>7 DEF Right, Standing, status
<1>8. CASE c \notin OnDisk
    BY <1>1, <1>3, <1>5, <1>6, <1>8 DEF Standing, status
<1> QED BY <1>7, <1>8

\* A reindex that nobody disturbs leaves no row valid or invalid whose case no
\* file names, and no case without a row that a file names, however many
\* processes, files and cases there are (trialstore.py, TrialStore.reindex).
THEOREM ReindexIsExact == Spec => ReindexSweeps
<1>1. SweepInv /\ [Next]_vars =>
      [\A p \in Procs : Finish(p) /\ proc[p].calm =>
          \A c \in Cases :
             LET status == db'.trials[c].status
             IN  IF c \in OnDisk THEN status # "none"
                 ELSE status \in {"none", "missing"}]_vars
    BY FinishSweeps
<1> QED BY <1>1, SweepInit, SweepNext, PTL DEF Spec, ReindexSweeps

===============================================================================
