------------------------------ MODULE TrialStore ------------------------------
(***************************************************************************)
(* The trial registry (trialstore.py): processes that call register_bundle *)
(* and reindex on one SQLite file in one data directory, whose *.json      *)
(* files anybody may write or remove.  A bundle is named by its digest,    *)
(* which covers its content.  A statement of Python's sqlite3 reads the    *)
(* committed database, or the connection's own open transaction; the first *)
(* INSERT or UPDATE opens one, and only one connection can hold one.       *)
(***************************************************************************)
EXTENDS Integers, Sequences, FiniteSets, SequencesExt

CONSTANTS
    Procs,       \* processes (or threads) with a TrialStore of their own
    Nobody,      \* no process
    Cases,       \* case ids
    Bundles,     \* valid bundles, each its digest
    CaseOf,      \* the case id inside a bundle
    Files,       \* file names, numbers so that sorted() has an order
    None,        \* SQL NULL
    Garbage,     \* a file that is not strict JSON
    Foreign,     \* strict JSON of another schema, or without a case id
    MaxEdits     \* bound of the exploration: how often the data directory
                 \* changes, by the number of processes that take part

\* What a file may hold instead of a bundle with an identity.
Other == {None, Garbage, Foreign}

ASSUME ProcsAssumption == IsFiniteSet(Procs) /\ Nobody \notin Procs
ASSUME CaseOfAssumption == CaseOf \in [Bundles -> Cases]
ASSUME FilesAssumption == Files \subseteq Nat
ASSUME ValuesAssumption ==
    /\ None \notin Bundles \cup Files
    /\ Bundles \cap (Cases \cup Other) = {}
    /\ Cases \cap Other = {} /\ None \notin {Garbage, Foreign}
ASSUME BoundAssumption == MaxEdits \in [1..Cardinality(Procs) -> Nat]

VARIABLES
    disk,     \* what each file holds; a case id stands for a bundle of that
              \* case that fails verify_bundle, None for no file
    edits,    \* changes of the directory so far
    db,       \* the committed tables: trial_events (digests) and trials
    writer,   \* the process whose transaction is open
    draft,    \* that transaction's image of the tables
    proc      \* the local variables of the call each process is in

vars == <<disk, edits, db, writer, draft, proc>>

-----------------------------------------------------------------------------
(* Values.                                                                 *)

NoRow == [status |-> "none", digest |-> None, file |-> None]

\* The local variables of a call: the bundle or the case in hand and its file,
\* the files still to load, the cases seen, the rows to sweep; calm says that
\* nobody else changed the files or the tables since the reindex started.
Idle ==
    [pc |-> "idle", op |-> "none", bundle |-> None, file |-> None,
     mark |-> None, todo |-> {}, seen |-> {}, stale |-> {}, calm |-> FALSE]

\* A process that never opens the store.
Absent == [Idle EXCEPT !.pc = "absent"]
Present == {p \in Procs : proc[p] # Absent}

Init ==
    /\ disk \in [Files -> Bundles \cup {None}]
    /\ edits = 0
    /\ db = [events |-> <<>>, trials |-> [c \in Cases |-> NoRow]]
    /\ writer = Nobody /\ draft = db
    /\ \E S \in SUBSET Procs : proc = [p \in Procs |-> IF p \in S THEN Idle ELSE Absent]

-----------------------------------------------------------------------------
(* Statements.                                                             *)

\* What a SELECT of process p sees.
View(p) == IF writer = p THEN draft ELSE db

Recorded(t, b) == \E i \in DOMAIN t.events : t.events[i] = b

\* Variants with a fault, for the mutation runs: an existing row of the case is
\* kept (DO NOTHING); the event of an earlier bundle of the case is replaced.
WithBundle_keeps_row(t, b, f) ==
    [events |-> Append(t.events, b),
     trials |-> [t.trials EXCEPT ![CaseOf[b]] =
                   IF @.status = "none"
                   THEN [status |-> "valid", digest |-> b, file |-> f] ELSE @]]

WithBundle_rewrites(t, b, f) ==
    [events |-> Append(SelectSeq(t.events, LAMBDA d : CaseOf[d] # CaseOf[b]), b),
     trials |-> [t.trials EXCEPT ![CaseOf[b]] =
                   [status |-> "valid", digest |-> b, file |-> f]]]

\* The two INSERTs of _register_row: an event, and the row of the case.
WithBundle(t, b, f) ==
    [events |-> Append(t.events, b),
     trials |-> [t.trials EXCEPT ![CaseOf[b]] =
                   [status |-> "valid", digest |-> b, file |-> f]]]

\* The upsert of reindex for a bundle that fails verify_bundle.
WithInvalid(t, c, f) ==
    [t EXCEPT !.trials[c] = [status |-> "invalid", digest |-> None, file |-> f]]

WithMissing(t, cs) ==
    [t EXCEPT !.trials = [c \in Cases |-> IF c \in cs
                            THEN [t.trials[c] EXCEPT !.status = "missing"]
                            ELSE t.trials[c]]]

MayWrite(p) == writer \in {Nobody, p}

\* Statements that change the tables and end the transaction.
Commit(t) == db' = t /\ draft' = t /\ writer' = Nobody

\* A statement that changes them and leaves the transaction open.
Change(p, t) == draft' = t /\ writer' = p /\ UNCHANGED db

\* The call is over and its connection closed: an open transaction is rolled back.
Leave(p) ==
    /\ proc' = [proc EXCEPT ![p] = Idle]
    /\ IF writer = p THEN writer' = Nobody /\ draft' = db
                     ELSE UNCHANGED <<writer, draft>>
    /\ UNCHANGED <<disk, edits, db>>

Steps(p, l) == proc' = [proc EXCEPT ![p] = l]

Disturbed(q) == [proc[q] EXCEPT !.calm = FALSE]

\* A step that commits disturbs the others.
CommitSteps(p, l) == proc' = [q \in Procs |-> IF q = p THEN l ELSE Disturbed(q)]

-----------------------------------------------------------------------------
(* _register_row, shared by both operations.                               *)

\* Where register_bundle and the loop of reindex go on after it.
AfterRow(l) == IF l.op = "register" THEN [l EXCEPT !.pc = "report"]
               ELSE [l EXCEPT !.pc = "load", !.seen = @ \cup {CaseOf[l.bundle]}]

\* Variant with a fault: the digest is not looked up.
CheckDigest_unchecked(p) ==
    /\ proc[p].pc = "check"
    /\ Steps(p, [proc[p] EXCEPT !.pc = "insert"])
    /\ UNCHANGED <<disk, edits, db, writer, draft>>

CheckDigest(p) ==
    LET l == proc[p] IN
    /\ l.pc = "check"
    /\ Steps(p, IF Recorded(View(p), l.bundle) THEN AfterRow(l)
                ELSE [l EXCEPT !.pc = "insert"])
    /\ UNCHANGED <<disk, edits, db, writer, draft>>

\* INSERT, INSERT, commit: from the first one on nobody else can write.
InsertRow(p) ==
    LET l == proc[p] IN
    /\ l.pc = "insert" /\ MayWrite(p)
    /\ Commit(WithBundle(View(p), l.bundle, l.file))
    /\ CommitSteps(p, AfterRow(l))
    /\ UNCHANGED <<disk, edits>>

-----------------------------------------------------------------------------
(* register_bundle.                                                        *)

\* The bundle is loaded and verified; one that is not valid raises.
Register(p, f) ==
    /\ proc[p].pc = "idle" /\ disk[f] \in Bundles
    /\ Steps(p, [Idle EXCEPT !.pc = "lookup", !.op = "register",
                                     !.bundle = disk[f], !.file = f])
    /\ UNCHANGED <<disk, edits, db, writer, draft>>

LookUp(p) ==
    LET l == proc[p] IN
    /\ l.pc = "lookup"
    /\ Steps(p, IF Recorded(View(p), l.bundle) THEN Idle
                ELSE [l EXCEPT !.pc = "check"])
    /\ UNCHANGED <<disk, edits, db, writer, draft>>

\* The newest event of the case is read back and returned as "registered".
Report(p) ==
    /\ proc[p].pc = "report"
    /\ Leave(p)

-----------------------------------------------------------------------------
(* reindex.                                                                *)

Reindex(p) ==
    /\ proc[p].pc = "idle"
    /\ Steps(p, [Idle EXCEPT !.pc = "load", !.op = "reindex", !.calm = TRUE,
                                     !.todo = {f \in Files : disk[f] # None}])
    /\ UNCHANGED <<disk, edits, db, writer, draft>>

First(S) == CHOOSE f \in S : \A g \in S : f <= g

\* The next file of the listing is loaded and verified.
LoadFile(p) ==
    LET l == proc[p]
        f == First(l.todo)
        next == [l EXCEPT !.todo = @ \ {f}, !.file = f]
    IN  /\ l.pc = "load" /\ l.todo # {}
        /\ \/ /\ disk[f] \in Bundles
              /\ Steps(p, [next EXCEPT !.pc = "check", !.bundle = disk[f]])
           \/ /\ disk[f] \in Cases
              /\ Steps(p, [next EXCEPT !.pc = "mark", !.mark = disk[f]])
           \/ /\ disk[f] = Foreign
              /\ Steps(p, next)
        /\ UNCHANGED <<disk, edits, db, writer, draft>>

\* A file that is gone or is not strict JSON: load_bundle raises UsageError,
\* and the except clause, whose UsageError is a local name the function never
\* bound, raises UnboundLocalError.
LoadFails(p) ==
    LET l == proc[p] IN
    /\ l.pc = "load" /\ l.todo # {}
    /\ disk[First(l.todo)] \in {None, Garbage}
    /\ Leave(p)

MarkInvalid(p) ==
    LET l == proc[p] IN
    /\ l.pc = "mark" /\ MayWrite(p)
    /\ Change(p, WithInvalid(View(p), l.mark, l.file))
    /\ Steps(p, [l EXCEPT !.pc = "load", !.seen = @ \cup {l.mark}])
    /\ UNCHANGED <<disk, edits>>

\* Variant with a fault: only the cases seen as valid before are swept.
Sweep_valid_only(p) ==
    LET l == proc[p] IN
    /\ l.pc = "load" /\ l.todo = {}
    /\ Steps(p, [l EXCEPT !.pc = "finish",
         !.stale = {c \in Cases \ l.seen : View(p).trials[c].status = "valid"}])
    /\ UNCHANGED <<disk, edits, db, writer, draft>>

\* The rows of cases that the listing did not show.
Sweep(p) ==
    LET l == proc[p] IN
    /\ l.pc = "load" /\ l.todo = {}
    /\ Steps(p, [l EXCEPT !.pc = "finish",
         !.stale = {c \in Cases \ l.seen :
                      View(p).trials[c].status \in {"valid", "invalid"}}])
    /\ UNCHANGED <<disk, edits, db, writer, draft>>

\* They become missing, and everything still open is committed.
Finish(p) ==
    LET l == proc[p] IN
    /\ l.pc = "finish"
    /\ l.stale # {} => MayWrite(p)
    /\ IF l.stale # {} \/ writer = p
       THEN /\ Commit(WithMissing(View(p), l.stale))
            /\ CommitSteps(p, Idle)
       ELSE /\ UNCHANGED <<db, writer, draft>>
            /\ Steps(p, Idle)
    /\ UNCHANGED <<disk, edits>>

-----------------------------------------------------------------------------
(* Failures and the environment.                                           *)

\* sqlite3 waits five seconds for another connection's transaction.
DatabaseLocked(p) ==
    /\ proc[p].pc \in {"insert", "mark", "finish"}
    /\ ~MayWrite(p)
    /\ Leave(p)

Killed(p) ==
    /\ proc[p].pc \notin {"idle", "absent"}
    /\ Leave(p)

\* Somebody writes, corrupts or removes a file.
Edit(f, c) ==
    /\ Present # {} /\ edits < MaxEdits[Cardinality(Present)]
    /\ disk[f] # c
    /\ disk' = [disk EXCEPT ![f] = c]
    /\ edits' = edits + 1
    /\ proc' = [p \in Procs |-> Disturbed(p)]
    /\ UNCHANGED <<db, writer, draft>>

Step(p) ==
    \/ \E f \in Files : Register(p, f)
    \/ LookUp(p)
    \/ CheckDigest(p)
    \/ InsertRow(p)
    \/ Report(p)
    \/ Reindex(p)
    \/ LoadFile(p)
    \/ LoadFails(p)
    \/ MarkInvalid(p)
    \/ Sweep(p)
    \/ Finish(p)
    \/ DatabaseLocked(p)
    \/ Killed(p)

Next ==
    \/ \E p \in Procs : Step(p)
    \/ \E f \in Files, c \in Bundles \cup Cases \cup Other : Edit(f, c)

Spec == Init /\ [][Next]_vars

-----------------------------------------------------------------------------
(* Properties.                                                             *)

\* "History is append-only": whatever processes do at once, and wherever one is
\* killed, the committed events only grow.
AppendOnly == [][IsPrefix(db.events, db'.events)]_vars

\* Digest b is the newest of case c in the history.
Newest(t, c, b) ==
    \E i \in DOMAIN t.events :
        /\ t.events[i] = b /\ CaseOf[b] = c
        /\ \A k \in DOMAIN t.events : k > i => CaseOf[t.events[k]] # c

\* The state table never contradicts the history: a row that names a digest
\* names the newest one of its case, whoever wrote last, and a valid row names
\* one.  Every reader of the committed tables sees it so, between any two
\* statements of any process and after any kill.
RowMatchesHistory ==
    \A c \in Cases :
        LET row == db.trials[c] IN
        /\ row.status = "valid" => row.digest # None
        /\ row.digest # None => Newest(db, c, row.digest)

\* "Duplicate bundle digests are idempotent (no new row)", trialstore.py:13.
\* The look-up and the insertion are not one transaction, so what holds is that
\* no process records a digest twice: a store that one process writes has it
\* once, one that n processes share at most n times, kills and retries included.
RepeatsBounded ==
    \A b \in Bundles :
        Cardinality({i \in DOMAIN db.events : db.events[i] = b}) <= Cardinality(Present)

\* The case a file is evidence of, if any.
Named(f) == CASE disk[f] \in Bundles -> {CaseOf[disk[f]]}
              [] disk[f] \in Cases   -> {disk[f]}
              [] OTHER               -> {}

OnDisk == UNION {Named(f) : f \in Files}

\* A reindex that ran to its end while nobody else changed the directory or the
\* tables has swept exactly: a case that no file names any more is not left
\* valid or invalid, whatever its row went through before, and a case that a
\* file names has a row.
ReindexSweeps ==
    [][\A p \in Procs : Finish(p) /\ proc[p].calm =>
          \A c \in Cases :
             LET status == db'.trials[c].status
             IN  IF c \in OnDisk THEN status # "none"
                 ELSE status \in {"none", "missing"}]_vars

=============================================================================
