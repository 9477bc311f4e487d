----------------------------- MODULE ExperimentDir -----------------------------
(***************************************************************************)
(* The directory an A/B experiment is published in (ab_experiment.py       *)
(* write_ab_experiment, cli.py _cmd_bench_ab) and the verification that    *)
(* reads it back (load_and_verify_ab_experiment): several processes        *)
(* publish to one destination, each file operation is a step of its own,   *)
(* any of them may fail or be the last of its process, and an operator     *)
(* changes the directory in between.                                       *)
(***************************************************************************)
EXTENDS Integers, FiniteSets

CONSTANTS
    Writers,       \* processes that run and publish an experiment, one each
    Measured,      \* the writers whose experiment has statistics
    MaxChanges     \* bound of the exploration: changes by the operator

ASSUME MeasuredAssumption == Measured \subseteq Writers
ASSUME WritersAssumption == Writers \cap {"none", "absent", "broken", "edited"} = {}

VARIABLES
    dest,       \* the published directory: its files, or NoDirectory
    temp,       \* the temporary directory of each writer
    writer,     \* where each writer is
    reader,     \* the verification: where it is and what it has read
    changes     \* changes by the operator so far

dirVars == <<dest, temp, writer, reader, changes>>

\* A directory is a function from the names in it to contents; a content is the
\* experiment it belongs to, or "broken".
Names == {"run", "statistics", "experiment", "extra"}
NoDirectory == [n \in {"absent"} |-> "absent"]
Empty == [n \in {} |-> "broken"]

FilesOf(w) == {"run", "experiment"} \cup IF w \in Measured THEN {"statistics"} ELSE {}
Whole(w) == [n \in FilesOf(w) |-> w]
With(dir, name, content) ==
    [n \in DOMAIN dir \cup {name} |-> IF n = name THEN content ELSE dir[n]]
Without(dir, name) == [n \in DOMAIN dir \ {name} |-> dir[n]]

NotReading == [pc |-> "idle", of |-> "none", got |-> Empty]

DirInit ==
    /\ dest = NoDirectory
    /\ temp = [w \in Writers |-> NoDirectory]
    /\ writer = [w \in Writers |-> "starting"]
    /\ reader = NotReading
    /\ changes = 0

-----------------------------------------------------------------------------
(* The writer.                                                             *)

Moves(w, pc) == writer' = [writer EXCEPT ![w] = pc]

\* _cmd_bench_ab looks at the destination before it measures, and
\* write_ab_experiment again before it writes.
LookForDestination(w) ==
    /\ writer[w] \in {"starting", "measured"}
    /\ Moves(w, IF dest # NoDirectory THEN "refused"
                ELSE IF writer[w] = "starting" THEN "measured" ELSE "making")
    /\ UNCHANGED <<dest, temp, reader, changes>>

\* mkdtemp, whose error is not caught.
MakeTemp(w) ==
    /\ writer[w] = "making"
    /\ \/ temp' = [temp EXCEPT ![w] = Empty] /\ Moves(w, "writing")
       \/ Moves(w, "failed") /\ UNCHANGED temp
    /\ UNCHANGED <<dest, reader, changes>>

\* The runs, then the statistics if there are any, then the manifest.
Order == <<"run", "statistics", "experiment">>
NextFile(w) ==
    Order[CHOOSE i \in 1..3 :
            /\ Order[i] \in FilesOf(w) \ DOMAIN temp[w]
            /\ \A j \in 1..(i - 1) : Order[j] \notin FilesOf(w) \ DOMAIN temp[w]]

\* A write that fails has left a part of the file.
WriteFile(w) ==
    /\ writer[w] = "writing" /\ FilesOf(w) \ DOMAIN temp[w] # {}
    /\ \E content \in {w, "broken"} :
         /\ temp' = [temp EXCEPT ![w] = With(temp[w], NextFile(w), content)]
         /\ IF content = w THEN UNCHANGED writer ELSE Moves(w, "cleaning")
    /\ UNCHANGED <<dest, reader, changes>>

Written(w) == FilesOf(w) \subseteq DOMAIN temp[w]

\* Variant with a fault, for the mutation runs: what is there is replaced.
CanTake_any == TRUE

\* A directory can be renamed over nothing, and over an empty directory.
CanTake == dest \in {NoDirectory, Empty}

\* temp.rename(destination)
Publish(w) ==
    /\ writer[w] = "writing" /\ Written(w)
    /\ \/ /\ CanTake
          /\ dest' = temp[w]
          /\ temp' = [temp EXCEPT ![w] = NoDirectory]
          /\ Moves(w, "published")
       \/ Moves(w, "cleaning") /\ UNCHANGED <<dest, temp>>
    /\ UNCHANGED <<reader, changes>>

\* rmtree ignores its errors; the experiment is reported as not written.
CleanUp(w) ==
    /\ writer[w] = "cleaning"
    /\ \E left \in {NoDirectory, temp[w]} : temp' = [temp EXCEPT ![w] = left]
    /\ Moves(w, "failed")
    /\ UNCHANGED <<dest, reader, changes>>

Crash(w) ==
    /\ writer[w] \in {"writing", "cleaning"}
    /\ Moves(w, "crashed")
    /\ UNCHANGED <<dest, temp, reader, changes>>

WriterStep(w) ==
    \/ LookForDestination(w) \/ MakeTemp(w) \/ WriteFile(w)
    \/ Publish(w) \/ CleanUp(w) \/ Crash(w)

-----------------------------------------------------------------------------
(* The verification.                                                       *)

Invalid == reader' = [NotReading EXCEPT !.pc = "invalid"]

\* _load_bounded_json: a file that is there and is JSON.
Loads(name) == name \in DOMAIN dest /\ dest[name] # "broken"
Load(name, pc) ==
    IF Loads(name)
    THEN reader' = [reader EXCEPT !.pc = pc, !.got = With(reader.got, name, dest[name])]
    ELSE Invalid

\* The manifest says which files there are.
ReadManifest ==
    /\ reader.pc = "idle"
    /\ IF dest # NoDirectory /\ Loads("experiment")
       THEN reader' = [reader EXCEPT !.pc = "runs", !.of = dest["experiment"],
                                     !.got = [n \in {"experiment"} |-> dest["experiment"]]]
       ELSE Invalid
    /\ UNCHANGED <<dest, temp, writer, changes>>

\* Whether this manifest refers to statistics; an edited one may.
Refers(of) == IF of \in Writers THEN {of \in Measured} ELSE BOOLEAN

ReadRuns ==
    /\ reader.pc = "runs"
    /\ \E statistics \in Refers(reader.of) :
         Load("run", IF statistics THEN "statistics" ELSE "listing")
    /\ UNCHANGED <<dest, temp, writer, changes>>

ReadStatistics ==
    /\ reader.pc = "statistics"
    /\ Load("statistics", "listing")
    /\ UNCHANGED <<dest, temp, writer, changes>>

\* The names in the directory are those of the files read.
ListFiles ==
    /\ reader.pc = "listing"
    /\ IF dest # NoDirectory /\ DOMAIN dest = DOMAIN reader.got
       THEN reader' = [reader EXCEPT !.pc = "verify"] ELSE Invalid
    /\ UNCHANGED <<dest, temp, writer, changes>>

\* Variant with a fault, for the mutation runs: the manifest's own digest only.
DigestsHold_manifest == reader.of \in Writers

\* verify_ab_experiment: the digest of the manifest, and those it records of the
\* runs and the statistics.
DigestsHold == reader.of \in Writers /\ \A n \in DOMAIN reader.got : reader.got[n] = reader.of

Verify ==
    /\ reader.pc = "verify"
    /\ IF DigestsHold THEN reader' = [reader EXCEPT !.pc = "valid"] ELSE Invalid
    /\ UNCHANGED <<dest, temp, writer, changes>>

\* It can be run again.
ReadAgain ==
    /\ reader.pc \in {"valid", "invalid"}
    /\ reader' = NotReading
    /\ UNCHANGED <<dest, temp, writer, changes>>

ReaderStep == ReadManifest \/ ReadRuns \/ ReadStatistics \/ ListFiles \/ Verify \/ ReadAgain

-----------------------------------------------------------------------------

\* The directory is made by hand, removed, or a file of it is removed, edited
\* ("edited" is JSON that no digest covers) or added.
OperatorStep ==
    /\ changes < MaxChanges /\ changes' = changes + 1
    /\ \/ dest = NoDirectory /\ dest' = Empty
       \/ dest # NoDirectory /\ dest' = NoDirectory
       \/ dest # NoDirectory /\ \E n \in DOMAIN dest : dest' = Without(dest, n)
       \/ dest # NoDirectory /\ \E n \in Names : dest' = With(dest, n, "edited")
    /\ UNCHANGED <<temp, writer, reader>>

DirNext == (\E w \in Writers : WriterStep(w)) \/ ReaderStep \/ OperatorStep
DirSpec == DirInit /\ [][DirNext]_dirVars

-----------------------------------------------------------------------------
(* Properties.                                                             *)

\* A verification that succeeds has read one experiment, all of it, which its
\* writer renamed into place: never parts of two, though the directory was
\* removed and published anew while it was read (ab_experiment.py 603-648).
LoadedIsWhole ==
    reader.pc = "valid" =>
      \E w \in Writers : writer[w] = "published" /\ reader.got = Whole(w)

\* Left alone by the operator, the destination is absent or holds the whole
\* experiment of the one writer whose rename succeeded; a writer that failed,
\* crashed or lost the race has changed nothing there (ab_experiment.py 551-584).
PublishedIsWhole ==
    changes = 0 =>
      /\ \A w \in Writers : writer[w] = "published" => dest = Whole(w)
      /\ dest # NoDirectory => \E w \in Writers : writer[w] = "published"

=============================================================================
