------------------------------- MODULE Archive -------------------------------
(***************************************************************************)
(* import-case --archive (cli.py) and the content-addressed store it fills *)
(* (archive.py).  An import is one such command, with a case, an output    *)
(* directory and evidence files of its own; imports share the store, where *)
(* a digest is the name of an object.  Everybody who stores an object      *)
(* copies it to the same temporary name, <digest>.part, checks the copy's  *)
(* hash and renames it.  Open files stay bound to the inode they opened.   *)
(*                                                                         *)
(* A content is named by its digest and is two chunks long; a file is the  *)
(* sequence of the chunks written to it, so it has the hash d only when it *)
(* is Whole(d).                                                            *)
(***************************************************************************)
EXTENDS Integers, Sequences

CONSTANTS
    Imports,     \* the import-case commands
    Contents,    \* digests
    Refs,        \* the evidence files of a case, 1..Refs
    Bound,       \* the digest the case binds each file of an import to
    Inodes,      \* bound of the exploration: files of the store alive at once
    None,
    MaxChanges   \* bound of the exploration: changes of evidence files

ASSUME RefsAssumption == Refs \in Nat \ {0}
ASSUME BoundAssumption == Bound \in [Imports -> [1..Refs -> Contents]]
ASSUME NoneAssumption == None \notin Contents \cup Inodes
ASSUME ChangesAssumption == MaxChanges \in Nat

VARIABLES
    source,     \* what each evidence file holds
    changes,
    bytes,      \* the chunks of each inode
    part,       \* objects/../<digest>.part: an inode or None
    object,     \* objects/../<digest>: an inode or None
    imp,        \* the local variables of each import
    manifest,   \* artifacts.json of each output directory, None when absent
    bundle      \* the output directories that hold the bundle

vars == <<source, changes, bytes, part, object, imp, manifest, bundle>>

Chunks == 2
Hole == None
Whole(d) == [k \in 1..Chunks |-> d]

Idle(answer) == [pc |-> "idle", ref |-> 1, dest |-> None, fd |-> None, off |-> 0,
                 seen |-> <<>>, answer |-> answer]

Init ==
    /\ source = Bound
    /\ changes = 0
    /\ bytes = [i \in Inodes |-> <<>>]
    /\ part = [d \in Contents |-> None]
    /\ object = [d \in Contents |-> None]
    /\ imp = [m \in Imports |-> Idle("none")]
    /\ manifest = [m \in Imports |-> None]
    /\ bundle = {}

Files == <<bytes, part, object>>
Outputs == <<manifest, bundle>>
Evidence == <<source, changes>>

Goes(m, l) == imp' = [imp EXCEPT ![m] = l]
At(m, pc) == imp[m].pc = pc
Held(m) == source[m][imp[m].ref]

-----------------------------------------------------------------------------
(* _archive_evidence, up to the call of put.                               *)

\* A rerun keeps nothing of an earlier one but what is on disk.
Start(m) ==
    /\ At(m, "idle")
    /\ Goes(m, [Idle("none") EXCEPT !.pc = "load"])
    /\ UNCHANGED <<Evidence, Files, Outputs>>

Fails(m, answer) == Goes(m, Idle(answer)) /\ UNCHANGED <<Evidence, Outputs>>

\* The evidence file is loaded and compared with what the case binds.
Load(m) ==
    LET l == imp[m] IN
    /\ At(m, "load")
    /\ \/ /\ Held(m) = Bound[m][l.ref]
          /\ Goes(m, [l EXCEPT !.pc = "hash"])
          /\ UNCHANGED <<Evidence, Files, Outputs>>
       \/ /\ Held(m) # Bound[m][l.ref]
          /\ Fails(m, "aborted") /\ UNCHANGED Files

-----------------------------------------------------------------------------
(* ArchiveStore.put.                                                       *)

\* The name of the object comes from a second reading of the file.
Hash(m) ==
    /\ At(m, "hash")
    /\ Goes(m, [imp[m] EXCEPT !.pc = "open", !.dest = Held(m)])
    /\ UNCHANGED <<Evidence, Files, Outputs>>

InUse == {part[d] : d \in Contents} \cup {object[d] : d \in Contents}
             \cup {imp[m].fd : m \in Imports}

\* open(tmp, "wb"): an existing file is truncated, whoever is writing it.
Open(m) ==
    LET l == imp[m] IN
    /\ At(m, "open")
    /\ \E i \in Inodes :
          /\ IF part[l.dest] = None THEN i \notin InUse ELSE i = part[l.dest]
          /\ part' = [part EXCEPT ![l.dest] = i]
          /\ bytes' = [bytes EXCEPT ![i] = <<>>]
          /\ Goes(m, [l EXCEPT !.pc = "copy", !.fd = i, !.off = 0])
    /\ UNCHANGED <<object, Evidence, Outputs>>

\* Chunk k written to a file, after a hole when the file is shorter.
Written(f, k, c) ==
    [n \in 1..(IF k > Len(f) THEN k ELSE Len(f)) |->
        IF n = k THEN c ELSE IF n <= Len(f) THEN f[n] ELSE Hole]

Copy(m) ==
    LET l == imp[m] IN
    /\ At(m, "copy") /\ l.off < Chunks
    /\ bytes' = [bytes EXCEPT ![l.fd] = Written(@, l.off + 1, Held(m))]
    /\ Goes(m, [l EXCEPT !.off = @ + 1])
    /\ UNCHANGED <<part, object, Evidence, Outputs>>

Close(m) ==
    /\ At(m, "copy") /\ imp[m].off = Chunks
    /\ Goes(m, [imp[m] EXCEPT !.pc = "verify", !.fd = None])
    /\ UNCHANGED <<Evidence, Files, Outputs>>

\* The cleanup of a failed put: whatever .part is there by now.
Unlinks(m) ==
    /\ part' = [part EXCEPT ![imp[m].dest] = None]
    /\ UNCHANGED <<bytes, object>>

\* Variants with a fault: the copy is not hashed again;
\* a copy that fails its check is left where it is.
Verify_trusting(m) ==
    /\ At(m, "verify")
    /\ Goes(m, [imp[m] EXCEPT !.pc = "replace"])
    /\ UNCHANGED <<Evidence, Files, Outputs>>

Verify_leaves_part(m) ==
    LET l == imp[m]
        i == part[l.dest]
    IN  /\ At(m, "verify") /\ i # None
        /\ \/ /\ bytes[i] = Whole(l.dest)
              /\ Goes(m, [l EXCEPT !.pc = "replace"])
              /\ UNCHANGED <<Evidence, Files, Outputs>>
           \/ /\ bytes[i] # Whole(l.dest)
              /\ Fails(m, "aborted") /\ UNCHANGED Files

\* The file now called .part must have the hash that is its name.
Verify(m) ==
    LET l == imp[m]
        i == part[l.dest]
    IN  /\ At(m, "verify") /\ i # None
        /\ \/ /\ bytes[i] = Whole(l.dest)
              /\ Goes(m, [l EXCEPT !.pc = "replace"])
              /\ UNCHANGED <<Evidence, Files, Outputs>>
           \/ /\ bytes[i] # Whole(l.dest)
              /\ Fails(m, "aborted") /\ Unlinks(m)

\* os.replace, and the loop of _archive_evidence goes on.
Replace(m) ==
    LET l == imp[m]
        seen == Append(l.seen, l.dest)
    IN  /\ At(m, "replace") /\ part[l.dest] # None
        /\ object' = [object EXCEPT ![l.dest] = part[l.dest]]
        /\ part' = [part EXCEPT ![l.dest] = None]
        /\ Goes(m, IF l.ref < Refs
                   THEN [Idle("none") EXCEPT !.pc = "load", !.ref = l.ref + 1,
                                             !.seen = seen]
                   ELSE [Idle("none") EXCEPT !.pc = "manifest", !.seen = seen])
        /\ UNCHANGED <<bytes, Evidence, Outputs>>

\* An OSError of put: a full disk or, after somebody else's rename or unlink,
\* no .part any more.
PutFails(m) ==
    /\ \/ At(m, "open") \/ At(m, "copy")
       \/ (At(m, "verify") \/ At(m, "replace")) /\ part[imp[m].dest] = None
    /\ Fails(m, "aborted") /\ Unlinks(m)

-----------------------------------------------------------------------------
(* The rest of import-case.                                                *)

\* Variant with a fault: the manifest records what the case binds.
WriteManifest_bound(m) ==
    /\ At(m, "manifest")
    /\ manifest' = [manifest EXCEPT ![m] = Bound[m]]
    /\ Goes(m, [imp[m] EXCEPT !.pc = "bundle"])
    /\ UNCHANGED <<bundle, Evidence, Files>>

WriteManifest(m) ==
    /\ At(m, "manifest")
    /\ manifest' = [manifest EXCEPT ![m] = imp[m].seen]
    /\ Goes(m, [imp[m] EXCEPT !.pc = "bundle"])
    /\ UNCHANGED <<bundle, Evidence, Files>>

WriteBundle(m) ==
    /\ At(m, "bundle")
    /\ bundle' = bundle \cup {m}
    /\ Goes(m, Idle("imported"))
    /\ UNCHANGED <<manifest, Evidence, Files>>

Killed(m) ==
    /\ ~At(m, "idle")
    /\ Fails(m, "killed") /\ UNCHANGED Files

\* The engine under test rewrites its evidence.
SourceChanges(m, k, c) ==
    /\ changes < MaxChanges
    /\ source[m][k] # c
    /\ source' = [source EXCEPT ![m][k] = c]
    /\ changes' = changes + 1
    /\ UNCHANGED <<Files, imp, Outputs>>

Step(m) ==
    \/ Start(m)
    \/ Load(m)
    \/ Hash(m)
    \/ Open(m)
    \/ Copy(m)
    \/ Close(m)
    \/ Verify(m)
    \/ Replace(m)
    \/ PutFails(m)
    \/ WriteManifest(m)
    \/ WriteBundle(m)
    \/ Killed(m)

Next ==
    \/ \E m \in Imports : Step(m)
    \/ \E m \in Imports, k \in 1..Refs, c \in Contents : SourceChanges(m, k, c)

Spec == Init /\ [][Next]_vars

-----------------------------------------------------------------------------
(* Properties.                                                             *)

\* An object has the hash that is its name, at every moment: while evidence
\* changes under the copy, and after an import was killed in the middle of one.
\* archive.py:14-17, "re-hashed after the copy, and only then renamed into
\* place".
ObjectsMatchNames ==
    \A d \in Contents : object[d] # None => bytes[object[d]] = Whole(d)

\* verify --archive succeeds on every output directory that has a manifest, now
\* and for ever: each object the manifest lists is stored with its own hash.
ManifestIsBacked ==
    \A m \in Imports : manifest[m] # None =>
        \A k \in DOMAIN manifest[m] :
            LET i == object[manifest[m][k]]
            IN  i # None /\ bytes[i] = Whole(manifest[m][k])

\* archive.py:16-17, "a copy that does not re-hash to its digest aborts ... and
\* leaves no partial object behind": an import that gives up in put has removed
\* the temporary file it was filling.
AbortLeavesNoPart ==
    [][\A m \in Imports :
          imp[m].answer = "none" /\ imp'[m].answer = "aborted" /\ imp[m].dest # None
              => part'[imp[m].dest] = None]_vars

=============================================================================
