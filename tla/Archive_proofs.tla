----------------------------- MODULE Archive_proofs -----------------------------
(***************************************************************************)
(* What the content-addressed archive promises holds for any evidence, any *)
(* number of files and imports, and any kills and changes of the evidence, *)
(* as long as no two of them put the same content at once.  The inductive  *)
(* invariant: no inode has two names, an import at work fills the file     *)
(* that is called .part, and what it is about to rename has been verified. *)
(* Two imports that meet on a content can break it (the run                *)
(* archive_shared); what manifests list and the cleanup after an abort     *)
(* are proved without that condition.                                      *)
(***************************************************************************)
EXTENDS Archive, SequenceTheorems, TLAPS

\* No two imports put one content at the same time: what the temporary name, which
\* depends on the digest only, takes for granted (archive.py 51-57).
NeverMeet == \A m, n \in Imports : imp[m].dest # None /\ imp[m].dest = imp[n].dest => m = n

InodeOrNone == Inodes \cup {None}
Pcs == {"idle", "load", "hash", "open", "copy", "verify", "replace", "manifest", "bundle"}
InPut == {"open", "copy", "verify", "replace"}

Locals ==
    [pc: Pcs, ref: 1..Refs, dest: Contents \cup {None}, fd: InodeOrNone, off: 0..Chunks,
     seen: Seq(Contents), answer: {"none", "aborted", "killed", "imported"}]

Digests == [1..Refs -> Contents]

ArchiveTypeOK ==
    /\ source \in [Imports -> Digests] /\ changes \in Nat
    /\ bytes \in [Inodes -> Seq(Contents \cup {None})]
    /\ part \in [Contents -> InodeOrNone] /\ object \in [Contents -> InodeOrNone]
    /\ imp \in [Imports -> Locals]
    /\ manifest \in [Imports -> Seq(Contents) \cup {None}] /\ bundle \subseteq Imports

\* The digest in hand is that of the put in progress.
DestInv == \A m \in Imports : imp[m].dest # None <=> imp[m].pc \in InPut

\* Objects are never taken away, so what a manifest lists stays stored.
ListedInv ==
    /\ \A m \in Imports : \A k \in DOMAIN imp[m].seen : object[imp[m].seen[k]] # None
    /\ \A m \in Imports : manifest[m] # None =>
          \A k \in DOMAIN manifest[m] : object[manifest[m][k]] # None

BaseInv == ArchiveTypeOK /\ DestInv /\ ListedInv

\* No file of the store has two names.
NamesInv ==
    /\ \A d, e \in Contents : part[d] # None => part[d] # object[e] /\ (part[d] = part[e] => d = e)
    /\ \A d, e \in Contents : object[d] # None /\ object[d] = object[e] => d = e

\* The file an import fills is the one called .part, and what it renames is whole.
PutInv ==
    \A m \in Imports :
        /\ At(m, "copy") => imp[m].fd # None /\ imp[m].fd = part[imp[m].dest]
        /\ At(m, "replace") => part[imp[m].dest] # None
                               /\ bytes[part[imp[m].dest]] = Whole(imp[m].dest)

StoreInv == NamesInv /\ PutInv /\ ObjectsMatchNames
-----------------------------------------------------------------------------
(* Values.                                                                 *)

\* A file written to is a file.
LEMMA WrittenType ==
    ASSUME NEW f \in Seq(Contents \cup {None}), NEW k \in Nat \ {0}, NEW c \in Contents
    PROVE  Written(f, k, c) \in Seq(Contents \cup {None})
<1> DEFINE n == IF k > Len(f) THEN k ELSE Len(f)
<1>1. Len(f) \in Nat /\ n \in Nat /\ \A i \in 1..Len(f) : f[i] \in Contents \cup {None}
    OBVIOUS
<1>2. \A i \in 1..n : (IF i = k THEN c ELSE IF i <= Len(f) THEN f[i] ELSE Hole)
                            \in Contents \cup {None}
    BY <1>1 DEF Hole
<1>3. Written(f, k, c) \in [1..n -> Contents \cup {None}]
    BY <1>2 DEF Written
<1> HIDE DEF n
<1> QED BY <1>1, <1>3, IsASeq

LEMMA IdleFacts ==
    ASSUME NEW answer \in {"none", "aborted", "killed", "imported"}
    PROVE  /\ Idle(answer) \in Locals
           /\ Idle(answer).pc = "idle" /\ Idle(answer).dest = None /\ Idle(answer).seen = <<>>
<1>1. <<>> \in Seq(Contents) /\ 1 \in 1..Refs /\ 0 \in 0..Chunks
    BY RefsAssumption DEF Chunks
<1> QED BY <1>1 DEF Idle, Locals, Pcs, InodeOrNone

\* Where an import goes after it archived its files.
LEMMA ListsAll ==
    ASSUME NEW seen \in Seq(Contents), NEW l,
           l = [Idle("none") EXCEPT !.pc = "manifest", !.seen = seen]
    PROVE  l \in Locals /\ l.pc = "manifest" /\ l.dest = None /\ l.seen = seen
<1>1. Idle("none") \in Locals /\ Idle("none").dest = None /\ "manifest" \in Pcs
    BY IdleFacts DEF Pcs
<1> QED BY <1>1 DEF Locals

LEMMA HeldType ==
    ASSUME ArchiveTypeOK, NEW m \in Imports
    PROVE  imp[m] \in Locals /\ Held(m) \in Contents
BY ZenonT(60) DEF ArchiveTypeOK, Locals, Digests, Held

-----------------------------------------------------------------------------
(* The types, and what manifests list.                                     *)

\* An import goes on with l: what every action of one has to show.
LEMMA ImportMoves ==
    ASSUME BaseInv, NEW m \in Imports, NEW l \in Locals, Goes(m, l),
           l.dest # None <=> l.pc \in InPut,
           UNCHANGED Evidence,
           bytes' \in [Inodes -> Seq(Contents \cup {None})],
           part' \in [Contents -> InodeOrNone], object' \in [Contents -> InodeOrNone],
           \A d \in Contents : object[d] # None => object'[d] # None,
           \A k \in DOMAIN l.seen : object'[l.seen[k]] # None,
           manifest' = manifest \/ manifest' = [manifest EXCEPT ![m] = l.seen],
           bundle' \subseteq Imports
    PROVE  BaseInv'
<1>1. /\ imp \in [Imports -> Locals] /\ manifest \in [Imports -> Seq(Contents) \cup {None}]
      /\ \A n \in Imports : imp'[n] = IF n = m THEN l ELSE imp[n]
      /\ imp' \in [Imports -> Locals] /\ l.seen \in Seq(Contents)
    BY DEF BaseInv, ArchiveTypeOK, Goes, Locals
<1>2. manifest' \in [Imports -> Seq(Contents) \cup {None}]
      /\ \A n \in Imports : manifest'[n] = manifest[n] \/ manifest'[n] = l.seen
    BY <1>1
<1>3. ArchiveTypeOK'
    BY <1>1, <1>2 DEF BaseInv, ArchiveTypeOK, Evidence
<1>4. DestInv'
    BY <1>1 DEF BaseInv, DestInv
<1>5. ASSUME NEW n \in Imports, NEW k \in DOMAIN imp'[n].seen PROVE object'[imp'[n].seen[k]] # None
    <2>1. CASE n = m
        BY <1>1, <1>5, <2>1
    <2>2. CASE n # m
        <3>1. imp'[n] = imp[n] /\ object[imp[n].seen[k]] # None
            BY <1>1, <1>5, <2>2 DEF BaseInv, ListedInv
        <3>2. imp[n].seen \in Seq(Contents)
            BY <1>1 DEF Locals
        <3>3. imp[n].seen[k] \in Contents
            BY <1>5, <3>1, <3>2
        <3> QED BY <3>1, <3>3
    <2> QED BY <2>1, <2>2
<1>6. ASSUME NEW n \in Imports, manifest'[n] # None, NEW k \in DOMAIN manifest'[n]
      PROVE  object'[manifest'[n][k]] # None
    <2>1. CASE manifest'[n] = l.seen
        BY <1>6, <2>1
    <2>2. CASE manifest'[n] = manifest[n]
        <3>1. manifest[n] # None /\ object[manifest[n][k]] # None
            BY <1>6, <2>2 DEF BaseInv, ListedInv
        <3>2. manifest[n][k] \in Contents
            BY <1>1, <1>6, <2>2, <3>1
        <3> QED BY <2>2, <3>1, <3>2
    <2> QED BY <1>2, <2>1, <2>2
<1>7. ListedInv'
    BY <1>5, <1>6 DEF ListedInv
<1> QED BY <1>3, <1>4, <1>7 DEF BaseInv

LEMMA BaseInit == Init => BaseInv
<1> SUFFICES ASSUME Init PROVE BaseInv
    OBVIOUS
<1>1. Idle("none") \in Locals /\ Idle("none").pc = "idle" /\ Idle("none").dest = None
      /\ Idle("none").seen = <<>>
    BY IdleFacts
<1>2. ArchiveTypeOK
    BY <1>1, BoundAssumption DEF Init, ArchiveTypeOK, Digests, InodeOrNone
<1>3. \A m \in Imports : imp[m] = Idle("none") /\ manifest[m] = None
    BY DEF Init
<1>4. DestInv
    BY <1>1, <1>3 DEF DestInv, InPut
<1>5. ListedInv
    BY <1>1, <1>3 DEF ListedInv
<1> QED BY <1>2, <1>4, <1>5 DEF BaseInv

\* What an import has in hand is unchanged by a step that only moves its pc.
LEMMA PcMoves ==
    ASSUME BaseInv, NEW m \in Imports, NEW pc \in Pcs, NEW dest \in Contents \cup {None},
           NEW fd \in InodeOrNone, NEW off \in 0..Chunks
    PROVE  LET l == [imp[m] EXCEPT !.pc = pc, !.dest = dest, !.fd = fd, !.off = off]
           IN  l \in Locals /\ l.pc = pc /\ l.dest = dest /\ l.seen = imp[m].seen
BY DEF BaseInv, ArchiveTypeOK, Locals
LEMMA BaseStep ==
    ASSUME BaseInv, NEW m \in Imports, Step(m)
    PROVE  BaseInv'
<1> DEFINE l == imp[m]
<1>0. /\ l \in Locals /\ Held(m) \in Contents
      /\ bytes \in [Inodes -> Seq(Contents \cup {None})]
      /\ part \in [Contents -> InodeOrNone] /\ object \in [Contents -> InodeOrNone]
      /\ bundle \subseteq Imports
      /\ l.dest # None <=> l.pc \in InPut
      /\ \A k \in DOMAIN l.seen : object[l.seen[k]] # None
    BY HeldType DEF BaseInv, ArchiveTypeOK, DestInv, ListedInv
<1>l. /\ l.pc \in Pcs /\ l.ref \in 1..Refs /\ l.dest \in Contents \cup {None}
      /\ l.fd \in InodeOrNone /\ l.off \in 0..Chunks /\ l.seen \in Seq(Contents)
    BY <1>0 DEF Locals
<1>p. \A pc \in Pcs, dest \in Contents \cup {None}, fd \in InodeOrNone, off \in 0..Chunks :
        LET n == [l EXCEPT !.pc = pc, !.dest = dest, !.fd = fd, !.off = off]
        IN  n \in Locals /\ n.pc = pc /\ n.dest = dest /\ n.seen = l.seen
    BY PcMoves
<1>pc. \A pc \in Pcs : LET n == [l EXCEPT !.pc = pc]
                        IN  n \in Locals /\ n.pc = pc /\ n.dest = l.dest /\ n.seen = l.seen
    BY <1>0 DEF Locals
\* A call that ends: nothing is in hand any more.
<1>f. ASSUME NEW answer \in {"aborted", "killed"}, Fails(m, answer), UNCHANGED bytes, UNCHANGED object,
             part' \in [Contents -> InodeOrNone]
      PROVE  BaseInv'
    <2> DEFINE n == Idle(answer)
    <2>1. n \in Locals /\ n.pc = "idle" /\ n.dest = None /\ n.seen = <<>>
        BY IdleFacts
    <2>2. Goes(m, n) /\ UNCHANGED <<Evidence, manifest, bundle>>
        BY <1>f DEF Fails, Outputs
    <2> HIDE DEF n
    <2> QED BY <1>0, <1>f, <2>1, <2>2, ImportMoves DEF InPut
<1>u. ASSUME Unlinks(m), l.dest \in Contents
      PROVE  UNCHANGED bytes /\ UNCHANGED object /\ part' \in [Contents -> InodeOrNone]
    BY <1>0, <1>u DEF Unlinks, InodeOrNone
<1>1. CASE Start(m)
    <2> DEFINE n == [Idle("none") EXCEPT !.pc = "load"]
    <2>1. n \in Locals /\ n.pc = "load" /\ n.dest = None /\ n.seen = <<>>
        BY IdleFacts DEF Idle, Locals, Pcs
    <2>2. Goes(m, n) /\ UNCHANGED <<Evidence, Files, manifest, bundle>>
        BY <1>1 DEF Start, Outputs
    <2> HIDE DEF n, l
    <2> QED BY <1>0, <2>1, <2>2, ImportMoves DEF InPut, Files
<1>2. CASE Load(m)
    <2>1. CASE Held(m) = Bound[m][l.ref]
        <3> DEFINE n == [l EXCEPT !.pc = "hash"]
        <3>1. Goes(m, n) /\ UNCHANGED <<Evidence, Files, manifest, bundle>> /\ l.pc = "load"
            BY <1>2, <2>1 DEF Load, At, Outputs
        <3>2. n \in Locals /\ n.pc = "hash" /\ n.dest = l.dest /\ n.seen = l.seen
            BY <1>pc DEF Pcs
        <3> HIDE DEF n, l
        <3> QED BY <1>0, <3>1, <3>2, ImportMoves DEF InPut, Files
    <2>2. CASE Held(m) # Bound[m][l.ref]
        BY <1>0, <1>2, <1>f, <2>2 DEF Load, Files
    <2> QED BY <2>1, <2>2
<1>3. CASE Hash(m)
    <2> DEFINE n == [l EXCEPT !.pc = "open", !.dest = Held(m)]
    <2>1. Goes(m, n) /\ UNCHANGED <<Evidence, Files, manifest, bundle>>
        BY <1>3 DEF Hash, Outputs
    <2>2. n \in Locals /\ n.pc = "open" /\ n.dest = Held(m) /\ n.seen = l.seen
        BY <1>0 DEF Locals, Pcs
    <2>3. Held(m) # None
        BY <1>0, NoneAssumption
    <2> HIDE DEF n, l
    <2> QED BY <1>0, <2>1, <2>2, <2>3, ImportMoves DEF InPut, Files
<1>4. CASE Open(m)
    <2>1. PICK i \in Inodes :
            /\ part' = [part EXCEPT ![l.dest] = i]
            /\ bytes' = [bytes EXCEPT ![i] = <<>>]
            /\ Goes(m, [l EXCEPT !.pc = "copy", !.fd = i, !.off = 0])
        BY <1>4 DEF Open
    <2> DEFINE n == [l EXCEPT !.pc = "copy", !.fd = i, !.off = 0]
    <2>2. l.pc = "open" /\ UNCHANGED <<object, Evidence, manifest, bundle>>
        BY <1>4 DEF Open, At, Outputs
    <2>3. n \in Locals /\ n.pc = "copy" /\ n.dest = l.dest /\ n.seen = l.seen
        <3>1. i \in InodeOrNone /\ 0 \in 0..Chunks /\ "copy" \in Pcs
            BY DEF InodeOrNone, Chunks, Pcs
        <3> HIDE DEF l
        <3> QED BY <1>0, <3>1 DEF Locals
    <2>4. /\ part' \in [Contents -> InodeOrNone]
          /\ bytes' \in [Inodes -> Seq(Contents \cup {None})]
        <3>1. i \in InodeOrNone /\ <<>> \in Seq(Contents \cup {None})
            BY DEF InodeOrNone
        <3> HIDE DEF l
        <3> QED BY <1>0, <2>1, <3>1
    <2>5. Goes(m, n)
        BY <2>1
    <2> HIDE DEF n, l
    <2> QED BY <1>0, <2>2, <2>3, <2>4, <2>5, ImportMoves DEF InPut
<1>5. CASE Copy(m)
    <2> DEFINE n == [l EXCEPT !.off = l.off + 1]
    <2>1. /\ l.pc = "copy" /\ l.off < Chunks
          /\ bytes' = [bytes EXCEPT ![l.fd] = Written(bytes[l.fd], l.off + 1, Held(m))]
          /\ Goes(m, n) /\ UNCHANGED <<part, object, Evidence, manifest, bundle>>
        BY <1>5 DEF Copy, At, Outputs
    <2>2. n \in Locals /\ n.pc = l.pc /\ n.dest = l.dest /\ n.seen = l.seen
        <3>1. l.off + 1 \in 0..Chunks
            BY <1>l, <2>1 DEF Chunks
        <3> HIDE DEF l
        <3> QED BY <1>0, <3>1 DEF Locals
    <2>3. bytes' \in [Inodes -> Seq(Contents \cup {None})]
        <3>1. l.off + 1 \in Nat \ {0}
            BY <1>l DEF Chunks
        <3>2. CASE l.fd \in Inodes
            <4>1. Written(bytes[l.fd], l.off + 1, Held(m)) \in Seq(Contents \cup {None})
                BY <1>0, <3>1, <3>2, WrittenType
            <4> QED BY <1>0, <2>1, <3>2, <4>1
        <3>3. CASE l.fd \notin Inodes
            BY <1>0, <2>1, <3>3
        <3> QED BY <3>2, <3>3
    <2> HIDE DEF n, l
    <2> QED BY <1>0, <2>1, <2>2, <2>3, ImportMoves
<1>6. CASE Close(m)
    <2> DEFINE n == [l EXCEPT !.pc = "verify", !.fd = None]
    <2>1. Goes(m, n) /\ UNCHANGED <<Evidence, Files, manifest, bundle>> /\ l.pc = "copy"
        BY <1>6 DEF Close, At, Outputs
    <2>2. n \in Locals /\ n.pc = "verify" /\ n.dest = l.dest /\ n.seen = l.seen
        BY <1>0 DEF Locals, Pcs, InodeOrNone
    <2> HIDE DEF n, l
    <2> QED BY <1>0, <2>1, <2>2, ImportMoves DEF InPut, Files
<1>7. CASE Verify(m)
    <2>1. l.pc = "verify" /\ l.dest \in Contents
        BY <1>0, <1>l, <1>7 DEF Verify, At, InPut
    <2>2. CASE bytes[part[l.dest]] = Whole(l.dest)
        <3> DEFINE n == [l EXCEPT !.pc = "replace"]
        <3>1. Goes(m, n) /\ UNCHANGED <<Evidence, Files, manifest, bundle>>
            BY <1>7, <2>2 DEF Verify, Outputs
        <3>2. n \in Locals /\ n.pc = "replace" /\ n.dest = l.dest /\ n.seen = l.seen
            BY <1>pc DEF Pcs
        <3> HIDE DEF n, l
        <3> QED BY <1>0, <2>1, <3>1, <3>2, ImportMoves DEF InPut, Files
    <2>3. CASE bytes[part[l.dest]] # Whole(l.dest)
        BY <1>7, <1>f, <1>u, <2>1, <2>3 DEF Verify
    <2> QED BY <2>2, <2>3
<1>8. CASE Replace(m)
    <2> DEFINE seen == Append(l.seen, l.dest)
               n == IF l.ref < Refs
                    THEN [Idle("none") EXCEPT !.pc = "load", !.ref = l.ref + 1, !.seen = seen]
                    ELSE [Idle("none") EXCEPT !.pc = "manifest", !.seen = seen]
    <2>1. /\ l.pc = "replace" /\ part[l.dest] # None
          /\ object' = [object EXCEPT ![l.dest] = part[l.dest]]
          /\ part' = [part EXCEPT ![l.dest] = None]
          /\ Goes(m, n) /\ UNCHANGED <<bytes, Evidence, manifest, bundle>>
        BY <1>8 DEF Replace, At, Outputs
    <2>2. l.dest \in Contents
        BY <1>0, <1>l, <2>1 DEF InPut
    <2>3. seen \in Seq(Contents) /\ \A k \in DOMAIN seen : seen[k] = l.dest \/
                                        (k \in DOMAIN l.seen /\ seen[k] = l.seen[k])
        BY <1>l, <2>2
    <2>4. n \in Locals /\ n.pc \in {"load", "manifest"} /\ n.dest = None /\ n.seen = seen
        <3> HIDE DEF seen
        <3>1. CASE l.ref < Refs
            <4> DEFINE next == l.ref + 1
            <4>1. next \in 1..Refs
                BY <1>l, <3>1, RefsAssumption
            <4>2. n = [Idle("none") EXCEPT !.pc = "load", !.ref = next, !.seen = seen]
                BY <3>1
            <4>3. Idle("none") \in Locals /\ Idle("none").dest = None /\ "load" \in Pcs
                BY IdleFacts DEF Pcs
            <4> HIDE DEF n, l, next
            <4> QED BY <2>3, <4>1, <4>2, <4>3 DEF Locals
        <3>2. CASE ~(l.ref < Refs)
            <4>1. n = [Idle("none") EXCEPT !.pc = "manifest", !.seen = seen]
                BY <3>2
            <4> HIDE DEF n, l
            <4> QED BY <2>3, <4>1, ListsAll, ZenonT(60)
        <3> QED BY <3>1, <3>2
    <2>5. /\ part' \in [Contents -> InodeOrNone] /\ object' \in [Contents -> InodeOrNone]
          /\ object'[l.dest] # None
          /\ \A d \in Contents : object[d] # None => object'[d] # None
        BY <1>0, <2>1, <2>2 DEF InodeOrNone
    <2>6. \A k \in DOMAIN l.seen : l.seen[k] \in Contents
        BY <1>l
    <2>7. \A k \in DOMAIN n.seen : object'[n.seen[k]] # None
        <3> HIDE DEF n, seen, l
        <3> QED BY <1>0, <2>3, <2>4, <2>5, <2>6
    <2> HIDE DEF n, l, seen
    <2> QED BY <1>0, <2>1, <2>4, <2>5, <2>7, ImportMoves DEF InPut
<1>9. CASE PutFails(m)
    <2>1. l.pc \in InPut
        BY <1>9 DEF PutFails, At, InPut
    <2>2. l.dest \in Contents
        BY <1>0, <1>l, <2>1
    <2>3. Fails(m, "aborted") /\ Unlinks(m)
        BY <1>9 DEF PutFails
    <2> HIDE DEF l
    <2> QED BY <1>f, <1>u, <2>2, <2>3
<1>10. CASE WriteManifest(m)
    <2> DEFINE n == [l EXCEPT !.pc = "bundle"]
    <2>1. /\ l.pc = "manifest" /\ manifest' = [manifest EXCEPT ![m] = l.seen]
          /\ Goes(m, n) /\ UNCHANGED <<bundle, Evidence, Files>>
        BY <1>10 DEF WriteManifest, At
    <2>2. n \in Locals /\ n.pc = "bundle" /\ n.dest = l.dest /\ n.seen = l.seen
        BY <1>pc DEF Pcs
    <2> HIDE DEF n, l
    <2> QED BY <1>0, <2>1, <2>2, ImportMoves DEF InPut, Files
<1>11. CASE WriteBundle(m)
    <2> DEFINE n == Idle("imported")
    <2>1. n \in Locals /\ n.pc = "idle" /\ n.dest = None /\ n.seen = <<>>
        BY IdleFacts
    <2>2. bundle' = bundle \cup {m} /\ Goes(m, n) /\ UNCHANGED <<manifest, Evidence, Files>>
        BY <1>11 DEF WriteBundle
    <2> HIDE DEF n, l
    <2> QED BY <1>0, <2>1, <2>2, ImportMoves DEF InPut, Files
<1>12. CASE Killed(m)
    BY <1>0, <1>12, <1>f DEF Killed, Files
<1> QED BY <1>1, <1>2, <1>3, <1>4, <1>5, <1>6, <1>7, <1>8, <1>9, <1>10, <1>11, <1>12 DEF Step

LEMMA EvidenceStep ==
    ASSUME BaseInv, NEW m \in Imports, NEW k \in 1..Refs, NEW c \in Contents, SourceChanges(m, k, c)
    PROVE  BaseInv'
<1>1. source' \in [Imports -> Digests] /\ changes' \in Nat
    BY DEF BaseInv, ArchiveTypeOK, Digests, SourceChanges
<1>2. UNCHANGED <<bytes, part, object, imp, manifest, bundle>>
    BY DEF SourceChanges, Files, Outputs
<1>3. ArchiveTypeOK'
    BY <1>1, <1>2 DEF BaseInv, ArchiveTypeOK
<1>4. DestInv' /\ ListedInv'
    BY <1>2 DEF BaseInv, DestInv, ListedInv
<1> QED BY <1>3, <1>4 DEF BaseInv

LEMMA BaseNext == BaseInv /\ [Next]_vars => BaseInv'
<1> SUFFICES ASSUME BaseInv, [Next]_vars PROVE BaseInv'
    OBVIOUS
<1>1. CASE UNCHANGED vars
    <2>1. ArchiveTypeOK'
        BY <1>1 DEF vars, BaseInv, ArchiveTypeOK
    <2>2. DestInv' /\ ListedInv'
        BY <1>1 DEF vars, BaseInv, DestInv, ListedInv
    <2> QED BY <2>1, <2>2 DEF BaseInv
<1> QED BY <1>1, BaseStep, EvidenceStep DEF Next

-----------------------------------------------------------------------------
(* The store, while imports do not meet.                                    *)

\* A step that leaves the files alone and hands nothing to a copy or a rename.
LEMMA FilesKept ==
    ASSUME BaseInv, StoreInv, NEW m \in Imports, NEW l, Goes(m, l), UNCHANGED Files,
           l.pc \notin {"copy", "replace"}
    PROVE  StoreInv'
<1>1. \A n \in Imports : imp'[n] = IF n = m THEN l ELSE imp[n]
    BY DEF BaseInv, ArchiveTypeOK, Goes
<1>2. NamesInv' /\ ObjectsMatchNames'
    BY DEF StoreInv, NamesInv, ObjectsMatchNames, Files
<1>3. PutInv'
    BY <1>1 DEF StoreInv, PutInv, At, Files
<1> QED BY <1>2, <1>3 DEF StoreInv

\* The other imports go nowhere, and are not at work on the content of this one.
LEMMA OthersApart ==
    ASSUME BaseInv, NeverMeet, NEW m \in Imports, imp[m].dest # None, NEW l, Goes(m, l)
    PROVE  /\ imp'[m] = l
           /\ \A n \in Imports \ {m} :
                 /\ imp'[n] = imp[n]
                 /\ imp[n].pc \in InPut => imp[n].dest \in Contents \ {imp[m].dest}
<1>1. imp'[m] = l /\ \A n \in Imports \ {m} : imp'[n] = imp[n]
    BY DEF BaseInv, ArchiveTypeOK, Goes
<1>2. ASSUME NEW n \in Imports \ {m}, imp[n].pc \in InPut
      PROVE  imp[n].dest \in Contents \ {imp[m].dest}
    BY <1>2 DEF BaseInv, DestInv, ArchiveTypeOK, Locals, NeverMeet
<1> QED BY <1>1, <1>2

\* What a step of an import on its own content leaves to the others.
LEMMA OthersPut ==
    ASSUME BaseInv, NeverMeet, StoreInv, NEW m \in Imports, imp[m].dest # None, NEW l, Goes(m, l),
           \A d \in Contents \ {imp[m].dest} :
              part'[d] = part[d] /\ (part[d] # None => bytes'[part[d]] = bytes[part[d]]),
           At(m, "copy")' => l.fd # None /\ l.fd = part'[l.dest],
           At(m, "replace")' => part'[l.dest] # None /\ bytes'[part'[l.dest]] = Whole(l.dest)
    PROVE  PutInv'
<1>1. /\ imp'[m] = l
      /\ \A n \in Imports \ {m} :
             imp'[n] = imp[n] /\ (imp[n].pc \in InPut => imp[n].dest \in Contents \ {imp[m].dest})
    BY OthersApart
<1>2. ASSUME NEW n \in Imports \ {m}, At(n, "copy")'
      PROVE  imp'[n].fd # None /\ imp'[n].fd = part'[imp'[n].dest]
    BY <1>1, <1>2 DEF InPut, At, StoreInv, PutInv
<1>3. ASSUME NEW n \in Imports \ {m}, At(n, "replace")'
      PROVE  part'[imp'[n].dest] # None /\ bytes'[part'[imp'[n].dest]] = Whole(imp'[n].dest)
    BY <1>1, <1>3 DEF InPut, At, StoreInv, PutInv
<1> QED BY <1>1, <1>2, <1>3 DEF PutInv

\* A put that gives up takes the temporary name away.
LEMMA UnlinkKeeps ==
    ASSUME BaseInv, NeverMeet, StoreInv, NEW m \in Imports,
           imp[m].dest \in Contents, NEW answer, Fails(m, answer), Unlinks(m)
    PROVE  StoreInv'
<1> DEFINE e == imp[m].dest
<1>1. part \in [Contents -> InodeOrNone] /\ object \in [Contents -> InodeOrNone]
    BY DEF BaseInv, ArchiveTypeOK
<1>2. part' = [part EXCEPT ![e] = None] /\ UNCHANGED <<bytes, object>>
    BY DEF Unlinks
<1>3. \A d \in Contents : part'[d] = IF d = e THEN None ELSE part[d]
    BY <1>1, <1>2
<1>4. NamesInv' /\ ObjectsMatchNames'
    <2> HIDE DEF e
    <2> QED BY <1>2, <1>3 DEF StoreInv, NamesInv, ObjectsMatchNames
<1>5. Goes(m, Idle(answer)) /\ Idle(answer).pc = "idle"
    BY DEF Fails, Idle
<1>6. e # None /\ imp'[m].pc = "idle"
    BY <1>5, NoneAssumption DEF Goes, BaseInv, ArchiveTypeOK
<1>7. PutInv'
    <2> HIDE DEF e
    <2>1. \A d \in Contents \ {imp[m].dest} :
              part'[d] = part[d] /\ (part[d] # None => bytes'[part[d]] = bytes[part[d]])
        BY <1>2, <1>3 DEF e
    <2> QED BY <1>5, <1>6, <2>1, OthersPut DEF At, e
<1> QED BY <1>4, <1>7 DEF StoreInv

LEMMA StoreStep ==
    ASSUME BaseInv, NeverMeet, StoreInv, NEW m \in Imports, Step(m)
    PROVE  StoreInv'
<1> DEFINE l == imp[m]
           e == l.dest
<1>0. /\ l \in Locals /\ (e # None <=> l.pc \in InPut)
      /\ bytes \in [Inodes -> Seq(Contents \cup {None})]
      /\ part \in [Contents -> InodeOrNone] /\ object \in [Contents -> InodeOrNone]
    BY HeldType DEF BaseInv, ArchiveTypeOK, DestInv
<1>n. l.pc \in InPut => e # None
    BY <1>0
<1>e. l.pc \in InPut => e \in Contents
    BY <1>0 DEF Locals
<1>1. CASE Start(m)
    <2>1. Goes(m, [Idle("none") EXCEPT !.pc = "load"]) /\ UNCHANGED Files
        BY <1>1 DEF Start
    <2>2. [Idle("none") EXCEPT !.pc = "load"].pc = "load"
        BY DEF Idle
    <2> QED BY <2>1, <2>2, FilesKept
<1>2. CASE Load(m)
    <2>1. CASE Held(m) = Bound[m][l.ref]
        <3>1. Goes(m, [l EXCEPT !.pc = "hash"]) /\ UNCHANGED Files
            BY <1>2, <2>1 DEF Load
        <3>2. [l EXCEPT !.pc = "hash"].pc = "hash"
            BY <1>0 DEF Locals
        <3> QED BY <3>1, <3>2, FilesKept
    <2>2. CASE Held(m) # Bound[m][l.ref]
        <3>1. Goes(m, Idle("aborted")) /\ UNCHANGED Files /\ Idle("aborted").pc = "idle"
            BY <1>2, <2>2 DEF Load, Fails, Idle
        <3> QED BY <3>1, FilesKept
    <2> QED BY <2>1, <2>2
<1>3. CASE Hash(m)
    <2>1. Goes(m, [l EXCEPT !.pc = "open", !.dest = Held(m)]) /\ UNCHANGED Files
        BY <1>3 DEF Hash
    <2>2. [l EXCEPT !.pc = "open", !.dest = Held(m)].pc = "open"
        BY <1>0 DEF Locals
    <2> QED BY <2>1, <2>2, FilesKept
<1>4. CASE Open(m)
    <2>1. PICK i \in Inodes :
            /\ IF part[e] = None THEN i \notin InUse ELSE i = part[e]
            /\ part' = [part EXCEPT ![e] = i]
            /\ bytes' = [bytes EXCEPT ![i] = <<>>]
            /\ Goes(m, [l EXCEPT !.pc = "copy", !.fd = i, !.off = 0])
        BY <1>4 DEF Open
    <2> DEFINE n == [l EXCEPT !.pc = "copy", !.fd = i, !.off = 0]
    <2>2. l.pc = "open" /\ ~At(m, "idle") /\ UNCHANGED object
        BY <1>4 DEF Open, At
    <2>3. n.pc = "copy" /\ n.fd = i /\ n.dest = e /\ Goes(m, n)
        BY <1>0, <2>1 DEF Locals
    <2>4. e \in Contents /\ i # None
        BY <1>e, <2>2, NoneAssumption DEF InPut
    <2>5. \A d \in Contents : object[d] # i /\ (d # e => part[d] # i)
        <3>1. CASE part[e] = None
            BY <2>1, <3>1 DEF InUse
        <3>2. CASE part[e] # None
            BY <2>1, <2>4, <3>2 DEF StoreInv, NamesInv
        <3> QED BY <3>1, <3>2
    <2>6. \A d \in Contents : part'[d] = IF d = e THEN i ELSE part[d]
        BY <1>0, <2>1
    <2>7. \A j \in Inodes : j # i => bytes'[j] = bytes[j]
        BY <1>0, <2>1
    <2> HIDE DEF n, e, l
    <2>8. NamesInv'
        BY <2>2, <2>4, <2>5, <2>6 DEF StoreInv, NamesInv
    <2>9. ObjectsMatchNames'
        <3>1. \A d \in Contents : object[d] # None => object[d] \in Inodes
            BY <1>0 DEF InodeOrNone
        <3> QED BY <2>2, <2>5, <2>7, <3>1 DEF StoreInv, ObjectsMatchNames
    <2>10. PutInv'
        <3>1. \A d \in Contents \ {e} :
                 part'[d] = part[d] /\ (part[d] # None => bytes'[part[d]] = bytes[part[d]])
            BY <1>0, <2>5, <2>6, <2>7 DEF InodeOrNone
        <3>2. part'[e] = i /\ imp'[m].pc = "copy"
            BY <2>3, <2>4, <2>6 DEF Goes, BaseInv, ArchiveTypeOK
        <3> QED BY <1>n, <2>2, <2>3, <2>4, <3>1, <3>2, OthersPut DEF At, InPut, e, l
    <2> QED BY <2>8, <2>9, <2>10 DEF StoreInv
<1>5. CASE Copy(m)
    <2> DEFINE n == [l EXCEPT !.off = l.off + 1]
    <2>1. l.pc = "copy" /\ ~At(m, "idle") /\ Goes(m, n) /\ UNCHANGED <<part, object>>
        BY <1>5 DEF Copy, At
    <2>2. n.pc = "copy" /\ n.fd = l.fd /\ n.dest = e
        BY <1>0, <2>1 DEF Locals
    <2>3. e \in Contents /\ l.fd # None /\ l.fd = part[e]
        BY <1>e, <2>1 DEF InPut, StoreInv, PutInv, At
    <2>4. \A j \in Inodes : j # l.fd => bytes'[j] = bytes[j]
        BY <1>0, <1>5 DEF Copy
    <2>5. \A d \in Contents : object[d] # None => object[d] \in Inodes /\ object[d] # l.fd
        BY <1>0, <2>3 DEF InodeOrNone, StoreInv, NamesInv
    <2> HIDE DEF n, e, l
    <2>6. NamesInv' /\ ObjectsMatchNames'
        BY <2>1, <2>4, <2>5 DEF StoreInv, NamesInv, ObjectsMatchNames
    <2>7. PutInv'
        <3>1. \A d \in Contents \ {e} :
                 part'[d] = part[d] /\ (part[d] # None => bytes'[part[d]] = bytes[part[d]])
            BY <1>0, <2>1, <2>3, <2>4 DEF InodeOrNone, StoreInv, NamesInv
        <3>2. imp'[m].pc = "copy"
            BY <2>1, <2>2 DEF Goes, BaseInv, ArchiveTypeOK
        <3> QED BY <1>n, <2>1, <2>2, <2>3, <3>1, <3>2, OthersPut DEF At, InPut, e, l
    <2> QED BY <2>6, <2>7 DEF StoreInv
<1>6. CASE Close(m)
    <2>1. Goes(m, [l EXCEPT !.pc = "verify", !.fd = None]) /\ UNCHANGED Files
        BY <1>6 DEF Close
    <2>2. [l EXCEPT !.pc = "verify", !.fd = None].pc = "verify"
        BY <1>0 DEF Locals
    <2> QED BY <2>1, <2>2, FilesKept
<1>7. CASE Verify(m)
    <2>1. l.pc = "verify" /\ ~At(m, "idle") /\ part[e] # None
        BY <1>7 DEF Verify, At
    <2>2. e \in Contents
        BY <1>e, <2>1 DEF InPut
    <2>3. CASE bytes[part[e]] = Whole(e)
        <3> DEFINE n == [l EXCEPT !.pc = "replace"]
        <3>1. Goes(m, n) /\ UNCHANGED <<bytes, part, object>>
            BY <1>7, <2>3 DEF Verify, Files
        <3>2. n.pc = "replace" /\ n.dest = e
            BY <1>0 DEF Locals
        <3> HIDE DEF n, e, l
        <3>3. imp'[m].pc = "replace"
            BY <3>1, <3>2 DEF Goes, BaseInv, ArchiveTypeOK
        <3>4. PutInv'
            BY <1>n, <2>1, <2>3, <3>1, <3>2, <3>3, OthersPut DEF At, InPut, e, l
        <3>5. NamesInv' /\ ObjectsMatchNames'
            BY <3>1 DEF StoreInv, NamesInv, ObjectsMatchNames
        <3> QED BY <3>4, <3>5 DEF StoreInv
    <2>4. CASE bytes[part[e]] # Whole(e)
        <3>1. Fails(m, "aborted") /\ Unlinks(m)
            BY <1>7, <2>4 DEF Verify
        <3> QED BY <2>1, <2>2, <3>1, UnlinkKeeps
    <2> QED BY <2>3, <2>4
<1>8. CASE Replace(m)
    <2>1. /\ l.pc = "replace" /\ ~At(m, "idle") /\ UNCHANGED bytes
          /\ object' = [object EXCEPT ![e] = part[e]]
          /\ part' = [part EXCEPT ![e] = None]
        BY <1>8 DEF Replace, At
    <2>2. e \in Contents /\ part[e] # None /\ bytes[part[e]] = Whole(e)
        BY <1>e, <2>1 DEF InPut, StoreInv, PutInv, At
    <2>3. \A d \in Contents : /\ object'[d] = IF d = e THEN part[e] ELSE object[d]
                              /\ part'[d] = IF d = e THEN None ELSE part[d]
        BY <1>0, <2>1
    <2>4. \E n : Goes(m, n) /\ n.pc \in {"load", "manifest"}
        <3> DEFINE seen == Append(l.seen, e)
                   next == [Idle("none") EXCEPT !.pc = "load", !.ref = l.ref + 1, !.seen = seen]
                   last == [Idle("none") EXCEPT !.pc = "manifest", !.seen = seen]
        <3>1. next.pc = "load" /\ last.pc = "manifest"
            BY DEF Idle
        <3>2. Goes(m, IF l.ref < Refs THEN next ELSE last)
            BY <1>8 DEF Replace
        <3> HIDE DEF next, last
        <3> QED BY <3>1, <3>2
    <2> PICK n : Goes(m, n) /\ n.pc \in {"load", "manifest"}
        BY <2>4
    <2> HIDE DEF e, l
    <2>5. NamesInv'
        BY <2>2, <2>3 DEF StoreInv, NamesInv
    <2>6. ObjectsMatchNames'
        BY <2>1, <2>2, <2>3 DEF StoreInv, ObjectsMatchNames
    <2>7. PutInv'
        <3>1. \A d \in Contents \ {e} :
                 part'[d] = part[d] /\ (part[d] # None => bytes'[part[d]] = bytes[part[d]])
            BY <2>1, <2>3
        <3>2. imp'[m].pc \in {"load", "manifest"}
            BY DEF Goes, BaseInv, ArchiveTypeOK
        <3> QED BY <1>n, <2>1, <3>1, <3>2, OthersPut DEF At, InPut, e, l
    <2> QED BY <2>5, <2>6, <2>7 DEF StoreInv
<1>9. CASE PutFails(m)
    <2>1. l.pc \in InPut /\ ~At(m, "idle") /\ Fails(m, "aborted") /\ Unlinks(m)
        BY <1>9 DEF PutFails, At, InPut
    <2> QED BY <1>e, <2>1, UnlinkKeeps
<1>10. CASE WriteManifest(m)
    <2>1. Goes(m, [l EXCEPT !.pc = "bundle"]) /\ UNCHANGED Files
        BY <1>10 DEF WriteManifest
    <2>2. [l EXCEPT !.pc = "bundle"].pc = "bundle"
        BY <1>0 DEF Locals
    <2> QED BY <2>1, <2>2, FilesKept
<1>11. CASE WriteBundle(m)
    <2>1. Goes(m, Idle("imported")) /\ UNCHANGED Files /\ Idle("imported").pc = "idle"
        BY <1>11 DEF WriteBundle, Idle
    <2> QED BY <2>1, FilesKept
<1>12. CASE Killed(m)
    <2>1. Goes(m, Idle("killed")) /\ UNCHANGED Files /\ Idle("killed").pc = "idle"
        BY <1>12 DEF Killed, Fails, Idle
    <2> QED BY <2>1, FilesKept
<1> QED BY <1>1, <1>2, <1>3, <1>4, <1>5, <1>6, <1>7, <1>8, <1>9, <1>10, <1>11, <1>12 DEF Step

LEMMA StoreNext == BaseInv /\ NeverMeet /\ StoreInv /\ [Next]_vars => StoreInv'
<1> SUFFICES ASSUME BaseInv, NeverMeet, StoreInv, [Next]_vars PROVE StoreInv'
    OBVIOUS
<1>1. ASSUME UNCHANGED <<Files, imp>> PROVE StoreInv'
    BY <1>1 DEF StoreInv, NamesInv, PutInv, ObjectsMatchNames, At, Files
<1>2. CASE UNCHANGED vars
    BY <1>1, <1>2 DEF vars, Files
<1>3. ASSUME NEW m \in Imports, NEW k \in 1..Refs, NEW c \in Contents, SourceChanges(m, k, c)
      PROVE  StoreInv'
    BY <1>1, <1>3 DEF SourceChanges
<1> QED BY <1>2, <1>3, StoreStep DEF Next

LEMMA StoreInit == Init => StoreInv
<1> SUFFICES ASSUME Init PROVE StoreInv
    OBVIOUS
<1>1. \A d \in Contents : part[d] = None /\ object[d] = None
    BY DEF Init
<1>2. \A m \in Imports : imp[m].pc = "idle"
    BY DEF Init, Idle
<1> QED BY <1>1, <1>2 DEF StoreInv, NamesInv, PutInv, ObjectsMatchNames, At

-----------------------------------------------------------------------------
(* The theorems.                                                           *)

\* The types of the archive and its imports, with the digest in hand during put
\* only and every listed digest stored under its name (archive.py, cli.py
\* _archive_evidence), whatever imports do at once.
THEOREM ArchiveTypeCorrect == Spec => []BaseInv
BY BaseInit, BaseNext, PTL DEF Spec

\* "re-hashed after the copy, and only then renamed into place": as long as no
\* two imports put one content at once, every object has the hash that is its name, whatever
\* happens to the evidence and wherever an import is killed (archive.py 14-17).
THEOREM ObjectsMatch == Spec /\ []NeverMeet => []ObjectsMatchNames
<1>1. StoreInv => ObjectsMatchNames
    BY DEF StoreInv
<1> QED BY <1>1, StoreInit, StoreNext, ArchiveTypeCorrect, PTL DEF Spec

\* As long as no two imports meet on a content, verify --archive succeeds on every manifest
\* ever written: what it lists is stored, and whole.
THEOREM ManifestsBacked == Spec /\ []NeverMeet => []ManifestIsBacked
<1>1. BaseInv /\ ObjectsMatchNames => ManifestIsBacked
    <2> SUFFICES ASSUME BaseInv, ObjectsMatchNames, NEW m \in Imports, manifest[m] # None,
                        NEW k \in DOMAIN manifest[m]
                 PROVE  LET i == object[manifest[m][k]]
                        IN  i # None /\ bytes[i] = Whole(manifest[m][k])
        BY DEF ManifestIsBacked
    <2>1. manifest[m][k] \in Contents
        BY DEF BaseInv, ArchiveTypeOK
    <2>2. object[manifest[m][k]] # None
        BY DEF BaseInv, ListedInv
    <2> QED BY <2>1, <2>2 DEF ObjectsMatchNames
<1> QED BY <1>1, ArchiveTypeCorrect, ObjectsMatch, PTL

\* Where one import runs at a time the condition holds by itself, and so do both
\* properties (archive.py put, cli.py _archive_evidence), whatever the number of files,
\* kills and changes of the evidence.
THEOREM LoneImports ==
    ASSUME \A m, n \in Imports : m = n
    PROVE  Spec => [](ObjectsMatchNames /\ ManifestIsBacked)
<1>1. NeverMeet
    BY DEF NeverMeet
<1> QED BY <1>1, ObjectsMatch, ManifestsBacked, PTL

\* "leaves no partial object behind": an import that gives up in put takes the
\* temporary name away, even one that somebody else is filling (archive.py
\* 16-17, 57-63).
THEOREM AbortCleans == Spec => AbortLeavesNoPart
<1> DEFINE Cleans == \A m \in Imports :
                 imp[m].answer = "none" /\ imp'[m].answer = "aborted" /\ imp[m].dest # None
                     => part'[imp[m].dest] = None
<1>1. BaseInv /\ [Next]_vars => [Cleans]_vars
    <2> SUFFICES ASSUME BaseInv, Next, NEW n \in Imports, imp[n].answer = "none",
                        imp'[n].answer = "aborted", imp[n].dest # None
                 PROVE  part'[imp[n].dest] = None
        OBVIOUS
    <2>0. /\ imp \in [Imports -> Locals] /\ part \in [Contents -> InodeOrNone]
          /\ imp[n].pc \in InPut /\ imp[n].dest \in Contents
        BY DEF BaseInv, ArchiveTypeOK, DestInv, Locals
    <2>1. ASSUME NEW m \in Imports, NEW k \in 1..Refs, NEW c \in Contents, SourceChanges(m, k, c)
          PROVE  FALSE
        BY <2>1 DEF SourceChanges
    <2>2. ASSUME NEW m \in Imports, Step(m) PROVE part'[imp[n].dest] = None
        <3>1. \E l : imp' = [imp EXCEPT ![m] = l]
            BY <2>2 DEF Step, Start, Load, Hash, Open, Copy, Close, Verify, Replace, PutFails,
                        WriteManifest, WriteBundle, Killed, Fails, Goes
        <3>2. m = n
            BY <2>0, <3>1
        <3>3. Unlinks(m)
            <4>1. ASSUME NEW l, Goes(n, l) PROVE l.answer = "aborted"
                BY <2>0, <4>1 DEF Goes
            <4>2. imp[n].pc \notin {"idle", "load", "hash", "manifest", "bundle"}
                BY <2>0 DEF InPut
            <4>3. ~Start(m) /\ ~Load(m) /\ ~Hash(m) /\ ~WriteManifest(m) /\ ~WriteBundle(m)
                BY <3>2, <4>2 DEF Start, Load, Hash, WriteManifest, WriteBundle, At
            <4>4. ~Open(m) /\ ~Copy(m) /\ ~Close(m)
                <5>1. \A i \in Inodes : [imp[n] EXCEPT !.pc = "copy", !.fd = i, !.off = 0].answer = "none"
                    BY <2>0 DEF Locals
                <5>2. [imp[n] EXCEPT !.off = @ + 1].answer = "none"
                    BY <2>0 DEF Locals
                <5>3. [imp[n] EXCEPT !.pc = "verify", !.fd = None].answer = "none"
                    BY <2>0 DEF Locals
                <5>4. ~Open(m)
                    BY <3>2, <4>1, <5>1 DEF Open
                <5>5. ~Copy(m) /\ ~Close(m)
                    BY <3>2, <4>1, <5>2, <5>3 DEF Copy, Close
                <5> QED BY <5>4, <5>5
            <4>5. ~Replace(m) /\ ~Killed(m)
                <5>1. Idle("killed").answer = "killed"
                    BY DEF Idle
                <5>2. ~Killed(m)
                    BY <3>2, <4>1, <5>1 DEF Killed, Fails
                <5>3. \A r, seen :
                        /\ [Idle("none") EXCEPT !.pc = "load", !.ref = r, !.seen = seen].answer = "none"
                        /\ [Idle("none") EXCEPT !.pc = "manifest", !.seen = seen].answer = "none"
                    BY DEF Idle
                <5>4. Replace(m) => \E l : Goes(m, l) /\ l.answer = "none"
                    <6> SUFFICES ASSUME Replace(m) PROVE \E l : Goes(m, l) /\ l.answer = "none"
                        OBVIOUS
                    <6> DEFINE next(seen) == [Idle("none") EXCEPT !.pc = "load", !.ref = imp[m].ref + 1,
                                                                  !.seen = seen]
                               last(seen) == [Idle("none") EXCEPT !.pc = "manifest", !.seen = seen]
                               put == Append(imp[m].seen, imp[m].dest)
                    <6>1. Goes(m, IF imp[m].ref < Refs THEN next(put) ELSE last(put))
                        BY DEF Replace
                    <6>2. next(put).answer = "none" /\ last(put).answer = "none"
                        BY <5>3
                    <6> HIDE DEF next, last, put
                    <6> QED BY <6>1, <6>2
                <5> QED BY <3>2, <4>1, <5>2, <5>4
            <4>6. Verify(m) => Unlinks(m)
                BY <2>0, <3>2 DEF Verify, Goes, Locals
            <4> QED BY <2>2, <4>3, <4>4, <4>5, <4>6 DEF Step, PutFails
        <3> QED BY <2>0, <3>2, <3>3 DEF Unlinks
    <2> QED BY <2>1, <2>2 DEF Next
<1> QED BY <1>1, ArchiveTypeCorrect, PTL DEF Spec, AbortLeavesNoPart

=============================================================================
