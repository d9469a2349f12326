--------------------------- MODULE ArtifactBundle ---------------------------
(***************************************************************************)
(* A document directory in use (document_directory/, artifact_bundle/): a  *)
(* process that publishes documents in it, writes a sidecar, or publishes  *)
(* it as an artifact bundle, and dies at any point; a second process that  *)
(* reads it meanwhile.  (A sidecar shares no state with a publication, and *)
(* has a directory of its own here.)                                       *)
(*                                                                         *)
(* Each artifact is written by one thread, its writer's owner; any number  *)
(* of threads call publish.  The k-th byte of artifact a is <<a, k>>.      *)
(***************************************************************************)
EXTENDS Sidecar
LOCAL INSTANCE FiniteSetsExt

CONSTANTS
    Artifacts,    \* admissible artifact names, among Names
    MaxLength,    \* bytes written to one artifact
    Limits,       \* BundleReadLimits a reader may have
    MaxChanges    \* changes to a published artifact by someone else

ASSUME BundleAssumption ==
    /\ Artifacts \cup {SidecarName} \subseteq Names
    /\ Manifest \notin Artifacts \cup {SidecarName}
    /\ Artifacts \cap {"read", "audit"} = {}
    /\ MaxLength \in Nat

(* None stands for what is absent: it is no artifact, no bytes, no         *)
(* manifest, no word.                                                      *)
ASSUME NoneAssumption ==
    /\ None \notin Artifacts
    /\ None \notin Seq(Artifacts \X Nat)
    /\ \A S \in SUBSET Artifacts : None \notin [S -> Seq(Artifacts \X Nat)]
    /\ None \notin {"documents", "sidecar", "bundle", "read", "audit",
                    "ACTIVE", "FINALIZED", "FAILED", "MALFORMED", "CONSUMED",
                    "VERIFIED", "MISSING", "MISMATCH"}

VARIABLES
    use,          \* what the directory was allocated for
    state,        \* _state of the publication
    writers,      \* _writers: state of each reserved name, None when absent
    descriptors,  \* _descriptors: the bytes hashed, None when absent
    handle,       \* each name's writer: where its owner is in a call
    buffer,       \* bytes in the handle's buffer
    hashed,       \* bytes the writer hashed and counted
    reader,       \* the reading process; failed is history: an artifact
                  \* could not be opened or read
    changed       \* history: artifacts changed from outside

bundleVars == <<state, writers, descriptors, handle, buffer, hashed>>
vars == <<documentVars, sidecar, use, bundleVars, reader, changed>>

Init ==
    /\ InitDocument
    /\ InitSidecar
    /\ use = None
    /\ state = "OPEN"
    /\ writers = [a \in Artifacts |-> None]
    /\ descriptors = [a \in Artifacts |-> None]
    /\ handle = [a \in Artifacts |-> "none"]
    /\ buffer = [a \in Artifacts |-> <<>>]
    /\ hashed = [a \in Artifacts |-> <<>>]
    /\ reader = [at |-> "idle", op |-> None, limits |-> None, ino |-> 0,
                 raw |-> <<>>, doc |-> None, since |-> 0, todo |-> {},
                 content |-> <<>>, given |-> 0, eof |-> FALSE, result |-> None,
                 failed |-> FALSE]
    /\ changed = {}

(* DocumentDirectory.allocate or ArtifactBundlePublication.allocate        *)
Allocate(as) ==
    /\ alive /\ use = None
    /\ use' = as
    /\ UNCHANGED <<documentVars, sidecar, bundleVars, reader, changed>>

-----------------------------------------------------------------------------
(* Writers.  Failed(a): the writer's failure poisons the publication, if   *)
(* the writer is still active.                                             *)
Failed(a) ==
    /\ writers' = [writers EXCEPT
                     ![a] = IF @ = "ACTIVE" THEN "FAILED" ELSE @]
    /\ state' = IF writers[a] = "ACTIVE" THEN "POISONED" ELSE state
    /\ handle' = [handle EXCEPT ![a] = "none"]

(* open_artifact: the name is reserved under the lock ...                  *)
Reserve(a) ==
    /\ alive /\ use = "bundle"
    /\ state = "OPEN" /\ writers[a] = None
    /\ writers' = [writers EXCEPT ![a] = "ACTIVE"]
    /\ handle' = [handle EXCEPT ![a] = "creating"]
    /\ UNCHANGED <<documentVars, sidecar, use, state, descriptors, buffer,
                   hashed, reader, changed>>

(* ... the child is created exclusively without it ...                     *)
CreateChild(a) ==
    /\ alive /\ handle[a] = "creating"
    /\ \/ /\ Creates
          /\ dir' = [dir EXCEPT ![a] = NewInode]
          /\ handle' = [handle EXCEPT ![a] = "created"]
          /\ UNCHANGED <<faults, writers, state>>
       \/ /\ Fault
          /\ writers' = [writers EXCEPT ![a] = "FAILED"]
          /\ state' = "POISONED"
          /\ handle' = [handle EXCEPT ![a] = "none"]
          /\ UNCHANGED <<data, dir>>
    /\ UNCHANGED <<temps, alive, pub, log, sidecar, use, descriptors, buffer,
                   hashed, reader, changed>>

(* ... and the writer returned, unless the publication was poisoned while  *)
(* the child was created: then the reservation is withdrawn.               *)
AdmitWriter(a) ==
    /\ alive /\ handle[a] = "created"
    /\ \/ /\ state = "OPEN"
          /\ handle' = [handle EXCEPT ![a] = "open"]
          /\ UNCHANGED writers
       \/ /\ state # "OPEN"
          /\ handle' = [handle EXCEPT ![a] = "none"]
          /\ writers' = [writers EXCEPT ![a] = None]
    /\ UNCHANGED <<documentVars, sidecar, use, state, descriptors, buffer,
                   hashed, reader, changed>>

(* The handle's buffer may reach the file at any write, whole or, when a   *)
(* write fails, in part.                                                   *)
Spill(a, bytes) ==
    \/ UNCHANGED data /\ buffer' = [buffer EXCEPT ![a] = bytes]
    \/ /\ Holds(dir[a], data[dir[a]] \o bytes)
       /\ buffer' = [buffer EXCEPT ![a] = <<>>]

SpillPart(a, bytes) ==
    /\ \E n \in 0..Len(bytes) : Holds(dir[a], data[dir[a]] \o First(bytes, n))
    /\ buffer' = [buffer EXCEPT ![a] = <<>>]

(* BundleArtifactWriter.write                                              *)
Write(a, n) ==
    LET written == Len(hashed[a])
        bytes == [k \in 1..n |-> <<a, written + k>>]
    IN
    /\ alive /\ handle[a] = "open"
    /\ writers[a] = "ACTIVE" /\ written + n <= MaxLength
    /\ \/ /\ Spill(a, buffer[a] \o bytes)
          /\ hashed' = [hashed EXCEPT ![a] = @ \o bytes]
          /\ UNCHANGED <<faults, writers, state, handle>>
       \/ /\ Fault
          /\ SpillPart(a, buffer[a] \o bytes)
          /\ Failed(a)
          /\ UNCHANGED hashed
    /\ UNCHANGED <<dir, temps, alive, pub, log, sidecar, use, descriptors,
                   reader, changed>>

(* finalize: flush and close the handle ...                                *)
FlushAndClose(a) ==
    /\ alive /\ handle[a] = "open"
    /\ writers[a] = "ACTIVE"
    /\ \/ /\ Holds(dir[a], data[dir[a]] \o buffer[a])
          /\ buffer' = [buffer EXCEPT ![a] = <<>>]
          /\ handle' = [handle EXCEPT ![a] = "closed"]
          /\ UNCHANGED <<faults, writers, state>>
       \/ /\ Fault
          /\ SpillPart(a, buffer[a])
          /\ Failed(a)
    /\ UNCHANGED <<dir, temps, alive, pub, log, sidecar, use, descriptors,
                   hashed, reader, changed>>

(* ... then _writer_finalized records the descriptor.                      *)
WriterFinalized(a) ==
    /\ alive /\ handle[a] = "closed"
    /\ writers[a] = "ACTIVE"
    /\ descriptors' = [descriptors EXCEPT ![a] = hashed[a]]
    /\ writers' = [writers EXCEPT ![a] = "FINALIZED"]
    /\ handle' = [handle EXCEPT ![a] = "none"]
    /\ UNCHANGED <<documentVars, sidecar, use, state, buffer, hashed, reader,
                   changed>>

-----------------------------------------------------------------------------
Finalized == {a \in Artifacts : descriptors[a] # None}

MayPublishWhileOpen ==
    state = "OPEN"

(* _check_publish_preconditions_locked                                     *)
MayPublish ==
    /\ state = "OPEN"
    /\ \A a \in Artifacts : writers[a] # "ACTIVE"

(* publish: preconditions and the terminal transition under one lock, then *)
(* the manifest, which may not encode, and its publication as the          *)
(* directory's document.                                                   *)
PublishBundle(t) ==
    /\ use = "bundle" /\ MayPublish
    /\ state' = "TERMINAL"
    /\ LET manifest == [a \in Finalized |-> descriptors[a]] IN
       \/ Encodes(t, manifest) /\ UNCHANGED faults
       \/ FailsToEncode(t, manifest) /\ Fault
    /\ UNCHANGED <<fsVars, alive, log, sidecar, use, writers, descriptors,
                   handle, buffer, hashed, reader, changed>>

(* The process is killed.  Buffers are lost, files stay as they are.       *)
Crash ==
    /\ alive /\ use # None
    /\ alive' = FALSE
    /\ UNCHANGED <<fsVars, pub, log, faults, sidecar, use, bundleVars, reader,
                   changed>>

(* Someone else truncates, extends or removes a published artifact.        *)
ChangeArtifact(a) ==
    /\ use = "bundle" /\ dir[Manifest] # 0 /\ dir[a] # 0
    /\ Cardinality(changed) < MaxChanges
    /\ changed' = changed \cup {a}
    /\ LET bytes == data[dir[a]] IN
       \/ /\ bytes # <<>> /\ Holds(dir[a], First(bytes, Len(bytes) - 1))
          /\ UNCHANGED dir
       \/ Holds(dir[a], Append(bytes, None)) /\ UNCHANGED dir
       \/ dir' = [dir EXCEPT ![a] = 0] /\ UNCHANGED data
    /\ UNCHANGED <<temps, alive, pub, log, faults, sidecar, use, bundleVars,
                   reader>>

-----------------------------------------------------------------------------
(* Readers.  What a reading process leaves alone.                          *)
Elsewhere == UNCHANGED <<fsVars, alive, pub, log, sidecar, use, bundleVars,
                         changed>>

Ends(result) == reader' = [reader EXCEPT !.at = "done", !.result = result]

(* CanonicalJsonFile._read_bytes pins the child it finds.  Bundle readers  *)
(* (an audit, or the consumption of the named artifact) do the same.       *)
OpenManifest(op, limits) ==
    /\ reader.at = "idle" /\ use # None
    /\ op # "read" => use = "bundle"
    /\ \/ dir[Manifest] = 0 /\ Ends("INCOMPLETE")
       \/ /\ dir[Manifest] # 0
          /\ reader' = [reader EXCEPT !.at = "reading", !.op = op,
                          !.limits = limits, !.ino = dir[Manifest],
                          !.since = Len(log)]
    /\ Elsewhere /\ UNCHANGED faults

(* One os.read, and at its end the decoding of what was read.  A bundle    *)
(* reader reports a malformed manifest as an incomplete bundle.            *)
ReadManifest ==
    LET file == data[reader.ino]
        seen == Len(reader.raw)
        doc == Decode(reader.raw)
    IN
    /\ reader.at = "reading"
    /\ \/ /\ \E n \in seen + 1 .. Len(file) :
               reader' = [reader EXCEPT
                            !.raw = @ \o SubSeq(file, seen + 1, n)]
          /\ UNCHANGED faults
       \/ /\ seen = Len(file)
          /\ reader' = [reader EXCEPT !.doc = doc,
               !.at = IF reader.op = "read" \/ doc = None THEN "done"
                      ELSE "manifest",
               !.result = CASE doc = None         -> "MALFORMED"
                            [] reader.op = "read" -> "READ"
                            [] OTHER              -> None]
          /\ UNCHANGED faults
       \/ Fault /\ Ends("UNREADABLE")
    /\ Elsewhere

TotalLength(manifest, names) ==
    MapThenSumSet(LAMBDA a : Len(manifest[a]), names)

(* _validate_manifest_limits                                               *)
WithinLimits(manifest, limits) ==
    /\ Cardinality(DOMAIN manifest) <= limits.max_artifacts
    /\ \A a \in DOMAIN manifest :
         Len(manifest[a]) <= limits.max_bytes_per_artifact
    /\ TotalLength(manifest, DOMAIN manifest)
         <= limits.max_total_artifact_bytes

Consumes == reader.op # "audit"

(* The declared bounds, then which artifacts are to be verified: all of    *)
(* them, or the one to consume.  A name the manifest does not declare is   *)
(* reported as MISSING, as a declared artifact that is gone is.            *)
SelectArtifacts ==
    LET declared == DOMAIN reader.doc IN
    /\ reader.at = "manifest"
    /\ \/ ~WithinLimits(reader.doc, reader.limits) /\ Ends("BOUNDS_EXCEEDED")
       \/ /\ WithinLimits(reader.doc, reader.limits)
          /\ Consumes /\ reader.op \notin declared /\ Ends("MISSING")
       \/ /\ WithinLimits(reader.doc, reader.limits)
          /\ ~Consumes /\ declared = {} /\ Ends("VERIFIED")
       \/ /\ WithinLimits(reader.doc, reader.limits)
          /\ IF Consumes THEN reader.op \in declared ELSE declared # {}
          /\ reader' = [reader EXCEPT !.at = "verify",
               !.todo = IF Consumes THEN {reader.op} ELSE declared]
    /\ Elsewhere /\ UNCHANGED faults

(* An OSError while the child is opened or read is reported as MISMATCH,   *)
(* as other bytes are; one of fstat is not caught.                         *)
ReadFails ==
    /\ Fault
    /\ \/ reader' = [reader EXCEPT !.at = "done", !.result = "MISMATCH",
                                   !.failed = TRUE]
       \/ Ends("OSERROR")

(* _read_verified_artifact, bounded by what the earlier ones left.         *)
VerifyArtifact(a) ==
    LET m == reader.doc
        left == reader.limits.max_total_artifact_bytes
                  - TotalLength(m, DOMAIN m \ reader.todo)
        max == IF Consumes THEN reader.limits.max_total_artifact_bytes
               ELSE left
        outcome == VerifiedRead(a,
                     Least(reader.limits.max_bytes_per_artifact, max), m[a])
    IN
    /\ reader.at = "verify" /\ a \in reader.todo
    /\ \/ /\ outcome # "VERIFIED"
          /\ Ends(outcome) /\ UNCHANGED faults
       \/ /\ outcome = "VERIFIED" /\ Consumes
          /\ reader' = [reader EXCEPT !.at = "deliver",
                                      !.content = data[dir[a]]]
          /\ UNCHANGED faults
       \/ /\ outcome = "VERIFIED" /\ ~Consumes
          /\ reader' = [reader EXCEPT
               !.todo = @ \ {a},
               !.at = IF reader.todo = {a} THEN "done" ELSE "verify",
               !.result = IF reader.todo = {a} THEN "VERIFIED" ELSE None]
          /\ UNCHANGED faults
       \/ ReadFails
    /\ Elsewhere

(* VerifyingArtifactReader.read: up to n bytes; none left is end of file.  *)
ConsumerReads(n) ==
    LET left == Len(reader.content) - reader.given IN
    /\ reader.at = "deliver" /\ ~reader.eof
    /\ reader' = [reader EXCEPT !.given = @ + Least(n, left),
                                !.eof = (left = 0)]
    /\ Elsewhere /\ UNCHANGED faults

ReturnsWithoutEof ==
    /\ reader.at = "deliver"
    /\ \/ /\ First(reader.content, reader.given) = reader.doc[reader.op]
          /\ Ends("CONSUMED")
       \/ Ends("INCOMPLETE_CONSUMPTION")
       \/ Ends("CONSUMER_FAILED")
    /\ Elsewhere /\ UNCHANGED faults

(* The consumer returns or raises, and _require_verified judges what it    *)
(* was given.                                                              *)
ConsumerReturns ==
    /\ reader.at = "deliver"
    /\ \/ reader.eof /\ First(reader.content, reader.given)
                          = reader.doc[reader.op] /\ Ends("CONSUMED")
       \/ ~reader.eof /\ Ends("INCOMPLETE_CONSUMPTION")
       \/ Ends("CONSUMER_FAILED")
    /\ Elsewhere /\ UNCHANGED faults

-----------------------------------------------------------------------------
PublisherStep ==
    \/ \E as \in {"documents", "sidecar", "bundle"} : Allocate(as)
    \/ /\ \E t \in Publishers :
            \/ use = "documents" /\ \E d \in Documents : PublishDocument(t, d)
            \/ PublicationStep(t)
       /\ UNCHANGED <<sidecar, use, bundleVars, reader, changed>>
    \/ /\ use = "sidecar" /\ SidecarStep
       /\ UNCHANGED <<use, bundleVars, reader, changed>>
    \/ \E t \in Publishers : PublishBundle(t)
    \/ Crash

WriterStep ==
    \E a \in Artifacts :
        \/ Reserve(a)
        \/ CreateChild(a)
        \/ AdmitWriter(a)
        \/ \E n \in 1..MaxLength : Write(a, n)
        \/ FlushAndClose(a)
        \/ WriterFinalized(a)

ReaderStep ==
    \/ \E op \in {"read", "audit"} \cup Artifacts, limits \in Limits :
         OpenManifest(op, limits)
    \/ ReadManifest
    \/ SelectArtifacts
    \/ \E a \in Artifacts : VerifyArtifact(a)
    \/ \E n \in 1..MaxLength : ConsumerReads(n)
    \/ ConsumerReturns

Next ==
    \/ PublisherStep
    \/ WriterStep
    \/ ReaderStep
    \/ \E a \in Artifacts : ChangeArtifact(a)

Spec == Init /\ [][Next]_vars

-----------------------------------------------------------------------------
Target == Decode(data[dir[Manifest]])

(* Readers never meet a partial document.  The target, once there, is the  *)
(* complete document of the last replacement, whatever failed or was       *)
(* killed on the way; a read that found it returns the document that was   *)
(* the target when it opened it, however often it is replaced while it     *)
(* reads (canonical_json.py _publish_bytes against _read_bytes).           *)
ReadsOneDocument ==
    /\ (dir[Manifest] = 0) <=> (log = <<>>)
    /\ log # <<>> => Target = log[Len(log)][2]
    /\ reader.result # "MALFORMED"
    /\ reader.doc # None => reader.doc = log[reader.since][2]

Installed(t) == \E i \in 1..Len(log) : log[i][1] = t

(* What publish reports is what happened to the target: it returned, or    *)
(* says REPLACED, and its document became the target; it says NOT_REPLACED *)
(* and it never did; only a failed os.replace says UNKNOWN.  A publication *)
(* that ended leaves no temporary behind unless its unlink failed or it    *)
(* was interrupted (canonical_json.py _publish_bytes).                     *)
OutcomeTruthful ==
    /\ \A t \in Publishers : pub[t].at = "done" =>
         /\ ~pub[t].failed => pub[t].replaced = "REPLACED"
         /\ pub[t].replaced = "REPLACED" => Installed(t)
         /\ pub[t].replaced = "NOT_REPLACED" => ~Installed(t)
         /\ pub[t].replaced = "UNKNOWN" => pub[t].stage = "REPLACE_TARGET"
    /\ alive => \A i \in temps : \E t \in Publishers :
                  /\ pub[t].ino = i
                  /\ pub[t].at # "done" \/ pub[t].orphan

(* A manifest on disk means a complete bundle: every admitted writer was   *)
(* finalized, none failed or is still active, and each declared artifact   *)
(* holds exactly the bytes its writer was given, even when the process     *)
(* died right after (publication.py publish, finalize).                    *)
ManifestMeansComplete ==
    use = "bundle" /\ dir[Manifest] # 0 =>
        /\ \A a \in Artifacts : writers[a] \in {None, "FINALIZED"}
        /\ DOMAIN Target = {a \in Artifacts : writers[a] = "FINALIZED"}
        /\ \A a \in DOMAIN Target \ changed :
             data[dir[a]] = hashed[a] /\ Target[a] = hashed[a]

(* Verified bytes are the bytes that were published.  An audit accepts or  *)
(* a consumption succeeds, its end seen, only for what was written, and a  *)
(* consumer is given nothing else, though the file be changed meanwhile.   *)
(* When nobody changed an artifact, MISSING is reported only for a name    *)
(* no finalized writer had, and MISMATCH only when the file could not be   *)
(* opened or read (reading.py audit, consume_and_verify_artifact;          *)
(* verified_read.py).                                                      *)
VerifiedMeansExact ==
    /\ reader.content # <<>> => reader.content = hashed[reader.op]
    /\ reader.result = "CONSUMED" =>
         reader.eof /\ First(reader.content, reader.given) = hashed[reader.op]
    /\ reader.result = "VERIFIED" =>
         \A a \in Artifacts : writers[a] = "FINALIZED" =>
           a \in DOMAIN reader.doc /\ reader.doc[a] = hashed[a]
    /\ reader.result = "MISSING" /\ changed = {} =>
         reader.op \in {a \in Artifacts : writers[a] # "FINALIZED"}
    /\ reader.result = "MISMATCH" /\ changed = {} => reader.failed

(* A finalized sidecar holds the head of the stream and then the last      *)
(* bytes of the rest, each as long as its cap allows, its counts add up to *)
(* the stream, and it verifies against its own summary, however the stream *)
(* was cut into chunks (sidecar.py write, finalize, verify_sidecar).       *)
SidecarKeepsHeadAndTail ==
    sidecar.at = "finalized" =>
        LET n == sidecar.produced
            h == IF sidecar.head_cap = None THEN n
                 ELSE Least(n, sidecar.head_cap)
            t == Least(n - h, sidecar.tail_cap)
            kept == Numbered(1, h) \o Numbered(n + 1 - t, n)
        IN
        /\ sidecar.head_length = h
        /\ sidecar.dropped = n - h - t
        /\ VerifiedRead(SidecarName,
             sidecar.head_length + Len(sidecar.tail), kept) = "VERIFIED"
=============================================================================
