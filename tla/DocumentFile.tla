---------------------------- MODULE DocumentFile ----------------------------
(***************************************************************************)
(* One directory on disk, and the canonical document that publishers       *)
(* replace and readers read in it (document_file/canonical_json.py,        *)
(* document_directory/directory.py).                                       *)
(*                                                                         *)
(* A file is an inode: data[i] is what it holds, dir the name that leads   *)
(* to it.  Temporary names carry a uuid and are never met again, so they   *)
(* are the set temps of the inodes that still have one.  The encoding of a *)
(* document is two pieces that os.write and os.read may separate; a hash   *)
(* is as good as what it is the hash of.                                   *)
(***************************************************************************)
EXTENDS Naturals, Sequences, FiniteSets

CONSTANTS
    Publishers,   \* calls of publish, each of them a thread or process
    Documents,    \* what callers publish
    Unencodable,  \* documents over max_bytes or max_depth, or not JSON
    Names,        \* names of direct children
    Manifest,     \* the name of the canonical document, one of Names
    MaxFaults,    \* OS calls that fail
    None

ASSUME DocumentAssumption ==
    /\ Manifest \in Names
    /\ Unencodable \subseteq Documents
    /\ MaxFaults \in Nat
    /\ None \notin Documents

VARIABLES
    data,     \* what each inode holds, in order of creation
    dir,      \* the inode of each name, 0 when there is no such child
    temps,    \* inodes with a temporary name
    alive,    \* the publishing process runs
    pub,      \* each publication
    log,      \* history: the replacements of the target, <<publisher, document>>
    faults

fsVars == <<data, dir, temps>>
documentVars == <<fsVars, alive, pub, log, faults>>

InitDocument ==
    /\ data = <<>>
    /\ dir = [n \in Names |-> 0]
    /\ temps = {}
    /\ alive = TRUE
    /\ pub = [t \in Publishers |->
                [at |-> "idle", doc |-> None, ino |-> 0, failed |-> FALSE,
                 stage |-> None, replaced |-> "NOT_REPLACED",
                 orphan |-> FALSE]]
    /\ log = <<>>
    /\ faults = 0

(* canonical_json_bytes, and decode_strict_json_bytes with the canonicality *)
(* check: bytes that are no complete document decode to None.              *)
Encode(d) == <<<<d, 1>>, <<d, 2>>>>

Decode(raw) ==
    IF raw # <<>> /\ raw = Encode(raw[1][1]) THEN raw[1][1] ELSE None

(* read_verified_regular_child: the bytes of a child, or why they are not  *)
(* what the caller expects.  (Equal bytes are equal length and hash.)      *)
VerifiedRead(name, max, expected) ==
    LET raw == data[dir[name]] IN
    CASE dir[name] = 0       -> "MISSING"
      [] Len(raw) > max      -> "BOUNDS_EXCEEDED"
      [] raw # expected      -> "MISMATCH"
      [] OTHER               -> "VERIFIED"

Fault == faults < MaxFaults /\ faults' = faults + 1

(* A new file, the next inode.                                             *)
Creates == data' = Append(data, <<>>)
NewInode == Len(data) + 1

Holds(i, bytes) == data' = [data EXCEPT ![i] = bytes]

Moves(t, at) == pub' = [pub EXCEPT ![t].at = at]

Fails(t) == Fault /\ pub' = [pub EXCEPT ![t].at = "close", ![t].failed = TRUE]

-----------------------------------------------------------------------------
(* publish, up to the file system: a document that does not encode within  *)
(* the bounds is refused before anything is touched.                       *)
Encodes(t, d) ==
    /\ alive /\ pub[t].at = "idle"
    /\ pub' = [pub EXCEPT ![t].at = "create", ![t].doc = d,
                          ![t].stage = "CREATE_TEMP"]

FailsToEncode(t, d) ==
    /\ alive /\ pub[t].at = "idle"
    /\ pub' = [pub EXCEPT ![t].at = "done", ![t].doc = d,
                          ![t].stage = "ENCODE", ![t].failed = TRUE]

PublishDocument(t, d) ==
    /\ \/ d \notin Unencodable /\ Encodes(t, d)
       \/ d \in Unencodable /\ FailsToEncode(t, d)
    /\ UNCHANGED <<fsVars, alive, log, faults>>

CreateInPlace(t) ==
    /\ alive /\ pub[t].at = "create"
    /\ Creates
    /\ dir' = [dir EXCEPT ![Manifest] = NewInode]
    /\ log' = Append(log, <<t, pub[t].doc>>)
    /\ pub' = [pub EXCEPT ![t].at = "write", ![t].ino = NewInode,
                          ![t].stage = "WRITE_TEMP"]
    /\ UNCHANGED <<temps, alive, faults>>

(* The directory is pinned and the temporary created exclusively; a        *)
(* failure of either leaves nothing.                                       *)
CreateTemp(t) ==
    /\ alive /\ pub[t].at = "create"
    /\ \/ /\ Creates
          /\ temps' = temps \cup {NewInode}
          /\ pub' = [pub EXCEPT ![t].at = "write", ![t].ino = NewInode,
                                ![t].stage = "WRITE_TEMP"]
          /\ UNCHANGED faults
       \/ Fails(t) /\ UNCHANGED <<data, temps>>
    /\ UNCHANGED <<dir, alive, log>>

(* One os.write of _write_all, or its failure, or, all written, the close  *)
(* of the temporary.                                                       *)
WriteTemp(t) ==
    LET i == pub[t].ino
        left == SubSeq(Encode(pub[t].doc), Len(data[i]) + 1, 2)
    IN
    /\ alive /\ pub[t].at = "write"
    /\ \/ \E n \in 1..Len(left) :
            /\ Holds(i, data[i] \o SubSeq(left, 1, n))
            /\ UNCHANGED <<pub, faults>>
       \/ /\ left = <<>>
          /\ pub' = [pub EXCEPT ![t].at = "replace",
                                ![t].stage = "REPLACE_TARGET",
                                ![t].replaced = "UNKNOWN"]
          /\ UNCHANGED <<data, faults>>
       \/ Fails(t) /\ UNCHANGED data
    /\ UNCHANGED <<dir, temps, alive, log>>

Replaces(t) ==
    /\ dir' = [dir EXCEPT ![Manifest] = pub[t].ino]
    /\ temps' = temps \ {pub[t].ino}
    /\ log' = Append(log, <<t, pub[t].doc>>)

ReplaceReportsNothing(t) ==
    /\ alive /\ pub[t].at = "replace"
    /\ \/ /\ Replaces(t)
          /\ pub' = [pub EXCEPT ![t].at = "close", ![t].replaced = "REPLACED"]
          /\ UNCHANGED faults
       \/ /\ Fault
          /\ pub' = [pub EXCEPT ![t].at = "close", ![t].failed = TRUE,
                                ![t].replaced = "NOT_REPLACED"]
          /\ \/ Replaces(t)
             \/ UNCHANGED <<dir, temps, log>>
    /\ UNCHANGED <<data, alive>>

(* os.replace.  An error does not tell whether the target changed.         *)
Replace(t) ==
    /\ alive /\ pub[t].at = "replace"
    /\ \/ /\ Replaces(t)
          /\ pub' = [pub EXCEPT ![t].at = "close", ![t].replaced = "REPLACED"]
          /\ UNCHANGED faults
       \/ /\ Fails(t)
          /\ \/ Replaces(t)
             \/ UNCHANGED <<dir, temps, log>>
    /\ UNCHANGED <<data, alive>>

(* _finalize_publication_resources: after a failure the temporary, if it   *)
(* is still owned, is unlinked (an error of that is suppressed); closing   *)
(* the directory may be what fails.                                        *)
FinalizeResources(t) ==
    /\ alive /\ pub[t].at = "close"
    /\ \/ /\ pub[t].failed
          /\ temps' = temps \ {pub[t].ino}
          /\ Moves(t, "done")
          /\ UNCHANGED faults
       \/ /\ pub[t].failed /\ pub[t].ino # 0
          /\ Fault
          /\ pub' = [pub EXCEPT ![t].at = "done", ![t].orphan = TRUE]
          /\ UNCHANGED temps
       \/ /\ ~pub[t].failed
          /\ Moves(t, "done")
          /\ UNCHANGED <<temps, faults>>
       \/ /\ ~pub[t].failed
          /\ Fault
          /\ pub' = [pub EXCEPT ![t].at = "done", ![t].failed = TRUE]
          /\ UNCHANGED temps
    /\ UNCHANGED <<data, dir, alive, log>>

(* A KeyboardInterrupt is no Exception: the finally clause sees no failure *)
(* and closes the descriptors without unlinking the temporary.             *)
Interrupt(t) ==
    /\ alive /\ pub[t].at \in {"create", "write", "replace"}
    /\ Fault
    /\ pub' = [pub EXCEPT ![t].at = "interrupted",
                          ![t].orphan = (pub[t].ino # 0)]
    /\ UNCHANGED <<fsVars, alive, log>>

PublicationStep(t) ==
    \/ CreateTemp(t)
    \/ WriteTemp(t)
    \/ Replace(t)
    \/ FinalizeResources(t)
    \/ Interrupt(t)
=============================================================================
