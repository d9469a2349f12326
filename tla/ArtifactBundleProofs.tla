------------------------ MODULE ArtifactBundleProofs ------------------------
(***************************************************************************)
(* Proofs of ArtifactBundle's invariants, for every set of publishers,     *)
(* documents, artifacts and names, any length of artifacts and streams,    *)
(* and any number of failures and changes.                                 *)
(*                                                                         *)
(* Four invariants, each resting on the ones before it.  FileInv: whose    *)
(* inode is whose, and what every publication may say about itself.        *)
(* SidecarInv: how far a sidecar's head and tail got.  BundleInv: what the *)
(* writers of a bundle hold, and that a manifest, once encoded, is final.  *)
(* ReaderInv: what a reader has seen of the document it opened.            *)
(***************************************************************************)
EXTENDS ArtifactBundle, SequenceTheorems, TLAPS

ArtifactBytes == Artifacts \X Nat
Manifests == UNION {[S -> Seq(ArtifactBytes)] : S \in SUBSET Artifacts}
Content == Documents \cup Manifests
Bytes == (Content \X {1, 2}) \cup Nat \cup ArtifactBytes \cup {None}
Children == Names \ {Manifest}

(* What os.write may have left of a document's encoding.                   *)
Prefixes(d) == {<<>>, <<<<d, 1>>>>, Encode(d)}

Publication ==
    [at : {"idle", "create", "write", "replace", "close", "done",
           "interrupted"},
     doc : Content \cup {None}, ino : Nat, failed : BOOLEAN,
     stage : {None, "ENCODE", "CREATE_TEMP", "WRITE_TEMP", "REPLACE_TARGET"},
     replaced : {"NOT_REPLACED", "UNKNOWN", "REPLACED"}, orphan : BOOLEAN]

-----------------------------------------------------------------------------
(***************************************************************************)
(* Every inode has one owner: a publication, or a child's name.            *)
(***************************************************************************)
InodesOwned ==
    /\ data \in Seq(Seq(Bytes))
    /\ dir \in [Names -> 0..Len(data)]
    /\ temps \subseteq 1..Len(data)
    /\ \A m, n \in Children : dir[m] = dir[n] /\ dir[m] # 0 => m = n
    /\ \A t \in Publishers : pub[t].ino \in 0..Len(data)
    /\ \A t, u \in Publishers :
         pub[t].ino = pub[u].ino /\ pub[t].ino # 0 => t = u
    /\ \A t \in Publishers, n \in Children :
         pub[t].ino = dir[n] => dir[n] = 0

(* What a publication says of itself at each point of publish, given       *)
(* whether it was installed.                                               *)
Honest(p, installed) ==
    /\ p.at = "idle" => p.ino = 0
    /\ p.at # "idle" => p.doc \in Content
    /\ p.at \in {"idle", "create", "write", "replace", "interrupted"} =>
         ~p.failed /\ ~installed
    /\ p.at = "create" => p.ino = 0
    /\ p.at \in {"write", "replace"} => p.ino # 0
    /\ p.at \in {"idle", "create", "write"} => p.replaced = "NOT_REPLACED"
    /\ p.at = "replace" => p.replaced = "UNKNOWN"
    /\ p.at \in {"close", "done"} =>
         /\ ~p.failed => p.replaced = "REPLACED"
         /\ p.replaced = "REPLACED" => installed
         /\ p.replaced = "NOT_REPLACED" => ~installed
    /\ p.replaced = "UNKNOWN" => p.stage = "REPLACE_TARGET"
    /\ installed => p.ino # 0 /\ p.ino \notin temps

(* What the inode of a publication holds.                                  *)
Written(t) ==
    /\ pub[t].at = "write" => data[pub[t].ino] \in Prefixes(pub[t].doc)
    /\ pub[t].at = "replace" \/ Installed(t) =>
         data[pub[t].ino] = Encode(pub[t].doc)

(* The target is the inode of the last publication in the log.             *)
LogOK ==
    /\ log \in Seq(Publishers \X Content)
    /\ \A i \in 1..Len(log) : log[i][2] = pub[log[i][1]].doc
    /\ dir[Manifest] = IF log = <<>> THEN 0 ELSE pub[log[Len(log)][1]].ino

TempsOwned ==
    alive => \A i \in temps : \E t \in Publishers :
        pub[t].ino = i /\ (pub[t].at # "done" \/ pub[t].orphan)

FileInv ==
    /\ alive \in BOOLEAN
    /\ faults \in Nat
    /\ pub \in [Publishers -> Publication]
    /\ InodesOwned
    /\ \A t \in Publishers : Honest(pub[t], Installed(t))
    /\ \A t \in Publishers : Written(t)
    /\ LogOK
    /\ TempsOwned

-----------------------------------------------------------------------------
(***************************************************************************)
(* The sidecar: after n bytes the head has what its cap allows, the tail   *)
(* the last of the rest, and the others are counted.                       *)
(***************************************************************************)
SidecarType ==
    [at : {"none", "open", "abandoned", "finalized"},
     head_cap : Nat \cup {None}, tail_cap : Nat, head_length : Nat,
     tail : Seq(Nat), produced : Nat, dropped : Nat]

HeadOf(s) ==
    IF s.head_cap = None THEN s.produced ELSE Least(s.produced, s.head_cap)

TailOf(s) == Least(s.produced - HeadOf(s), s.tail_cap)

Counted(s) ==
    /\ s.head_length = HeadOf(s)
    /\ s.tail = Numbered(s.produced + 1 - TailOf(s), s.produced)
    /\ s.dropped = s.produced - HeadOf(s) - TailOf(s)

SidecarInv ==
    /\ sidecar \in SidecarType
    /\ sidecar.at # "none" => use = "sidecar"
    /\ sidecar.at = "none" =>
         sidecar.head_length = 0 /\ sidecar.tail = <<>>
           /\ sidecar.produced = 0 /\ sidecar.dropped = 0
    /\ sidecar.at \in {"open", "finalized"} =>
         dir[SidecarName] # 0 /\ Counted(sidecar)
    /\ sidecar.at = "open" =>
         data[dir[SidecarName]] = Numbered(1, sidecar.head_length)
    /\ sidecar.at = "finalized" =>
         data[dir[SidecarName]]
           = Numbered(1, sidecar.head_length) \o sidecar.tail

-----------------------------------------------------------------------------
(***************************************************************************)
(* The bundle.                                                             *)
(***************************************************************************)
BundleType ==
    /\ use \in {None, "documents", "sidecar", "bundle"}
    /\ state \in {"OPEN", "POISONED", "TERMINAL"}
    /\ writers \in [Artifacts -> {None, "ACTIVE", "FINALIZED", "FAILED"}]
    /\ descriptors \in [Artifacts -> Seq(ArtifactBytes) \cup {None}]
    /\ handle \in [Artifacts -> {"none", "creating", "created", "open",
                                 "closed"}]
    /\ buffer \in [Artifacts -> Seq(ArtifactBytes)]
    /\ hashed \in [Artifacts -> Seq(ArtifactBytes)]
    /\ changed \subseteq Artifacts

(* The directory is put to one use.                                        *)
OneUse ==
    /\ use \notin {"documents", "bundle"} =>
         \A t \in Publishers : pub[t].at = "idle"
    /\ use # "bundle" => \A a \in Artifacts : writers[a] = None

(* The file and the buffer make up the bytes that were hashed.             *)
WriterOK(a) ==
    /\ handle[a] # "none" <=> writers[a] = "ACTIVE"
    /\ descriptors[a] # None <=> writers[a] = "FINALIZED"
    /\ writers[a] = None \/ handle[a] \in {"creating", "created"} =>
         hashed[a] = <<>> /\ buffer[a] = <<>>
    /\ handle[a] \in {"created", "open", "closed"} => dir[a] # 0
    /\ handle[a] = "created" => data[dir[a]] = <<>>
    /\ handle[a] = "open" => data[dir[a]] \o buffer[a] = hashed[a]
    /\ handle[a] = "closed" => data[dir[a]] = hashed[a]
    /\ writers[a] = "FINALIZED" => descriptors[a] = hashed[a]
    /\ writers[a] = "FINALIZED" /\ a \notin changed =>
         dir[a] # 0 /\ data[dir[a]] = hashed[a]

FailurePoisons ==
    \A a \in Artifacts : writers[a] = "FAILED" => state = "POISONED"

(* Once a manifest is encoded nothing it says can change.                  *)
TerminalIsFinal ==
    /\ state = "TERMINAL" =>
         \A a \in Artifacts : writers[a] \in {None, "FINALIZED"}
    /\ use = "bundle" => \A t \in Publishers : pub[t].at # "idle" =>
         /\ state = "TERMINAL"
         /\ pub[t].doc = [a \in Finalized |-> descriptors[a]]

BundleInv ==
    /\ BundleType
    /\ OneUse
    /\ \A a \in Artifacts : WriterOK(a)
    /\ FailurePoisons
    /\ TerminalIsFinal

-----------------------------------------------------------------------------
(***************************************************************************)
(* The reader.                                                             *)
(***************************************************************************)
Reader ==
    [at : {"idle", "reading", "manifest", "verify", "deliver", "done"},
     op : {None, "read", "audit"} \cup Artifacts, limits : Limits \cup {None},
     ino : Nat, raw : Seq(Bytes), doc : Content \cup {None}, since : Nat,
     todo : SUBSET Artifacts, content : Seq(Bytes), given : Nat,
     eof : BOOLEAN, failed : BOOLEAN,
     result : {None, "INCOMPLETE", "MALFORMED", "READ", "UNREADABLE",
               "BOUNDS_EXCEEDED", "OSERROR", "VERIFIED", "MISSING",
               "MISMATCH", "CONSUMED", "INCOMPLETE_CONSUMPTION",
               "CONSUMER_FAILED"}]

(* The open file is the one that was the target at opening.                *)
Opened ==
    reader.since # 0 =>
        /\ reader.since \in 1..Len(log)
        /\ reader.ino = pub[log[reader.since][1]].ino
        /\ reader.raw \in Prefixes(log[reader.since][2])

(* Results that say something about the artifacts.                         *)
Judgements == {"CONSUMED", "VERIFIED", "MISSING", "MISMATCH"}

ReaderAt ==
    /\ reader.at = "idle" => reader.since = 0 /\ reader.raw = <<>>
    /\ reader.at \in {"idle", "reading", "manifest", "verify"} =>
         /\ reader.result = None /\ reader.content = <<>>
         /\ ~reader.eof /\ reader.given = 0
    /\ reader.at \in {"idle", "reading"} => reader.doc = None
    /\ reader.at = "reading" => reader.since # 0
    /\ reader.at = "reading" /\ reader.op # "read" => use = "bundle"
    /\ reader.at \in {"manifest", "verify", "deliver"} =>
         reader.doc # None /\ use = "bundle" /\ reader.op # "read"
    /\ reader.at \in {"reading", "manifest"} => reader.op # None
    /\ reader.doc # None =>
         reader.since # 0 /\ reader.doc = log[reader.since][2]
    /\ reader.at = "verify" =>
         /\ reader.todo \subseteq DOMAIN reader.doc
         /\ reader.op # "audit" => reader.todo = {reader.op}
    /\ reader.at = "deliver" =>
         /\ reader.op \in DOMAIN reader.doc
         /\ reader.content = reader.doc[reader.op]
         /\ reader.given <= Len(reader.content)
         /\ reader.result = None
    /\ reader.content # <<>> \/ reader.result \in Judgements =>
         reader.doc # None /\ use = "bundle"

ReaderInv ==
    /\ reader \in Reader
    /\ Opened
    /\ ReaderAt
    /\ reader.result # "MALFORMED"
    /\ VerifiedMeansExact

Inv ==
    /\ FileInv
    /\ SidecarInv
    /\ BundleInv
    /\ ReaderInv
-----------------------------------------------------------------------------
(***************************************************************************)
(* The files.                                                              *)
(***************************************************************************)
(* The types of what the file invariant is about, in the form the steps    *)
(* below use.                                                              *)
LEMMA FileTypes ==
    ASSUME FileInv
    PROVE  /\ Len(data) \in Nat
           /\ DOMAIN data = 1..Len(data)
           /\ \A i \in 1..Len(data) : data[i] \in Seq(Bytes)
           /\ dir \in [Names -> Nat]
           /\ Len(log) \in Nat
           /\ \A i \in 1..Len(log) :
                log[i][1] \in Publishers /\ log[i][2] \in Content
           /\ pub \in [Publishers -> Publication]
BY DEF FileInv, InodesOwned, LogOK

(* A step that leaves files and publications alone, a crash included.      *)
LEMMA FilesKept ==
    ASSUME FileInv, UNCHANGED <<fsVars, pub, log>>,
           alive' \in BOOLEAN, alive' => alive, faults' \in Nat
    PROVE  FileInv'
BY DEF FileInv, fsVars, InodesOwned, Honest, Installed, Written, LogOK,
       TempsOwned

(* A child that is not the document is written.                            *)
LEMMA ChildWritten ==
    ASSUME FileInv, NEW n \in Children, dir[n] # 0,
           NEW b \in Seq(Bytes), Holds(dir[n], b),
           UNCHANGED <<dir, temps, alive, pub, log>>, faults' \in Nat
    PROVE  FileInv'
<1> PICK i : i = dir[n]
  OBVIOUS
<1>1. n \in Names /\ i \in 1..Len(data) /\ data' = [data EXCEPT ![i] = b]
  BY FileTypes DEF Children, FileInv, InodesOwned, Holds
<1>2. data' \in Seq(Seq(Bytes)) /\ Len(data') = Len(data)
  BY <1>1 DEF FileInv, InodesOwned
<1>3. \A j \in 1..Len(data) : j # i => data'[j] = data[j]
  BY <1>1, FileTypes
<1>4. InodesOwned'
  BY <1>2 DEF FileInv, InodesOwned
<1>5. ASSUME NEW t \in Publishers
      PROVE  Written(t)'
  <2>1. pub[t].ino # i /\ pub[t].ino \in 0..Len(data)
    BY <1>1 DEF FileInv, InodesOwned
  <2>2. Written(t) /\ Honest(pub[t], Installed(t))
    BY DEF FileInv
  <2>3. pub[t].at \in {"write", "replace"} \/ Installed(t) =>
          data'[pub[t].ino] = data[pub[t].ino]
    BY <1>3, <2>1, <2>2, FileTypes DEF Honest
  <2> QED
    BY <2>2, <2>3 DEF Written, Installed
<1> QED
  BY <1>4, <1>5 DEF FileInv, Honest, Installed, LogOK, TempsOwned

(* A child that is not the document is created.                            *)
LEMMA ChildCreated ==
    ASSUME FileInv, NEW n \in Children,
           Creates, dir' = [dir EXCEPT ![n] = NewInode],
           UNCHANGED <<temps, alive, pub, log>>, faults' \in Nat
    PROVE  FileInv'
<1> PICK i : i = NewInode
  OBVIOUS
<1>1. /\ n \in Names /\ n # Manifest /\ Len(data) \in Nat
      /\ i = Len(data) + 1 /\ dir' = [dir EXCEPT ![n] = i]
  BY FileTypes DEF Children, NewInode
<1>2. /\ data' \in Seq(Seq(Bytes)) /\ Len(data') = Len(data) + 1
      /\ \A j \in 1..Len(data) : data'[j] = data[j]
  BY DEF FileInv, InodesOwned, Creates
<1>3. InodesOwned'
  <2>1. dir' \in [Names -> 0..Len(data')] /\ temps' \subseteq 1..Len(data')
    BY <1>1, <1>2 DEF FileInv, InodesOwned
  <2>2. \A m \in Names : dir[m] \in 0..Len(data)
    BY DEF FileInv, InodesOwned
  <2>3. \A m, k \in Children : dir'[m] = dir'[k] /\ dir'[m] # 0 => m = k
    BY <1>1, <2>2 DEF FileInv, InodesOwned, Children
  <2>4. \A t \in Publishers : pub'[t].ino \in 0..Len(data')
    BY <1>1, <1>2 DEF FileInv, InodesOwned
  <2>5. \A t \in Publishers, m \in Children :
           pub'[t].ino = dir'[m] => dir'[m] = 0
    BY <1>1, <2>2 DEF FileInv, InodesOwned, Children
  <2> QED
    BY <1>2, <2>1, <2>3, <2>4, <2>5 DEF FileInv, InodesOwned
<1>4. ASSUME NEW t \in Publishers
      PROVE  Written(t)'
  <2>1. pub[t].ino \in 0..Len(data)
    BY DEF FileInv, InodesOwned
  <2>2. Written(t) /\ Honest(pub[t], Installed(t))
    BY DEF FileInv
  <2>3. pub[t].at \in {"write", "replace"} \/ Installed(t) =>
          data'[pub[t].ino] = data[pub[t].ino]
    BY <1>2, <2>1, <2>2, FileTypes DEF Honest
  <2> QED
    BY <2>2, <2>3 DEF Written, Installed
<1>5. LogOK'
  BY <1>1, DocumentAssumption DEF FileInv, InodesOwned, LogOK
<1> QED
  BY <1>3, <1>4, <1>5 DEF FileInv, Honest, Installed, TempsOwned

(* A child that is not the document is removed.                            *)
LEMMA ChildRemoved ==
    ASSUME FileInv, NEW n \in Children, dir' = [dir EXCEPT ![n] = 0],
           UNCHANGED <<data, temps, alive, pub, log, faults>>
    PROVE  FileInv'
<1>1. n \in Names /\ n # Manifest
  BY DEF Children
<1>2. InodesOwned'
  BY <1>1 DEF FileInv, InodesOwned, Children
<1>3. LogOK'
  BY <1>1, DocumentAssumption DEF FileInv, InodesOwned, LogOK
<1> QED
  BY <1>2, <1>3 DEF FileInv, Honest, Installed, Written, TempsOwned

(* A failure is counted.                                                   *)
LEMMA FaultCounted == FileInv /\ Fault => faults' \in Nat
BY DEF FileInv, Fault

(* A publication moves on without touching what its file holds or whether  *)
(* it is installed.                                                        *)
LEMMA PublicationMoves ==
    ASSUME FileInv, NEW t \in Publishers, NEW q \in Publication,
           pub' = [pub EXCEPT ![t] = q],
           q.ino = pub[t].ino,
           q.doc = pub[t].doc \/ pub[t].at = "idle",
           Honest(q, Installed(t)),
           q.at # "write",
           q.at = "replace" => data[q.ino] = Encode(q.doc),
           temps' \subseteq temps,
           alive => \A i \in temps' :
               i = q.ino => q.at # "done" \/ q.orphan,
           UNCHANGED <<data, dir, alive, log>>, faults' \in Nat
    PROVE  FileInv'
<1>1. /\ pub' \in [Publishers -> Publication]
      /\ pub'[t] = q
      /\ \A u \in Publishers : u # t => pub'[u] = pub[u]
      /\ \A u \in Publishers : pub'[u].ino = pub[u].ino
  BY FileTypes
<1>2. InodesOwned'
  BY <1>1 DEF FileInv, InodesOwned
<1>3. \A u \in Publishers : Honest(pub[u], Installed(u)) /\ Written(u)
  BY DEF FileInv
<1>4. \A u \in Publishers : Installed(u)' <=> Installed(u)
  BY DEF Installed
<1>5. \A u \in Publishers : Installed(u) => pub'[u].doc = pub[u].doc
  BY <1>1, <1>3 DEF Honest
<1>6. ASSUME NEW u \in Publishers
      PROVE  Honest(pub[u], Installed(u))' /\ Written(u)'
  <2>1. CASE u = t
    <3>1. Honest(q, Installed(t))'
      BY <1>4 DEF Honest
    <3>2. Installed(t) => data[q.ino] = Encode(q.doc)
      BY <1>1, <1>3, <1>5 DEF Written
    <3> QED
      BY <1>1, <1>4, <2>1, <3>1, <3>2 DEF Written
  <2>2. CASE u # t
    BY <1>1, <1>3, <1>4, <2>2 DEF Honest, Written
  <2> QED
    BY <2>1, <2>2
<1>7. LogOK'
  <2>1. \A i \in 1..Len(log) : Installed(log[i][1])
    BY DEF Installed
  <2> QED
    BY <1>1, <1>5, <2>1, FileTypes DEF FileInv, LogOK
<1>8. TempsOwned'
  <2> SUFFICES ASSUME alive, NEW i \in temps'
               PROVE  \E u \in Publishers : pub'[u].ino = i
                        /\ (pub'[u].at # "done" \/ pub'[u].orphan)
    BY DEF TempsOwned
  <2>1. PICK u \in Publishers :
          pub[u].ino = i /\ (pub[u].at # "done" \/ pub[u].orphan)
    BY DEF FileInv, TempsOwned
  <2> QED
    BY <1>1, <2>1
<1> QED
  BY <1>1, <1>2, <1>6, <1>7, <1>8 DEF FileInv

(* publish is called: the document encodes, or it does not.                *)
LEMMA EncodesInv ==
    ASSUME FileInv, NEW t \in Publishers, NEW d \in Content,
           Encodes(t, d) \/ FailsToEncode(t, d),
           UNCHANGED <<fsVars, alive, log>>, faults' \in Nat
    PROVE  FileInv'
<1>1. pub[t] \in Publication /\ Honest(pub[t], Installed(t))
  BY DEF FileInv
<1>2. CASE Encodes(t, d)
  <2>1. PICK q : q = [pub[t] EXCEPT !.at = "create", !.doc = d,
                                    !.stage = "CREATE_TEMP"]
    OBVIOUS
  <2>2. pub' = [pub EXCEPT ![t] = q] /\ pub[t].at = "idle"
    BY <1>2, <2>1 DEF Encodes
  <2>3. /\ q \in Publication /\ q.at = "create" /\ q.doc = d
        /\ q.ino = pub[t].ino /\ q.failed = pub[t].failed
        /\ q.replaced = pub[t].replaced /\ q.stage = "CREATE_TEMP"
    BY <1>1, <2>1 DEF Publication
  <2>4. Honest(q, Installed(t))
    BY <1>1, <2>2, <2>3 DEF Honest
  <2> QED
    BY <2>2, <2>3, <2>4, PublicationMoves DEF fsVars
<1>3. CASE FailsToEncode(t, d)
  <2>1. PICK q : q = [pub[t] EXCEPT !.at = "done", !.doc = d,
                                    !.stage = "ENCODE", !.failed = TRUE]
    OBVIOUS
  <2>2. pub' = [pub EXCEPT ![t] = q] /\ pub[t].at = "idle"
    BY <1>3, <2>1 DEF FailsToEncode
  <2>3. /\ q \in Publication /\ q.at = "done" /\ q.doc = d
        /\ q.ino = pub[t].ino /\ q.failed = TRUE
        /\ q.replaced = pub[t].replaced /\ q.stage = "ENCODE"
    BY <1>1, <2>1 DEF Publication
  <2>4. Honest(q, Installed(t)) /\ q.ino = 0
    BY <1>1, <2>2, <2>3 DEF Honest
  <2>5. \A i \in temps : i # 0
    BY DEF FileInv, InodesOwned
  <2> QED
    BY <2>2, <2>3, <2>4, <2>5, PublicationMoves DEF fsVars
<1> QED
  BY <1>2, <1>3

(* A system call of a publication fails before os.replace is reached.      *)
LEMMA FailsInv ==
    ASSUME FileInv, NEW t \in Publishers, Fails(t),
           pub[t].at \in {"create", "write", "replace"},
           UNCHANGED <<fsVars, alive, log>>
    PROVE  FileInv'
<1>1. pub[t] \in Publication /\ Honest(pub[t], Installed(t))
  BY DEF FileInv
<1>2. PICK q : q = [pub[t] EXCEPT !.at = "close", !.failed = TRUE]
  OBVIOUS
<1>3. pub' = [pub EXCEPT ![t] = q]
  BY <1>2 DEF Fails
<1>6. faults' \in Nat
  BY FaultCounted DEF Fails
<1>4. /\ q \in Publication /\ q.at = "close" /\ q.doc = pub[t].doc
      /\ q.ino = pub[t].ino /\ q.failed = TRUE
      /\ q.replaced = pub[t].replaced /\ q.stage = pub[t].stage
  BY <1>1, <1>2 DEF Publication
<1>5. Honest(q, Installed(t))
  BY <1>1, <1>4 DEF Honest
<1> QED
  BY <1>3, <1>4, <1>5, <1>6, PublicationMoves DEF fsVars

(* The temporary is created, or that fails.                                *)
LEMMA CreateTempInv ==
    ASSUME FileInv, NEW t \in Publishers, CreateTemp(t)
    PROVE  FileInv'
<1>1. CASE Fails(t) /\ UNCHANGED <<data, temps>>
  BY <1>1, FailsInv DEF CreateTemp, fsVars
<1>2. CASE /\ Creates
           /\ temps' = temps \cup {NewInode}
           /\ pub' = [pub EXCEPT ![t].at = "write", ![t].ino = NewInode,
                                 ![t].stage = "WRITE_TEMP"]
           /\ UNCHANGED faults
  <2>1. PICK i : i = NewInode
    OBVIOUS
  <2>2. PICK q : q = [pub[t] EXCEPT !.at = "write", !.ino = i,
                                    !.stage = "WRITE_TEMP"]
    OBVIOUS
  <2>3. /\ Len(data) \in Nat /\ i = Len(data) + 1 /\ i \in Nat
        /\ pub[t] \in Publication /\ pub[t].at = "create"
        /\ Honest(pub[t], Installed(t))
        /\ UNCHANGED <<dir, alive, log>>
    BY <2>1, FileTypes DEF NewInode, FileInv, CreateTemp
  <2>4. pub' = [pub EXCEPT ![t] = q] /\ temps' = temps \cup {i}
    BY <1>2, <2>1, <2>2
  <2>5. /\ q \in Publication /\ q.at = "write" /\ q.doc = pub[t].doc
        /\ q.ino = i /\ q.failed = pub[t].failed
        /\ q.replaced = pub[t].replaced /\ q.stage = "WRITE_TEMP"
    BY <2>2, <2>3 DEF Publication
  <2>6. /\ pub' \in [Publishers -> Publication]
        /\ pub'[t] = q
        /\ \A u \in Publishers : u # t => pub'[u] = pub[u]
    BY <2>4, <2>5, FileTypes
  <2>7. /\ data' \in Seq(Seq(Bytes)) /\ Len(data') = Len(data) + 1
        /\ \A j \in 1..Len(data) : data'[j] = data[j]
        /\ data'[i] = <<>>
    BY <1>2, <2>3 DEF FileInv, InodesOwned, Creates
  <2>8. \A u \in Publishers :
           /\ Honest(pub[u], Installed(u)) /\ Written(u)
           /\ pub[u].ino \in 0..Len(data)
           /\ Installed(u)' <=> Installed(u)
    BY <2>3 DEF FileInv, InodesOwned, Installed
  <2>9. InodesOwned'
    <3>1. dir' \in [Names -> 0..Len(data')]
      BY <2>3, <2>7 DEF FileInv, InodesOwned
    <3>5. temps' \subseteq 1..Len(data')
      <4>1. \A j \in temps : j \in 1..Len(data)
        BY DEF FileInv, InodesOwned
      <4>2. \A j \in temps' : j \in 1..(Len(data) + 1)
        BY <2>3, <2>4, <4>1
      <4> QED
        BY <2>7, <4>2
    <3>6. \A m, n \in Children : dir'[m] = dir'[n] /\ dir'[m] # 0 => m = n
      BY <2>3 DEF FileInv, InodesOwned
    <3>2. \A u \in Publishers : pub'[u].ino \in 0..Len(data')
      BY <2>3, <2>5, <2>6, <2>7, <2>8
    <3>3. \A u, v \in Publishers :
             pub'[u].ino = pub'[v].ino /\ pub'[u].ino # 0 => u = v
      BY <2>3, <2>5, <2>6, <2>8 DEF FileInv, InodesOwned
    <3>4. \A u \in Publishers, n \in Children :
             pub'[u].ino = dir'[n] => dir'[n] = 0
      BY <2>3, <2>5, <2>6, <2>8 DEF FileInv, InodesOwned, Children
    <3> QED
      BY <2>7, <3>1, <3>2, <3>3, <3>4, <3>5, <3>6 DEF InodesOwned
  <2>10. ASSUME NEW u \in Publishers
         PROVE  Honest(pub[u], Installed(u))' /\ Written(u)'
    <3>1. CASE u = t
      <4>1. ~Installed(t) /\ ~Installed(t)'
        BY <2>3, <2>8 DEF Honest
      <4>2. Honest(pub[t], Installed(t))'
        BY <2>3, <2>5, <2>6, <4>1 DEF Honest
      <4>3. Written(t)'
        BY <2>5, <2>6, <2>7, <4>1 DEF Written, Prefixes
      <4> QED
        BY <3>1, <4>2, <4>3
    <3>2. CASE u # t
      <4>1. pub'[u] = pub[u] /\ pub[u].ino # i
        BY <2>3, <2>6, <2>8, <3>2
      <4>2. Honest(pub[u], Installed(u))'
        BY <2>4, <2>8, <4>1 DEF Honest
      <4>3. pub[u].at \in {"write", "replace"} \/ Installed(u) =>
              data'[pub[u].ino] = data[pub[u].ino]
        BY <2>3, <2>7, <2>8 DEF Honest
      <4>4. Written(u)'
        BY <2>8, <4>1, <4>3 DEF Written
      <4> QED
        BY <4>2, <4>4
    <3> QED
      BY <3>1, <3>2
  <2>11. LogOK'
    <3>1. \A j \in 1..Len(log) : log[j][1] # t
      BY <2>3 DEF Honest, Installed
    <3> QED
      BY <2>3, <2>6, <3>1, FileTypes DEF FileInv, LogOK
  <2>12. TempsOwned'
    <3> SUFFICES ASSUME alive, NEW j \in temps'
                 PROVE  \E u \in Publishers : pub'[u].ino = j
                          /\ (pub'[u].at # "done" \/ pub'[u].orphan)
      BY <2>3 DEF TempsOwned
    <3>1. CASE j = i
      BY <2>5, <2>6, <3>1
    <3>2. CASE j \in temps
      <4>1. PICK u \in Publishers :
              pub[u].ino = j /\ (pub[u].at # "done" \/ pub[u].orphan)
        BY <3>2 DEF FileInv, TempsOwned
      <4>2. j # 0
        BY <3>2 DEF FileInv, InodesOwned
      <4>3. u # t
        BY <2>3, <4>1, <4>2 DEF Honest
      <4> QED
        BY <2>6, <4>1, <4>3
    <3> QED
      BY <2>4, <3>1, <3>2
  <2> QED
    BY <1>2, <2>3, <2>6, <2>9, <2>10, <2>11, <2>12 DEF FileInv
<1> QED
  BY <1>1, <1>2 DEF CreateTemp

(* The parts of a sequence of two.                                         *)
LEMMA PairParts ==
    ASSUME NEW x, NEW y
    PROVE  /\ SubSeq(<<x, y>>, 1, 2) = <<x, y>>
           /\ SubSeq(<<x, y>>, 1, 1) = <<x>>
           /\ SubSeq(<<x, y>>, 2, 2) = <<y>>
           /\ SubSeq(<<x, y>>, 3, 2) = <<>>
           /\ SubSeq(<<x>>, 1, 1) = <<x>>
           /\ <<x>> \o <<y>> = <<x, y>>
           /\ <<>> \o <<x>> = <<x>>
           /\ <<>> \o <<x, y>> = <<x, y>>
<1> PICK S : S = {x, y}
  OBVIOUS
<1>1. /\ <<x, y>> \in Seq(S) /\ <<x>> \in Seq(S) /\ <<y>> \in Seq(S)
      /\ <<>> \in Seq(S)
  OBVIOUS
<1>2. SubSeq(<<x, y>>, 1, 2) = <<x, y>>
  BY <1>1, SubSeqFull
<1>3. SubSeq(<<x>>, 1, 1) = <<x>>
  BY <1>1, SubSeqFull
<1>4. SubSeq(<<x, y>>, 3, 2) = <<>>
  BY SubSeqEmpty
<1>5. SubSeq(<<x, y>>, 1, 1) = <<x>>
  <2>1. PICK s : s = SubSeq(<<x, y>>, 1, 1)
    OBVIOUS
  <2>2. s \in Seq(S) /\ Len(s) = 1 /\ s[1] = x
    BY <1>1, <2>1, SubSeqProperties
  <2>3. Len(s) = Len(<<x>>) /\ \A i \in 1..Len(s) : s[i] = <<x>>[i]
    BY <2>2
  <2>4. s = <<x>>
    BY <1>1, <2>2, <2>3, SeqEqual
  <2> QED
    BY <2>1, <2>4
<1>6. SubSeq(<<x, y>>, 2, 2) = <<y>>
  <2>1. PICK s : s = SubSeq(<<x, y>>, 2, 2)
    OBVIOUS
  <2>2. s \in Seq(S) /\ Len(s) = 1 /\ s[1] = y
    <3>1. \A i \in 2..2 : <<x, y>>[i] \in S
      OBVIOUS
    <3>2. /\ SubSeq(<<x, y>>, 2, 2) \in Seq(S)
          /\ Len(SubSeq(<<x, y>>, 2, 2)) = 1
          /\ \A i \in 1..1 : SubSeq(<<x, y>>, 2, 2)[i] = <<x, y>>[2 + i - 1]
      BY <3>1, SubSeqProperties
    <3> QED
      BY <2>1, <3>2
  <2>3. Len(s) = Len(<<y>>) /\ \A i \in 1..Len(s) : s[i] = <<y>>[i]
    BY <2>2
  <2>4. s = <<y>>
    BY <1>1, <2>2, <2>3, SeqEqual
  <2> QED
    BY <2>1, <2>4
<1>7. <<x>> \o <<y>> = <<x, y>>
  <2>1. PICK s : s = <<x>> \o <<y>>
    OBVIOUS
  <2>2. s \in Seq(S) /\ Len(s) = 2 /\ s[1] = x /\ s[2] = y
    <3>1. /\ <<x>> \o <<y>> \in Seq(S)
          /\ Len(<<x>> \o <<y>>) = Len(<<x>>) + Len(<<y>>)
          /\ \A i \in 1..Len(<<x>>) + Len(<<y>>) : (<<x>> \o <<y>>)[i] =
                IF i <= Len(<<x>>) THEN <<x>>[i] ELSE <<y>>[i - Len(<<x>>)]
      BY <1>1, ConcatProperties
    <3> QED
      BY <2>1, <3>1
  <2>3. Len(s) = Len(<<x, y>>) /\ \A i \in 1..Len(s) : s[i] = <<x, y>>[i]
    BY <2>2
  <2>4. s = <<x, y>>
    BY <1>1, <2>2, <2>3, SeqEqual
  <2> QED
    BY <2>1, <2>4
<1>8. <<>> \o <<x>> = <<x>> /\ <<>> \o <<x, y>> = <<x, y>>
  BY <1>1, ConcatEmptySeq
<1> QED
  BY <1>2, <1>3, <1>4, <1>5, <1>6, <1>7, <1>8

(* One write of a prefix's next part gives a prefix again.                 *)
LEMMA WritesPrefix ==
    ASSUME NEW d, NEW s \in Prefixes(d),
           NEW n \in 1..Len(SubSeq(Encode(d), Len(s) + 1, 2))
    PROVE  s \o SubSeq(SubSeq(Encode(d), Len(s) + 1, 2), 1, n) \in Prefixes(d)
<1>0. PICK x, y : x = <<d, 1>> /\ y = <<d, 2>>
  OBVIOUS
<1>1. Encode(d) = <<x, y>> /\ Prefixes(d) = {<<>>, <<x>>, <<x, y>>}
  BY <1>0 DEF Encode, Prefixes
<1>5. /\ SubSeq(<<x, y>>, 1, 2) = <<x, y>>
      /\ SubSeq(<<x, y>>, 1, 1) = <<x>>
      /\ SubSeq(<<x, y>>, 2, 2) = <<y>>
      /\ SubSeq(<<x, y>>, 3, 2) = <<>>
      /\ SubSeq(<<y>>, 1, 1) = <<y>>
      /\ <<x>> \o <<y>> = <<x, y>>
      /\ <<>> \o <<x>> = <<x>>
      /\ <<>> \o <<x, y>> = <<x, y>>
  BY PairParts
<1>2. CASE s = <<>>
  <2>1. SubSeq(Encode(d), Len(s) + 1, 2) = <<x, y>>
    <3>1. Len(s) + 1 = 1
      BY <1>2
    <3> QED
      BY <1>1, <1>5, <3>1
  <2>2. n = 1 \/ n = 2
    BY <2>1
  <2>3. SubSeq(<<x, y>>, 1, n) = <<x>> \/ SubSeq(<<x, y>>, 1, n) = <<x, y>>
    BY <2>2, <1>5
  <2> QED
    BY <1>1, <1>2, <2>1, <2>3, <1>5
<1>3. CASE s = <<x>>
  <2>1. SubSeq(Encode(d), Len(s) + 1, 2) = <<y>>
    <3>1. Len(s) + 1 = 2
      BY <1>3
    <3> QED
      BY <1>1, <3>1, <1>5
  <2>2. n = 1
    BY <2>1
  <2>3. SubSeq(<<y>>, 1, n) = <<y>>
    BY <2>2, <1>5
  <2> QED
    BY <1>1, <1>3, <2>1, <2>3, <1>5
<1>4. CASE s = <<x, y>>
  <2>1. SubSeq(Encode(d), Len(s) + 1, 2) = <<>>
    <3>1. Len(s) + 1 = 3
      BY <1>4
    <3> QED
      BY <1>1, <3>1, <1>5
  <2>2. n \in 1..0
    BY <2>1
  <2> QED
    BY <2>2
<1> QED
  BY <1>1, <1>2, <1>3, <1>4

(* Nothing is left to write of a complete document only.                   *)
LEMMA NothingLeft ==
    ASSUME NEW d, NEW s \in Prefixes(d),
           SubSeq(Encode(d), Len(s) + 1, 2) = <<>>
    PROVE  s = Encode(d)
<1>0. PICK x, y : x = <<d, 1>> /\ y = <<d, 2>>
  OBVIOUS
<1>1. Encode(d) = <<x, y>> /\ Prefixes(d) = {<<>>, <<x>>, <<x, y>>}
  BY <1>0 DEF Encode, Prefixes
<1>5. /\ SubSeq(<<x, y>>, 1, 2) = <<x, y>>
      /\ SubSeq(<<x, y>>, 1, 1) = <<x>>
      /\ SubSeq(<<x, y>>, 2, 2) = <<y>>
      /\ SubSeq(<<x, y>>, 3, 2) = <<>>
      /\ SubSeq(<<y>>, 1, 1) = <<y>>
      /\ <<x>> \o <<y>> = <<x, y>>
      /\ <<>> \o <<x>> = <<x>>
      /\ <<>> \o <<x, y>> = <<x, y>>
  BY PairParts
<1>2. s # <<>>
  <2>1. s = <<>> => Len(s) + 1 = 1
    OBVIOUS
  <2>2. <<x, y>> # <<>>
    OBVIOUS
  <2> QED
    BY <1>1, <2>1, <2>2, <1>5
<1>3. s # <<x>>
  <2>1. s = <<x>> => Len(s) + 1 = 2
    OBVIOUS
  <2>2. <<y>> # <<>>
    OBVIOUS
  <2> QED
    BY <1>1, <2>1, <2>2, <1>5
<1> QED
  BY <1>1, <1>2, <1>3

(* The encodings of documents and their prefixes are bytes.                *)
LEMMA PrefixesAreBytes ==
    ASSUME NEW d \in Content
    PROVE  Prefixes(d) \subseteq Seq(Bytes)
<1>1. <<d, 1>> \in Bytes /\ <<d, 2>> \in Bytes
  BY DEF Bytes
<1> QED
  BY <1>1 DEF Prefixes, Encode

(* The temporary is written, closed, or one of these fails.                *)
LEMMA WriteTempInv ==
    ASSUME FileInv, NEW t \in Publishers, WriteTemp(t)
    PROVE  FileInv'
<1> PICK i, d : i = pub[t].ino /\ d = pub[t].doc
  OBVIOUS
<1> DEFINE left == SubSeq(Encode(d), Len(data[i]) + 1, 2)
<1>1. /\ pub[t] \in Publication /\ Honest(pub[t], Installed(t))
      /\ pub[t].at = "write" /\ d \in Content /\ i \in 1..Len(data)
      /\ data[i] \in Prefixes(d) /\ data[i] \in Seq(Bytes)
      /\ UNCHANGED <<dir, temps, alive, log>>
  <2>1. /\ pub[t] \in Publication /\ Honest(pub[t], Installed(t))
        /\ pub[t].at = "write" /\ Written(t)
        /\ UNCHANGED <<dir, temps, alive, log>>
    BY DEF FileInv, WriteTemp
  <2>2. i \in 0..Len(data) /\ i # 0 /\ d \in Content
    BY <2>1 DEF Honest, FileInv, InodesOwned
  <2> QED
    BY <2>1, <2>2, FileTypes DEF Written
<1>2. CASE Fails(t) /\ UNCHANGED data
  BY <1>1, <1>2, FailsInv DEF fsVars
<1>3. CASE /\ left = <<>>
           /\ pub' = [pub EXCEPT ![t].at = "replace",
                                 ![t].stage = "REPLACE_TARGET",
                                 ![t].replaced = "UNKNOWN"]
           /\ UNCHANGED <<data, faults>>
  <2>1. PICK q : q = [pub[t] EXCEPT !.at = "replace",
                                    !.stage = "REPLACE_TARGET",
                                    !.replaced = "UNKNOWN"]
    OBVIOUS
  <2>2. pub' = [pub EXCEPT ![t] = q]
    BY <1>3, <2>1
  <2>3. /\ q \in Publication /\ q.at = "replace" /\ q.doc = d
        /\ q.ino = i /\ q.failed = pub[t].failed
        /\ q.replaced = "UNKNOWN" /\ q.stage = "REPLACE_TARGET"
    BY <1>1, <2>1 DEF Publication
  <2>4. Honest(q, Installed(t))
    BY <1>1, <2>3 DEF Honest
  <2>5. data[q.ino] = Encode(q.doc)
    BY <1>1, <1>3, <2>3, NothingLeft
  <2>6. faults' \in Nat
    BY <1>3 DEF FileInv
  <2> QED
    BY <1>1, <1>3, <2>2, <2>3, <2>4, <2>5, <2>6, PublicationMoves
<1>4. ASSUME NEW n \in 1..Len(left),
             Holds(i, data[i] \o SubSeq(left, 1, n)),
             UNCHANGED <<pub, faults>>
      PROVE  FileInv'
  <2>1. PICK b : b = data[i] \o SubSeq(left, 1, n)
    OBVIOUS
  <2>2. b \in Prefixes(d) /\ b \in Seq(Bytes)
    BY <1>1, <2>1, WritesPrefix, PrefixesAreBytes
  <2>3. data' = [data EXCEPT ![i] = b]
    BY <1>4, <2>1 DEF Holds
  <2>4. data' \in Seq(Seq(Bytes)) /\ Len(data') = Len(data) /\ data'[i] = b
    BY <1>1, <2>2, <2>3 DEF FileInv, InodesOwned
  <2>5. \A j \in 1..Len(data) : j # i => data'[j] = data[j]
    BY <1>1, <2>3, FileTypes
  <2>6. InodesOwned'
    BY <1>1, <1>4, <2>4 DEF FileInv, InodesOwned
  <2>7. ASSUME NEW u \in Publishers
        PROVE  Written(u)'
    <3>1. /\ Written(u) /\ Honest(pub[u], Installed(u))
          /\ pub[u].ino \in 0..Len(data)
          /\ Installed(u)' <=> Installed(u)
      BY <1>1 DEF FileInv, InodesOwned, Installed
    <3>2. CASE u = t
      <4>1. ~Installed(t)
        BY <1>1 DEF Honest
      <4> QED
        BY <1>1, <1>4, <2>2, <2>4, <3>1, <3>2, <4>1 DEF Written
    <3>3. CASE u # t
      <4>1. pub[u].ino # i
        BY <1>1, <3>3 DEF FileInv, InodesOwned
      <4>2. pub[u].at \in {"write", "replace"} \/ Installed(u) =>
              data'[pub[u].ino] = data[pub[u].ino]
        BY <2>5, <3>1, <4>1, FileTypes DEF Honest
      <4> QED
        BY <1>4, <3>1, <4>2 DEF Written
    <3> QED
      BY <3>2, <3>3
  <2> QED
    BY <1>1, <1>4, <2>6, <2>7
       DEF FileInv, Honest, Installed, LogOK, TempsOwned
<1> QED
  BY <1>2, <1>3, <1>4 DEF WriteTemp

(* The target is replaced: the publication is installed from now on,       *)
(* whatever it is told about it.                                           *)
LEMMA ReplacesInv ==
    ASSUME FileInv, NEW t \in Publishers, pub[t].at = "replace",
           Replaces(t), NEW q \in Publication,
           pub' = [pub EXCEPT ![t] = q],
           q.at = "close", q.ino = pub[t].ino, q.doc = pub[t].doc,
           q.stage = pub[t].stage,
           q.replaced # "NOT_REPLACED",
           ~q.failed => q.replaced = "REPLACED",
           UNCHANGED <<data, alive>>, faults' \in Nat
    PROVE  FileInv'
<1> PICK i, d : i = pub[t].ino /\ d = pub[t].doc
  OBVIOUS
<1>1. /\ pub[t] \in Publication /\ Honest(pub[t], Installed(t))
      /\ d \in Content /\ i # 0 /\ data[i] = Encode(d)
      /\ pub[t].stage = "REPLACE_TARGET" /\ ~Installed(t)
      /\ i \in 0..Len(data)
  BY DEF FileInv, Honest, Written, InodesOwned
<1>2. /\ dir' = [dir EXCEPT ![Manifest] = i]
      /\ temps' = temps \ {i}
      /\ log' = Append(log, <<t, d>>)
  BY DEF Replaces
<1>3. /\ pub' \in [Publishers -> Publication]
      /\ pub'[t] = q
      /\ \A u \in Publishers : u # t => pub'[u] = pub[u]
      /\ \A u \in Publishers : /\ pub'[u].ino = pub[u].ino
                               /\ pub'[u].doc = pub[u].doc
  BY FileTypes
<1>4. /\ Len(log) \in Nat /\ log' \in Seq(Publishers \X Content)
      /\ Len(log') = Len(log) + 1 /\ log'[Len(log) + 1] = <<t, d>>
      /\ \A j \in 1..Len(log) : log'[j] = log[j]
  <2>1. log \in Seq(Publishers \X Content)
    BY DEF FileInv, LogOK
  <2>2. <<t, d>> \in Publishers \X Content
    BY <1>1
  <2> QED
    BY <1>2, <2>1, <2>2
<1>5. \A u \in Publishers : Installed(u)' <=> Installed(u) \/ u = t
  BY <1>4 DEF Installed
<1>6. InodesOwned'
  <2>1. /\ dir' \in [Names -> 0..Len(data)]
        /\ \A n \in Children : dir'[n] = dir[n]
    BY <1>1, <1>2 DEF FileInv, InodesOwned, Children
  <2>2. data' = data /\ temps' \subseteq temps
    BY <1>2
  <2>3. \A m, n \in Children : dir'[m] = dir'[n] /\ dir'[m] # 0 => m = n
    BY <2>1 DEF FileInv, InodesOwned
  <2>4. \A u \in Publishers, n \in Children :
           pub'[u].ino = dir'[n] => dir'[n] = 0
    BY <1>3, <2>1 DEF FileInv, InodesOwned
  <2>5. /\ \A u \in Publishers : pub'[u].ino \in 0..Len(data)
        /\ \A u, v \in Publishers :
             pub'[u].ino = pub'[v].ino /\ pub'[u].ino # 0 => u = v
    BY <1>3 DEF FileInv, InodesOwned
  <2>6. data \in Seq(Seq(Bytes)) /\ temps \subseteq 1..Len(data)
    BY DEF FileInv, InodesOwned
  <2> QED
    BY <2>1, <2>2, <2>3, <2>4, <2>5, <2>6 DEF InodesOwned
<1>7. ASSUME NEW u \in Publishers
      PROVE  Honest(pub[u], Installed(u))' /\ Written(u)'
  <2>1. Honest(pub[u], Installed(u)) /\ Written(u)
    BY DEF FileInv
  <2>2. CASE u = t
    <3>1. Honest(pub[t], Installed(t))'
      BY <1>1, <1>2, <1>3, <1>5 DEF Honest
    <3>2. Written(t)'
      BY <1>1, <1>3 DEF Written
    <3> QED
      BY <2>2, <3>1, <3>2
  <2>3. CASE u # t
    BY <1>2, <1>3, <1>5, <2>1, <2>3 DEF Honest, Written
  <2> QED
    BY <2>2, <2>3
<1>8. LogOK'
  <2>1. \A j \in 1..Len(log) :
           log[j][1] \in Publishers /\ log[j][2] = pub[log[j][1]].doc
    BY FileTypes DEF FileInv, LogOK
  <2>2. \A j \in 1..Len(log') : log'[j][2] = pub'[log'[j][1]].doc
    BY <1>3, <1>4, <2>1
  <2>3. dir'[Manifest] = i
    BY <1>2, DocumentAssumption, FileTypes
  <2>4. log' # <<>>
    BY <1>4, EmptySeq
  <2> QED
    BY <1>3, <1>4, <2>2, <2>3, <2>4 DEF LogOK
<1>9. TempsOwned'
  <2> SUFFICES ASSUME alive, NEW j \in temps'
               PROVE  \E u \in Publishers : pub'[u].ino = j
                        /\ (pub'[u].at # "done" \/ pub'[u].orphan)
    BY DEF TempsOwned
  <2>1. PICK u \in Publishers :
          pub[u].ino = j /\ (pub[u].at # "done" \/ pub[u].orphan)
    BY <1>2 DEF FileInv, TempsOwned
  <2> QED
    BY <1>3, <2>1
<1> QED
  BY <1>3, <1>6, <1>7, <1>8, <1>9 DEF FileInv

(* os.replace, whichever way it went and whatever it reports.              *)
LEMMA ReplaceInv ==
    ASSUME FileInv, NEW t \in Publishers, Replace(t)
    PROVE  FileInv'
<1>1. /\ pub[t] \in Publication /\ pub[t].at = "replace"
      /\ pub[t].replaced = "UNKNOWN"
      /\ UNCHANGED <<data, alive>>
  BY DEF FileInv, Replace, Honest
<1>2. CASE /\ Replaces(t)
           /\ pub' = [pub EXCEPT ![t].at = "close",
                                 ![t].replaced = "REPLACED"]
           /\ UNCHANGED faults
  <2>1. PICK q : q = [pub[t] EXCEPT !.at = "close", !.replaced = "REPLACED"]
    OBVIOUS
  <2>2. pub' = [pub EXCEPT ![t] = q]
    BY <1>2, <2>1
  <2>3. /\ q \in Publication /\ q.at = "close" /\ q.doc = pub[t].doc
        /\ q.ino = pub[t].ino /\ q.failed = pub[t].failed
        /\ q.replaced = "REPLACED" /\ q.stage = pub[t].stage
    BY <1>1, <2>1 DEF Publication
  <2>4. faults' \in Nat
    BY <1>2 DEF FileInv
  <2> QED
    BY <1>1, <1>2, <2>2, <2>3, <2>4, ReplacesInv
<1>3. CASE Fails(t) /\ Replaces(t)
  <2>1. PICK q : q = [pub[t] EXCEPT !.at = "close", !.failed = TRUE]
    OBVIOUS
  <2>2. pub' = [pub EXCEPT ![t] = q]
    BY <1>3, <2>1 DEF Fails
  <2>3. /\ q \in Publication /\ q.at = "close" /\ q.doc = pub[t].doc
        /\ q.ino = pub[t].ino /\ q.failed = TRUE
        /\ q.replaced = pub[t].replaced /\ q.stage = pub[t].stage
    BY <1>1, <2>1 DEF Publication
  <2>4. faults' \in Nat
    BY <1>3, FaultCounted DEF Fails
  <2> QED
    BY <1>1, <1>3, <2>2, <2>3, <2>4, ReplacesInv
<1>4. CASE Fails(t) /\ UNCHANGED <<dir, temps, log>>
  BY <1>1, <1>4, FailsInv DEF fsVars
<1> QED
  BY <1>2, <1>3, <1>4 DEF Replace

(* The publication ends, its temporary unlinked, left or renamed.          *)
LEMMA FinalizeResourcesInv ==
    ASSUME FileInv, NEW t \in Publishers, FinalizeResources(t)
    PROVE  FileInv'
<1>1. /\ pub[t] \in Publication /\ Honest(pub[t], Installed(t))
      /\ pub[t].at = "close"
      /\ UNCHANGED <<data, dir, alive, log>>
  BY DEF FileInv, FinalizeResources
<1>2. /\ temps' = temps \/ (pub[t].failed /\ temps' = temps \ {pub[t].ino})
      /\ faults' \in Nat
  BY FaultCounted DEF FinalizeResources, FileInv
<1>3. CASE Moves(t, "done") /\ (pub[t].failed => temps' = temps \ {pub[t].ino})
  <2>1. PICK q : q = [pub[t] EXCEPT !.at = "done"]
    OBVIOUS
  <2>2. pub' = [pub EXCEPT ![t] = q]
    BY <1>3, <2>1 DEF Moves
  <2>3. /\ q \in Publication /\ q.at = "done" /\ q.doc = pub[t].doc
        /\ q.ino = pub[t].ino /\ q.failed = pub[t].failed
        /\ q.replaced = pub[t].replaced /\ q.stage = pub[t].stage
    BY <1>1, <2>1 DEF Publication
  <2>4. Honest(q, Installed(t))
    BY <1>1, <2>3 DEF Honest
  <2>5. q.ino \notin temps'
    BY <1>1, <1>2, <1>3, <2>3 DEF Honest
  <2> QED
    BY <1>1, <1>2, <2>2, <2>3, <2>4, <2>5, PublicationMoves
<1>4. CASE pub' = [pub EXCEPT ![t].at = "done", ![t].orphan = TRUE]
             /\ pub[t].failed
  <2>1. PICK q : q = [pub[t] EXCEPT !.at = "done", !.orphan = TRUE]
    OBVIOUS
  <2>2. pub' = [pub EXCEPT ![t] = q]
    BY <1>4, <2>1
  <2>3. /\ q \in Publication /\ q.at = "done" /\ q.doc = pub[t].doc
        /\ q.ino = pub[t].ino /\ q.failed = pub[t].failed
        /\ q.replaced = pub[t].replaced /\ q.stage = pub[t].stage
        /\ q.orphan = TRUE
    BY <1>1, <2>1 DEF Publication
  <2>4. Honest(q, Installed(t))
    BY <1>1, <2>3 DEF Honest
  <2> QED
    BY <1>1, <1>2, <2>2, <2>3, <2>4, PublicationMoves
<1>5. CASE pub' = [pub EXCEPT ![t].at = "done", ![t].failed = TRUE]
             /\ ~pub[t].failed
  <2>1. PICK q : q = [pub[t] EXCEPT !.at = "done", !.failed = TRUE]
    OBVIOUS
  <2>2. pub' = [pub EXCEPT ![t] = q]
    BY <1>5, <2>1
  <2>3. /\ q \in Publication /\ q.at = "done" /\ q.doc = pub[t].doc
        /\ q.ino = pub[t].ino /\ q.failed = TRUE
        /\ q.replaced = pub[t].replaced /\ q.stage = pub[t].stage
    BY <1>1, <2>1 DEF Publication
  <2>4. Honest(q, Installed(t))
    BY <1>1, <2>3 DEF Honest
  <2>5. q.ino \notin temps'
    BY <1>1, <1>2, <1>5, <2>3 DEF Honest
  <2> QED
    BY <1>1, <1>2, <2>2, <2>3, <2>4, <2>5, PublicationMoves
<1> QED
  BY <1>3, <1>4, <1>5 DEF FinalizeResources

(* The publication is interrupted, and leaves its temporary.               *)
LEMMA InterruptInv ==
    ASSUME FileInv, NEW t \in Publishers, Interrupt(t)
    PROVE  FileInv'
<1>1. /\ pub[t] \in Publication /\ Honest(pub[t], Installed(t))
      /\ pub[t].at \in {"create", "write", "replace"}
      /\ UNCHANGED <<data, dir, temps, alive, log>>
  BY DEF FileInv, Interrupt, fsVars
<1>2. faults' \in Nat
  BY FaultCounted DEF Interrupt
<1>3. PICK q : q = [pub[t] EXCEPT !.at = "interrupted",
                                  !.orphan = (pub[t].ino # 0)]
  OBVIOUS
<1>4. pub' = [pub EXCEPT ![t] = q]
  BY <1>3 DEF Interrupt
<1>5. /\ q \in Publication /\ q.at = "interrupted" /\ q.doc = pub[t].doc
      /\ q.ino = pub[t].ino /\ q.failed = pub[t].failed
      /\ q.replaced = pub[t].replaced /\ q.stage = pub[t].stage
  BY <1>1, <1>3 DEF Publication
<1>6. Honest(q, Installed(t))
  BY <1>1, <1>5 DEF Honest
<1> QED
  BY <1>1, <1>2, <1>4, <1>5, <1>6, PublicationMoves

(* Every step of a publication preserves the file invariant.               *)
LEMMA PublicationStepInv ==
    ASSUME FileInv, NEW t \in Publishers, PublicationStep(t)
    PROVE  FileInv'
BY CreateTempInv, WriteTempInv, ReplaceInv, FinalizeResourcesInv, InterruptInv
   DEF PublicationStep

-----------------------------------------------------------------------------
(***************************************************************************)
(* What the steps leave alone.                                             *)
(***************************************************************************)
(* The other children, and what they hold.                                 *)
ChildrenKept(S) ==
    \A n \in S : /\ dir'[n] = dir[n]
                 /\ dir[n] # 0 => data'[dir[n]] = data[dir[n]]

(* What was installed stays in the log, and keeps its inode.               *)
DocumentsKept ==
    /\ Len(log) <= Len(log')
    /\ \A i \in 1..Len(log) :
         log'[i] = log[i] /\ pub'[log[i][1]].ino = pub[log[i][1]].ino

(* Who publishes what.                                                     *)
PublishersKept ==
    \A t \in Publishers : /\ pub'[t].at = "idle" <=> pub[t].at = "idle"
                          /\ pub'[t].doc = pub[t].doc

(* Writing one child leaves the others as they are.                        *)
LEMMA WritingKeepsOthers ==
    ASSUME FileInv, NEW n \in Children, dir[n] # 0, NEW b, Holds(dir[n], b),
           UNCHANGED dir
    PROVE  ChildrenKept(Children \ {n}) /\ data'[dir[n]] = b
<1>1. dir[n] \in 1..Len(data)
  BY FileTypes DEF FileInv, InodesOwned, Children
<1>2. ASSUME NEW m \in Children \ {n}, dir[m] # 0
      PROVE  data'[dir[m]] = data[dir[m]]
  <2>1. dir[m] # dir[n] /\ dir[m] \in 1..Len(data)
    BY <1>2, FileTypes DEF FileInv, InodesOwned, Children
  <2> QED
    BY <1>1, <2>1, FileTypes DEF Holds
<1> QED
  BY <1>1, <1>2, FileTypes DEF ChildrenKept, Holds

(* So does creating one.                                                   *)
LEMMA CreatingKeepsOthers ==
    ASSUME FileInv, NEW n \in Children, Creates,
           dir' = [dir EXCEPT ![n] = NewInode]
    PROVE  /\ ChildrenKept(Children \ {n})
           /\ dir'[n] # 0 /\ data'[dir'[n]] = <<>>
<1>1. /\ Len(data) \in Nat /\ data \in Seq(Seq(Bytes))
      /\ dir'[n] = Len(data) + 1
  BY FileTypes DEF FileInv, InodesOwned, Children, NewInode
<1>2. /\ data'[Len(data) + 1] = <<>>
      /\ \A j \in 1..Len(data) : data'[j] = data[j]
  BY <1>1, AppendProperties DEF Creates
<1>3. \A m \in Children \ {n} : dir'[m] = dir[m] /\ dir[m] \in 0..Len(data)
  BY DEF FileInv, InodesOwned, Children
<1> QED
  BY <1>1, <1>2, <1>3 DEF ChildrenKept

(* How a publication that has begun moves on.                              *)
Moved(t) ==
    /\ \A u \in Publishers : u # t => pub'[u] = pub[u]
    /\ pub[t].at # "idle" /\ pub'[t].at # "idle"
    /\ pub'[t].doc = pub[t].doc
    /\ Installed(t) => pub'[t].ino = pub[t].ino

(* Each of its steps does so.                                              *)
LEMMA PublicationStepMoves ==
    ASSUME FileInv, NEW t \in Publishers, PublicationStep(t)
    PROVE  Moved(t)
<1>1. /\ pub \in [Publishers -> Publication]
      /\ pub[t] \in Publication /\ Honest(pub[t], Installed(t))
  BY DEF FileInv
<1>2. CASE CreateTemp(t)
  <2>1. pub[t].at = "create" /\ ~Installed(t)
    BY <1>1, <1>2 DEF CreateTemp, Honest
  <2> QED
    BY <1>1, <1>2, <2>1 DEF CreateTemp, Fails, Publication, Moved
<1>3. CASE WriteTemp(t)
  BY <1>1, <1>3 DEF WriteTemp, Fails, Publication, Moved
<1>4. CASE Replace(t)
  BY <1>1, <1>4 DEF Replace, Fails, Publication, Moved
<1>5. CASE FinalizeResources(t)
  BY <1>1, <1>5 DEF FinalizeResources, Moves, Publication, Moved
<1>6. CASE Interrupt(t)
  BY <1>1, <1>6 DEF Interrupt, Publication, Moved
<1> QED
  BY <1>2, <1>3, <1>4, <1>5, <1>6 DEF PublicationStep

(* What it does to the files and the log.                                  *)
LEMMA PublicationStepFiles ==
    ASSUME FileInv, NEW t \in Publishers, PublicationStep(t)
    PROVE  /\ \A n \in Children : dir'[n] = dir[n]
           /\ \/ UNCHANGED data
              \/ Creates
              \/ pub[t].ino \in 1..Len(data)
                   /\ \E b : Holds(pub[t].ino, b)
           /\ log' = log \/ \E e : log' = Append(log, e)
<1>1. dir \in [Names -> Nat]
  BY FileTypes
<1>2. CASE CreateTemp(t)
  BY <1>2 DEF CreateTemp
<1>3. CASE WriteTemp(t)
  <2>1. pub[t].ino # 0 /\ pub[t].ino \in 0..Len(data)
    BY <1>3 DEF WriteTemp, FileInv, Honest, InodesOwned
  <2>2. pub[t].ino \in 1..Len(data)
    BY <2>1, FileTypes
  <2> QED
    BY <1>3, <2>2 DEF WriteTemp
<1>4. CASE Replace(t)
  BY <1>1, <1>4 DEF Replace, Replaces, Children
<1>5. CASE FinalizeResources(t)
  BY <1>5 DEF FinalizeResources
<1>6. CASE Interrupt(t)
  BY <1>6 DEF Interrupt, fsVars
<1> QED
  BY <1>2, <1>3, <1>4, <1>5, <1>6 DEF PublicationStep

(* A publication touches no other child, and what is installed stays.      *)
LEMMA PublicationKeeps ==
    ASSUME FileInv, NEW t \in Publishers, PublicationStep(t)
    PROVE  ChildrenKept(Children) /\ DocumentsKept /\ PublishersKept
<1>1. Moved(t)
  BY PublicationStepMoves
<1>2. /\ \A n \in Children : dir'[n] = dir[n]
      /\ \/ UNCHANGED data
         \/ Creates
         \/ pub[t].ino \in 1..Len(data) /\ \E b : Holds(pub[t].ino, b)
      /\ log' = log \/ \E e : log' = Append(log, e)
  BY PublicationStepFiles
<1> HIDE DEF Moved
<1>3. ChildrenKept(Children)
  <2> SUFFICES ASSUME NEW n \in Children, dir[n] # 0
               PROVE  data'[dir[n]] = data[dir[n]]
    BY <1>2 DEF ChildrenKept
  <2>1. /\ dir[n] \in 1..Len(data) /\ dir[n] # pub[t].ino
        /\ data \in Seq(Seq(Bytes))
    BY FileTypes DEF FileInv, InodesOwned, Children
  <2>2. CASE Creates
    BY <2>1, <2>2, AppendProperties DEF Creates
  <2>3. ASSUME NEW b, Holds(pub[t].ino, b), pub[t].ino \in 1..Len(data)
        PROVE  data'[dir[n]] = data[dir[n]]
    BY <2>1, <2>3, FileTypes DEF Holds
  <2> QED
    BY <1>2, <2>2, <2>3
<1>4. DocumentsKept
  <2>1. \A i \in 1..Len(log) : Installed(log[i][1]) /\ log[i][1] \in Publishers
    BY FileTypes DEF Installed
  <2>2. /\ Len(log) <= Len(log')
        /\ \A i \in 1..Len(log) : log'[i] = log[i]
    <3>1. log \in Seq(Publishers \X Content) /\ Len(log) \in Nat
      BY FileTypes DEF FileInv, LogOK
    <3>2. ASSUME NEW e, log' = Append(log, e)
          PROVE  /\ Len(log) <= Len(log')
                 /\ \A i \in 1..Len(log) : log'[i] = log[i]
      BY <3>1, <3>2
    <3> QED
      BY <1>2, <3>1, <3>2
  <2> QED
    BY <1>1, <2>1, <2>2 DEF DocumentsKept, Moved
<1>5. PublishersKept
  BY <1>1 DEF PublishersKept, Moved
<1> QED
  BY <1>3, <1>4, <1>5

-----------------------------------------------------------------------------
(***************************************************************************)
(* The sidecar.                                                            *)
(***************************************************************************)
(* A run of numbers.                                                       *)
LEMMA NumberedSeq ==
    ASSUME NEW i \in Nat \ {0}, NEW j \in Nat, i <= j + 1
    PROVE  /\ Numbered(i, j) \in Seq(Nat)
           /\ Len(Numbered(i, j)) = j + 1 - i
           /\ \A k \in 1..(j + 1 - i) : Numbered(i, j)[k] = i + k - 1
BY DEF Numbered

(* Runs that meet make one run.                                            *)
LEMMA NumberedConcat ==
    ASSUME NEW i \in Nat \ {0}, NEW j \in Nat, NEW k \in Nat,
           i <= j + 1, j <= k
    PROVE  Numbered(i, j) \o Numbered(j + 1, k) = Numbered(i, k)
<1> PICK s, t, u : s = Numbered(i, j) /\ t = Numbered(j + 1, k)
                     /\ u = Numbered(i, k)
  OBVIOUS
<1>1. /\ s \in Seq(Nat) /\ Len(s) = j + 1 - i
      /\ \A m \in 1..(j + 1 - i) : s[m] = i + m - 1
  BY NumberedSeq
<1>2. /\ t \in Seq(Nat) /\ Len(t) = k - j
      /\ \A m \in 1..(k - j) : t[m] = j + m
  <2>1. j + 1 \in Nat \ {0} /\ j + 1 <= k + 1
    OBVIOUS
  <2>2. /\ t \in Seq(Nat) /\ Len(t) = k + 1 - (j + 1)
        /\ \A m \in 1..(k + 1 - (j + 1)) : t[m] = (j + 1) + m - 1
    BY <2>1, NumberedSeq
  <2> QED
    BY <2>2, SMTT(60)
<1>3. /\ u \in Seq(Nat) /\ Len(u) = k + 1 - i
      /\ \A m \in 1..(k + 1 - i) : u[m] = i + m - 1
  <2>1. i <= k + 1
    OBVIOUS
  <2> QED
    BY <2>1, NumberedSeq
<1>4. /\ s \o t \in Seq(Nat) /\ Len(s \o t) = Len(s) + Len(t)
      /\ \A m \in 1..Len(s) + Len(t) :
           (s \o t)[m] = IF m <= Len(s) THEN s[m] ELSE t[m - Len(s)]
  BY <1>1, <1>2, ConcatProperties, SMTT(30)
<1>5. Len(s \o t) = Len(u)
  <2>1. (j + 1 - i) + (k - j) = k + 1 - i
    OBVIOUS
  <2> QED
    BY <1>1, <1>2, <1>3, <1>4, <2>1
<1>6. ASSUME NEW m \in 1..Len(s \o t)
      PROVE  (s \o t)[m] = u[m]
  <2>1. u[m] = i + m - 1 /\ m \in 1..Len(s) + Len(t)
    BY <1>3, <1>4, <1>5
  <2>2. CASE m <= Len(s)
    BY <1>1, <1>4, <2>1, <2>2
  <2>3. CASE ~(m <= Len(s))
    <3>1. m - Len(s) \in 1..(k - j)
      BY <1>1, <1>2, <2>1, <2>3
    <3>2. t[m - Len(s)] = j + (m - Len(s))
      BY <1>2, <3>1
    <3> QED
      BY <1>1, <1>4, <2>1, <2>3, <3>2, SMTT(60)
  <2> QED
    BY <2>2, <2>3
<1> QED
  BY <1>3, <1>4, <1>5, <1>6, SeqEqual

(* A part of a run is a run.                                               *)
LEMMA NumberedPart ==
    ASSUME NEW i \in Nat \ {0}, NEW j \in Nat, i <= j + 1,
           NEW m \in Nat \ {0}, NEW n \in Nat, m <= n + 1, n <= j + 1 - i
    PROVE  SubSeq(Numbered(i, j), m, n) = Numbered(i + m - 1, i + n - 1)
<1> PICK s, u : s = Numbered(i, j) /\ u = Numbered(i + m - 1, i + n - 1)
  OBVIOUS
<1>1. /\ s \in Seq(Nat) /\ Len(s) = j + 1 - i
      /\ \A k \in 1..(j + 1 - i) : s[k] = i + k - 1
  BY NumberedSeq
<1>2. /\ u \in Seq(Nat) /\ Len(u) = n + 1 - m
      /\ \A k \in 1..(n + 1 - m) : u[k] = (i + m - 1) + k - 1
  <2>1. PICK x, y : x = i + m - 1 /\ y = i + n - 1
    OBVIOUS
  <2>2. x \in Nat \ {0} /\ y \in Nat /\ x <= y + 1
    BY <2>1
  <2>3. /\ u \in Seq(Nat) /\ Len(u) = y + 1 - x
        /\ \A k \in 1..(y + 1 - x) : u[k] = x + k - 1
    BY <2>1, <2>2, NumberedSeq, ZenonT(60)
  <2>4. y + 1 - x = n + 1 - m
    BY <2>1
  <2> QED
    BY <2>1, <2>3, <2>4
<1>3. \A k \in m..n : s[k] \in Nat
  BY <1>1
<1>4. /\ SubSeq(s, m, n) \in Seq(Nat)
      /\ Len(SubSeq(s, m, n)) = IF m <= n THEN n - m + 1 ELSE 0
      /\ \A k \in 1..(n - m + 1) : SubSeq(s, m, n)[k] = s[m + k - 1]
  BY <1>3, SubSeqProperties
<1>5. Len(SubSeq(s, m, n)) = Len(u)
  BY <1>2, <1>4
<1>6. ASSUME NEW k \in 1..Len(SubSeq(s, m, n))
      PROVE  SubSeq(s, m, n)[k] = u[k]
  <2>1. k \in 1..(n + 1 - m) /\ k \in 1..(n - m + 1)
    BY <1>2, <1>5
  <2>2. m + k - 1 \in 1..(j + 1 - i)
    BY <2>1
  <2> QED
    BY <1>1, <1>2, <1>4, <2>1, <2>2
<1> QED
  BY <1>2, <1>4, <1>5, <1>6, SeqEqual

(* The first n of a run, the run without them, and its last c.             *)
LEMMA NumberedFirst ==
    ASSUME NEW p \in Nat, NEW q \in Nat, p <= q, NEW n \in Nat, n <= q - p
    PROVE  /\ First(Numbered(p + 1, q), n) = Numbered(p + 1, p + n)
           /\ Without(Numbered(p + 1, q), n) = Numbered(p + n + 1, q)
<1>1. p + 1 \in Nat \ {0} /\ p + 1 <= q + 1
  OBVIOUS
<1>2. SubSeq(Numbered(p + 1, q), 1, n)
        = Numbered((p + 1) + 1 - 1, (p + 1) + n - 1)
  <2>1. 1 \in Nat \ {0} /\ 1 <= n + 1 /\ n <= q + 1 - (p + 1)
    OBVIOUS
  <2> QED
    BY <1>1, <2>1, NumberedPart, ZenonT(60)
<1>3. (p + 1) + 1 - 1 = p + 1 /\ (p + 1) + n - 1 = p + n
  OBVIOUS
<1>4. Len(Numbered(p + 1, q)) = q - p
  <2>1. Len(Numbered(p + 1, q)) = q + 1 - (p + 1)
    BY <1>1, NumberedSeq
  <2> QED
    BY <2>1
<1>5. SubSeq(Numbered(p + 1, q), n + 1, q - p)
        = Numbered((p + 1) + (n + 1) - 1, (p + 1) + (q - p) - 1)
  <2>1. n + 1 \in Nat \ {0} /\ q - p \in Nat /\ n + 1 <= (q - p) + 1
          /\ q - p <= q + 1 - (p + 1)
    OBVIOUS
  <2> QED
    BY <1>1, <2>1, NumberedPart, ZenonT(60)
<1>6. (p + 1) + (n + 1) - 1 = p + n + 1 /\ (p + 1) + (q - p) - 1 = q
  OBVIOUS
<1> QED
  BY <1>2, <1>3, <1>4, <1>5, <1>6 DEF First, Without

(* The last c of a run.                                                    *)
LEMMA NumberedLast ==
    ASSUME NEW p \in Nat, NEW q \in Nat, p <= q, NEW c \in Nat
    PROVE  Last(Numbered(p + 1, q), c) = Numbered(q + 1 - Least(q - p, c), q)
<1>1. p + 1 \in Nat \ {0} /\ p + 1 <= q + 1
  OBVIOUS
<1>2. Len(Numbered(p + 1, q)) = q - p
  <2>1. Len(Numbered(p + 1, q)) = q + 1 - (p + 1)
    BY <1>1, NumberedSeq
  <2> QED
    BY <2>1
<1>3. CASE c >= q - p
  <2>1. Least(q - p, c) = q - p /\ q + 1 - (q - p) = p + 1
    BY <1>3 DEF Least
  <2> QED
    BY <1>2, <1>3, <2>1 DEF Last
<1>4. CASE ~(c >= q - p)
  <2>1. PICK n : n = q - p - c
    OBVIOUS
  <2>2. n \in Nat /\ n <= q - p /\ Least(q - p, c) = c
    BY <1>4, <2>1 DEF Least
  <2>3. Without(Numbered(p + 1, q), n) = Numbered(p + n + 1, q)
    BY <2>2, NumberedFirst
  <2>4. p + n + 1 = q + 1 - c /\ n + 1 = (q - p) + 1 - c
    BY <2>1
  <2> QED
    BY <1>2, <1>4, <2>2, <2>3, <2>4 DEF Last, Without
<1> QED
  BY <1>3, <1>4

(* A step that leaves the writer and its child alone.                      *)
LEMMA SidecarKept ==
    ASSUME SidecarInv, UNCHANGED <<sidecar, use>>,
           sidecar.at = "none" \/ ChildrenKept({SidecarName})
    PROVE  SidecarInv'
BY DEF SidecarInv, ChildrenKept, Counted

(* open_sidecar: nothing was offered yet.                                  *)
LEMMA OpenSidecarInv ==
    ASSUME FileInv, SidecarInv, use = "sidecar", UNCHANGED use,
           NEW head \in Caps, NEW tail \in Caps, OpenSidecar(head, tail)
    PROVE  SidecarInv'
<1>1. SidecarName \in Children
  BY BundleAssumption DEF Children
<1>2. dir'[SidecarName] # 0 /\ data'[dir'[SidecarName]] = <<>>
  BY <1>1, CreatingKeepsOthers DEF OpenSidecar
<1>3. PICK c : c = IF tail = None THEN 0 ELSE tail
  OBVIOUS
<1>4. c \in Nat /\ head \in Nat \cup {None}
  BY <1>3, SidecarAssumption
<1>5. sidecar' = [sidecar EXCEPT !.at = "open", !.head_cap = head,
                                 !.tail_cap = c]
  BY <1>3 DEF OpenSidecar
<1>6. /\ sidecar' \in SidecarType
      /\ sidecar'.at = "open" /\ sidecar'.head_length = 0
      /\ sidecar'.head_cap = head /\ sidecar'.tail_cap = c
      /\ sidecar'.tail = <<>> /\ sidecar'.produced = 0
      /\ sidecar'.dropped = 0
  BY <1>4, <1>5 DEF SidecarInv, SidecarType, OpenSidecar
<1>7. HeadOf(sidecar') = 0 /\ TailOf(sidecar') = 0
  <2>1. \A x \in Nat : Least(0, x) = 0
    BY DEF Least
  <2>2. HeadOf(sidecar') = 0
    BY <1>4, <1>6, <2>1 DEF HeadOf
  <2> QED
    BY <1>4, <1>6, <2>1, <2>2 DEF TailOf
<1>8. Numbered(1, 0) = <<>>
  BY NumberedSeq, EmptySeq
<1>9. Counted(sidecar')
  BY <1>6, <1>7, <1>8 DEF Counted
<1> QED
  BY <1>2, <1>6, <1>8, <1>9 DEF SidecarInv, Counted, HeadOf, TailOf

(* The head and the tail of p bytes, as lengths.                           *)
HeadLength(p, cap) == IF cap = None THEN p ELSE Least(p, cap)
TailLength(p, cap, c) == Least(p - HeadLength(p, cap), c)
RoomFor(n, cap, h) == IF cap = None THEN n ELSE Least(n, cap - h)

(* After n more bytes, of which the head takes what it has room for.       *)
LengthsAfter(p, n, c, cap, h, t, room) ==
    /\ h \in Nat /\ h <= p
    /\ t \in Nat /\ t <= p - h
    /\ room \in Nat /\ room <= n
    /\ room # 0 => h = p /\ t = 0
    /\ HeadLength(p + n, cap) = h + room
    /\ TailLength(p + n, cap, c) = Least(t + n - room, c)

(* The lengths after a chunk follow from those before it.                  *)
LEMMA ChunkLengths ==
    ASSUME NEW p \in Nat, NEW n \in Nat \ {0}, NEW c \in Nat,
           NEW cap \in Nat \cup {None},
           NEW h, h = HeadLength(p, cap), NEW t, t = TailLength(p, cap, c),
           NEW room, room = RoomFor(n, cap, h)
    PROVE  LengthsAfter(p, n, c, cap, h, t, room)
<1>1. CASE cap = None
  BY <1>1 DEF LengthsAfter, HeadLength, TailLength, RoomFor, Least
<1>2. CASE cap \in Nat /\ cap # None /\ cap <= p
  BY <1>2 DEF LengthsAfter, HeadLength, TailLength, RoomFor, Least
<1>3. CASE cap \in Nat /\ cap # None /\ ~(cap <= p)
  BY <1>3 DEF LengthsAfter, HeadLength, TailLength, RoomFor, Least
<1> QED
  BY <1>1, <1>2, <1>3

(* The bytes: what the head takes continues it, and what the tail keeps is *)
(* the last of what was offered.                                           *)
RunsAfter(p, n, c, h, t, room, chunk, rest, tail) ==
    /\ Numbered(1, h) \o First(chunk, room) = Numbered(1, h + room)
    /\ KeepTail(tail, rest, c)
         = Numbered(p + n + 1 - Least(t + n - room, c), p + n)
    /\ Len(tail) = t /\ Len(rest) = n - room
    /\ Least(t + n - room, c) \in Nat
    /\ KeepTail(tail, rest, c) \in Seq(Nat)
    /\ Len(KeepTail(tail, rest, c)) = Least(t + n - room, c)

(* What a chunk does to the runs of the head and the tail.                 *)
LEMMA ChunkRuns ==
    ASSUME NEW p \in Nat, NEW n \in Nat \ {0}, NEW c \in Nat,
           NEW h \in Nat, h <= p, NEW t \in Nat, t <= p - h,
           NEW room \in Nat, room <= n, room # 0 => h = p /\ t = 0,
           NEW chunk, chunk = Numbered(p + 1, p + n),
           NEW rest, rest = Without(chunk, room),
           NEW tail, tail = Numbered(p + 1 - t, p)
    PROVE  RunsAfter(p, n, c, h, t, room, chunk, rest, tail)
<1>1. /\ First(chunk, room) = Numbered(p + 1, p + room)
      /\ rest = Numbered(p + room + 1, p + n)
  <2>1. p + n \in Nat /\ p <= p + n /\ room <= (p + n) - p
    OBVIOUS
  <2> QED
    BY <2>1, NumberedFirst
<1>3. /\ tail \in Seq(Nat) /\ Len(tail) = t
  <2>1. /\ p + 1 - t \in Nat \ {0} /\ p + 1 - t <= p + 1
        /\ p + 1 - (p + 1 - t) = t
    OBVIOUS
  <2> QED
    BY <2>1, NumberedSeq
<1>4. /\ rest \in Seq(Nat) /\ Len(rest) = n - room
  <2>1. /\ p + room + 1 \in Nat \ {0} /\ p + n \in Nat
        /\ p + room + 1 <= (p + n) + 1
        /\ (p + n) + 1 - (p + room + 1) = n - room
    OBVIOUS
  <2> QED
    BY <1>1, <2>1, NumberedSeq, ZenonT(60)
<1>5. \A k \in Nat : Numbered(k + 1, k) = <<>>
  <2>1. ASSUME NEW k \in Nat
        PROVE  Numbered(k + 1, k) \in Seq(Nat) /\ Len(Numbered(k + 1, k)) = 0
    <3>1. k + 1 \in Nat \ {0} /\ k + 1 <= k + 1 /\ k + 1 - (k + 1) = 0
      OBVIOUS
    <3> QED
      BY <3>1, NumberedSeq
  <2> QED
    BY <2>1, EmptySeq
<1>6. Numbered(1, h) \o Numbered(p + 1, p + room) = Numbered(1, h + room)
  <2>1. CASE room = 0
    <3>1. Numbered(1, h) \in Seq(Nat)
      BY NumberedSeq
    <3>2. Numbered(p + 1, p + room) = <<>>
      BY <1>5, <2>1
    <3>3. h + room = h
      BY <2>1
    <3> QED
      BY <3>1, <3>2, <3>3, ConcatEmptySeq
  <2>2. CASE room # 0
    <3>1. PICK e : e = p + room
      OBVIOUS
    <3>2. h = p /\ e \in Nat /\ p <= e /\ 1 <= p + 1 /\ 1 \in Nat \ {0}
      BY <2>2, <3>1
    <3>3. Numbered(1, p) \o Numbered(p + 1, e) = Numbered(1, e)
      BY <3>2, NumberedConcat
    <3> QED
      BY <3>1, <3>2, <3>3
  <2> QED
    BY <2>1, <2>2
<1>7. tail \o rest = Numbered((p + room - t) + 1, p + n)
  <2>1. CASE room = 0
    <3>1. rest = Numbered(p + 1, p + n)
      BY <1>1, <2>1
    <3>2. PICK b, e : b = p + 1 - t /\ e = p + n
      OBVIOUS
    <3>3. /\ b \in Nat \ {0} /\ e \in Nat /\ b <= p + 1 /\ p <= e
          /\ (p + room - t) + 1 = b
      BY <2>1, <3>2
    <3>4. Numbered(b, p) \o Numbered(p + 1, e) = Numbered(b, e)
      BY <3>3, NumberedConcat
    <3> QED
      BY <3>1, <3>2, <3>3, <3>4
  <2>2. CASE room # 0
    <3>1. tail = <<>>
      <4>1. t = 0 /\ p + 1 - t = p + 1
        BY <2>2
      <4> QED
        BY <1>5, <4>1
    <3>2. (p + room - t) + 1 = p + room + 1
      BY <2>2
    <3> QED
      BY <1>1, <1>4, <3>1, <3>2, ConcatEmptySeq
  <2> QED
    BY <2>1, <2>2
<1>8. Last(Numbered((p + room - t) + 1, p + n), c)
        = Numbered(p + n + 1 - Least(t + n - room, c), p + n)
  <2>1. PICK x : x = p + room - t
    OBVIOUS
  <2>2. /\ x \in Nat /\ p + n \in Nat /\ x <= p + n
        /\ (p + n) - x = t + n - room
    BY <2>1
  <2>3. Last(Numbered(x + 1, p + n), c)
          = Numbered((p + n) + 1 - Least((p + n) - x, c), p + n)
    BY <2>2, NumberedLast
  <2> QED
    BY <2>1, <2>2, <2>3
<1>9. KeepTail(tail, rest, c)
        = Numbered(p + n + 1 - Least(t + n - room, c), p + n)
  BY <1>7, <1>8 DEF KeepTail
<1>10. PICK z : z = Least(t + n - room, c)
  OBVIOUS
<1>11. z \in Nat /\ z <= p + n
  BY <1>10 DEF Least
<1>12. /\ Numbered(p + n + 1 - z, p + n) \in Seq(Nat)
       /\ Len(Numbered(p + n + 1 - z, p + n)) = z
  <2>1. /\ p + n + 1 - z \in Nat \ {0} /\ p + n \in Nat
        /\ p + n + 1 - z <= (p + n) + 1
        /\ (p + n) + 1 - (p + n + 1 - z) = z
    BY <1>11
  <2> QED
    BY <2>1, NumberedSeq
<1> QED
  BY <1>1, <1>3, <1>4, <1>6, <1>9, <1>10, <1>11, <1>12 DEF RunsAfter

(* write: in one piece, or failing on the way.                             *)
LEMMA WriteSidecarInv ==
    ASSUME FileInv, SidecarInv, use = "sidecar", UNCHANGED use,
           NEW n \in 1..MaxProduced, WriteSidecar(n)
    PROVE  SidecarInv' /\ FileInv'
<1>1. PICK p, h, t, c, cap :
         /\ p = sidecar.produced /\ h = sidecar.head_length
         /\ t = TailOf(sidecar) /\ c = sidecar.tail_cap
         /\ cap = sidecar.head_cap
  OBVIOUS
<1>2. PICK chunk, room :
         /\ chunk = Numbered(p + 1, p + n)
         /\ room = RoomFor(n, cap, h)
  OBVIOUS
<1>3. PICK rest, kept :
         /\ rest = Without(chunk, room)
         /\ kept = KeepTail(sidecar.tail, rest, c)
  OBVIOUS
<1>4. PICK i : i = dir[SidecarName]
  OBVIOUS
<1>5. /\ n \in Nat \ {0}
      /\ p \in Nat /\ c \in Nat /\ cap \in Nat \cup {None}
      /\ h = HeadLength(p, cap) /\ t = TailLength(p, cap, c)
      /\ sidecar.tail = Numbered(p + 1 - t, p)
      /\ sidecar.dropped = p - h - t
      /\ sidecar.at = "open" /\ sidecar \in SidecarType
      /\ data[i] = Numbered(1, h) /\ i # 0
  BY <1>1, <1>4, SidecarAssumption
     DEF WriteSidecar, SidecarInv, SidecarType, Counted, HeadOf, TailOf,
         HeadLength, TailLength
<1>6. /\ \/ /\ Holds(i, data[i] \o First(chunk, room))
            /\ sidecar' = [sidecar EXCEPT
                 !.produced = @ + n, !.head_length = @ + room, !.tail = kept,
                 !.dropped = @ + Len(sidecar.tail) + Len(rest) - Len(kept)]
            /\ UNCHANGED faults
         \/ /\ room > 0
            /\ Fault
            /\ Holds(i, data[i] \o First(chunk, room - 1))
            /\ sidecar' = [sidecar EXCEPT !.produced = @ + n,
                                          !.at = "abandoned"]
      /\ UNCHANGED <<dir, temps, alive, pub, log>>
  BY <1>1, <1>2, <1>3, <1>4 DEF WriteSidecar, RoomFor
<1>7. /\ h \in Nat /\ h <= p /\ t \in Nat /\ t <= p - h
      /\ room \in Nat /\ room <= n
      /\ room # 0 => h = p /\ t = 0
      /\ HeadLength(p + n, cap) = h + room
      /\ TailLength(p + n, cap, c) = Least(t + n - room, c)
  <2>1. /\ p \in Nat /\ n \in Nat \ {0} /\ c \in Nat
        /\ cap \in Nat \cup {None} /\ h = HeadLength(p, cap)
        /\ t = TailLength(p, cap, c) /\ room = RoomFor(n, cap, h)
    BY <1>2, <1>5
  <2>2. LengthsAfter(p, n, c, cap, h, t, room)
    BY <2>1, ChunkLengths
  <2> QED
    BY <2>2 DEF LengthsAfter
<1>8. PICK z : z = Least(t + n - room, c)
  OBVIOUS
<1>9. /\ Numbered(1, h) \o First(chunk, room) = Numbered(1, h + room)
      /\ kept = Numbered(p + n + 1 - z, p + n)
      /\ Len(sidecar.tail) = t /\ Len(rest) = n - room
      /\ z \in Nat /\ kept \in Seq(Nat) /\ Len(kept) = z
  <2>1. PICK tail : tail = sidecar.tail
    OBVIOUS
  <2>2. /\ p \in Nat /\ n \in Nat \ {0} /\ c \in Nat /\ h \in Nat
        /\ h <= p /\ t \in Nat /\ t <= p - h /\ room \in Nat
        /\ room <= n /\ (room # 0 => h = p /\ t = 0)
    BY <1>5, <1>7
  <2>3. /\ chunk = Numbered(p + 1, p + n) /\ rest = Without(chunk, room)
        /\ tail = Numbered(p + 1 - t, p)
    BY <1>2, <1>3, <1>5, <2>1
  <2>4. RunsAfter(p, n, c, h, t, room, chunk, rest, tail)
    BY <2>2, <2>3, ChunkRuns
  <2> QED
    BY <1>3, <1>8, <2>1, <2>4 DEF RunsAfter
<1>10. SidecarName \in Children
  BY BundleAssumption DEF Children
<1>11. Nat \subseteq Bytes
  BY DEF Bytes
<1>12. \A x \in Nat : Numbered(1, x) \in Seq(Bytes)
  <2>1. \A x \in Nat : Numbered(1, x) \in Seq(Nat)
    BY NumberedSeq
  <2> QED
    BY <1>11, <2>1, SeqMonotonic
<1>13. CASE /\ Holds(i, data[i] \o First(chunk, room))
            /\ sidecar' = [sidecar EXCEPT
                 !.produced = @ + n, !.head_length = @ + room, !.tail = kept,
                 !.dropped = @ + Len(sidecar.tail) + Len(rest) - Len(kept)]
            /\ UNCHANGED faults
  <2>1. PICK g : g = p - h - t + t + (n - room) - z
    OBVIOUS
  <2>2. sidecar' = [sidecar EXCEPT !.produced = p + n, !.head_length = h + room,
                                   !.tail = kept, !.dropped = g]
    BY <1>1, <1>5, <1>9, <1>13, <2>1
  <2>3. g = (p + n) - (h + room) - z /\ g \in Nat /\ p + n \in Nat
          /\ h + room \in Nat
    <3>1. z <= t + n - room
      BY <1>5, <1>7, <1>8 DEF Least
    <3>2. /\ p \in Nat /\ n \in Nat /\ h \in Nat /\ t \in Nat /\ room \in Nat
          /\ z \in Nat /\ t <= p - h /\ room <= n
      BY <1>5, <1>7, <1>9
    <3> QED
      BY <2>1, <3>1, <3>2
  <2>4. /\ sidecar' \in SidecarType
        /\ sidecar'.at = "open" /\ sidecar'.head_cap = cap
        /\ sidecar'.tail_cap = c /\ sidecar'.produced = p + n
        /\ sidecar'.head_length = h + room /\ sidecar'.tail = kept
        /\ sidecar'.dropped = g
    BY <1>1, <1>5, <1>9, <2>2, <2>3 DEF SidecarType
  <2>5. HeadOf(sidecar') = h + room /\ TailOf(sidecar') = z
    BY <1>7, <1>8, <2>4 DEF HeadOf, TailOf, HeadLength, TailLength
  <2>6. Counted(sidecar')
    BY <1>9, <2>3, <2>4, <2>5 DEF Counted
  <2>7. Holds(i, Numbered(1, h + room))
    BY <1>5, <1>9, <1>13
  <2>8. data'[dir[SidecarName]] = Numbered(1, h + room)
    BY <1>4, <1>5, <1>6, <1>10, <2>7, WritingKeepsOthers
  <2>9. Numbered(1, h + room) \in Seq(Bytes)
    BY <1>12, <2>3
  <2>10. faults' \in Nat
    BY <1>13 DEF FileInv
  <2>11. FileInv'
    BY <1>4, <1>5, <1>6, <1>10, <2>7, <2>9, <2>10, ChildWritten
  <2> QED
    BY <1>4, <1>5, <1>6, <2>4, <2>6, <2>8, <2>11
       DEF SidecarInv, Counted, HeadOf, TailOf
<1>14. CASE /\ room > 0
            /\ Fault
            /\ Holds(i, data[i] \o First(chunk, room - 1))
            /\ sidecar' = [sidecar EXCEPT !.produced = @ + n,
                                          !.at = "abandoned"]
  <2>1. sidecar' \in SidecarType /\ sidecar'.at = "abandoned"
    <3>1. /\ sidecar' = [sidecar EXCEPT !.produced = p + n, !.at = "abandoned"]
          /\ p + n \in Nat
      BY <1>1, <1>5, <1>14
    <3> QED
      BY <1>5, <3>1 DEF SidecarType
  <2>2. faults' \in Nat
    BY <1>14, FaultCounted
  <2>3. First(chunk, room - 1) \in Seq(Bytes)
    <3>1. chunk \in Seq(Nat) /\ Len(chunk) = n
      <4>1. /\ p + 1 \in Nat \ {0} /\ p + n \in Nat
            /\ p + 1 <= (p + n) + 1 /\ (p + n) + 1 - (p + 1) = n
        BY <1>5
      <4> QED
        BY <1>2, <4>1, NumberedSeq
    <3>2. \A k \in 1..(room - 1) : chunk[k] \in Bytes
      BY <1>7, <1>11, <3>1
    <3>3. room - 1 \in Int /\ 1 \in Int
      BY <1>7
    <3> QED
      BY <3>2, <3>3, SubSeqProperties DEF First
  <2>4. data[i] \o First(chunk, room - 1) \in Seq(Bytes)
    BY <1>5, <1>7, <1>12, <2>3, ConcatProperties
  <2>5. FileInv'
    BY <1>4, <1>5, <1>6, <1>10, <1>14, <2>2, <2>4, ChildWritten
  <2> QED
    BY <2>1, <2>5 DEF SidecarInv
<1> QED
  BY <1>6, <1>13, <1>14

(* finalize: the tail goes after the head.                                 *)
LEMMA FinalizeSidecarInv ==
    ASSUME FileInv, SidecarInv, use = "sidecar", UNCHANGED use,
           FinalizeSidecar
    PROVE  SidecarInv' /\ FileInv'
<1>1. PICK i, h, tail : i = dir[SidecarName] /\ h = sidecar.head_length
                          /\ tail = sidecar.tail
  OBVIOUS
<1>2. /\ sidecar.at = "open" /\ sidecar \in SidecarType /\ i # 0
      /\ Counted(sidecar) /\ data[i] = Numbered(1, h)
      /\ h \in Nat /\ tail \in Seq(Nat)
      /\ UNCHANGED <<dir, temps, alive, pub, log>>
  BY <1>1 DEF FinalizeSidecar, SidecarInv, SidecarType
<1>3. SidecarName \in Children
  BY BundleAssumption DEF Children
<1>4. CASE /\ Holds(i, data[i] \o tail)
           /\ sidecar' = [sidecar EXCEPT !.at = "finalized"]
           /\ UNCHANGED faults
  <2>1. /\ sidecar' \in SidecarType /\ sidecar'.at = "finalized"
        /\ sidecar'.head_length = h /\ sidecar'.tail = tail
        /\ sidecar'.head_cap = sidecar.head_cap
        /\ sidecar'.tail_cap = sidecar.tail_cap
        /\ sidecar'.produced = sidecar.produced
        /\ sidecar'.dropped = sidecar.dropped
    BY <1>1, <1>2, <1>4 DEF SidecarType
  <2>2. Counted(sidecar')
    BY <1>1, <1>2, <2>1 DEF Counted, HeadOf, TailOf
  <2>3. data'[dir[SidecarName]] = Numbered(1, h) \o tail
    BY <1>1, <1>2, <1>3, <1>4, WritingKeepsOthers
  <2>4. Numbered(1, h) \in Seq(Nat)
    BY <1>2, NumberedSeq
  <2>5. data[i] \o tail \in Seq(Bytes)
    <3>1. Nat \subseteq Bytes
      BY DEF Bytes
    <3>2. Numbered(1, h) \o tail \in Seq(Nat)
      BY <1>2, <2>4, ConcatProperties
    <3> QED
      BY <1>2, <3>1, <3>2, SeqMonotonic
  <2>6. faults' \in Nat
    BY <1>4 DEF FileInv
  <2>7. FileInv'
    BY <1>1, <1>2, <1>3, <1>4, <2>5, <2>6, ChildWritten
  <2> QED
    BY <1>1, <1>2, <2>1, <2>2, <2>3, <2>7
       DEF SidecarInv, Counted, HeadOf, TailOf
<1>5. CASE /\ Fault
           /\ sidecar' = [sidecar EXCEPT !.at = "abandoned"]
           /\ UNCHANGED data
  <2>1. sidecar' \in SidecarType /\ sidecar'.at = "abandoned"
    BY <1>2, <1>5 DEF SidecarType
  <2>2. FileInv'
    BY <1>2, <1>5, FaultCounted, FilesKept DEF fsVars, FileInv
  <2> QED
    BY <2>1, <2>2 DEF SidecarInv
<1> QED
  BY <1>1, <1>4, <1>5 DEF FinalizeSidecar

-----------------------------------------------------------------------------
(***************************************************************************)
(* The bundle.                                                             *)
(***************************************************************************)
(* Artifacts are children, and their bytes bytes.                          *)
LEMMA ArtifactsAreChildren ==
    /\ Artifacts \subseteq Children
    /\ ArtifactBytes \subseteq Bytes
    /\ Seq(ArtifactBytes) \subseteq Seq(Bytes)
<1>1. ArtifactBytes \subseteq Bytes
  BY DEF Bytes
<1>2. Seq(ArtifactBytes) \subseteq Seq(Bytes)
  BY <1>1, SeqMonotonic
<1> QED
  BY <1>1, <1>2, BundleAssumption DEF Children

(* Whatever was installed in a bundle is its manifest, and the publication *)
(* is over.                                                                *)
LEMMA InstalledIsManifest ==
    ASSUME FileInv, BundleInv, use = "bundle", NEW i \in 1..Len(log)
    PROVE  /\ state = "TERMINAL"
           /\ log[i][2] = [a \in Finalized |-> descriptors[a]]
<1>1. PICK t : t = log[i][1]
  OBVIOUS
<1>2. t \in Publishers /\ Installed(t) /\ log[i][2] = pub[t].doc
  BY <1>1, FileTypes DEF Installed, FileInv, LogOK
<1>3. pub[t].at # "idle"
  BY <1>2 DEF FileInv, Honest
<1> QED
  BY <1>2, <1>3 DEF BundleInv, TerminalIsFinal

(* What one artifact's writer does not share with the others.              *)
OthersKept(a) ==
    /\ ChildrenKept(Children \ {a})
    /\ \A b \in Artifacts \ {a} :
         /\ writers'[b] = writers[b] /\ descriptors'[b] = descriptors[b]
         /\ handle'[b] = handle[b] /\ buffer'[b] = buffer[b]
         /\ hashed'[b] = hashed[b] /\ (b \in changed' <=> b \in changed)

(* An artifact nothing happened to.                                        *)
LEMMA WriterKept ==
    ASSUME NEW a \in Artifacts, WriterOK(a),
           writers[a] = None \/ ChildrenKept({a}),
           writers'[a] = writers[a], descriptors'[a] = descriptors[a],
           handle'[a] = handle[a], buffer'[a] = buffer[a],
           hashed'[a] = hashed[a], a \in changed' <=> a \in changed
    PROVE  WriterOK(a)'
BY NoneAssumption DEF WriterOK, ChildrenKept

(* A step that leaves the bundle's state and artifacts alone.              *)
LEMMA BundleKept ==
    ASSUME BundleInv, UNCHANGED <<use, bundleVars, changed>>,
           PublishersKept,
           use # "bundle" \/ ChildrenKept(Children)
    PROVE  BundleInv'
<1>1. \A a \in Artifacts : WriterOK(a)'
  <2> SUFFICES ASSUME NEW a \in Artifacts
               PROVE  WriterOK(a)'
    OBVIOUS
  <2>1. WriterOK(a) /\ (writers[a] = None \/ ChildrenKept({a}))
    BY ArtifactsAreChildren DEF BundleInv, OneUse, ChildrenKept
  <2> QED
    BY <2>1, WriterKept DEF bundleVars
<1>2. BundleType'
  BY DEF BundleInv, BundleType, bundleVars
<1>3. OneUse'
  BY DEF BundleInv, OneUse, bundleVars, PublishersKept
<1>4. Finalized' = Finalized /\ UNCHANGED <<state, writers, descriptors>>
  BY DEF Finalized, bundleVars
<1>5. TerminalIsFinal'
  BY <1>4 DEF BundleInv, TerminalIsFinal, PublishersKept
<1>6. FailurePoisons'
  BY <1>4 DEF BundleInv, FailurePoisons
<1> QED
  BY <1>1, <1>2, <1>3, <1>5, <1>6 DEF BundleInv

(* Before publish, in a bundle.                                            *)
BeforePublish ==
    /\ use = "bundle" /\ state \in {"OPEN", "POISONED"}
    /\ \A t \in Publishers : pub[t].at = "idle"

(* The state of a bundle tells whether publish was called.                 *)
LEMMA NotTerminal ==
    BundleInv /\ use = "bundle" /\ state # "TERMINAL" => BeforePublish
BY DEF BundleInv, BundleType, TerminalIsFinal, BeforePublish

(* Writers work before publish only.                                       *)
LEMMA WriterActive ==
    ASSUME BundleInv, NEW a \in Artifacts, handle[a] # "none"
    PROVE  /\ BeforePublish /\ WriterOK(a)
           /\ writers[a] = "ACTIVE" /\ descriptors[a] = None
<1>1. WriterOK(a)
  BY DEF BundleInv
<1>2. writers[a] = "ACTIVE" /\ descriptors[a] = None
  BY <1>1 DEF WriterOK
<1>3. use = "bundle" /\ state # "TERMINAL"
  BY <1>2, NoneAssumption DEF BundleInv, OneUse, TerminalIsFinal
<1> QED
  BY <1>1, <1>2, <1>3, NotTerminal

(* A writer's step: its own artifact is all there is to look at.           *)
LEMMA WriterStepKeeps ==
    ASSUME BundleInv, NEW a \in Artifacts,
           BeforePublish, UNCHANGED <<use, pub>>,
           state' = "POISONED" \/ (state' = state /\ writers'[a] # "FAILED"),
           OthersKept(a), BundleType', WriterOK(a)'
    PROVE  BundleInv'
<1>1. ASSUME NEW b \in Artifacts \ {a}
      PROVE  WriterOK(b)'
  <2>1. WriterOK(b) /\ ChildrenKept({b})
    BY ArtifactsAreChildren DEF BundleInv, OthersKept, ChildrenKept
  <2> QED
    BY <2>1, WriterKept DEF OthersKept
<1>2. OneUse' /\ TerminalIsFinal'
  BY DEF OneUse, TerminalIsFinal, BeforePublish
<1>3. FailurePoisons'
  BY DEF BundleInv, FailurePoisons, OthersKept
<1> QED
  BY <1>1, <1>2, <1>3 DEF BundleInv

(* open_artifact reserves a name.                                          *)
LEMMA ReserveInv ==
    ASSUME FileInv, BundleInv, NEW a \in Artifacts, Reserve(a)
    PROVE  BundleInv'
<1>1. /\ BeforePublish
      /\ state = "OPEN" /\ writers[a] = None /\ WriterOK(a)
      /\ UNCHANGED <<data, dir, pub, use, state, descriptors, buffer, hashed,
                     changed>>
  BY NotTerminal DEF Reserve, documentVars, fsVars, BundleInv
<1>2. /\ writers' = [writers EXCEPT ![a] = "ACTIVE"]
      /\ handle' = [handle EXCEPT ![a] = "creating"]
  BY DEF Reserve
<1>3. BundleType'
  BY <1>1, <1>2 DEF BundleInv, BundleType
<1>4. OthersKept(a)
  BY <1>1, <1>2 DEF OthersKept, ChildrenKept, BundleInv, BundleType
<1>5. writers'[a] = "ACTIVE" /\ handle'[a] = "creating"
  BY <1>2 DEF BundleInv, BundleType
<1>6. WriterOK(a)'
  BY <1>1, <1>5, NoneAssumption DEF WriterOK
<1> QED
  BY <1>1, <1>3, <1>4, <1>5, <1>6, WriterStepKeeps

(* A failure closes the writer and poisons the publication.                *)
LEMMA FailedInv ==
    ASSUME FileInv, BundleInv, NEW a \in Artifacts, handle[a] # "none",
           writers' = [writers EXCEPT ![a] = "FAILED"],
           state' = "POISONED",
           handle' = [handle EXCEPT ![a] = "none"],
           buffer' = [buffer EXCEPT ![a] = <<>>] \/ UNCHANGED buffer,
           UNCHANGED <<use, pub, descriptors, hashed, changed>>,
           ChildrenKept(Children \ {a})
    PROVE  BundleInv'
<1>1. BeforePublish /\ descriptors[a] = None
  BY WriterActive
<1>2. <<>> \in Seq(ArtifactBytes)
  BY EmptySeq
<1>3. BundleType'
  BY <1>2 DEF BundleInv, BundleType
<1>4. OthersKept(a)
  BY DEF OthersKept, BundleInv, BundleType
<1>5. writers'[a] = "FAILED" /\ handle'[a] = "none"
  BY DEF BundleInv, BundleType
<1>6. WriterOK(a)'
  BY <1>1, <1>5, NoneAssumption DEF WriterOK
<1> QED
  BY <1>1, <1>3, <1>4, <1>6, WriterStepKeeps

(* The child is created, or not.                                           *)
LEMMA CreateChildInv ==
    ASSUME FileInv, BundleInv, NEW a \in Artifacts, CreateChild(a)
    PROVE  BundleInv' /\ FileInv'
<1>1. /\ BeforePublish /\ writers[a] = "ACTIVE" /\ descriptors[a] = None
      /\ handle[a] = "creating" /\ WriterOK(a) /\ a \in Children
      /\ UNCHANGED <<temps, alive, pub, log, use, descriptors, buffer, hashed,
                     changed>>
  BY WriterActive, ArtifactsAreChildren DEF CreateChild, BundleInv
<1>2. CASE /\ Creates
           /\ dir' = [dir EXCEPT ![a] = NewInode]
           /\ handle' = [handle EXCEPT ![a] = "created"]
           /\ UNCHANGED <<faults, writers, state>>
  <2>1. /\ ChildrenKept(Children \ {a})
        /\ dir'[a] # 0 /\ data'[dir'[a]] = <<>>
    BY <1>1, <1>2, CreatingKeepsOthers
  <2>2. FileInv'
    BY <1>1, <1>2, ChildCreated DEF FileInv
  <2>3. BundleType'
    BY <1>1, <1>2 DEF BundleInv, BundleType
  <2>4. OthersKept(a) /\ handle'[a] = "created" /\ writers'[a] = "ACTIVE"
    BY <1>1, <1>2, <2>1 DEF OthersKept, BundleInv, BundleType
  <2>5. WriterOK(a)'
    BY <1>1, <2>1, <2>4, NoneAssumption DEF WriterOK
  <2>6. state' = state
    BY <1>2
  <2> QED
    BY <1>1, <2>2, <2>3, <2>4, <2>5, <2>6, WriterStepKeeps
<1>3. CASE /\ Fault
           /\ writers' = [writers EXCEPT ![a] = "FAILED"]
           /\ state' = "POISONED"
           /\ handle' = [handle EXCEPT ![a] = "none"]
           /\ UNCHANGED <<data, dir>>
  <2>1. FileInv'
    BY <1>1, <1>3, FaultCounted, FilesKept DEF fsVars, FileInv
  <2>2. ChildrenKept(Children \ {a})
    BY <1>3 DEF ChildrenKept
  <2> QED
    BY <1>1, <1>3, <2>1, <2>2, FailedInv
<1> QED
  BY <1>2, <1>3 DEF CreateChild

(* The writer is handed out, or its reservation withdrawn.                 *)
LEMMA AdmitWriterInv ==
    ASSUME FileInv, BundleInv, NEW a \in Artifacts, AdmitWriter(a)
    PROVE  BundleInv'
<1>1. /\ BeforePublish /\ writers[a] = "ACTIVE" /\ descriptors[a] = None
      /\ handle[a] = "created" /\ WriterOK(a)
      /\ UNCHANGED <<data, dir, pub, use, state, descriptors, buffer, hashed,
                     changed>>
  BY WriterActive DEF AdmitWriter, BundleInv, documentVars, fsVars
<1>2. state' = state /\ ChildrenKept(Children \ {a})
  BY <1>1 DEF ChildrenKept
<1>3. CASE handle' = [handle EXCEPT ![a] = "open"] /\ UNCHANGED writers
  <2>1. BundleType'
    BY <1>1, <1>3 DEF BundleInv, BundleType
  <2>2. OthersKept(a) /\ handle'[a] = "open" /\ writers'[a] = "ACTIVE"
    BY <1>1, <1>2, <1>3 DEF OthersKept, BundleInv, BundleType
  <2>3. <<>> \o <<>> = <<>>
    BY EmptySeq, ConcatEmptySeq
  <2>4. WriterOK(a)'
    BY <1>1, <2>2, <2>3, NoneAssumption DEF WriterOK
  <2> QED
    BY <1>1, <1>2, <2>1, <2>2, <2>4, WriterStepKeeps
<1>4. CASE /\ handle' = [handle EXCEPT ![a] = "none"]
           /\ writers' = [writers EXCEPT ![a] = None]
  <2>1. BundleType'
    BY <1>1, <1>4 DEF BundleInv, BundleType
  <2>2. OthersKept(a) /\ handle'[a] = "none" /\ writers'[a] = None
    BY <1>1, <1>2, <1>4 DEF OthersKept, BundleInv, BundleType
  <2>3. WriterOK(a)'
    BY <1>1, <2>2, NoneAssumption DEF WriterOK
  <2> QED
    BY <1>1, <1>2, <2>1, <2>2, <2>3, NoneAssumption, WriterStepKeeps
<1> QED
  BY <1>3, <1>4 DEF AdmitWriter

(* WriterFinalized: the descriptor of what was hashed.                     *)
LEMMA WriterFinalizedInv ==
    ASSUME FileInv, BundleInv, NEW a \in Artifacts, WriterFinalized(a)
    PROVE  BundleInv'
<1>1. /\ BeforePublish /\ handle[a] = "closed" /\ WriterOK(a)
      /\ UNCHANGED <<data, dir, pub, use, state, buffer, hashed, changed>>
  BY WriterActive DEF WriterFinalized, documentVars, fsVars
<1>2. /\ descriptors' = [descriptors EXCEPT ![a] = hashed[a]]
      /\ writers' = [writers EXCEPT ![a] = "FINALIZED"]
      /\ handle' = [handle EXCEPT ![a] = "none"]
  BY DEF WriterFinalized
<1>3. state' = state /\ ChildrenKept(Children \ {a})
  BY <1>1 DEF ChildrenKept
<1>4. BundleType'
  BY <1>1, <1>2 DEF BundleInv, BundleType
<1>5. /\ OthersKept(a) /\ handle'[a] = "none" /\ writers'[a] = "FINALIZED"
      /\ descriptors'[a] = hashed[a] /\ hashed[a] # None
  BY <1>1, <1>2, <1>3, NoneAssumption
     DEF OthersKept, BundleInv, BundleType, ArtifactBytes
<1>6. WriterOK(a)'
  BY <1>1, <1>5, NoneAssumption DEF WriterOK
<1> QED
  BY <1>1, <1>3, <1>4, <1>5, <1>6, WriterStepKeeps

(* The file, the buffer and the bytes of an open writer, as sequences.     *)
LEMMA OpenWriter ==
    ASSUME FileInv, BundleInv, NEW a \in Artifacts, handle[a] = "open"
    PROVE  /\ BeforePublish /\ writers[a] = "ACTIVE" /\ descriptors[a] = None
           /\ a \in Children /\ dir[a] # 0
           /\ data[dir[a]] \in Seq(Bytes)
           /\ buffer[a] \in Seq(ArtifactBytes) /\ buffer[a] \in Seq(Bytes)
           /\ hashed[a] \in Seq(ArtifactBytes) /\ hashed[a] \in Seq(Bytes)
           /\ data[dir[a]] \o buffer[a] = hashed[a]
<1>1. /\ BeforePublish /\ WriterOK(a)
      /\ writers[a] = "ACTIVE" /\ descriptors[a] = None
  BY WriterActive
<1>2. a \in Children /\ dir[a] # 0
  BY <1>1, ArtifactsAreChildren DEF WriterOK
<1>3. dir[a] \in 1..Len(data)
  BY <1>2, FileTypes DEF FileInv, InodesOwned, Children
<1>4. buffer[a] \in Seq(ArtifactBytes) /\ hashed[a] \in Seq(ArtifactBytes)
  BY DEF BundleInv, BundleType
<1> QED
  BY <1>1, <1>2, <1>3, <1>4, FileTypes, ArtifactsAreChildren DEF WriterOK

(* Part of the buffer reaches the file when a write or a flush fails.      *)
LEMMA SpillPartInv ==
    ASSUME FileInv, BundleInv, NEW a \in Artifacts, handle[a] = "open",
           NEW bytes \in Seq(Bytes), SpillPart(a, bytes), Fault, Failed(a),
           UNCHANGED <<dir, temps, alive, pub, log, use, descriptors, hashed,
                       changed>>
    PROVE  BundleInv' /\ FileInv'
<1>1. /\ writers[a] = "ACTIVE" /\ a \in Children /\ dir[a] # 0
      /\ data[dir[a]] \in Seq(Bytes)
  BY OpenWriter
<1>2. PICK n \in 0..Len(bytes) :
        Holds(dir[a], data[dir[a]] \o First(bytes, n))
  BY DEF SpillPart
<1>3. First(bytes, n) \in Seq(Bytes)
  <2>1. /\ \A k \in 1..n : bytes[k] \in Bytes
        /\ 1 \in Int /\ n \in Int
    BY <1>2
  <2> QED
    BY <2>1, SubSeqProperties DEF First
<1>4. data[dir[a]] \o First(bytes, n) \in Seq(Bytes)
  BY <1>1, <1>3, ConcatProperties
<1>5. ChildrenKept(Children \ {a})
  BY <1>1, <1>2, WritingKeepsOthers
<1>6. FileInv'
  BY <1>1, <1>2, <1>4, FaultCounted, ChildWritten
<1>7. /\ writers' = [writers EXCEPT ![a] = "FAILED"]
      /\ state' = "POISONED"
      /\ handle' = [handle EXCEPT ![a] = "none"]
      /\ buffer' = [buffer EXCEPT ![a] = <<>>]
  BY <1>1 DEF Failed, SpillPart
<1>8. BundleInv'
  BY <1>5, <1>7, FailedInv
<1> QED
  BY <1>6, <1>8

(* write: the bytes are hashed, and go to the buffer or through it.        *)
LEMMA WriteInv ==
    ASSUME FileInv, BundleInv, NEW a \in Artifacts, NEW n \in 1..MaxLength,
           Write(a, n)
    PROVE  BundleInv' /\ FileInv'
<1>1. PICK bytes : bytes = [k \in 1..n |-> <<a, Len(hashed[a]) + k>>]
  OBVIOUS
<1>2. /\ BeforePublish /\ writers[a] = "ACTIVE" /\ descriptors[a] = None
      /\ a \in Children /\ dir[a] # 0
      /\ data[dir[a]] \in Seq(Bytes)
      /\ buffer[a] \in Seq(ArtifactBytes) /\ buffer[a] \in Seq(Bytes)
      /\ hashed[a] \in Seq(ArtifactBytes) /\ hashed[a] \in Seq(Bytes)
      /\ data[dir[a]] \o buffer[a] = hashed[a]
      /\ handle[a] = "open"
  BY OpenWriter DEF Write
<1>3. bytes \in Seq(ArtifactBytes) /\ bytes \in Seq(Bytes)
  <2>1. n \in Nat /\ Len(hashed[a]) \in Nat
    BY <1>2, BundleAssumption
  <2>2. \A k \in 1..n : <<a, Len(hashed[a]) + k>> \in ArtifactBytes
    BY <2>1 DEF ArtifactBytes
  <2>3. bytes \in Seq(ArtifactBytes)
    <3>1. bytes \in [1..n -> ArtifactBytes]
      BY <1>1, <2>2
    <3> QED
      BY <2>1, <3>1
  <2> QED
    BY <2>3, ArtifactsAreChildren
<1>4. /\ buffer[a] \o bytes \in Seq(ArtifactBytes)
      /\ buffer[a] \o bytes \in Seq(Bytes)
      /\ hashed[a] \o bytes \in Seq(ArtifactBytes)
      /\ data[dir[a]] \o (buffer[a] \o bytes) \in Seq(Bytes)
      /\ data[dir[a]] \o (buffer[a] \o bytes) = hashed[a] \o bytes
  <2>1. /\ buffer[a] \o bytes \in Seq(ArtifactBytes)
        /\ hashed[a] \o bytes \in Seq(ArtifactBytes)
    BY <1>2, <1>3, ConcatProperties
  <2>2. buffer[a] \o bytes \in Seq(Bytes)
    BY <2>1, ArtifactsAreChildren
  <2>3. data[dir[a]] \o (buffer[a] \o bytes) \in Seq(Bytes)
    BY <1>2, <2>2, ConcatProperties
  <2>4. (data[dir[a]] \o buffer[a]) \o bytes
          = data[dir[a]] \o (buffer[a] \o bytes)
    <3>1. PICK f, b : f = data[dir[a]] /\ b = buffer[a]
      OBVIOUS
    <3>2. f \in Seq(Bytes) /\ b \in Seq(Bytes) /\ bytes \in Seq(Bytes)
      BY <1>2, <1>3, <3>1
    <3>3. (f \o b) \o bytes = f \o (b \o bytes)
      BY <3>2, ConcatAssociative
    <3> QED
      BY <3>1, <3>3
  <2> QED
    BY <1>2, <2>1, <2>2, <2>3, <2>4
<1>5. UNCHANGED <<dir, temps, alive, pub, log, use, descriptors, changed>>
  BY DEF Write
<1>6. CASE /\ Spill(a, buffer[a] \o bytes)
           /\ hashed' = [hashed EXCEPT ![a] = @ \o bytes]
           /\ UNCHANGED <<faults, writers, state, handle>>
  <2>1. hashed'[a] = hashed[a] \o bytes
          /\ hashed' = [hashed EXCEPT ![a] = hashed[a] \o bytes]
    BY <1>6 DEF BundleInv, BundleType
  <2>2. state' = state /\ writers'[a] = "ACTIVE"
    BY <1>2, <1>6
  <2>3. ASSUME NEW b \in Seq(ArtifactBytes), NEW f \in Seq(Bytes),
               buffer' = [buffer EXCEPT ![a] = b],
               ChildrenKept(Children \ {a}), data'[dir[a]] = f,
               f \o b = hashed[a] \o bytes
        PROVE  BundleInv'
    <3>1. BundleType'
      BY <1>4, <1>5, <1>6, <2>1, <2>3 DEF BundleInv, BundleType
    <3>2. OthersKept(a) /\ buffer'[a] = b
      BY <1>5, <1>6, <2>1, <2>3 DEF OthersKept, BundleInv, BundleType
    <3>3. WriterOK(a)'
      BY <1>2, <1>5, <1>6, <2>1, <2>3, <3>2, NoneAssumption DEF WriterOK
    <3> QED
      BY <1>2, <1>5, <2>2, <3>1, <3>2, <3>3, WriterStepKeeps
  <2>4. CASE /\ UNCHANGED data
             /\ buffer' = [buffer EXCEPT ![a] = buffer[a] \o bytes]
    <3>1. ChildrenKept(Children \ {a})
      BY <1>5, <2>4 DEF ChildrenKept
    <3>2. BundleInv'
      BY <1>2, <1>4, <2>3, <2>4, <3>1
    <3>3. FileInv'
      BY <1>5, <1>6, <2>4, FilesKept DEF fsVars, FileInv
    <3> QED
      BY <3>2, <3>3
  <2>5. CASE /\ Holds(dir[a], data[dir[a]] \o (buffer[a] \o bytes))
             /\ buffer' = [buffer EXCEPT ![a] = <<>>]
    <3>1. /\ ChildrenKept(Children \ {a})
          /\ data'[dir[a]] = hashed[a] \o bytes
      BY <1>2, <1>4, <1>5, <2>5, WritingKeepsOthers
    <3>2. (hashed[a] \o bytes) \o <<>> = hashed[a] \o bytes
      BY <1>4, ConcatEmptySeq
    <3>3. <<>> \in Seq(ArtifactBytes) /\ hashed[a] \o bytes \in Seq(Bytes)
      BY <1>4, EmptySeq
    <3>4. BundleInv'
      BY <2>3, <2>5, <3>1, <3>2, <3>3
    <3>5. FileInv'
      BY <1>2, <1>4, <1>5, <1>6, <2>5, ChildWritten DEF FileInv
    <3> QED
      BY <3>4, <3>5
  <2> QED
    BY <1>6, <2>4, <2>5 DEF Spill
<1>7. CASE /\ Fault
           /\ SpillPart(a, buffer[a] \o bytes)
           /\ Failed(a)
           /\ UNCHANGED hashed
  BY <1>2, <1>4, <1>5, <1>7, SpillPartInv
<1> QED
  BY <1>1, <1>6, <1>7 DEF Write

(* finalize flushes and closes: the file holds what was hashed.            *)
LEMMA FlushAndCloseInv ==
    ASSUME FileInv, BundleInv, NEW a \in Artifacts, FlushAndClose(a)
    PROVE  BundleInv' /\ FileInv'
<1>1. /\ BeforePublish /\ writers[a] = "ACTIVE" /\ descriptors[a] = None
      /\ a \in Children /\ dir[a] # 0
      /\ data[dir[a]] \in Seq(Bytes)
      /\ buffer[a] \in Seq(Bytes)
      /\ hashed[a] \in Seq(Bytes)
      /\ data[dir[a]] \o buffer[a] = hashed[a]
      /\ handle[a] = "open"
  BY OpenWriter DEF FlushAndClose
<1>2. UNCHANGED <<dir, temps, alive, pub, log, use, descriptors, hashed,
                  changed>>
  BY DEF FlushAndClose
<1>3. CASE /\ Holds(dir[a], data[dir[a]] \o buffer[a])
           /\ buffer' = [buffer EXCEPT ![a] = <<>>]
           /\ handle' = [handle EXCEPT ![a] = "closed"]
           /\ UNCHANGED <<faults, writers, state>>
  <2>1. ChildrenKept(Children \ {a}) /\ data'[dir[a]] = hashed[a]
    BY <1>1, <1>2, <1>3, WritingKeepsOthers
  <2>2. FileInv'
    BY <1>1, <1>2, <1>3, ChildWritten DEF FileInv
  <2>3. <<>> \in Seq(ArtifactBytes)
    BY EmptySeq
  <2>4. BundleType'
    BY <1>2, <1>3, <2>3 DEF BundleInv, BundleType
  <2>5. OthersKept(a) /\ handle'[a] = "closed" /\ buffer'[a] = <<>>
    BY <1>2, <1>3, <2>1 DEF OthersKept, BundleInv, BundleType
  <2>6. WriterOK(a)'
    BY <1>1, <1>2, <1>3, <2>1, <2>5, NoneAssumption DEF WriterOK
  <2>7. state' = state /\ writers'[a] = "ACTIVE"
    BY <1>1, <1>3
  <2> QED
    BY <1>1, <1>2, <2>2, <2>4, <2>5, <2>6, <2>7, WriterStepKeeps
<1>4. CASE /\ Fault
           /\ SpillPart(a, buffer[a])
           /\ Failed(a)
  BY <1>1, <1>2, <1>4, SpillPartInv
<1> QED
  BY <1>3, <1>4 DEF FlushAndClose

(* An artifact is changed from outside: its manifest is published, and     *)
(* nobody writes it any more.                                              *)
LEMMA ChangeArtifactInv ==
    ASSUME FileInv, BundleInv, NEW a \in Artifacts, ChangeArtifact(a)
    PROVE  BundleInv' /\ FileInv'
<1>1. /\ use = "bundle" /\ dir[Manifest] # 0 /\ dir[a] # 0
      /\ changed' = changed \cup {a}
      /\ UNCHANGED <<temps, alive, pub, log, faults, use, bundleVars>>
  BY DEF ChangeArtifact
<1>2. Len(log) \in Nat /\ log # <<>> /\ log \in Seq(Publishers \X Content)
  BY <1>1, FileTypes DEF FileInv, LogOK
<1>3. 1 \in 1..Len(log)
  BY <1>2, EmptySeq
<1>4. state = "TERMINAL"
  BY <1>1, <1>3, InstalledIsManifest
<1>5. a \in Children /\ dir[a] \in 1..Len(data)
  BY <1>1, FileTypes, ArtifactsAreChildren DEF FileInv, InodesOwned, Children
<1>6. data[dir[a]] \in Seq(Bytes)
  BY <1>5, FileTypes
<1>7. ChildrenKept(Children \ {a}) /\ FileInv'
  <2>1. ASSUME NEW b \in Seq(Bytes), Holds(dir[a], b), UNCHANGED dir
        PROVE  ChildrenKept(Children \ {a}) /\ FileInv'
    BY <1>1, <1>5, <2>1, WritingKeepsOthers, ChildWritten DEF FileInv
  <2>2. PICK bytes : bytes = data[dir[a]]
    OBVIOUS
  <2>3. CASE bytes # <<>> /\ Holds(dir[a], First(bytes, Len(bytes) - 1))
               /\ UNCHANGED dir
    <3>1. Len(bytes) \in Nat /\ bytes \in Seq(Bytes)
      BY <1>6, <2>2
    <3>2. \A k \in 1..(Len(bytes) - 1) : bytes[k] \in Bytes
      BY <3>1
    <3>3. 1 \in Int /\ Len(bytes) - 1 \in Int
      BY <3>1
    <3>4. First(bytes, Len(bytes) - 1) \in Seq(Bytes)
      BY <3>2, <3>3, SubSeqProperties DEF First
    <3> QED
      BY <2>1, <2>3, <3>4
  <2>4. CASE Holds(dir[a], Append(bytes, None)) /\ UNCHANGED dir
    <3>1. None \in Bytes
      BY DEF Bytes
    <3>2. Append(bytes, None) \in Seq(Bytes)
      BY <1>6, <2>2, <3>1, AppendProperties
    <3> QED
      BY <2>1, <2>4, <3>2
  <2>5. CASE dir' = [dir EXCEPT ![a] = 0] /\ UNCHANGED data
    <3>1. FileInv'
      BY <1>1, <1>5, <2>5, ChildRemoved
    <3>2. ChildrenKept(Children \ {a})
      BY <1>5, <2>5, FileTypes DEF ChildrenKept, Children
    <3> QED
      BY <3>1, <3>2
  <2> QED
    BY <2>2, <2>3, <2>4, <2>5 DEF ChangeArtifact
<1>8. OthersKept(a)
  BY <1>1, <1>7 DEF OthersKept, bundleVars
<1>9. WriterOK(a)'
  <2>1. WriterOK(a) /\ writers[a] \in {None, "FINALIZED"}
    BY <1>4 DEF BundleInv, TerminalIsFinal
  <2>2. handle[a] = "none" /\ a \in changed'
    BY <1>1, <2>1, NoneAssumption DEF WriterOK
  <2> QED
    BY <1>1, <2>1, <2>2, NoneAssumption DEF WriterOK, bundleVars
<1>10. ASSUME NEW b \in Artifacts \ {a}
       PROVE  WriterOK(b)'
  <2>1. WriterOK(b) /\ ChildrenKept({b})
    BY <1>8, ArtifactsAreChildren DEF BundleInv, OthersKept, ChildrenKept
  <2> QED
    BY <1>8, <2>1, WriterKept DEF OthersKept
<1>11. BundleType'
  BY <1>1 DEF BundleInv, BundleType, bundleVars
<1>12. OneUse'
  BY <1>1 DEF BundleInv, OneUse, bundleVars
<1>13. TerminalIsFinal'
  <2>1. Finalized' = Finalized /\ UNCHANGED <<state, writers, descriptors>>
    BY <1>1 DEF Finalized, bundleVars
  <2> QED
    BY <1>1, <2>1 DEF BundleInv, TerminalIsFinal
<1>14. FailurePoisons'
  BY <1>1 DEF BundleInv, FailurePoisons, bundleVars
<1> QED
  BY <1>7, <1>9, <1>10, <1>11, <1>12, <1>13, <1>14 DEF BundleInv

(* publish of a bundle: no writer is active, the manifest is what they     *)
(* finalized, and it encodes or it does not.                               *)
LEMMA PublishBundleInv ==
    ASSUME FileInv, BundleInv, NEW t \in Publishers, PublishBundle(t)
    PROVE  BundleInv' /\ FileInv' /\ DocumentsKept
<1>1. /\ use = "bundle" /\ MayPublish /\ state' = "TERMINAL"
      /\ UNCHANGED <<fsVars, alive, log, use, writers, descriptors, handle,
                     buffer, hashed, changed>>
  BY DEF PublishBundle
<1>2. PICK manifest : manifest = [a \in Finalized |-> descriptors[a]]
  OBVIOUS
<1>3. \/ Encodes(t, manifest) /\ UNCHANGED faults
      \/ FailsToEncode(t, manifest) /\ Fault
  BY <1>2 DEF PublishBundle
<1>4. manifest \in Content
  <2>1. Finalized \in SUBSET Artifacts
    BY DEF Finalized
  <2>2. manifest \in [Finalized -> Seq(ArtifactBytes)]
    BY <1>2 DEF Finalized, BundleInv, BundleType
  <2> QED
    BY <2>1, <2>2 DEF Content, Manifests
<1>5. faults' \in Nat
  BY <1>3, FaultCounted DEF FileInv
<1>6. FileInv'
  BY <1>1, <1>3, <1>4, <1>5, EncodesInv
<1>7. /\ \A u \in Publishers : u # t => pub'[u] = pub[u]
      /\ pub'[t].doc = manifest /\ pub'[t].at # "idle"
      /\ pub'[t].ino = pub[t].ino
  BY <1>3, FileTypes DEF Encodes, FailsToEncode, Publication
<1>8. \A u \in Publishers : pub[u].at = "idle"
  BY <1>1, NotTerminal DEF MayPublish, BeforePublish
<1>9. DocumentsKept
  BY <1>1, <1>7, FileTypes DEF DocumentsKept
<1>10. \A a \in Artifacts : WriterOK(a)'
  <2> SUFFICES ASSUME NEW a \in Artifacts
               PROVE  WriterOK(a)'
    OBVIOUS
  <2>1. WriterOK(a) /\ ChildrenKept({a})
    BY <1>1 DEF BundleInv, ChildrenKept, fsVars
  <2> QED
    BY <1>1, <2>1, WriterKept
<1>11. BundleType' /\ OneUse'
  BY <1>1 DEF BundleInv, BundleType, OneUse
<1>12. TerminalIsFinal'
  <2>1. \A a \in Artifacts : writers[a] \in {None, "FINALIZED"}
    BY <1>1 DEF MayPublish, BundleInv, BundleType, FailurePoisons
  <2>2. Finalized' = Finalized /\ descriptors' = descriptors
    BY <1>1 DEF Finalized
  <2> QED
    BY <1>1, <1>2, <1>7, <1>8, <2>1, <2>2 DEF TerminalIsFinal
<1>13. FailurePoisons'
  BY <1>1 DEF MayPublish, BundleInv, FailurePoisons
<1> QED
  BY <1>6, <1>9, <1>10, <1>11, <1>12, <1>13 DEF BundleInv

-----------------------------------------------------------------------------
(***************************************************************************)
(* The reader.                                                             *)
(***************************************************************************)
(* publish of a document in a directory that is no bundle.                 *)
LEMMA PublishDocumentInv ==
    ASSUME FileInv, BundleInv, use = "documents", NEW t \in Publishers,
           NEW d \in Documents, PublishDocument(t, d),
           UNCHANGED <<use, bundleVars, changed>>
    PROVE  BundleInv' /\ FileInv' /\ DocumentsKept
<1>1. /\ Encodes(t, d) \/ FailsToEncode(t, d)
      /\ UNCHANGED <<fsVars, alive, log, faults>>
  BY DEF PublishDocument
<1>2. FileInv'
  BY <1>1, EncodesInv DEF Content, FileInv
<1>3. /\ \A u \in Publishers : u # t => pub'[u] = pub[u]
      /\ pub'[t].ino = pub[t].ino
  BY <1>1, FileTypes DEF Encodes, FailsToEncode, Publication
<1>4. DocumentsKept
  BY <1>1, <1>3, FileTypes DEF DocumentsKept
<1>5. \A a \in Artifacts : WriterOK(a)'
  <2> SUFFICES ASSUME NEW a \in Artifacts
               PROVE  WriterOK(a)'
    OBVIOUS
  <2>1. WriterOK(a) /\ ChildrenKept({a})
    BY <1>1 DEF BundleInv, ChildrenKept, fsVars
  <2> QED
    BY <2>1, WriterKept DEF bundleVars
<1>6. BundleType'
  BY DEF BundleInv, BundleType, bundleVars
<1>7. OneUse' /\ FailurePoisons' /\ TerminalIsFinal'
  BY DEF BundleInv, OneUse, FailurePoisons, TerminalIsFinal, bundleVars
<1> QED
  BY <1>2, <1>4, <1>5, <1>6, <1>7 DEF BundleInv

(* The directory is allocated.                                             *)
LEMMA AllocateInv ==
    ASSUME FileInv, SidecarInv, BundleInv,
           NEW as \in {"documents", "sidecar", "bundle"}, Allocate(as)
    PROVE  FileInv' /\ SidecarInv' /\ BundleInv' /\ DocumentsKept
<1>1. /\ use = None /\ use' = as
      /\ UNCHANGED <<data, dir, temps, alive, pub, log, faults, sidecar,
                     bundleVars, changed>>
  BY DEF Allocate, documentVars, fsVars
<1>2. FileInv'
  BY <1>1, FilesKept DEF FileInv, fsVars
<1>3. sidecar.at = "none"
  BY <1>1, NoneAssumption DEF SidecarInv
<1>4. SidecarInv'
  BY <1>1, <1>3 DEF SidecarInv
<1>5. /\ \A t \in Publishers : pub[t].at = "idle"
      /\ \A a \in Artifacts : writers[a] = None
  BY <1>1, NoneAssumption DEF BundleInv, OneUse
<1>6. \A a \in Artifacts : WriterOK(a)'
  <2> SUFFICES ASSUME NEW a \in Artifacts
               PROVE  WriterOK(a)'
    OBVIOUS
  <2>1. WriterOK(a) /\ ChildrenKept({a})
    BY <1>1 DEF BundleInv, ChildrenKept
  <2> QED
    BY <1>1, <2>1, WriterKept DEF bundleVars
<1>7. BundleType' /\ OneUse' /\ FailurePoisons'
  BY <1>1, <1>5 DEF BundleInv, BundleType, OneUse, FailurePoisons, bundleVars
<1>8. TerminalIsFinal'
  BY <1>1, <1>5 DEF BundleInv, TerminalIsFinal, bundleVars
<1>9. DocumentsKept
  BY <1>1, FileTypes DEF DocumentsKept
<1> QED
  BY <1>2, <1>4, <1>6, <1>7, <1>8, <1>9 DEF BundleInv

(* Before publish a reader of a bundle has found no manifest.              *)
LEMMA NothingJudged ==
    ASSUME FileInv, BundleInv, ReaderInv, BeforePublish
    PROVE  reader.content = <<>> /\ reader.result \notin Judgements
<1>1. log = <<>>
  <2>1. ASSUME log # <<>>
        PROVE  1 \in 1..Len(log)
    BY <2>1, EmptySeq, FileTypes DEF FileInv, LogOK
  <2>2. 1 \notin 1..Len(log)
    BY InstalledIsManifest DEF BeforePublish
  <2> QED
    BY <2>1, <2>2
<1>2. reader.since = 0
  BY <1>1, EmptySeq DEF ReaderInv, Opened
<1> QED
  BY <1>2 DEF ReaderInv, ReaderAt

(* A step the reader takes no part in.                                     *)
LEMMA ReaderKept ==
    ASSUME FileInv, BundleInv, ReaderInv, UNCHANGED reader, DocumentsKept,
           use = None \/ use' = use,
           BeforePublish \/ UNCHANGED <<hashed, writers>>,
           changed \subseteq changed'
    PROVE  ReaderInv'
<1>1. Opened'
  BY FileTypes DEF ReaderInv, Opened, DocumentsKept
<1>2. reader.doc # None => reader.since \in 1..Len(log)
  BY DEF ReaderInv, Opened, ReaderAt
<1>3. ReaderAt'
  BY <1>2, FileTypes, NoneAssumption DEF ReaderInv, ReaderAt, DocumentsKept
<1>4. VerifiedMeansExact'
  <2>1. CASE BeforePublish
    <3>1. reader.content = <<>> /\ reader.result \notin Judgements
      BY <2>1, NothingJudged
    <3> QED
      BY <3>1 DEF VerifiedMeansExact, Judgements
  <2>2. CASE UNCHANGED <<hashed, writers>>
    BY <2>2 DEF ReaderInv, VerifiedMeansExact
  <2> QED
    BY <2>1, <2>2
<1> QED
  BY <1>1, <1>3, <1>4 DEF ReaderInv

(* What a reader of a bundle reads is the manifest, and what it says of an *)
(* artifact is what was written, and still there unless it was changed.    *)
LEMMA ReaderManifest ==
    ASSUME FileInv, BundleInv, ReaderInv, reader.doc # None, use = "bundle"
    PROVE  /\ DOMAIN reader.doc = {a \in Artifacts : writers[a] = "FINALIZED"}
           /\ \A a \in DOMAIN reader.doc :
                /\ reader.doc[a] = hashed[a]
                /\ a \notin changed => dir[a] # 0 /\ data[dir[a]] = hashed[a]
<1>1. reader.since \in 1..Len(log) /\ reader.doc = log[reader.since][2]
  BY DEF ReaderInv, Opened, ReaderAt
<1>2. reader.doc = [a \in Finalized |-> descriptors[a]]
  BY <1>1, InstalledIsManifest
<1>3. \A a \in Artifacts : WriterOK(a)
  BY DEF BundleInv
<1>4. Finalized = {a \in Artifacts : writers[a] = "FINALIZED"}
  BY <1>3 DEF Finalized, WriterOK
<1> QED
  BY <1>2, <1>3, <1>4, ZenonT(60) DEF WriterOK

(* The outcomes of a verified read.                                        *)
LEMMA VerifiedReadMeans ==
    ASSUME NEW name, NEW max, NEW expected, NEW outcome,
           outcome = VerifiedRead(name, max, expected)
    PROVE  /\ outcome \in {"MISSING", "BOUNDS_EXCEEDED", "MISMATCH",
                           "VERIFIED"}
           /\ outcome = "VERIFIED" => data[dir[name]] = expected
           /\ outcome = "MISSING" => dir[name] = 0
           /\ outcome = "MISMATCH" => data[dir[name]] # expected
BY DEF VerifiedRead

(* The reader ends with a result that is true of what it saw.              *)
LEMMA EndsInv ==
    ASSUME ReaderInv, UNCHANGED <<pub, log, use, hashed, writers, changed>>,
           NEW x, Ends(x),
           x \in {"INCOMPLETE", "READ", "UNREADABLE", "BOUNDS_EXCEEDED",
                  "OSERROR", "VERIFIED", "MISSING", "MISMATCH", "CONSUMED",
                  "INCOMPLETE_CONSUMPTION", "CONSUMER_FAILED"},
           x \in Judgements => reader.doc # None /\ use = "bundle",
           x = "CONSUMED" => reader.eof
             /\ First(reader.content, reader.given) = hashed[reader.op],
           x = "VERIFIED" =>
             \A a \in Artifacts : writers[a] = "FINALIZED" =>
               a \in DOMAIN reader.doc /\ reader.doc[a] = hashed[a],
           x = "MISSING" /\ changed = {} =>
             reader.op \in {a \in Artifacts : writers[a] # "FINALIZED"},
           x = "MISMATCH" => changed # {}
    PROVE  ReaderInv'
<1>1. reader \in Reader /\ reader' = [reader EXCEPT !.at = "done", !.result = x]
  BY DEF ReaderInv, Ends
<1>2. /\ reader' \in Reader /\ reader'.at = "done" /\ reader'.result = x
      /\ reader'.op = reader.op /\ reader'.ino = reader.ino
      /\ reader'.raw = reader.raw /\ reader'.doc = reader.doc
      /\ reader'.since = reader.since /\ reader'.todo = reader.todo
      /\ reader'.content = reader.content /\ reader'.given = reader.given
      /\ reader'.eof = reader.eof /\ reader'.failed = reader.failed
  BY <1>1 DEF Reader
<1>3. Opened'
  BY <1>2 DEF ReaderInv, Opened
<1>4. ReaderAt'
  BY <1>2 DEF ReaderInv, ReaderAt
<1>5. VerifiedMeansExact'
  BY <1>2 DEF ReaderInv, VerifiedMeansExact
<1>6. reader'.result # "MALFORMED"
  BY <1>2
<1> QED
  BY <1>2, <1>3, <1>4, <1>5, <1>6 DEF ReaderInv

(* One os.read leaves a prefix of a document a prefix.                     *)
LEMMA ReadsPrefix ==
    ASSUME NEW d, NEW s \in Prefixes(d), NEW n \in Len(s) + 1 .. Len(Encode(d))
    PROVE  s \o SubSeq(Encode(d), Len(s) + 1, n) \in Prefixes(d)
<1>0. PICK x, y : x = <<d, 1>> /\ y = <<d, 2>>
  OBVIOUS
<1>1. Encode(d) = <<x, y>> /\ Prefixes(d) = {<<>>, <<x>>, <<x, y>>}
  BY <1>0 DEF Encode, Prefixes
<1>2. Len(Encode(d)) = 2
  BY <1>1
<1>3. /\ SubSeq(<<x, y>>, 1, 2) = <<x, y>>
      /\ SubSeq(<<x, y>>, 1, 1) = <<x>>
      /\ SubSeq(<<x, y>>, 2, 2) = <<y>>
      /\ <<x>> \o <<y>> = <<x, y>>
      /\ <<>> \o <<x>> = <<x>>
      /\ <<>> \o <<x, y>> = <<x, y>>
  BY PairParts
<1>4. CASE s = <<>>
  <2>1. Len(s) + 1 = 1 /\ (n = 1 \/ n = 2)
    BY <1>2, <1>4
  <2> QED
    BY <1>1, <1>3, <1>4, <2>1
<1>5. CASE s = <<x>>
  <2>1. Len(s) + 1 = 2 /\ n = 2
    BY <1>2, <1>5
  <2> QED
    BY <1>1, <1>3, <1>5, <2>1
<1>6. CASE s = <<x, y>>
  <2>1. Len(s) + 1 = 3
    BY <1>6
  <2> QED
    BY <1>2, <2>1
<1> QED
  BY <1>1, <1>4, <1>5, <1>6

(* A prefix as long as the document is the document, and it decodes.       *)
LEMMA AllRead ==
    ASSUME NEW d, NEW s \in Prefixes(d), Len(s) = Len(Encode(d))
    PROVE  Decode(s) = d
<1>0. PICK x, y : x = <<d, 1>> /\ y = <<d, 2>>
  OBVIOUS
<1>1. Encode(d) = <<x, y>> /\ Prefixes(d) = {<<>>, <<x>>, <<x, y>>}
  BY <1>0 DEF Encode, Prefixes
<1>2. s = <<x, y>>
  BY <1>1
<1>3. s # <<>> /\ s[1][1] = d
  BY <1>0, <1>2
<1> QED
  BY <1>1, <1>2, <1>3 DEF Decode

(* None is no document.                                                    *)
LEMMA ContentIsSomething == None \notin Content
BY DocumentAssumption, NoneAssumption DEF Content, Manifests, ArtifactBytes

(* A reader finds the target, or that there is none.                       *)
LEMMA OpenManifestInv ==
    ASSUME FileInv, ReaderInv, NEW op \in {"read", "audit"} \cup Artifacts,
           NEW limits \in Limits, OpenManifest(op, limits)
    PROVE  ReaderInv'
<1>1. /\ reader.at = "idle" /\ (op # "read" => use = "bundle")
      /\ UNCHANGED <<pub, log, use, hashed, writers, changed>>
  BY DEF OpenManifest, Elsewhere, bundleVars
<1>2. CASE Ends("INCOMPLETE")
  BY <1>1, <1>2, EndsInv DEF Judgements
<1>3. CASE /\ dir[Manifest] # 0
           /\ reader' = [reader EXCEPT !.at = "reading", !.op = op,
                           !.limits = limits, !.ino = dir[Manifest],
                           !.since = Len(log)]
  <2>1. /\ Len(log) \in 1..Len(log) /\ Len(log) # 0
        /\ dir[Manifest] = pub[log[Len(log)][1]].ino
    <3>1. /\ log \in Seq(Publishers \X Content) /\ log # <<>>
          /\ dir[Manifest] = pub[log[Len(log)][1]].ino
      BY <1>3 DEF FileInv, LogOK
    <3>2. Len(log) \in Nat /\ Len(log) # 0
      BY <3>1, EmptySeq
    <3> QED
      BY <3>1, <3>2
  <2>2. PICK i, n : i = dir[Manifest] /\ n = Len(log)
    OBVIOUS
  <2>3. i \in Nat /\ n \in Nat
    BY <2>2, FileTypes, DocumentAssumption
  <2>4. reader \in Reader
        /\ reader' = [reader EXCEPT !.at = "reading", !.op = op,
                        !.limits = limits, !.ino = i, !.since = n]
    BY <1>3, <2>2 DEF ReaderInv
  <2>5. /\ reader' \in Reader /\ reader'.at = "reading" /\ reader'.op = op
        /\ reader'.ino = i /\ reader'.since = n /\ reader'.raw = reader.raw
        /\ reader'.doc = reader.doc /\ reader'.content = reader.content
        /\ reader'.given = reader.given /\ reader'.eof = reader.eof
        /\ reader'.result = reader.result
    BY <2>3, <2>4 DEF Reader
  <2>6. /\ reader.raw = <<>> /\ reader.doc = None /\ reader.content = <<>>
        /\ reader.given = 0 /\ ~reader.eof /\ reader.result = None
    BY <1>1 DEF ReaderInv, ReaderAt
  <2>7. Opened'
    <3>1. reader'.raw \in Prefixes(log[n][2])
      BY <2>5, <2>6 DEF Prefixes
    <3> QED
      BY <1>1, <2>1, <2>2, <2>5, <3>1 DEF Opened
  <2>10. op # None
    BY NoneAssumption
  <2>8. ReaderAt'
    BY <1>1, <2>1, <2>2, <2>5, <2>6, <2>10, NoneAssumption
       DEF ReaderAt, Judgements
  <2>9. VerifiedMeansExact' /\ reader'.result # "MALFORMED"
    BY <2>5, <2>6, NoneAssumption DEF VerifiedMeansExact
  <2> QED
    BY <2>5, <2>7, <2>8, <2>9 DEF ReaderInv
<1> QED
  BY <1>2, <1>3 DEF OpenManifest

(* What the open file holds, whatever replaced it since.                   *)
LEMMA OpenFileHolds ==
    ASSUME FileInv, ReaderInv, reader.since # 0
    PROVE  /\ log[reader.since][2] \in Content
           /\ data[reader.ino] = Encode(log[reader.since][2])
           /\ reader.raw \in Prefixes(log[reader.since][2])
<1>1. PICK i : i = reader.since
  OBVIOUS
<1>2. PICK t : t = log[i][1]
  OBVIOUS
<1>3. /\ i \in 1..Len(log) /\ reader.ino = pub[t].ino
      /\ reader.raw \in Prefixes(log[i][2])
  BY <1>1, <1>2 DEF ReaderInv, Opened
<1>4. t \in Publishers /\ log[i][2] \in Content /\ log[i][2] = pub[t].doc
  BY <1>2, <1>3, FileTypes DEF FileInv, LogOK
<1>5. Installed(t)
  BY <1>2, <1>3 DEF Installed
<1>6. data[pub[t].ino] = Encode(pub[t].doc)
  BY <1>4, <1>5 DEF FileInv, Written
<1> QED
  BY <1>1, <1>3, <1>4, <1>6

(* The document is read, piece by piece, then decoded.                     *)
LEMMA ReadManifestInv ==
    ASSUME FileInv, ReaderInv, ReadManifest
    PROVE  ReaderInv'
<1>1. /\ reader.at = "reading" /\ reader \in Reader
      /\ UNCHANGED <<pub, log, use, hashed, writers, changed>>
  BY DEF ReadManifest, Elsewhere, bundleVars, ReaderInv
<1>2. /\ reader.since # 0 /\ reader.doc = None /\ reader.content = <<>>
      /\ reader.given = 0 /\ ~reader.eof /\ reader.result = None
      /\ (reader.op # "read" => use = "bundle") /\ reader.op # None
  BY <1>1 DEF ReaderInv, ReaderAt
<1>3. PICK d : d = log[reader.since][2]
  OBVIOUS
<1>4. /\ d \in Content /\ data[reader.ino] = Encode(d)
      /\ reader.raw \in Prefixes(d)
  BY <1>2, <1>3, OpenFileHolds
<1>5. ASSUME NEW n \in Len(reader.raw) + 1 .. Len(data[reader.ino]),
             reader' = [reader EXCEPT !.raw = @ \o
                          SubSeq(data[reader.ino], Len(reader.raw) + 1, n)]
      PROVE  ReaderInv'
  <2>1. PICK r : r = reader.raw
                       \o SubSeq(data[reader.ino], Len(reader.raw) + 1, n)
    OBVIOUS
  <2>2. r \in Prefixes(d)
    BY <1>4, <1>5, <2>1, ReadsPrefix
  <2>3. r \in Seq(Bytes)
    BY <1>4, <2>2, PrefixesAreBytes
  <2>4. reader' = [reader EXCEPT !.raw = r]
    BY <1>5, <2>1
  <2>5. /\ reader' \in Reader /\ reader'.at = reader.at
        /\ reader'.op = reader.op /\ reader'.ino = reader.ino
        /\ reader'.since = reader.since /\ reader'.raw = r
        /\ reader'.doc = reader.doc /\ reader'.content = reader.content
        /\ reader'.given = reader.given /\ reader'.eof = reader.eof
        /\ reader'.result = reader.result
    BY <1>1, <2>3, <2>4 DEF Reader
  <2>6. Opened'
    BY <1>1, <1>2, <1>3, <2>2, <2>5 DEF ReaderInv, Opened
  <2>7. ReaderAt'
    BY <1>1, <1>2, <2>5, NoneAssumption DEF ReaderAt, Judgements
  <2>8. VerifiedMeansExact' /\ reader'.result # "MALFORMED"
    BY <1>2, <2>5, NoneAssumption DEF VerifiedMeansExact
  <2> QED
    BY <2>5, <2>6, <2>7, <2>8 DEF ReaderInv
<1>6. ASSUME Len(reader.raw) = Len(data[reader.ino]),
             reader' = [reader EXCEPT !.doc = Decode(reader.raw),
               !.at = IF reader.op = "read" \/ Decode(reader.raw) = None
                      THEN "done" ELSE "manifest",
               !.result = CASE Decode(reader.raw) = None -> "MALFORMED"
                            [] reader.op = "read" -> "READ"
                            [] OTHER              -> None]
      PROVE  ReaderInv'
  <2>1. Decode(reader.raw) = d /\ d # None
    BY <1>4, <1>6, AllRead, ContentIsSomething
  <2>2. PICK at, x :
          /\ at = IF reader.op = "read" THEN "done" ELSE "manifest"
          /\ x = IF reader.op = "read" THEN "READ" ELSE None
    OBVIOUS
  <2>3. reader' = [reader EXCEPT !.doc = d, !.at = at, !.result = x]
    BY <1>6, <2>1, <2>2
  <2>4. /\ reader' \in Reader /\ reader'.at = at
        /\ reader'.op = reader.op /\ reader'.ino = reader.ino
        /\ reader'.since = reader.since /\ reader'.raw = reader.raw
        /\ reader'.doc = d /\ reader'.content = reader.content
        /\ reader'.given = reader.given /\ reader'.eof = reader.eof
        /\ reader'.result = x
    BY <1>1, <1>4, <2>2, <2>3, ZenonT(60) DEF Reader
  <2>5. Opened'
    BY <1>1, <2>4 DEF ReaderInv, Opened
  <2>6. x \notin Judgements /\ x # "MALFORMED"
    BY <2>2, NoneAssumption DEF Judgements
  <2>7. ReaderAt'
    BY <1>1, <1>2, <1>3, <2>1, <2>2, <2>4, <2>6 DEF ReaderAt
  <2>8. VerifiedMeansExact' /\ reader'.result # "MALFORMED"
    BY <1>2, <2>4, <2>6 DEF VerifiedMeansExact, Judgements
  <2> QED
    BY <2>4, <2>5, <2>7, <2>8 DEF ReaderInv
<1>7. CASE Ends("UNREADABLE")
  BY <1>1, <1>7, EndsInv DEF Judgements
<1> QED
  BY <1>5, <1>6, <1>7 DEF ReadManifest

(* The artifacts to verify are declared.                                   *)
LEMMA SelectArtifactsInv ==
    ASSUME FileInv, BundleInv, ReaderInv, SelectArtifacts
    PROVE  ReaderInv'
<1>1. /\ reader.at = "manifest" /\ reader \in Reader
      /\ UNCHANGED <<pub, log, use, hashed, writers, changed>>
  BY DEF SelectArtifacts, Elsewhere, bundleVars, ReaderInv
<1>2. /\ reader.doc # None /\ use = "bundle" /\ reader.op # "read"
      /\ reader.content = <<>> /\ reader.given = 0 /\ ~reader.eof
      /\ reader.result = None
      /\ reader.since # 0 /\ reader.doc = log[reader.since][2]
  BY <1>1 DEF ReaderInv, ReaderAt
<1>3. DOMAIN reader.doc = {a \in Artifacts : writers[a] = "FINALIZED"}
  BY <1>2, ReaderManifest
<1>4. CASE Ends("BOUNDS_EXCEEDED")
  BY <1>1, <1>4, EndsInv DEF Judgements
<1>7. CASE Consumes /\ reader.op \notin DOMAIN reader.doc /\ Ends("MISSING")
  <2>1. reader.op # None
    BY <1>1 DEF ReaderInv, ReaderAt
  <2>2. reader.op \in Artifacts
    BY <1>1, <1>2, <1>7, <2>1 DEF Consumes, Reader
  <2>3. reader.op \in {a \in Artifacts : writers[a] # "FINALIZED"}
    BY <1>3, <1>7, <2>2
  <2> QED
    BY <1>1, <1>2, <1>7, <2>3, EndsInv
<1>5. CASE DOMAIN reader.doc = {} /\ Ends("VERIFIED")
  BY <1>1, <1>2, <1>3, <1>5, EndsInv
<1>6. CASE /\ IF Consumes THEN reader.op \in DOMAIN reader.doc
              ELSE DOMAIN reader.doc # {}
           /\ reader' = [reader EXCEPT !.at = "verify",
                !.todo = IF Consumes THEN {reader.op} ELSE DOMAIN reader.doc]
  <2>1. PICK names :
          names = IF Consumes THEN {reader.op} ELSE DOMAIN reader.doc
    OBVIOUS
  <2>2. /\ names \subseteq DOMAIN reader.doc
        /\ reader.op # "audit" => names = {reader.op}
    BY <1>6, <2>1 DEF Consumes
  <2>3. names \in SUBSET Artifacts
    BY <1>3, <2>2
  <2>4. reader' = [reader EXCEPT !.at = "verify", !.todo = names]
    BY <1>6, <2>1
  <2>5. /\ reader' \in Reader /\ reader'.at = "verify"
        /\ reader'.op = reader.op /\ reader'.ino = reader.ino
        /\ reader'.since = reader.since /\ reader'.raw = reader.raw
        /\ reader'.doc = reader.doc /\ reader'.content = reader.content
        /\ reader'.given = reader.given /\ reader'.eof = reader.eof
        /\ reader'.result = reader.result /\ reader'.todo = names
    BY <1>1, <2>3, <2>4 DEF Reader
  <2>6. Opened'
    BY <1>1, <2>5 DEF ReaderInv, Opened
  <2>7. ReaderAt'
    BY <1>1, <1>2, <2>2, <2>5, NoneAssumption DEF ReaderAt, Judgements
  <2>8. VerifiedMeansExact' /\ reader'.result # "MALFORMED"
    BY <1>2, <2>5, NoneAssumption DEF VerifiedMeansExact
  <2> QED
    BY <2>5, <2>6, <2>7, <2>8 DEF ReaderInv
<1> QED
  BY <1>4, <1>5, <1>6, <1>7 DEF SelectArtifacts

(* An artifact is verified, refused, or could not be read.                 *)
LEMMA VerifyArtifactInv ==
    ASSUME FileInv, BundleInv, ReaderInv, NEW a \in Artifacts,
           VerifyArtifact(a)
    PROVE  ReaderInv'
<1>1. /\ reader.at = "verify" /\ a \in reader.todo /\ reader \in Reader
      /\ UNCHANGED <<pub, log, use, hashed, writers, changed>>
  BY DEF VerifyArtifact, Elsewhere, bundleVars, ReaderInv
<1>2. /\ reader.doc # None /\ use = "bundle" /\ reader.op # "read"
      /\ reader.content = <<>> /\ reader.given = 0 /\ ~reader.eof
      /\ reader.result = None
      /\ reader.since # 0 /\ reader.doc = log[reader.since][2]
      /\ reader.todo \subseteq DOMAIN reader.doc
      /\ reader.op # "audit" => reader.todo = {reader.op}
  BY <1>1 DEF ReaderInv, ReaderAt
<1>3. DOMAIN reader.doc = {b \in Artifacts : writers[b] = "FINALIZED"}
  BY <1>2, ReaderManifest
<1>4. \A b \in DOMAIN reader.doc :
        /\ reader.doc[b] = hashed[b]
        /\ b \notin changed => dir[b] # 0 /\ data[dir[b]] = hashed[b]
  BY <1>2, ReaderManifest
<1>5. PICK max : max = Least(reader.limits.max_bytes_per_artifact,
        IF Consumes THEN reader.limits.max_total_artifact_bytes
        ELSE reader.limits.max_total_artifact_bytes
               - TotalLength(reader.doc, DOMAIN reader.doc \ reader.todo))
  OBVIOUS
<1>6. PICK outcome : outcome = VerifiedRead(a, max, reader.doc[a])
  OBVIOUS
<1>7. /\ outcome \in {"MISSING", "BOUNDS_EXCEEDED", "MISMATCH", "VERIFIED"}
      /\ outcome = "VERIFIED" => data[dir[a]] = reader.doc[a]
      /\ outcome = "MISSING" => dir[a] = 0
      /\ outcome = "MISMATCH" => data[dir[a]] # reader.doc[a]
  BY <1>6, VerifiedReadMeans
<1>8. \/ outcome # "VERIFIED" /\ Ends(outcome)
      \/ /\ outcome = "VERIFIED" /\ Consumes
         /\ reader' = [reader EXCEPT !.at = "deliver",
                                     !.content = data[dir[a]]]
      \/ /\ outcome = "VERIFIED" /\ ~Consumes
         /\ reader' = [reader EXCEPT
              !.todo = @ \ {a},
              !.at = IF reader.todo = {a} THEN "done" ELSE "verify",
              !.result = IF reader.todo = {a} THEN "VERIFIED" ELSE None]
      \/ reader' = [reader EXCEPT !.at = "done", !.result = "MISMATCH",
                                   !.failed = TRUE]
      \/ Ends("OSERROR")
  BY <1>5, <1>6 DEF VerifyArtifact, ReadFails
<1>9. CASE outcome # "VERIFIED" /\ Ends(outcome)
  <2>1. outcome \in {"MISSING", "MISMATCH"} => changed # {}
    BY <1>1, <1>2, <1>4, <1>7
  <2>2. outcome \in {"MISSING", "BOUNDS_EXCEEDED", "MISMATCH"}
    BY <1>7, <1>9
  <2> QED
    BY <1>1, <1>2, <1>9, <2>1, <2>2, EndsInv
<1>10. CASE Ends("OSERROR")
  BY <1>1, <1>10, EndsInv DEF Judgements
<1>13. CASE reader' = [reader EXCEPT !.at = "done", !.result = "MISMATCH",
                                     !.failed = TRUE]
  <2>1. /\ reader' \in Reader /\ reader'.at = "done"
        /\ reader'.op = reader.op /\ reader'.ino = reader.ino
        /\ reader'.since = reader.since /\ reader'.raw = reader.raw
        /\ reader'.doc = reader.doc /\ reader'.content = reader.content
        /\ reader'.given = reader.given /\ reader'.eof = reader.eof
        /\ reader'.result = "MISMATCH" /\ reader'.failed = TRUE
    BY <1>1, <1>13 DEF Reader
  <2>2. Opened'
    BY <1>1, <2>1 DEF ReaderInv, Opened
  <2>3. ReaderAt'
    BY <1>1, <1>2, <2>1 DEF ReaderAt
  <2>4. VerifiedMeansExact' /\ reader'.result # "MALFORMED"
    BY <1>2, <2>1 DEF VerifiedMeansExact
  <2> QED
    BY <2>1, <2>2, <2>3, <2>4 DEF ReaderInv
<1>11. CASE /\ outcome = "VERIFIED" /\ Consumes
            /\ reader' = [reader EXCEPT !.at = "deliver",
                                        !.content = data[dir[a]]]
  <2>1. PICK c : c = data[dir[a]]
    OBVIOUS
  <2>2. /\ a = reader.op /\ reader.op \in DOMAIN reader.doc
        /\ c = reader.doc[reader.op] /\ c = hashed[reader.op]
    BY <1>1, <1>2, <1>4, <1>7, <1>11, <2>1 DEF Consumes
  <2>3. c \in Seq(Bytes) /\ Len(c) \in Nat
    <3>1. c \in Seq(Bytes)
      BY <2>2, ArtifactsAreChildren DEF BundleInv, BundleType
    <3> QED
      BY <3>1
  <2>4. reader' = [reader EXCEPT !.at = "deliver", !.content = c]
    BY <1>11, <2>1
  <2>5. /\ reader' \in Reader /\ reader'.at = "deliver"
        /\ reader'.op = reader.op /\ reader'.ino = reader.ino
        /\ reader'.since = reader.since /\ reader'.raw = reader.raw
        /\ reader'.doc = reader.doc /\ reader'.content = c
        /\ reader'.given = reader.given /\ reader'.eof = reader.eof
        /\ reader'.result = reader.result
    BY <1>1, <2>3, <2>4 DEF Reader
  <2>6. Opened'
    BY <1>1, <2>5 DEF ReaderInv, Opened
  <2>7. reader'.given <= Len(reader'.content)
    BY <1>2, <2>3, <2>5
  <2>8. ReaderAt'
    BY <1>1, <1>2, <2>2, <2>5, <2>7, NoneAssumption DEF ReaderAt, Judgements
  <2>9. VerifiedMeansExact' /\ reader'.result # "MALFORMED"
    BY <1>1, <1>2, <2>2, <2>5, NoneAssumption DEF VerifiedMeansExact
  <2> QED
    BY <2>5, <2>6, <2>8, <2>9 DEF ReaderInv
<1>12. CASE /\ outcome = "VERIFIED" /\ ~Consumes
            /\ reader' = [reader EXCEPT
                 !.todo = @ \ {a},
                 !.at = IF reader.todo = {a} THEN "done" ELSE "verify",
                 !.result = IF reader.todo = {a} THEN "VERIFIED" ELSE None]
  <2>1. PICK names, at, x :
          /\ names = reader.todo \ {a}
          /\ at = IF reader.todo = {a} THEN "done" ELSE "verify"
          /\ x = IF reader.todo = {a} THEN "VERIFIED" ELSE None
    OBVIOUS
  <2>2. names \in SUBSET Artifacts /\ names \subseteq DOMAIN reader.doc
    BY <1>2, <1>3, <2>1
  <2>3. reader' = [reader EXCEPT !.todo = names, !.at = at, !.result = x]
    BY <1>12, <2>1
  <2>4. /\ reader' \in Reader /\ reader'.at = at
        /\ reader'.op = reader.op /\ reader'.ino = reader.ino
        /\ reader'.since = reader.since /\ reader'.raw = reader.raw
        /\ reader'.doc = reader.doc /\ reader'.content = reader.content
        /\ reader'.given = reader.given /\ reader'.eof = reader.eof
        /\ reader'.result = x /\ reader'.todo = names
    BY <1>1, <2>1, <2>2, <2>3, ZenonT(60) DEF Reader
  <2>5. Opened'
    BY <1>1, <2>4 DEF ReaderInv, Opened
  <2>6. /\ reader.op = "audit"
        /\ at = "done" \/ (at = "verify" /\ x = None)
        /\ x \in {"VERIFIED", None}
    BY <1>12, <2>1 DEF Consumes
  <2>7. ReaderAt'
    BY <1>1, <1>2, <2>2, <2>4, <2>6 DEF ReaderAt
  <2>8. VerifiedMeansExact' /\ reader'.result # "MALFORMED"
    BY <1>1, <1>2, <1>3, <1>4, <2>4, <2>6, NoneAssumption
       DEF VerifiedMeansExact
  <2> QED
    BY <2>4, <2>5, <2>7, <2>8 DEF ReaderInv
<1> QED
  BY <1>8, <1>9, <1>10, <1>11, <1>12, <1>13

(* The consumer is given the next bytes, or told that there are none.      *)
LEMMA ConsumerReadsInv ==
    ASSUME ReaderInv, NEW n \in 1..MaxLength, ConsumerReads(n)
    PROVE  ReaderInv'
<1>1. /\ reader.at = "deliver" /\ reader \in Reader
      /\ UNCHANGED <<pub, log, use, hashed, writers, changed>>
  BY DEF ConsumerReads, Elsewhere, bundleVars, ReaderInv
<1>2. PICK g, e :
        /\ g = reader.given + Least(n, Len(reader.content) - reader.given)
        /\ e = (Len(reader.content) - reader.given = 0)
  OBVIOUS
<1>3. reader' = [reader EXCEPT !.given = g, !.eof = e]
  BY <1>2 DEF ConsumerReads
<1>4. /\ reader.given \in Nat /\ Len(reader.content) \in Nat
      /\ reader.given <= Len(reader.content)
  <2>1. reader.content \in Seq(Bytes) /\ reader.given \in Nat
    BY <1>1 DEF Reader
  <2> QED
    BY <1>1, <2>1 DEF ReaderInv, ReaderAt
<1>5. g \in Nat /\ g <= Len(reader.content) /\ n \in Nat
  BY <1>2, <1>4, BundleAssumption DEF Least
<1>6. e \in BOOLEAN
  BY <1>2
<1>7. /\ reader' \in Reader /\ reader'.at = reader.at
      /\ reader'.op = reader.op /\ reader'.ino = reader.ino
      /\ reader'.since = reader.since /\ reader'.raw = reader.raw
      /\ reader'.doc = reader.doc /\ reader'.content = reader.content
      /\ reader'.given = g /\ reader'.result = reader.result
  BY <1>1, <1>3, <1>5, <1>6 DEF Reader
<1>8. Opened'
  BY <1>1, <1>7 DEF ReaderInv, Opened
<1>9. ReaderAt'
  BY <1>1, <1>5, <1>7 DEF ReaderInv, ReaderAt
<1>10. reader.result = None
  BY <1>1 DEF ReaderInv, ReaderAt
<1>11. VerifiedMeansExact' /\ reader'.result # "MALFORMED"
  BY <1>1, <1>7, <1>10, NoneAssumption DEF ReaderInv, VerifiedMeansExact
<1> QED
  BY <1>7, <1>8, <1>9, <1>11 DEF ReaderInv

(* The consumer is done, and judged.                                       *)
LEMMA ConsumerReturnsInv ==
    ASSUME FileInv, BundleInv, ReaderInv, ConsumerReturns
    PROVE  ReaderInv'
<1>1. /\ reader.at = "deliver"
      /\ UNCHANGED <<pub, log, use, hashed, writers, changed>>
  BY DEF ConsumerReturns, Elsewhere, bundleVars
<1>2. CASE Ends("INCOMPLETE_CONSUMPTION") \/ Ends("CONSUMER_FAILED")
  BY <1>1, <1>2, EndsInv DEF Judgements
<1>3. CASE /\ reader.eof /\ Ends("CONSUMED")
           /\ First(reader.content, reader.given) = reader.doc[reader.op]
  <2>1. /\ reader.doc # None /\ use = "bundle"
        /\ reader.op \in DOMAIN reader.doc
    BY <1>1 DEF ReaderInv, ReaderAt
  <2>2. reader.doc[reader.op] = hashed[reader.op]
    BY <2>1, ReaderManifest
  <2> QED
    BY <1>1, <1>3, <2>1, <2>2, EndsInv
<1> QED
  BY <1>2, <1>3 DEF ConsumerReturns

-----------------------------------------------------------------------------
(***************************************************************************)
(* The invariant.                                                          *)
(***************************************************************************)
(* An empty directory.                                                     *)
LEMMA InitInv == Init => Inv
<1> SUFFICES ASSUME Init
             PROVE  Inv
  OBVIOUS
<1>1. FileInv
  <2>1. /\ data = <<>> /\ log = <<>> /\ Len(data) = 0 /\ Len(log) = 0
        /\ dir = [n \in Names |-> 0] /\ temps = {} /\ alive = TRUE
        /\ faults = 0
    BY DEF Init, InitDocument
  <2>2. PICK p : p = [at |-> "idle", doc |-> None, ino |-> 0,
                      failed |-> FALSE, stage |-> None,
                      replaced |-> "NOT_REPLACED", orphan |-> FALSE]
    OBVIOUS
  <2>3. /\ p \in Publication /\ p.at = "idle" /\ p.ino = 0 /\ p.failed = FALSE
        /\ p.replaced = "NOT_REPLACED"
    BY <2>2 DEF Publication
  <2>4. pub = [t \in Publishers |-> p]
    BY <2>2 DEF Init, InitDocument
  <2>5. pub \in [Publishers -> Publication] /\ \A t \in Publishers : pub[t] = p
    BY <2>3, <2>4
  <2>6. \A t \in Publishers : ~Installed(t)
    BY <2>1 DEF Installed
  <2>7. InodesOwned
    BY <2>1, <2>3, <2>5, EmptySeq DEF InodesOwned, Children
  <2>8. \A t \in Publishers : Honest(pub[t], Installed(t))
    BY <2>3, <2>5, <2>6 DEF Honest
  <2>9. \A t \in Publishers : Written(t)
    BY <2>3, <2>5, <2>6 DEF Written
  <2>10. LogOK
    BY <2>1, EmptySeq, DocumentAssumption DEF LogOK
  <2>11. TempsOwned
    BY <2>1 DEF TempsOwned
  <2> QED
    BY <2>1, <2>5, <2>7, <2>8, <2>9, <2>10, <2>11 DEF FileInv
<1>2. SidecarInv
  <2>1. sidecar = [at |-> "none", head_cap |-> None, tail_cap |-> 0,
                   head_length |-> 0, tail |-> <<>>, produced |-> 0,
                   dropped |-> 0]
    BY DEF Init, InitSidecar
  <2>2. sidecar \in SidecarType
    BY <2>1, EmptySeq DEF SidecarType
  <2> QED
    BY <2>1, <2>2 DEF SidecarInv
<1>3. BundleInv
  <2>1. /\ use = None /\ state = "OPEN"
        /\ writers = [a \in Artifacts |-> None]
        /\ descriptors = [a \in Artifacts |-> None]
        /\ handle = [a \in Artifacts |-> "none"]
        /\ buffer = [a \in Artifacts |-> <<>>]
        /\ hashed = [a \in Artifacts |-> <<>>] /\ changed = {}
    BY DEF Init
  <2>2. \A t \in Publishers : pub[t].at = "idle"
    BY DEF Init, InitDocument
  <2>3. <<>> \in Seq(ArtifactBytes)
    BY EmptySeq
  <2>4. BundleType
    BY <2>1, <2>3 DEF BundleType
  <2>5. OneUse /\ FailurePoisons /\ TerminalIsFinal
    BY <2>1, <2>2, NoneAssumption DEF OneUse, FailurePoisons, TerminalIsFinal
  <2>6. \A a \in Artifacts : WriterOK(a)
    BY <2>1, NoneAssumption DEF WriterOK
  <2> QED
    BY <2>4, <2>5, <2>6 DEF BundleInv
<1>4. ReaderInv
  <2>1. reader = [at |-> "idle", op |-> None, limits |-> None, ino |-> 0,
                  raw |-> <<>>, doc |-> None, since |-> 0, todo |-> {},
                  content |-> <<>>, given |-> 0, eof |-> FALSE,
                  result |-> None, failed |-> FALSE]
    BY DEF Init
  <2>2. <<>> \in Seq(Bytes)
    BY EmptySeq
  <2>3. reader \in Reader
    BY <2>1, <2>2 DEF Reader
  <2>4. Opened /\ ReaderAt
    BY <2>1, NoneAssumption DEF Opened, ReaderAt, Judgements
  <2>5. VerifiedMeansExact /\ reader.result # "MALFORMED"
    BY <2>1, NoneAssumption DEF VerifiedMeansExact
  <2> QED
    BY <2>3, <2>4, <2>5 DEF ReaderInv
<1> QED
  BY <1>1, <1>2, <1>3, <1>4 DEF Inv

(* Steps of one of the other components leave a sidecar alone: it has the  *)
(* directory to itself.                                                    *)
LEMMA NoSidecar ==
    ASSUME SidecarInv, use # "sidecar", UNCHANGED <<sidecar, use>>
    PROVE  SidecarInv'
<1>1. sidecar.at = "none"
  BY DEF SidecarInv
<1> QED
  BY <1>1, SidecarKept

(* When no publication and no file changes, nothing that was installed     *)
(* does.                                                                   *)
LEMMA NothingPublished ==
    ASSUME FileInv, UNCHANGED <<pub, log>>
    PROVE  DocumentsKept /\ PublishersKept
BY FileTypes DEF DocumentsKept, PublishersKept

(* A step of a publication that has begun.                                 *)
LEMMA PublicationInv ==
    ASSUME Inv, NEW t \in Publishers, PublicationStep(t),
           UNCHANGED <<sidecar, use, bundleVars, reader, changed>>
    PROVE  Inv'
<1>1. FileInv'
  BY PublicationStepInv DEF Inv
<1>2. ChildrenKept(Children) /\ DocumentsKept /\ PublishersKept
  BY PublicationKeeps DEF Inv
<1>3. pub[t].at # "idle"
  BY PublicationStepMoves DEF Inv, Moved
<1>4. use # "sidecar"
  BY <1>3 DEF Inv, BundleInv, OneUse
<1>5. SidecarInv'
  BY <1>4, NoSidecar DEF Inv
<1>6. BundleInv'
  BY <1>2, BundleKept DEF Inv
<1>7. ReaderInv'
  BY <1>2, ReaderKept DEF Inv, bundleVars
<1> QED
  BY <1>1, <1>5, <1>6, <1>7 DEF Inv

(* A step of the sidecar's writer.                                         *)
LEMMA SidecarStepInv ==
    ASSUME Inv, use = "sidecar", SidecarStep,
           UNCHANGED <<use, bundleVars, reader, changed>>
    PROVE  Inv'
<1>1. UNCHANGED <<temps, alive, pub, log>>
  BY DEF SidecarStep, OpenSidecar, WriteSidecar, FinalizeSidecar
<1>2. FileInv' /\ SidecarInv'
  <2>1. ASSUME NEW head \in Caps, NEW tail \in Caps, OpenSidecar(head, tail)
        PROVE  FileInv' /\ SidecarInv'
    <3>1. SidecarName \in Children
      BY BundleAssumption DEF Children
    <3>2. /\ Creates /\ dir' = [dir EXCEPT ![SidecarName] = NewInode]
          /\ UNCHANGED <<temps, alive, pub, log, faults>>
      BY <2>1 DEF OpenSidecar
    <3>3. FileInv'
      BY <3>1, <3>2, ChildCreated DEF Inv, FileInv
    <3> QED
      BY <2>1, <3>3, OpenSidecarInv DEF Inv
  <2> QED
    BY <2>1, WriteSidecarInv, FinalizeSidecarInv DEF Inv, SidecarStep
<1>3. DocumentsKept /\ PublishersKept
  BY <1>1, NothingPublished DEF Inv
<1>4. BundleInv'
  BY <1>3, BundleKept DEF Inv
<1>5. ReaderInv'
  BY <1>3, ReaderKept DEF Inv, bundleVars
<1> QED
  BY <1>2, <1>4, <1>5 DEF Inv

(* A step that leaves the directory and the publications alone.            *)
LEMMA NothingWritten ==
    ASSUME Inv, UNCHANGED <<fsVars, pub, log, sidecar, use, bundleVars,
                            changed>>,
           alive' \in BOOLEAN, alive' => alive, faults' \in Nat
    PROVE  FileInv' /\ SidecarInv' /\ BundleInv'
<1>1. FileInv'
  BY FilesKept DEF Inv
<1>2. ChildrenKept(Children) /\ ChildrenKept({SidecarName})
  BY DEF ChildrenKept, fsVars
<1>3. SidecarInv'
  BY <1>2, SidecarKept DEF Inv
<1>4. DocumentsKept /\ PublishersKept
  BY NothingPublished DEF Inv
<1>5. BundleInv'
  BY <1>2, <1>4, BundleKept DEF Inv
<1> QED
  BY <1>1, <1>3, <1>5

(* The steps of the publishing process that write no artifact.             *)
LEMMA PublisherStepInv ==
    ASSUME Inv, PublisherStep
    PROVE  Inv'
<1>1. ASSUME NEW as \in {"documents", "sidecar", "bundle"}, Allocate(as)
      PROVE  Inv'
  <2>1. FileInv' /\ SidecarInv' /\ BundleInv' /\ DocumentsKept
    BY <1>1, AllocateInv DEF Inv
  <2>2. /\ use = None
        /\ UNCHANGED <<reader, hashed, writers, changed>>
    BY <1>1 DEF Allocate, bundleVars
  <2>3. ReaderInv'
    BY <2>1, <2>2, ReaderKept DEF Inv
  <2> QED
    BY <2>1, <2>3 DEF Inv
<1>2. ASSUME NEW t \in Publishers, use = "documents", NEW d \in Documents,
             PublishDocument(t, d),
             UNCHANGED <<sidecar, use, bundleVars, reader, changed>>
      PROVE  Inv'
  <2>1. BundleInv' /\ FileInv' /\ DocumentsKept
    BY <1>2, PublishDocumentInv DEF Inv
  <2>2. SidecarInv'
    BY <1>2, NoSidecar DEF Inv
  <2>3. ReaderInv'
    BY <1>2, <2>1, ReaderKept DEF Inv, bundleVars
  <2> QED
    BY <2>1, <2>2, <2>3 DEF Inv
<1>3. ASSUME NEW t \in Publishers, PublishBundle(t)
      PROVE  Inv'
  <2>1. BundleInv' /\ FileInv' /\ DocumentsKept
    BY <1>3, PublishBundleInv DEF Inv
  <2>2. /\ use = "bundle"
        /\ UNCHANGED <<sidecar, use, reader, hashed, writers, changed>>
    BY <1>3 DEF PublishBundle
  <2>3. SidecarInv'
    BY <2>2, NoSidecar DEF Inv
  <2>4. ReaderInv'
    BY <2>1, <2>2, ReaderKept DEF Inv
  <2> QED
    BY <2>1, <2>3, <2>4 DEF Inv
<1>4. CASE Crash
  <2>1. /\ UNCHANGED <<fsVars, pub, log, faults, sidecar, use, bundleVars,
                       reader, changed>>
        /\ alive' = FALSE
    BY <1>4 DEF Crash
  <2>2. FileInv' /\ SidecarInv' /\ BundleInv'
    BY <2>1, NothingWritten DEF Inv, FileInv
  <2>3. DocumentsKept
    BY <2>1, NothingPublished DEF Inv
  <2>4. ReaderInv'
    BY <2>1, <2>3, ReaderKept DEF Inv, bundleVars
  <2> QED
    BY <2>2, <2>4 DEF Inv
<1> QED
  BY <1>1, <1>2, <1>3, <1>4, PublicationInv, SidecarStepInv DEF PublisherStep

(* The steps of the writers.                                               *)
LEMMA WriterStepInv ==
    ASSUME Inv, NEW a \in Artifacts,
           \/ Reserve(a) \/ CreateChild(a) \/ AdmitWriter(a)
           \/ \E n \in 1..MaxLength : Write(a, n)
           \/ FlushAndClose(a) \/ WriterFinalized(a)
    PROVE  Inv'
<1>1. UNCHANGED <<temps, alive, pub, log, sidecar, use, reader, changed>>
  BY DEF Reserve, CreateChild, AdmitWriter, Write, FlushAndClose,
         WriterFinalized, documentVars, fsVars
<1>2. BeforePublish
  <2>1. CASE Reserve(a)
    BY <2>1, NotTerminal DEF Reserve, Inv
  <2>2. CASE ~Reserve(a)
    <3>1. handle[a] # "none"
      BY <2>2 DEF CreateChild, AdmitWriter, Write, FlushAndClose,
                  WriterFinalized
    <3> QED
      BY <3>1, WriterActive DEF Inv
  <2> QED
    BY <2>1, <2>2
<1>3. FileInv' /\ BundleInv'
  <2>1. CASE Reserve(a) \/ AdmitWriter(a) \/ WriterFinalized(a)
    <3>1. UNCHANGED <<fsVars, alive, pub, log, faults>>
      BY <2>1 DEF Reserve, AdmitWriter, WriterFinalized, documentVars
    <3>2. FileInv'
      BY <3>1, FilesKept DEF Inv, FileInv
    <3> QED
      BY <2>1, <3>2, ReserveInv, AdmitWriterInv, WriterFinalizedInv DEF Inv
  <2> QED
    BY <2>1, CreateChildInv, WriteInv, FlushAndCloseInv DEF Inv
<1>4. use = "bundle" /\ DocumentsKept
  BY <1>1, <1>2, NothingPublished DEF Inv, BeforePublish
<1>5. SidecarInv'
  BY <1>1, <1>4, NoSidecar DEF Inv
<1>6. ReaderInv'
  BY <1>1, <1>2, <1>4, ReaderKept DEF Inv
<1> QED
  BY <1>3, <1>5, <1>6 DEF Inv

(* The steps of a reader.                                                  *)
LEMMA ReaderStepInv ==
    ASSUME Inv, ReaderStep
    PROVE  Inv'
<1>1. Elsewhere /\ (Fault \/ UNCHANGED faults)
  BY DEF ReaderStep, OpenManifest, ReadManifest, SelectArtifacts,
         VerifyArtifact, ReadFails, ConsumerReads, ConsumerReturns
<1>2. faults' \in Nat
  BY <1>1, FaultCounted DEF Inv, FileInv
<1>3. FileInv' /\ SidecarInv' /\ BundleInv'
  BY <1>1, <1>2, NothingWritten DEF Elsewhere, Inv, FileInv
<1>4. ReaderInv'
  BY OpenManifestInv, ReadManifestInv, SelectArtifactsInv, VerifyArtifactInv,
     ConsumerReadsInv, ConsumerReturnsInv DEF ReaderStep, Inv
<1> QED
  BY <1>3, <1>4 DEF Inv

(* An artifact changes under the reader.                                   *)
LEMMA ChangeInv ==
    ASSUME Inv, NEW a \in Artifacts, ChangeArtifact(a)
    PROVE  Inv'
<1>1. /\ use = "bundle" /\ changed' = changed \cup {a}
      /\ UNCHANGED <<pub, log, sidecar, use, bundleVars, reader>>
  BY DEF ChangeArtifact
<1>2. FileInv' /\ BundleInv'
  BY ChangeArtifactInv DEF Inv
<1>3. SidecarInv'
  BY <1>1, NoSidecar DEF Inv
<1>4. DocumentsKept
  BY <1>1, NothingPublished DEF Inv
<1>5. ReaderInv'
  BY <1>1, <1>4, ReaderKept DEF Inv, bundleVars
<1> QED
  BY <1>2, <1>3, <1>5 DEF Inv

(* The invariant is inductive.                                             *)
LEMMA NextInv == Inv /\ [Next]_vars => Inv'
<1>1. ASSUME Inv, UNCHANGED vars
      PROVE  Inv'
  <2>1. UNCHANGED <<fsVars, alive, pub, log, faults, sidecar, use, bundleVars,
                    reader, changed>>
    BY <1>1 DEF vars, documentVars
  <2>2. FileInv' /\ SidecarInv' /\ BundleInv'
    BY <1>1, <2>1, NothingWritten DEF Inv, FileInv
  <2>3. ReaderInv'
    BY <1>1, <2>1, NothingPublished, ReaderKept DEF Inv, bundleVars
  <2> QED
    BY <2>2, <2>3 DEF Inv
<1> QED
  BY <1>1, PublisherStepInv, WriterStepInv, ReaderStepInv, ChangeInv
     DEF Next, WriterStep

(* The four invariants hold throughout.                                    *)
THEOREM Invariance == Spec => []Inv
<1>1. Inv /\ [Next]_vars => Inv'
  BY NextInv
<1> QED
  BY InitInv, <1>1, PTL DEF Spec

-----------------------------------------------------------------------------
(***************************************************************************)
(* What follows from it.                                                   *)
(***************************************************************************)
(* The target is the complete document of the last replacement.            *)
LEMMA TargetIsLast ==
    ASSUME FileInv
    PROVE  /\ (dir[Manifest] = 0) <=> (log = <<>>)
           /\ log # <<>> =>
                /\ Len(log) \in 1..Len(log)
                /\ Target = log[Len(log)][2]
<1>1. /\ log \in Seq(Publishers \X Content)
      /\ dir[Manifest] = IF log = <<>> THEN 0 ELSE pub[log[Len(log)][1]].ino
  BY DEF FileInv, LogOK
<1>2. ASSUME log # <<>>
      PROVE  /\ Len(log) \in 1..Len(log)
             /\ Target = log[Len(log)][2] /\ dir[Manifest] # 0
  <2>1. Len(log) \in 1..Len(log)
    <3>1. Len(log) \in Nat /\ Len(log) # 0
      BY <1>1, <1>2, EmptySeq
    <3> QED
      BY <3>1
  <2>2. PICK t, d : t = log[Len(log)][1] /\ d = log[Len(log)][2]
    OBVIOUS
  <2>3. t \in Publishers /\ Installed(t) /\ d = pub[t].doc
    BY <2>1, <2>2, FileTypes DEF Installed, FileInv, LogOK
  <2>4. pub[t].ino # 0 /\ data[pub[t].ino] = Encode(d)
    BY <2>3 DEF FileInv, Honest, Written
  <2>5. dir[Manifest] = pub[t].ino
    BY <1>1, <1>2, <2>2
  <2>6. Decode(Encode(d)) = d
    <3>1. Encode(d) \in Prefixes(d)
      BY DEF Prefixes
    <3> QED
      BY <3>1, AllRead
  <2> QED
    BY <2>1, <2>2, <2>4, <2>5, <2>6 DEF Target
<1> QED
  BY <1>1, <1>2

(* Readers never meet a partial document: the target is the complete       *)
(* document of the last replacement, and a read returns the one that was   *)
(* the target when it was opened (canonical_json.py _publish_bytes and     *)
(* _read_bytes), whatever fails and however often it is replaced.          *)
THEOREM DocumentsAreWhole == Spec => []ReadsOneDocument
<1>1. Inv => ReadsOneDocument
  <2> SUFFICES ASSUME Inv
               PROVE  ReadsOneDocument
    OBVIOUS
  <2>1. /\ (dir[Manifest] = 0) <=> (log = <<>>)
        /\ log # <<>> => Target = log[Len(log)][2]
    BY TargetIsLast DEF Inv
  <2>2. /\ reader.result # "MALFORMED"
        /\ reader.doc # None => reader.doc = log[reader.since][2]
    BY DEF Inv, ReaderInv, ReaderAt
  <2> QED
    BY <2>1, <2>2 DEF ReadsOneDocument
<1> QED
  BY Invariance, <1>1, PTL

(* What publish reports is what happened to the target, and a publication  *)
(* that ended leaves a temporary only if its unlink failed or it was       *)
(* interrupted (canonical_json.py _publish_bytes), for any number of       *)
(* concurrent publishers and failures.                                     *)
THEOREM OutcomesAreTrue == Spec => []OutcomeTruthful
<1>1. Inv => OutcomeTruthful
  <2> SUFFICES ASSUME Inv
               PROVE  OutcomeTruthful
    OBVIOUS
  <2>1. ASSUME NEW t \in Publishers, pub[t].at = "done"
        PROVE  /\ ~pub[t].failed => pub[t].replaced = "REPLACED"
               /\ pub[t].replaced = "REPLACED" => Installed(t)
               /\ pub[t].replaced = "NOT_REPLACED" => ~Installed(t)
               /\ pub[t].replaced = "UNKNOWN" => pub[t].stage = "REPLACE_TARGET"
    <3>1. Honest(pub[t], Installed(t))
      BY DEF Inv, FileInv
    <3> QED
      BY <2>1, <3>1 DEF Honest
  <2>2. TempsOwned
    BY DEF Inv, FileInv
  <2> QED
    BY <2>1, <2>2 DEF OutcomeTruthful, TempsOwned
<1> QED
  BY Invariance, <1>1, PTL

(* A manifest on disk means a complete bundle: every admitted writer was   *)
(* finalized and each declared artifact nobody changed holds the bytes its *)
(* writer was given (publication.py publish, finalize), for any number of  *)
(* artifacts, writers' failures and callers of publish.                    *)
THEOREM ManifestsAreComplete == Spec => []ManifestMeansComplete
<1>1. Inv => ManifestMeansComplete
  <2> SUFFICES ASSUME Inv, use = "bundle", dir[Manifest] # 0
               PROVE  /\ \A a \in Artifacts : writers[a] \in {None, "FINALIZED"}
                      /\ DOMAIN Target
                           = {a \in Artifacts : writers[a] = "FINALIZED"}
                      /\ \A a \in DOMAIN Target \ changed :
                           data[dir[a]] = hashed[a] /\ Target[a] = hashed[a]
    BY DEF ManifestMeansComplete
  <2>1. Len(log) \in 1..Len(log) /\ Target = log[Len(log)][2]
    BY TargetIsLast DEF Inv
  <2>2. /\ state = "TERMINAL"
        /\ Target = [a \in Finalized |-> descriptors[a]]
    BY <2>1, InstalledIsManifest DEF Inv
  <2>3. \A a \in Artifacts : writers[a] \in {None, "FINALIZED"}
    BY <2>2 DEF Inv, BundleInv, TerminalIsFinal
  <2>4. \A a \in Artifacts : WriterOK(a)
    BY DEF Inv, BundleInv
  <2>5. Finalized = {a \in Artifacts : writers[a] = "FINALIZED"}
    BY <2>4 DEF Finalized, WriterOK
  <2> QED
    BY <2>2, <2>3, <2>4, <2>5 DEF WriterOK
<1> QED
  BY Invariance, <1>1, PTL

(* Verified bytes are the bytes that were published, though files change   *)
(* while they are read, and with nothing changed MISSING is reported only  *)
(* for a name without a finalized writer and MISMATCH only for an I/O      *)
(* failure (reading.py audit, consume_and_verify_artifact).                *)
THEOREM VerifiedBytesAreExact == Spec => []VerifiedMeansExact
<1>1. Inv => VerifiedMeansExact
  BY DEF Inv, ReaderInv
<1> QED
  BY Invariance, <1>1, PTL

(* A finalized sidecar holds the head of its stream and the last bytes of  *)
(* the rest, its counts add up to the stream, and it verifies against its  *)
(* own summary (sidecar.py write, finalize, verify_sidecar), for any caps, *)
(* any length of the stream and any way of cutting it into chunks.         *)
THEOREM SidecarsKeepHeadAndTail == Spec => []SidecarKeepsHeadAndTail
<1>1. Inv => SidecarKeepsHeadAndTail
  <2> SUFFICES ASSUME Inv, sidecar.at = "finalized"
               PROVE  SidecarKeepsHeadAndTail
    BY DEF SidecarKeepsHeadAndTail
  <2>1. PICK n, h, t, tail, c :
          /\ n = sidecar.produced /\ h = HeadOf(sidecar)
          /\ t = TailOf(sidecar) /\ tail = sidecar.tail /\ c = sidecar.tail_cap
    OBVIOUS
  <2>2. /\ sidecar \in SidecarType /\ dir[SidecarName] # 0
        /\ sidecar.head_length = h
        /\ tail = Numbered(n + 1 - t, n) /\ sidecar.dropped = n - h - t
        /\ data[dir[SidecarName]] = Numbered(1, h) \o tail
    BY <2>1 DEF Inv, SidecarInv, Counted
  <2>3. n \in Nat /\ h \in Nat /\ tail \in Seq(Nat)
    BY <2>1, <2>2 DEF SidecarType
  <2>4. /\ Numbered(1, h) \in Seq(Nat) /\ Len(Numbered(1, h)) = h
        /\ Len(tail) \in Nat
    <3>1. 1 \in Nat \ {0} /\ 1 <= h + 1 /\ h + 1 - 1 = h
      BY <2>3
    <3>2. Numbered(1, h) \in Seq(Nat) /\ Len(Numbered(1, h)) = h + 1 - 1
      BY <2>3, <3>1, NumberedSeq
    <3> QED
      BY <2>3, <3>1, <3>2
  <2>5. Len(Numbered(1, h) \o tail) = h + Len(tail)
    BY <2>3, <2>4, ConcatProperties
  <2>6. VerifiedRead(SidecarName, h + Len(tail), Numbered(1, h) \o tail)
          = "VERIFIED"
    <3>1. ~(Len(data[dir[SidecarName]]) > h + Len(tail))
      BY <2>2, <2>3, <2>4, <2>5
    <3> QED
      BY <2>2, <3>1 DEF VerifiedRead
  <2>7. /\ h = IF sidecar.head_cap = None THEN n ELSE Least(n, sidecar.head_cap)
        /\ t = Least(n - h, sidecar.tail_cap)
    BY <2>1 DEF HeadOf, TailOf
  <2> QED
    BY <2>1, <2>2, <2>6, <2>7 DEF SidecarKeepsHeadAndTail
<1> QED
  BY Invariance, <1>1, PTL
=============================================================================
