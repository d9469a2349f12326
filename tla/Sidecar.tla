------------------------------ MODULE Sidecar ------------------------------
(***************************************************************************)
(* A sidecar of a document directory (document_directory/sidecar.py): the  *)
(* first bytes of a stream and its last ones, under two caps, offered in   *)
(* chunks.  The k-th byte of the stream is the number k, so that what is   *)
(* kept can be told from what is dropped.  Bytes in the handle's buffer    *)
(* count as written: nobody reads a sidecar that is not finalized.         *)
(***************************************************************************)
EXTENDS DocumentFile

CONSTANTS
    SidecarName,  \* the child's name, one of Names
    Caps,         \* values of head_cap and tail_cap, None among them
    MaxProduced   \* length of the stream

ASSUME SidecarAssumption ==
    None \notin Nat /\ Caps \subseteq Nat \cup {None} /\ MaxProduced \in Nat

VARIABLE sidecar  \* the SidecarWriter

InitSidecar ==
    sidecar = [at |-> "none", head_cap |-> None, tail_cap |-> 0,
               head_length |-> 0, tail |-> <<>>, produced |-> 0,
               dropped |-> 0]

(* DocumentDirectory.open_sidecar and SidecarWriter.__init__               *)
OpenSidecar(head, tail) ==
    /\ alive /\ sidecar.at = "none"
    /\ Creates
    /\ dir' = [dir EXCEPT ![SidecarName] = NewInode]
    /\ sidecar' = [sidecar EXCEPT !.at = "open", !.head_cap = head,
                                  !.tail_cap = IF tail = None THEN 0 ELSE tail]
    /\ UNCHANGED <<temps, alive, pub, log, faults>>

Numbered(from, to) == [k \in 1..(to + 1 - from) |-> from + k - 1]

First(s, n) == SubSeq(s, 1, n)
Last(s, n) == IF n >= Len(s) THEN s ELSE SubSeq(s, Len(s) + 1 - n, Len(s))
Without(s, n) == SubSeq(s, n + 1, Len(s))
Least(m, n) == IF m <= n THEN m ELSE n

LastOfTheChunk(tail, remainder, cap) == Last(remainder, cap)

(* The tail after more bytes: its oldest ones go when it is over its cap.  *)
KeepTail(tail, remainder, cap) == Last(tail \o remainder, cap)

(* write: the head takes what it has room for, the tail the rest.          *)
WriteSidecar(n) ==
    LET chunk == Numbered(sidecar.produced + 1, sidecar.produced + n)
        room == IF sidecar.head_cap = None THEN n
                ELSE Least(n, sidecar.head_cap - sidecar.head_length)
        remainder == Without(chunk, room)
        tail == KeepTail(sidecar.tail, remainder, sidecar.tail_cap)
        i == dir[SidecarName]
    IN
    /\ alive /\ sidecar.at = "open"
    /\ sidecar.produced + n <= MaxProduced
    /\ \/ /\ Holds(i, data[i] \o First(chunk, room))
          /\ sidecar' = [sidecar EXCEPT
               !.produced = @ + n,
               !.head_length = @ + room,
               !.tail = tail,
               !.dropped = @ + Len(sidecar.tail) + Len(remainder) - Len(tail)]
          /\ UNCHANGED faults
       \/ /\ room > 0
          /\ Fault
          /\ Holds(i, data[i] \o First(chunk, room - 1))
          /\ sidecar' = [sidecar EXCEPT !.produced = @ + n, !.at = "abandoned"]
    /\ UNCHANGED <<dir, temps, alive, pub, log>>

(* finalize: the tail after the head, flushed; the summary is the writer's *)
(* counts and the hash of what it stored.                                  *)
FinalizeSidecar ==
    LET i == dir[SidecarName] IN
    /\ alive /\ sidecar.at = "open"
    /\ \/ /\ Holds(i, data[i] \o sidecar.tail)
          /\ sidecar' = [sidecar EXCEPT !.at = "finalized"]
          /\ UNCHANGED faults
       \/ /\ Fault
          /\ sidecar' = [sidecar EXCEPT !.at = "abandoned"]
          /\ UNCHANGED data
    /\ UNCHANGED <<dir, temps, alive, pub, log>>

SidecarStep ==
    \/ \E head, tail \in Caps : OpenSidecar(head, tail)
    \/ \E n \in 1..MaxProduced : WriteSidecar(n)
    \/ FinalizeSidecar
=============================================================================
