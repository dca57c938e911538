-------------------------- MODULE IterationSnapshots --------------------------
(***************************************************************************)
(* writeIterationSnapshot (hooks/lib/iteration-snapshot.ts): before each   *)
(* pass of a document convergence, a copy of the subject file and a        *)
(* metadata file beside it, <slug>-pass-<n>.<ext> and <slug>-pass-<n>.toon.*)
(* Both are replaced atomically, the copy is read back, and a failure of   *)
(* any of the three is followed, a second later, by one attempt from the   *)
(* start.  Snapshots of a pass that exist are never overwritten.           *)
(*                                                                         *)
(* Subjects may share a slug.  A file that fails to be written is as it    *)
(* was.  A checksum is the content it was taken of.                        *)
(***************************************************************************)
EXTENDS Naturals, FiniteSets

CONSTANTS
    Writer,          \* calls of the helper
    Subject,         \* subject files
    SlugOf, ExtOf,   \* of a subject: its name without and its extension
    PassNumber,      \* iterations
    MaxContent,      \* bound on edits of subjects
    MaxCalls         \* bound on calls

ASSUME SnapshotAssumption == MaxContent \in Nat /\ MaxCalls \in Nat

VARIABLES
    subjects,    \* content of each subject file
    snapFiles,   \* content of the snapshot directory, by name
    writer,
    calls,
    kept,        \* history: what calls returned successfully
    snapRaced    \* history: two calls worked on one slug and pass at once

snapVars == <<subjects, snapFiles, writer, calls, kept, snapRaced>>

FileName == {SlugOf[s] : s \in Subject} \X PassNumber \X ({ExtOf[s] : s \in Subject} \cup {"toon"})
NoFile == [kind |-> "none"]
CopyOf(content) == [kind |-> "copy", content |-> content]
MetaOf(s, content) == [kind |-> "meta", subject |-> s, content |-> content]
Bytes == 0..MaxContent
NoCall == [pc |-> "idle"]
Call(pc, s, n, bytes, try) == [pc |-> pc, subject |-> s, pass |-> n, bytes |-> bytes, try |-> try]

SnapTypeOK ==
    /\ subjects \in [Subject -> Bytes]
    /\ snapFiles \in [FileName -> {NoFile} \cup {CopyOf(b) : b \in Bytes} \cup {MetaOf(s, b) : s \in Subject, b \in Bytes}]
    /\ \A w \in Writer : writer[w] = NoCall \/
          writer[w] \in [pc : {"copy", "meta", "verify", "sleep"}, subject : Subject, pass : PassNumber, bytes : Bytes, try : 1..2]
    /\ calls \in 0..MaxCalls
    /\ kept \subseteq Subject \X PassNumber \X Bytes
    /\ snapRaced \in BOOLEAN

SnapInit ==
    /\ subjects = [s \in Subject |-> 0]
    /\ snapFiles = [f \in FileName |-> NoFile]
    /\ writer = [w \in Writer |-> NoCall]
    /\ calls = 0 /\ kept = {} /\ snapRaced = FALSE

CopyName(s, n) == <<SlugOf[s], n, ExtOf[s]>>
MetaName(s, n) == <<SlugOf[s], n, "toon">>

(* Mutant: the collision guard looks at the copies only. *)
ExistsCopyOnly(name) == snapFiles[name].kind = "copy"

Exists(name) == snapFiles[name] # NoFile
Busy(slug, n) == \E v \in Writer : writer[v] # NoCall /\ SlugOf[writer[v].subject] = slug /\ writer[v].pass = n

-----------------------------------------------------------------------------
(* The subject is read; a snapshot of the pass refuses the call. *)
SnapBegins(w) ==
    /\ writer[w] = NoCall /\ calls < MaxCalls /\ calls' = calls + 1
    /\ \E s \in Subject, n \in PassNumber :
          /\ ~Exists(CopyName(s, n)) /\ ~Exists(MetaName(s, n))
          /\ writer' = [writer EXCEPT ![w] = Call("copy", s, n, subjects[s], 1)]
          /\ snapRaced' = (snapRaced \/ Busy(SlugOf[s], n))
    /\ UNCHANGED <<subjects, snapFiles, kept>>

SnapCopies(w) ==
    /\ writer[w].pc = "copy"
    /\ snapFiles' = [snapFiles EXCEPT ![CopyName(writer[w].subject, writer[w].pass)] = CopyOf(writer[w].bytes)]
    /\ writer' = [writer EXCEPT ![w].pc = "meta"]
    /\ UNCHANGED <<subjects, calls, kept, snapRaced>>

SnapDescribes(w) ==
    /\ writer[w].pc = "meta"
    /\ snapFiles' = [snapFiles EXCEPT ![MetaName(writer[w].subject, writer[w].pass)] =
                        MetaOf(writer[w].subject, writer[w].bytes)]
    /\ writer' = [writer EXCEPT ![w].pc = "verify"]
    /\ UNCHANGED <<subjects, calls, kept, snapRaced>>

Verified(w) == snapFiles[CopyName(writer[w].subject, writer[w].pass)] = CopyOf(writer[w].bytes)

SnapReturns(w) ==
    /\ writer[w].pc = "verify" /\ Verified(w)
    /\ kept' = kept \cup {<<writer[w].subject, writer[w].pass, writer[w].bytes>>}
    /\ writer' = [writer EXCEPT ![w] = NoCall]
    /\ UNCHANGED <<subjects, snapFiles, calls, snapRaced>>

(* A write or the verification throws: once more, or SNAPSHOT_WRITE_FAILED. *)
SnapThrows(w) ==
    /\ \/ writer[w].pc \in {"copy", "meta"}
       \/ writer[w].pc = "verify" /\ ~Verified(w)
    /\ writer' = [writer EXCEPT ![w] = IF @.try = 1 THEN [@ EXCEPT !.pc = "sleep"] ELSE NoCall]
    /\ UNCHANGED <<subjects, snapFiles, calls, kept, snapRaced>>

(* The second attempt clears the way, without looking again who was there. *)
SnapRetries(w) ==
    /\ writer[w].pc = "sleep"
    /\ snapFiles' = [f \in FileName |->
          IF f \in {CopyName(writer[w].subject, writer[w].pass), MetaName(writer[w].subject, writer[w].pass)}
          THEN NoFile ELSE snapFiles[f]]
    /\ writer' = [writer EXCEPT ![w] = Call("copy", @.subject, @.pass, @.bytes, 2)]
    /\ UNCHANGED <<subjects, calls, kept, snapRaced>>

SnapKilled(w) ==
    /\ writer[w] # NoCall
    /\ writer' = [writer EXCEPT ![w] = NoCall]
    /\ UNCHANGED <<subjects, snapFiles, calls, kept, snapRaced>>

(* The integrator, or a person, changes a subject. *)
SubjectEdited(s) ==
    /\ subjects[s] < MaxContent
    /\ subjects' = [subjects EXCEPT ![s] = @ + 1]
    /\ UNCHANGED <<snapFiles, writer, calls, kept, snapRaced>>

SnapNext ==
    \/ \E w \in Writer :
          \/ SnapBegins(w) \/ SnapCopies(w) \/ SnapDescribes(w) \/ SnapReturns(w)
          \/ SnapThrows(w) \/ SnapRetries(w) \/ SnapKilled(w)
    \/ \E s \in Subject : SubjectEdited(s)

SnapSpec == SnapInit /\ [][SnapNext]_snapVars

-----------------------------------------------------------------------------
(* A snapshot that was reported stays.  Once a call has returned, the copy    *)
(* holds the subject as it was and the metadata describes that copy, over     *)
(* later edits, later calls for the same pass or for another subject of the   *)
(* same slug, failed attempts, their clean-up and kills; only two calls at    *)
(* once for one slug and pass can take it away.                               *)
(* (hooks/lib/iteration-snapshot.ts:31 "keep all snapshots forever; no        *)
(* overwrite of an existing {slug}-pass-{N} file")                            *)
SnapshotsAreKept ==
    ~snapRaced => \A k \in kept :
        /\ snapFiles[CopyName(k[1], k[2])] = CopyOf(k[3])
        /\ snapFiles[MetaName(k[1], k[2])] = MetaOf(k[1], k[3])
=============================================================================
