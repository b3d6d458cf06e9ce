------------------------------ MODULE Journal ------------------------------
(***************************************************************************)
(* The append-only journal, its snapshots and its recovery                  *)
(* (storage/journal.py), with the idempotent requests of the API that        *)
(* commit to it (storage/store.py).                                          *)
(*                                                                         *)
(* One frame is one line of active.jsonl.  It holds the events of one        *)
(* operation and its idempotency result, so a frame is modelled by its       *)
(* sequence number and its key.  The journal is written by one process at a  *)
(* time (InstanceLock), synchronously, under a lock: an append is one step,  *)
(* and a crash inside it is a step of its own, one for each thing it may     *)
(* leave on the disk.                                                        *)
(***************************************************************************)
EXTENDS Integers, Sequences, FiniteSets

CONSTANTS
    Key,            \* idempotency keys of the clients' operations
    MaxSequence,    \* bound on the sequence numbers handed out
    MaxCrash,       \* bound on crashes
    MaxDamage,      \* bound on snapshots and manifests damaged on the disk
    FaultSets       \* the combinations of faults the environment may show

(***************************************************************************)
(* The faults an environment may show beside crashes:                       *)
(*   capacity  ensure_storage_capacity refuses an append                    *)
(*   full      a write fails halfway, and so does every later one of the    *)
(*             process                                                      *)
(*   halfway   a write fails halfway, and a later one may succeed           *)
(*   fsync     a whole frame is written and fsync fails                     *)
(*   newline   a crash leaves a whole frame without its newline             *)
(*   damage    a snapshot or the manifest is damaged on the disk            *)
(***************************************************************************)
Fault == {"capacity", "full", "halfway", "fsync", "newline", "damage"}

ASSUME JournalAssumption ==
    /\ MaxSequence \in Nat
    /\ MaxCrash \in Nat
    /\ MaxDamage \in Nat
    /\ FaultSets \subseteq SUBSET Fault

VARIABLES
    faults,     \* the faults of this behaviour's environment
    up,         \* "up", "down", or "refused": JournalRecoveryError at startup
    lines,      \* the lines of active.jsonl
    snaps,      \* snapshot files
    manifest,   \* the sequence the manifest points to, 0 for none
    sequence,   \* LocalJournal.sequence
    records,    \* LocalJournal._records
    answered,   \* operations whose client got an answer
    crashes, damages    \* counters for the bounds

vars == <<faults, up, lines, snaps, manifest, sequence, records, answered, crashes, damages>>

disk == <<lines, snaps, manifest>>
memory == <<sequence, records>>
bounds == <<faults, crashes, damages>>

-----------------------------------------------------------------------------
(* Data *)

Record == [seq : Nat, key : Key]

\* A line holds a whole frame, or something that does not parse as one.  Only
\* the last line can lack its newline.
Frame(r) == [whole |-> TRUE, rec |-> r, newline |-> TRUE]
Junk == [whole |-> FALSE, newline |-> TRUE]

\* A snapshot file is named by its sequence: writing it replaces the former
\* one of that name.
Snapshot(q, rs) == [seq |-> q, recs |-> rs, valid |-> TRUE]
NoSnapshotMarked == [seq |-> -1, recs |-> <<>>, valid |-> TRUE]
NoSnapshot == [seq |-> 0, recs |-> <<>>, valid |-> TRUE]

Keys(rs) == {rs[i].key : i \in 1..Len(rs)}

-----------------------------------------------------------------------------
(* Recovery: what _load makes of the disk *)

\* _load_snapshot: the manifest's snapshot if it decodes, else the newest one
\* that does.
Valid == {s \in snaps : s.valid}
Loaded ==
    IF \E s \in Valid : s.seq = manifest
    THEN CHOOSE s \in Valid : s.seq = manifest
    ELSE IF Valid = {} THEN NoSnapshot
    ELSE CHOOSE s \in Valid : \A t \in Valid : t.seq <= s.seq

\* A line that does not parse is quarantined if it is the last one.
BadTail(ls) == ls # <<>> /\ ~ls[Len(ls)].whole
TruncatedNever(ls) == ls
Truncated(ls) == IF BadTail(ls) THEN SubSeq(ls, 1, Len(ls) - 1) ELSE ls

\* journal_corrupt_non_tail
Refuses == \E i \in 1..Len(lines) - 1 : ~lines[i].whole

\* The elements of s at the places of K, in their order.
Select(s, K) ==
    [j \in 1..Cardinality(K) |-> s[CHOOSE i \in K : Cardinality({k \in K : k <= i}) = j]]

\* Only the whole frames after the snapshot are replayed from the journal.
BeyondOrAt(s, l) == l.whole /\ l.rec.seq >= s.seq
Beyond(s, l) == l.whole /\ l.rec.seq > s.seq

FrameRecords(ls) == [i \in 1..Len(ls) |-> ls[i].rec]

Replayed(ls) ==
    LET t == Truncated(ls)
    IN Loaded.recs \o FrameRecords(Select(t, {i \in 1..Len(t) : Beyond(Loaded, t[i])}))

\* The sequence continues after everything that was recovered.
ContinuesByCount(rs) == Len(rs)
Continues(rs) ==
    IF rs = <<>> THEN Loaded.seq
    ELSE IF rs[Len(rs)].seq > Loaded.seq THEN rs[Len(rs)].seq ELSE Loaded.seq

Restart ==
    /\ up = "down"
    /\ IF Refuses
       THEN up' = "refused" /\ UNCHANGED <<lines, memory>>
       ELSE /\ up' = "up"
            /\ lines' = Truncated(lines)
            /\ records' = Replayed(lines)
            /\ sequence' = Continues(Replayed(lines))
    /\ UNCHANGED <<snaps, manifest, answered, bounds>>

-----------------------------------------------------------------------------
(* Requests *)

\* A line is appended to the file as it is: after a line that lost its newline
\* the two make one line, which does not parse.
Extended(l) ==
    IF lines # <<>> /\ ~lines[Len(lines)].newline
    THEN [lines EXCEPT ![Len(lines)] = [Junk EXCEPT !.newline = l.newline]]
    ELSE Append(lines, l)

\* The frame append_frame builds for the operation of k.
FrameOf(k) == Frame([seq |-> sequence + 1, key |-> k])

\* check_idempotency finds nothing for k, and the operation commits.
MayCommit(k) ==
    /\ up = "up"
    /\ k \notin Keys(records)
    /\ sequence < MaxSequence

\* A disk that is full stays full until somebody restarts the process.
MayWrite(k) == MayCommit(k) /\ ~("full" \in faults /\ BadTail(lines))

Commit(k) ==
    /\ MayWrite(k)
    /\ lines' = Extended(FrameOf(k))
    /\ sequence' = sequence + 1
    /\ records' = Append(records, FrameOf(k).rec)
    /\ answered' = answered \cup {k}
    /\ UNCHANGED <<up, snaps, manifest, bounds>>

\* A retry of an operation that is done returns the recorded result.
Retry(k) ==
    /\ up = "up"
    /\ k \in Keys(records)
    /\ answered' = answered \cup {k}
    /\ UNCHANGED <<up, disk, memory, bounds>>

\* ensure_storage_capacity raises: the sequence number is used up.
RefusedByCapacity(k) ==
    /\ "capacity" \in faults
    /\ MayCommit(k)
    /\ sequence' = sequence + 1
    /\ UNCHANGED <<up, disk, records, answered, bounds>>

\* The write raises halfway, or fsync after it, and the process goes on.
AppendFails(k) ==
    /\ MayCommit(k)
    /\ sequence' = sequence + 1
    /\ \/ faults \cap {"full", "halfway"} # {} /\ lines' = Extended([Junk EXCEPT !.newline = FALSE])
       \/ "fsync" \in faults /\ MayWrite(k) /\ lines' = Extended(FrameOf(k))
    /\ UNCHANGED <<up, snaps, manifest, records, answered, bounds>>

-----------------------------------------------------------------------------
(* Snapshots *)

\* The snapshot file is replaced atomically.
Saved == {s \in snaps : s.seq # sequence} \cup {Snapshot(sequence, records)}

\* LocalJournal.snapshot; compact does the same and keeps the journal.  A
\* snapshot of the empty journal is the same as none.
TakeSnapshotAndTruncate ==
    /\ up = "up"
    /\ snaps' = Saved
    /\ manifest' = sequence
    /\ lines' = <<>>
    /\ UNCHANGED <<up, memory, answered, bounds>>
TakeSnapshot ==
    /\ up = "up"
    /\ sequence > 0
    /\ snaps' = Saved
    /\ manifest' = sequence
    /\ UNCHANGED <<up, lines, memory, answered, bounds>>

\* A snapshot file no longer decodes (external: the disk).
Damage(s) ==
    /\ "damage" \in faults
    /\ damages < MaxDamage
    /\ damages' = damages + 1
    /\ s \in Valid
    /\ snaps' = (snaps \ {s}) \cup {[s EXCEPT !.valid = FALSE]}
    /\ UNCHANGED <<faults, up, lines, manifest, memory, answered, crashes>>

\* snapshot_manifest_invalid (external: the disk)
DamageManifest ==
    /\ "damage" \in faults
    /\ damages < MaxDamage
    /\ damages' = damages + 1
    /\ manifest # 0
    /\ manifest' = 0
    /\ UNCHANGED <<faults, up, lines, snaps, memory, answered, crashes>>

-----------------------------------------------------------------------------
(* Crashes *)

\* The process dies and leaves ls and sn on the disk.
Dies(ls, sn) ==
    /\ up = "up"
    /\ crashes < MaxCrash
    /\ crashes' = crashes + 1
    /\ up' = "down"
    /\ lines' = ls
    /\ snaps' = sn
    /\ sequence' = 0
    /\ records' = <<>>
    /\ UNCHANGED <<faults, manifest, answered, damages>>

Crash == Dies(lines, snaps)

\* In append_frame: a part of the frame was written, or all of it and nobody
\* was told.
CrashInAppend(k) ==
    /\ MayWrite(k)
    /\ \/ Dies(Extended([Junk EXCEPT !.newline = FALSE]), snaps)
       \/ Dies(Extended(FrameOf(k)), snaps)
       \/ "newline" \in faults /\ Dies(Extended([FrameOf(k) EXCEPT !.newline = FALSE]), snaps)

\* In snapshot: the file is there, the manifest is not.
CrashInSnapshot == sequence > 0 /\ Dies(lines, Saved)

-----------------------------------------------------------------------------

Init ==
    /\ faults \in FaultSets
    /\ up = "up"
    /\ lines = <<>>
    /\ snaps = {}
    /\ manifest = 0
    /\ sequence = 0
    /\ records = <<>>
    /\ answered = {}
    /\ crashes = 0
    /\ damages = 0

Next ==
    \/ Restart \/ TakeSnapshot \/ Crash \/ CrashInSnapshot
    \/ \E k \in Key :
          \/ Commit(k) \/ Retry(k) \/ RefusedByCapacity(k)
          \/ AppendFails(k) \/ CrashInAppend(k)
    \/ DamageManifest
    \/ \E s \in snaps : Damage(s)

Spec == Init /\ [][Next]_vars

-----------------------------------------------------------------------------
(* Properties *)

TypeOK ==
    /\ faults \subseteq Fault
    /\ up \in {"up", "down", "refused"}
    /\ \A i \in 1..Len(lines) :
          lines[i] \in [whole : {TRUE}, rec : Record, newline : BOOLEAN]
                         \cup [whole : {FALSE}, newline : BOOLEAN]
    /\ \A s \in snaps : s.seq \in Nat /\ s.valid \in BOOLEAN
    /\ \A i \in 1..Len(records) : records[i] \in Record
    /\ manifest \in Nat
    /\ sequence \in Nat
    /\ answered \subseteq Key

\* The records in memory are at any time those that a restart would replay:
\* from the newest snapshot, from an older one when it is damaged, or from the
\* journal alone.
MemoryIsReplay == up = "up" => records = Replayed(lines)

\* A sequence number is never used twice, although a refused append uses one
\* up and a restart recomputes the next from the disk.
SequenceFresh == up = "up" => \A i \in 1..Len(records) :
    /\ records[i].seq <= sequence
    /\ i > 1 => records[i - 1].seq < records[i].seq

\* No crash leaves a journal that the next start refuses.
StartsAgain == up # "refused"

\* What a restart recovers is the log of the abstract specification, also
\* while the process is down or its snapshots are being damaged.
KeysOf(rs) == [i \in 1..Len(rs) |-> rs[i].key]
RecoveredKeys == KeysOf(Replayed(lines))
D == INSTANCE DurableLog WITH log <- RecoveredKeys
DurableLogSpec == D!Spec

\* store.py, commit_frame: the frame is fsynced "before acknowledging it".  An
\* answered operation survives any crash.
AnsweredIsRecovered == answered \subseteq Keys(Replayed(lines))
=============================================================================
