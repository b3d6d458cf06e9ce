---------------------------- MODULE JournalProofs ----------------------------
(***************************************************************************)
(* The journal of module Journal, for every bound and every set of keys:     *)
(* what a restart recovers, and under which faults of the environment.       *)
(***************************************************************************)
EXTENDS Journal, TableProofs

-----------------------------------------------------------------------------
(* Selecting the elements of a sequence *)

Nth(K, j) == {i \in K : Cardinality({k \in K : k <= i}) = j}

\* Each place of a selection is taken by exactly one element of K: the
\* largest element is the last, and the others are those without it.
LEMMA NthExists ==
  ASSUME NEW A \in SUBSET Nat, IsFiniteSet(A), NEW j \in 1..Cardinality(A)
  PROVE  Nth(A, j) # {}
  <1> DEFINE Full(K) == \A i \in 1..Cardinality(K) : Nth(K, i) # {}
  <1> DEFINE S == {n \in Nat : \A K \in SUBSET Nat :
                      IsFiniteSet(K) /\ Cardinality(K) = n => Full(K)}
  <1>1. 0 \in S
    OBVIOUS
  <1>2. ASSUME NEW n \in Nat, n \in S
        PROVE  n + 1 \in S
    <2> SUFFICES ASSUME NEW K \in SUBSET Nat, IsFiniteSet(K), Cardinality(K) = n + 1,
                        NEW i \in 1..Cardinality(K)
                 PROVE  Nth(K, i) # {}
      OBVIOUS
    <2>1. K # {}
      BY FS_EmptySet
    <2>2. PICK m \in K : \A k \in K : k <= m
      BY <2>1, LargestExists
    <2> DEFINE C == K \ {m}
    <2>3. IsFiniteSet(C) /\ Cardinality(C) = n /\ C \in SUBSET Nat
      <3>1. IsFiniteSet(C) /\ Cardinality(C) = IF m \in K THEN Cardinality(K) - 1 ELSE Cardinality(K)
        BY FS_RemoveElement, Zenon
      <3> QED
        BY <3>1, <2>2
    <2>4. CASE i = n + 1
      <3>1. {k \in K : k <= m} = K
        BY <2>2
      <3> QED
        BY <3>1, <2>4 DEF Nth
    <2>5. CASE i # n + 1
      <3>1. Full(C)
        BY <1>2, <2>3
      <3>2. i \in 1..Cardinality(C)
        BY <2>3, <2>5
      <3>3. PICK l \in C : Cardinality({k \in C : k <= l}) = i
        BY <3>1, <3>2 DEF Nth
      <3>4. {k \in K : k <= l} = {k \in C : k <= l}
        <4>1. l \in Nat /\ m \in Nat /\ l # m /\ l <= m
          BY <2>2, <3>3
        <4> QED
          BY <4>1
      <3> QED
        BY <3>3, <3>4 DEF Nth
    <2> QED
      BY <2>4, <2>5
  <1>3. Cardinality(A) \in S
    <2> HIDE DEF S
    <2>1. Nat \subseteq S
      BY <1>1, <1>2, SetInduction
    <2> QED
      BY <2>1, FS_CardinalityType
  <1> QED
    BY <1>3

LEMMA SelectType ==
  ASSUME NEW S, NEW T, NEW s \in Seq(T), NEW K \in SUBSET (1..Len(s)), \A i \in K : s[i] \in S
  PROVE  Select(s, K) \in Seq(S)
  <1>1. IsFiniteSet(K) /\ K \in SUBSET Nat
    <2>1. IsFiniteSet(1..Len(s))
      BY FS_Interval
    <2>2. K \subseteq 1..Len(s) /\ Len(s) \in Nat
      OBVIOUS
    <2>3. IsFiniteSet(K)
      BY <2>1, <2>2, FS_Subset, Zenon
    <2> QED
      BY <2>2, <2>3
  <1>2. Cardinality(K) \in Nat
    BY <1>1, FS_CardinalityType
  <1>3. ASSUME NEW j \in 1..Cardinality(K)
        PROVE  s[CHOOSE i \in K : Cardinality({k \in K : k <= i}) = j] \in S
    <2>1. \E i \in K : Cardinality({k \in K : k <= i}) = j
      BY <1>1, NthExists DEF Nth
    <2>2. (CHOOSE i \in K : Cardinality({k \in K : k <= i}) = j) \in K
      BY <2>1
    <2> QED
      BY <2>2
  <1>4. Select(s, K) \in [1..Cardinality(K) -> S]
    BY <1>3 DEF Select
  <1> QED
    BY <1>2, <1>4

\* The elements from one place on are a suffix.
LEMMA SelectSuffix ==
  ASSUME NEW S, NEW s \in Seq(S), NEW n \in 0..Len(s)
  PROVE  /\ DOMAIN Select(s, (n + 1)..Len(s)) = 1..(Len(s) - n)
         /\ \A j \in 1..(Len(s) - n) : Select(s, (n + 1)..Len(s))[j] = s[n + j]
  <1> DEFINE K == (n + 1)..Len(s)
  <1>1. Len(s) \in Nat /\ n \in Nat
    OBVIOUS
  <1> DEFINE a == n + 1
  <1>0. \A b \in Nat : b >= n => Cardinality(a..b) = b - n
    <2> TAKE b \in Nat
    <2>1. a \in Int /\ b \in Int
      BY <1>1
    <2> HIDE DEF a
    <2>2. Cardinality(a..b) = IF a > b THEN 0 ELSE b - a + 1
      BY <2>1, FS_Interval
    <2> USE DEF a
    <2> QED
      BY <2>2, <1>1
  <1>2. Cardinality(K) = Len(s) - n
    BY <1>0, <1>1
  <1>3. \A i \in K : Cardinality({k \in K : k <= i}) = i - n
    <2> TAKE i \in K
    <2>1. {k \in K : k <= i} = (n + 1)..i
      BY <1>1
    <2>2. Cardinality(a..i) = i - n
      BY <1>0, <1>1
    <2> QED
      BY <2>1, <2>2
  <1>4. ASSUME NEW j \in 1..(Len(s) - n)
        PROVE  (CHOOSE i \in K : Cardinality({k \in K : k <= i}) = j) = n + j
    <2>1. n + j \in K /\ Cardinality({k \in K : k <= n + j}) = j
      BY <1>1, <1>3
    <2>2. \A i \in K : Cardinality({k \in K : k <= i}) = j => i = n + j
      BY <1>1, <1>3
    <2> QED
      BY <2>1, <2>2
  <1>5. Select(s, K) = [j \in 1..(Len(s) - n) |-> s[CHOOSE i \in K : Cardinality({k \in K : k <= i}) = j]]
    BY <1>2 DEF Select
  <1> HIDE DEF K
  <1>6. DOMAIN Select(s, K) = 1..(Len(s) - n)
    BY <1>5
  <1>7. \A j \in 1..(Len(s) - n) : Select(s, K)[j] = s[n + j]
    BY <1>4, <1>5
  <1> QED
    BY <1>6, <1>7 DEF K
-----------------------------------------------------------------------------
(* Types *)

Whole == [whole : {TRUE}, rec : Record, newline : BOOLEAN]
Broken == [whole : {FALSE}, newline : BOOLEAN]
Line == Whole \cup Broken
IsSnapshot == [seq : Nat, recs : Seq(Record), valid : BOOLEAN]

TypeInv ==
    /\ faults \in FaultSets
    /\ up \in {"up", "down", "refused"}
    /\ lines \in Seq(Line)
    /\ snaps \in SUBSET IsSnapshot /\ IsFiniteSet(snaps)
    /\ manifest \in Nat
    /\ sequence \in Nat
    /\ records \in Seq(Record)
    /\ answered \in SUBSET Key

LEMMA WholeLines == \A l \in Line : l.whole \in BOOLEAN /\ (l.whole <=> l \in Whole)
  BY DEF Line, Whole, Broken

LEMMA LineFacts ==
  /\ \A r \in Record : Frame(r) \in Whole /\ Frame(r).rec = r /\ Frame(r).newline
  /\ \A r \in Record : LET f == [Frame(r) EXCEPT !.newline = FALSE]
                       IN f \in Whole /\ f.rec = r /\ ~f.newline
  /\ \A n \in BOOLEAN : LET f == [Junk EXCEPT !.newline = n]
                        IN f \in Broken /\ f.newline = n
  BY DEF Frame, Junk, Whole, Broken

LEMMA TruncatedType ==
  ASSUME NEW ls \in Seq(Line)
  PROVE  Truncated(ls) \in Seq(Line)
  <1>1. CASE BadTail(ls)
    <2>1. Len(ls) \in Nat /\ Len(ls) # 0
      BY <1>1, EmptySeq DEF BadTail
    <2>2. SubSeq(ls, 1, Len(ls) - 1) \in Seq(Line)
      BY <2>1, SubSeqProperties
    <2> QED
      BY <1>1, <2>2 DEF Truncated
  <1>2. CASE ~BadTail(ls)
    BY <1>2 DEF Truncated
  <1> QED
    BY <1>1, <1>2

LEMMA ExtendedType ==
  ASSUME lines \in Seq(Line), NEW l \in Line
  PROVE  Extended(l) \in Seq(Line)
  <1>1. CASE lines # <<>> /\ ~lines[Len(lines)].newline
    <2> DEFINE j == [Junk EXCEPT !.newline = l.newline]
    <2>1. l.newline \in BOOLEAN
      BY DEF Line, Whole, Broken
    <2>2. j \in Line
      BY <2>1, LineFacts DEF Line
    <2>3. Len(lines) \in 1..Len(lines)
      BY <1>1, EmptySeq
    <2>4. Extended(l) = [lines EXCEPT ![Len(lines)] = j]
      BY <1>1 DEF Extended
    <2> HIDE DEF j
    <2> QED
      BY <2>2, <2>3, <2>4, ExceptSeq
  <1>2. CASE ~(lines # <<>> /\ ~lines[Len(lines)].newline)
    <2>1. Extended(l) = Append(lines, l)
      BY <1>2 DEF Extended
    <2> QED
      BY <2>1, AppendProperties
  <1> QED
    BY <1>1, <1>2

\* One of the snapshots that decode, or none.
LEMMA LoadedFacts ==
  ASSUME TypeInv
  PROVE  /\ Loaded \in IsSnapshot
         /\ \/ Loaded \in Valid /\ Loaded.seq = manifest
            \/ Loaded = NoSnapshot /\ Valid = {}
            \/ /\ Loaded \in Valid /\ \A s \in Valid : s.seq <= Loaded.seq
               /\ \A s \in Valid : s.seq # manifest
  <1>1. Valid \in SUBSET IsSnapshot /\ IsFiniteSet(Valid)
    <2>1. Valid \subseteq snaps
      BY DEF Valid
    <2>2. IsFiniteSet(Valid)
      BY <2>1, FS_Subset, Zenon DEF TypeInv
    <2> QED
      BY <2>1, <2>2 DEF TypeInv
  <1>2. CASE \E s \in Valid : s.seq = manifest
    <2>1. Loaded = CHOOSE s \in Valid : s.seq = manifest
      BY <1>2 DEF Loaded
    <2>2. Loaded \in Valid /\ Loaded.seq = manifest
      BY <1>2, <2>1
    <2> QED
      BY <1>1, <2>2
  <1>3. CASE Valid = {}
    <2>1. Loaded = NoSnapshot
      BY <1>3 DEF Loaded
    <2>2. NoSnapshot \in IsSnapshot
      BY DEF NoSnapshot, IsSnapshot
    <2> QED
      BY <1>3, <2>1, <2>2
  <1>4. CASE Valid # {} /\ \A s \in Valid : s.seq # manifest
    <2>1. Loaded = CHOOSE s \in Valid : \A t \in Valid : t.seq <= s.seq
      BY <1>4 DEF Loaded
    <2> DEFINE A == {s.seq : s \in Valid}
    <2>2. A \in SUBSET Nat /\ A # {}
      BY <1>1, <1>4 DEF IsSnapshot
    <2>3. IsFiniteSet(A)
      <3>1. \A S : IsFiniteSet(S) => IsFiniteSet({s.seq : s \in S})
        <4> TAKE S
        <4> HAVE IsFiniteSet(S)
        <4> DEFINE f == [s \in S |-> s.seq]
        <4>1. f \in Surjection(S, {s.seq : s \in S})
          BY DEF Surjection
        <4> QED
          BY <4>1, FS_Surjection
      <3> QED
        BY <3>1, <1>1
    <2>4. PICK m \in A : \A k \in A : k <= m
      BY <2>2, <2>3, LargestExists
    <2>5. \E s \in Valid : \A t \in Valid : t.seq <= s.seq
      BY <2>4
    <2>6. Loaded \in Valid /\ \A t \in Valid : t.seq <= Loaded.seq
      BY <2>1, <2>5
    <2> QED
      BY <1>1, <1>4, <2>6
  <1> QED
    BY <1>2, <1>3, <1>4

LEMMA FrameRecordsType ==
  ASSUME NEW ls \in Seq(Whole)
  PROVE  /\ FrameRecords(ls) \in Seq(Record)
         /\ Len(FrameRecords(ls)) = Len(ls)
         /\ \A i \in 1..Len(ls) : FrameRecords(ls)[i] = ls[i].rec
  <1>0. \A l \in Whole : l.rec \in Record
    BY DEF Whole
  <1>1. \A i \in 1..Len(ls) : ls[i].rec \in Record
    BY <1>0
  <1>2. FrameRecords(ls) \in [1..Len(ls) -> Record]
    BY <1>1 DEF FrameRecords
  <1>3. \A i \in 1..Len(ls) : FrameRecords(ls)[i] = ls[i].rec
    BY DEF FrameRecords
  <1> QED
    BY <1>2, <1>3
LEMMA ReplayedType ==
  ASSUME TypeInv
  PROVE  Replayed(lines) \in Seq(Record)
  <1> DEFINE t == Truncated(lines)
  <1> DEFINE K == {i \in 1..Len(t) : Beyond(Loaded, t[i])}
  <1>1. t \in Seq(Line)
    BY TruncatedType DEF TypeInv
  <1>2. \A i \in 1..Len(t) : t[i] \in Line
    BY <1>1
  <1>3. \A i \in K : t[i] \in Whole
    BY <1>2, WholeLines DEF Beyond
  <1>4. Replayed(lines) = Loaded.recs \o FrameRecords(Select(t, K))
    BY DEF Replayed
  <1>5. K \in SUBSET (1..Len(t))
    OBVIOUS
  <1> HIDE DEF t, K
  <1>6. Select(t, K) \in Seq(Whole)
    BY <1>1, <1>3, <1>5, SelectType
  <1>7. FrameRecords(Select(t, K)) \in Seq(Record)
    BY <1>6, FrameRecordsType
  <1>8. Loaded.recs \in Seq(Record)
    BY LoadedFacts DEF IsSnapshot
  <1> QED
    BY <1>4, <1>7, <1>8, ConcatProperties

LEMMA ContinuesType ==
  ASSUME TypeInv, NEW rs \in Seq(Record)
  PROVE  /\ Continues(rs) \in Nat
         /\ Loaded.seq \in Nat /\ Continues(rs) >= Loaded.seq
         /\ rs # <<>> => Continues(rs) >= rs[Len(rs)].seq
         /\ rs = <<>> => Continues(rs) = Loaded.seq
         /\ rs # <<>> /\ Loaded.seq <= rs[Len(rs)].seq => Continues(rs) = rs[Len(rs)].seq
  <1>1. Loaded.seq \in Nat
    BY LoadedFacts DEF IsSnapshot
  <1>2. \A r \in Record : r.seq \in Nat
    BY DEF Record
  <1>3. rs # <<>> => rs[Len(rs)].seq \in Nat
    BY <1>2, EmptySeq
  <1> QED
    BY <1>1, <1>3 DEF Continues

LEMMA SavedFacts ==
  ASSUME TypeInv
  PROVE  /\ Saved \in SUBSET IsSnapshot /\ IsFiniteSet(Saved)
         /\ Snapshot(sequence, records) \in Saved
         /\ Snapshot(sequence, records).seq = sequence
         /\ Snapshot(sequence, records).recs = records
         /\ Snapshot(sequence, records).valid
         /\ \A s \in Saved : (s \in snaps /\ s.seq # sequence) \/ s = Snapshot(sequence, records)
         /\ \A s \in snaps : s.seq # sequence => s \in Saved
  <1> DEFINE old == {s \in snaps : s.seq # sequence}
  <1>1. IsFiniteSet(old)
    BY FS_Subset, Zenon DEF TypeInv
  <1>2. Saved = old \cup {Snapshot(sequence, records)}
    BY DEF Saved
  <1>3. /\ Snapshot(sequence, records) \in IsSnapshot
        /\ Snapshot(sequence, records).seq = sequence
        /\ Snapshot(sequence, records).recs = records
        /\ Snapshot(sequence, records).valid
    BY DEF Snapshot, IsSnapshot, TypeInv
  <1>4. IsFiniteSet(Saved)
    BY <1>1, <1>2, FS_AddElement
  <1> QED
    BY <1>2, <1>3, <1>4 DEF TypeInv

LEMMA DamagedFacts ==
  ASSUME TypeInv, NEW s \in snaps
  PROVE  /\ [s EXCEPT !.valid = FALSE] \in IsSnapshot
         /\ [s EXCEPT !.valid = FALSE].seq = s.seq
         /\ ~[s EXCEPT !.valid = FALSE].valid
         /\ (snaps \ {s}) \cup {[s EXCEPT !.valid = FALSE]} \in SUBSET IsSnapshot
         /\ IsFiniteSet((snaps \ {s}) \cup {[s EXCEPT !.valid = FALSE]})
  <1> DEFINE d == [s EXCEPT !.valid = FALSE]
  <1>1. s \in IsSnapshot
    BY DEF TypeInv
  <1>2. d \in IsSnapshot /\ d.seq = s.seq /\ ~d.valid
    BY <1>1 DEF IsSnapshot
  <1>3. IsFiniteSet(snaps \ {s})
    BY FS_Difference, Zenon DEF TypeInv
  <1> HIDE DEF d
  <1>4. IsFiniteSet((snaps \ {s}) \cup {d})
    BY <1>3, FS_AddElement
  <1>5. (snaps \ {s}) \cup {d} \in SUBSET IsSnapshot
    BY <1>2 DEF TypeInv
  <1> QED
    BY <1>2, <1>4, <1>5 DEF d
\* What the file may look like after a crash in an append.
Torn(k) == {Extended([Junk EXCEPT !.newline = FALSE]), Extended(FrameOf(k)),
            Extended([FrameOf(k) EXCEPT !.newline = FALSE])}

LEMMA FrameOfFacts ==
  ASSUME TypeInv, NEW k \in Key
  PROVE  /\ FrameOf(k).rec = [seq |-> sequence + 1, key |-> k]
         /\ FrameOf(k).rec \in Record
         /\ FrameOf(k) = Frame(FrameOf(k).rec)
         /\ FrameOf(k) \in Whole /\ FrameOf(k).newline
  <1> DEFINE r == [seq |-> sequence + 1, key |-> k]
  <1>1. r \in Record
    BY DEF Record, TypeInv
  <1>2. FrameOf(k) = Frame(r)
    BY DEF FrameOf
  <1>3. Frame(r) \in Whole /\ Frame(r).rec = r /\ Frame(r).newline
    BY <1>1, LineFacts
  <1> QED
    BY <1>1, <1>2, <1>3

LEMMA TornType ==
  ASSUME TypeInv, NEW k \in Key, NEW ls \in Torn(k)
  PROVE  ls \in Seq(Line)
  <1>1. [Junk EXCEPT !.newline = FALSE] \in Line
    BY LineFacts DEF Line
  <1>2. FrameOf(k) \in Line /\ [FrameOf(k) EXCEPT !.newline = FALSE] \in Line
    <2>1. [Frame(FrameOf(k).rec) EXCEPT !.newline = FALSE] \in Whole
      BY FrameOfFacts, LineFacts
    <2> QED
      BY <2>1, FrameOfFacts DEF Line
  <1> QED
    BY <1>1, <1>2, ExtendedType DEF Torn, TypeInv

LEMMA TypeStep ==
  ASSUME TypeInv, [Next]_vars
  PROVE  TypeInv'
  <1>1. CASE Restart
    <2>1. Truncated(lines) \in Seq(Line)
      BY TruncatedType DEF TypeInv
    <2>2. Replayed(lines) \in Seq(Record)
      BY ReplayedType
    <2>3. Continues(Replayed(lines)) \in Nat
      BY <2>2, ContinuesType
    <2> QED
      BY <1>1, <2>1, <2>2, <2>3 DEF TypeInv, Restart, memory, bounds
  <1>2. CASE TakeSnapshot
    BY <1>2, SavedFacts DEF TypeInv, TakeSnapshot, memory, bounds
  <1>3. ASSUME NEW ls \in Seq(Line), NEW sn \in SUBSET IsSnapshot, IsFiniteSet(sn), Dies(ls, sn)
        PROVE  TypeInv'
    BY <1>3 DEF TypeInv, Dies
  <1>4. CASE Crash
    BY <1>4, <1>3 DEF TypeInv, Crash
  <1>5. CASE CrashInSnapshot
    BY <1>5, <1>3, SavedFacts DEF TypeInv, CrashInSnapshot
  <1>6. ASSUME NEW k \in Key, Commit(k)
        PROVE  TypeInv'
    <2>1. FrameOf(k) \in Line /\ FrameOf(k).rec \in Record
      BY FrameOfFacts DEF Line
    <2>2. Extended(FrameOf(k)) \in Seq(Line)
      BY <2>1, ExtendedType DEF TypeInv
    <2>3. Append(records, FrameOf(k).rec) \in Seq(Record)
      BY <2>1, AppendProperties DEF TypeInv
    <2> QED
      BY <1>6, <2>2, <2>3 DEF TypeInv, Commit, bounds
  <1>7. ASSUME NEW k \in Key, Retry(k)
        PROVE  TypeInv'
    BY <1>7 DEF TypeInv, Retry, disk, memory, bounds
  <1>8. ASSUME NEW k \in Key, RefusedByCapacity(k)
        PROVE  TypeInv'
    BY <1>8 DEF TypeInv, RefusedByCapacity, disk, bounds
  <1>9. ASSUME NEW k \in Key, AppendFails(k)
        PROVE  TypeInv'
    <2>1. /\ Extended([Junk EXCEPT !.newline = FALSE]) \in Seq(Line)
          /\ Extended(FrameOf(k)) \in Seq(Line)
      BY TornType DEF Torn
    <2> QED
      BY <1>9, <2>1 DEF TypeInv, AppendFails, bounds
  <1>10. ASSUME NEW k \in Key, CrashInAppend(k)
         PROVE  TypeInv'
    <2>1. \E ls \in Torn(k) : Dies(ls, snaps)
      BY <1>10 DEF CrashInAppend, Torn
    <2> QED
      BY <2>1, <1>3, TornType DEF TypeInv
  <1>11. CASE DamageManifest
    BY <1>11 DEF TypeInv, DamageManifest, memory
  <1>12. ASSUME NEW s \in snaps, Damage(s)
         PROVE  TypeInv'
    BY <1>12, DamagedFacts DEF TypeInv, Damage, memory
  <1>13. CASE UNCHANGED vars
    BY <1>13 DEF TypeInv, vars
  <1> QED
    BY <1>1, <1>2, <1>4, <1>5, <1>6, <1>7, <1>8, <1>9, <1>10, <1>11, <1>12, <1>13 DEF Next

LEMMA TypeInit ==
  ASSUME Init
  PROVE  TypeInv
  <1>1. <<>> \in Seq(Line) /\ <<>> \in Seq(Record)
    OBVIOUS
  <1> QED
    BY <1>1, FS_EmptySet DEF Init, TypeInv

\* The journal, its snapshots and the records in memory are well formed, with
\* whatever faults.
THEOREM TypeCorrect == Spec => []TypeOK
  <1>1. Init => TypeInv
    BY TypeInit
  <1>2. TypeInv /\ [Next]_vars => TypeInv'
    BY TypeStep
  <1>3. TypeInv => TypeOK
    <2> SUFFICES ASSUME TypeInv PROVE TypeOK
      OBVIOUS
    <2>1. faults \subseteq Fault
      BY JournalAssumption DEF TypeInv
    <2>2. \A i \in 1..Len(lines) : lines[i] \in Line
      BY DEF TypeInv
    <2>3. \A s \in snaps : s.seq \in Nat /\ s.valid \in BOOLEAN
      BY DEF TypeInv, IsSnapshot
    <2>4. \A i \in 1..Len(records) : records[i] \in Record
      BY DEF TypeInv
    <2> QED
      BY <2>1, <2>2, <2>3, <2>4 DEF TypeInv, TypeOK, Line, Whole, Broken
  <1> QED
    BY <1>1, <1>2, <1>3, PTL DEF Spec
-----------------------------------------------------------------------------
(* The file: only the last line can be broken, and then nothing more is       *)
(* written until somebody starts the process again.                          *)

WholeLinesEnd == faults \cap {"halfway", "newline"} = {}

Ends(l) == l.whole <=> l.newline

FileInv ==
    /\ \A i \in 1..Len(lines) : Ends(lines[i])
    /\ \A i \in 1..Len(lines) - 1 : lines[i].whole
    /\ up = "up" /\ BadTail(lines) => "full" \in faults
    /\ up # "refused"

LEMMA PrefixFacts ==
  ASSUME NEW S, NEW s \in Seq(S), NEW n \in 0..Len(s)
  PROVE  /\ SubSeq(s, 1, n) \in Seq(S) /\ Len(SubSeq(s, 1, n)) = n
         /\ \A i \in 1..n : SubSeq(s, 1, n)[i] = s[i]
  <1>1. n \in Nat /\ Len(s) \in Nat /\ \A i \in 1..n : s[i] \in S
    OBVIOUS
  <1>2. /\ SubSeq(s, 1, n) \in Seq(S)
        /\ Len(SubSeq(s, 1, n)) = IF 1 <= n THEN n - 1 + 1 ELSE 0
        /\ \A i \in 1..n - 1 + 1 : SubSeq(s, 1, n)[i] = s[1 + i - 1]
    BY <1>1, SubSeqProperties
  <1> QED
    BY <1>1, <1>2

LEMMA TruncatedFacts ==
  ASSUME TypeInv, FileInv
  PROVE  /\ Truncated(lines) \in Seq(Whole)
         /\ ~BadTail(Truncated(lines)) /\ Truncated(Truncated(lines)) = Truncated(lines)
         /\ Len(Truncated(lines)) <= Len(lines)
         /\ \A i \in 1..Len(Truncated(lines)) : Truncated(lines)[i] = lines[i]
         /\ ~BadTail(lines) => Truncated(lines) = lines
  <1> DEFINE t == Truncated(lines)
  <1>1. Len(lines) \in Nat /\ \A i \in 1..Len(lines) : lines[i] \in Line
    BY DEF TypeInv
  <1>2. CASE BadTail(lines)
    <2>1. Len(lines) # 0
      BY <1>2, EmptySeq DEF BadTail, TypeInv
    <2>2. t = SubSeq(lines, 1, Len(lines) - 1)
      BY <1>2 DEF Truncated
    <2>3. /\ t \in Seq(Line) /\ Len(t) = Len(lines) - 1
          /\ \A i \in 1..Len(t) : t[i] = lines[i]
      <3>1. Len(lines) - 1 \in 0..Len(lines)
        BY <1>1, <2>1
      <3> HIDE DEF t
      <3> QED
        BY <2>2, <3>1, PrefixFacts DEF TypeInv
    <2>4. \A i \in 1..Len(t) : t[i].whole /\ t[i] \in Whole
      BY <1>1, <2>3, WholeLines DEF FileInv
    <2> HIDE DEF t
    <2>5. t \in Seq(Whole)
      BY <2>3, <2>4
    <2>6. ~BadTail(t)
      BY <2>3, <2>4 DEF BadTail
    <2>7. Truncated(t) = t
      BY <2>6 DEF Truncated
    <2> QED
      BY <1>1, <1>2, <2>3, <2>5, <2>6, <2>7 DEF t
  <1>3. CASE ~BadTail(lines)
    <2>1. t = lines
      BY <1>3 DEF Truncated
    <2>2. \A i \in 1..Len(lines) : lines[i].whole
      BY <1>1, <1>3, EmptySeq DEF BadTail, FileInv, TypeInv
    <2>3. \A i \in 1..Len(lines) : lines[i] \in Whole
      BY <1>1, <2>2, WholeLines
    <2>4. lines \in Seq(Whole)
      BY <1>1, <2>3 DEF TypeInv
    <2> QED
      BY <1>1, <1>3, <2>1, <2>4
  <1> QED
    BY <1>2, <1>3

\* A line after whole lines is a line of its own.
LEMMA ExtendedWhole ==
  ASSUME TypeInv, FileInv, ~BadTail(lines), NEW l
  PROVE  Extended(l) = Append(lines, l)
  <1>1. lines # <<>> => Len(lines) \in 1..Len(lines)
    BY EmptySeq DEF TypeInv
  <1>2. lines # <<>> => lines[Len(lines)].newline
    BY <1>1 DEF BadTail, FileInv, Ends
  <1> QED
    BY <1>2 DEF Extended

\* What a broken write leaves is a broken last line, which truncation removes.
LEMMA ExtendedBroken ==
  ASSUME TypeInv, FileInv, NEW j, j = [Junk EXCEPT !.newline = FALSE]
  PROVE  /\ BadTail(Extended(j)) /\ Truncated(Extended(j)) = Truncated(lines)
         /\ \A i \in 1..Len(Extended(j)) : Ends(Extended(j)[i])
         /\ \A i \in 1..Len(Extended(j)) - 1 : Extended(j)[i].whole
  <1>1. j \in Broken /\ ~j.newline /\ ~j.whole /\ j \in Line /\ [Junk EXCEPT !.newline = j.newline] = j
    BY LineFacts DEF Junk, Line, Broken
  <1>0. Ends(j)
    BY <1>1 DEF Ends
  <1> DEFINE e == Extended(j)
  <1> DEFINE n == Len(lines)
  <1>2. n \in Nat /\ lines \in Seq(Line)
    BY DEF TypeInv
  <1>3. CASE BadTail(lines)
    <2>1. n # 0 /\ n \in 1..n
      BY <1>2, <1>3, EmptySeq DEF BadTail
    <2>2. ~lines[n].whole /\ ~lines[n].newline
      BY <1>3, <2>1 DEF BadTail, FileInv, Ends
    <2>3. e = [lines EXCEPT ![n] = j]
      BY <1>1, <1>3, <2>2 DEF Extended, BadTail
    <2> HIDE DEF e
    <2>4. e \in Seq(Line) /\ Len(e) = n /\ e[n] = j /\ \A i \in 1..n - 1 : e[i] = lines[i]
      BY <1>1, <1>2, <2>1, <2>3, ExceptSeq
    <2>5. BadTail(e)
      BY <1>1, <2>1, <2>4 DEF BadTail
    <2>6. SubSeq(e, 1, n - 1) = SubSeq(lines, 1, n - 1)
      <3> DEFINE u == SubSeq(e, 1, n - 1)
      <3> DEFINE v == SubSeq(lines, 1, n - 1)
      <3>0. n - 1 \in 0..n
        BY <1>2, <2>1
      <3>1. u \in Seq(Line) /\ Len(u) = n - 1 /\ \A i \in 1..n - 1 : u[i] = e[i]
        BY <2>4, <3>0, PrefixFacts
      <3>2. v \in Seq(Line) /\ Len(v) = n - 1 /\ \A i \in 1..n - 1 : v[i] = lines[i]
        BY <1>2, <3>0, PrefixFacts
      <3> HIDE DEF u, v
      <3>3. u = v
        BY <2>4, <3>1, <3>2, SeqEqual
      <3> QED
        BY <3>3 DEF u, v
    <2>7. Truncated(e) = Truncated(lines)
      BY <1>3, <2>4, <2>5, <2>6 DEF Truncated
    <2>8. \A i \in 1..n : Ends(e[i])
      BY <1>0, <1>2, <2>4 DEF FileInv
    <2>9. \A i \in 1..n - 1 : e[i].whole
      BY <1>2, <2>4 DEF FileInv
    <2> QED
      BY <2>4, <2>5, <2>7, <2>8, <2>9 DEF e
  <1>4. CASE ~BadTail(lines)
    <2>1. e = Append(lines, j)
      BY <1>4, ExtendedWhole
    <2> HIDE DEF e
    <2>2. /\ e \in Seq(Line) /\ Len(e) = n + 1 /\ e[n + 1] = j
          /\ \A i \in 1..n : e[i] = lines[i]
      BY <1>1, <1>2, <2>1, AppendProperties
    <2>3. BadTail(e)
      BY <1>1, <1>2, <2>2, EmptySeq DEF BadTail
    <2>4. SubSeq(e, 1, n) = lines
      <3>1. /\ SubSeq(e, 1, n) \in Seq(Line) /\ Len(SubSeq(e, 1, n)) = n
            /\ \A i \in 1..n : SubSeq(e, 1, n)[i] = e[i]
        BY <1>2, <2>2, SubSeqProperties
      <3> QED
        BY <1>2, <2>2, <3>1, SeqEqual
    <2>5. Truncated(e) = Truncated(lines)
      BY <1>2, <1>4, <2>2, <2>3, <2>4 DEF Truncated
    <2>6. \A i \in 1..n : lines[i].whole
      BY <1>2, <1>4, EmptySeq DEF BadTail, FileInv
    <2>7. \A i \in 1..n + 1 : Ends(e[i])
      BY <1>0, <1>2, <2>2 DEF FileInv
    <2>8. \A i \in 1..n : e[i].whole
      BY <2>2, <2>6
    <2>9. \A i \in 1..Len(e) : Ends(e[i])
      BY <2>2, <2>7
    <2>10. \A i \in 1..Len(e) - 1 : e[i].whole
      BY <1>2, <2>2, <2>8
    <2> QED
      BY <2>3, <2>5, <2>9, <2>10 DEF e
  <1> QED
    BY <1>3, <1>4

\* A frame after whole lines: the file stays whole.
LEMMA ExtendedFrame ==
  ASSUME TypeInv, FileInv, ~BadTail(lines), NEW k \in Key
  PROVE  LET e == Extended(FrameOf(k))
         IN /\ e = Append(lines, FrameOf(k)) /\ Len(e) = Len(lines) + 1
            /\ ~BadTail(e)
            /\ \A i \in 1..Len(e) : Ends(e[i])
            /\ \A i \in 1..Len(e) : e[i].whole
  <1> DEFINE e == Extended(FrameOf(k))
  <1> DEFINE n == Len(lines)
  <1>1. n \in Nat /\ lines \in Seq(Line)
    BY DEF TypeInv
  <1>2. e = Append(lines, FrameOf(k))
    BY ExtendedWhole
  <1>3. FrameOf(k) \in Whole /\ FrameOf(k).newline /\ FrameOf(k).whole /\ FrameOf(k) \in Line
    BY FrameOfFacts, WholeLines DEF Line
  <1>4. /\ e \in Seq(Line) /\ Len(e) = n + 1 /\ e[n + 1] = FrameOf(k)
        /\ \A i \in 1..n : e[i] = lines[i]
    BY <1>1, <1>2, <1>3, AppendProperties
  <1>5. \A i \in 1..n : lines[i].whole
    BY <1>1, EmptySeq DEF BadTail, FileInv
  <1> HIDE DEF e
  <1>6. \A i \in 1..n + 1 : e[i].whole /\ Ends(e[i])
    BY <1>1, <1>3, <1>4, <1>5 DEF FileInv, Ends
  <1>7. ~BadTail(e)
    BY <1>1, <1>4, <1>6 DEF BadTail
  <1>8. \A i \in 1..Len(e) : e[i].whole /\ Ends(e[i])
    BY <1>4, <1>6
  <1> QED
    BY <1>2, <1>4, <1>7, <1>8 DEF e
LEMMA FileStep ==
  ASSUME TypeInv, FileInv, WholeLinesEnd, [Next]_vars
  PROVE  FileInv'
  <1> DEFINE File(ls) == /\ \A i \in 1..Len(ls) : Ends(ls[i])
                         /\ \A i \in 1..Len(ls) - 1 : ls[i].whole
  <1>1. File(lines)
    BY DEF FileInv
  <1>2. "halfway" \notin faults /\ "newline" \notin faults
    BY DEF WholeLinesEnd
  <1>3. ASSUME UNCHANGED <<faults, lines, up>> PROVE FileInv'
    BY <1>3 DEF FileInv, BadTail, Ends
  <1>4. ASSUME NEW ls, File(ls), lines' = ls, up' = "down" PROVE FileInv'
    BY <1>4 DEF FileInv
  <1>5. CASE Restart
    <2>1. ~Refuses /\ up = "down"
      BY <1>5 DEF Restart, Refuses, FileInv
    <2>2. lines' = Truncated(lines) /\ up' = "up"
      BY <1>5, <2>1 DEF Restart
    <2>3. /\ Truncated(lines) \in Seq(Whole) /\ Len(Truncated(lines)) <= Len(lines)
          /\ ~BadTail(Truncated(lines))
          /\ \A i \in 1..Len(Truncated(lines)) : Truncated(lines)[i] = lines[i]
      BY TruncatedFacts
    <2>4. Len(lines) \in Nat /\ Len(Truncated(lines)) \in Nat
      BY <2>3 DEF TypeInv
    <2>5. \A i \in 1..Len(Truncated(lines)) : i \in 1..Len(lines)
      BY <2>3, <2>4
    <2>6. \A i \in 1..Len(Truncated(lines)) : Ends(Truncated(lines)[i])
      BY <1>1, <2>3, <2>5
    <2>7. \A i \in 1..Len(Truncated(lines)) - 1 : Truncated(lines)[i].whole
      BY <1>1, <2>3, <2>4
    <2>8. ~BadTail(lines')
      BY <2>2, <2>3
    <2> QED
      BY <2>2, <2>6, <2>7, <2>8 DEF FileInv
  <1>6. CASE TakeSnapshot
    BY <1>3, <1>6 DEF TakeSnapshot, memory, bounds
  <1>7. CASE Crash
    BY <1>1, <1>4, <1>7 DEF Crash, Dies
  <1>8. CASE CrashInSnapshot
    BY <1>1, <1>4, <1>8 DEF CrashInSnapshot, Dies
  <1>9. ASSUME NEW k \in Key, MayWrite(k)
        PROVE  ~BadTail(lines) /\ File(Extended(FrameOf(k))) /\ ~BadTail(Extended(FrameOf(k)))
    <2>1. ~BadTail(lines)
      BY <1>9 DEF MayWrite, MayCommit, FileInv
    <2>2. Len(Extended(FrameOf(k))) \in Nat
      BY <2>1, ExtendedFrame DEF TypeInv
    <2> QED
      BY <2>1, <2>2, ExtendedFrame
  <1>10. ASSUME NEW k \in Key, Commit(k)
         PROVE  FileInv'
    <2>1. File(Extended(FrameOf(k))) /\ ~BadTail(Extended(FrameOf(k)))
      BY <1>9, <1>10 DEF Commit
    <2> HIDE DEF File
    <2>2. lines' = Extended(FrameOf(k)) /\ up' = up
      BY <1>10 DEF Commit
    <2>3. File(lines') /\ ~BadTail(lines')
      BY <2>1, <2>2
    <2> USE DEF File
    <2> QED
      BY <2>2, <2>3 DEF FileInv
  <1>11. ASSUME NEW k \in Key, Retry(k)
         PROVE  FileInv'
    BY <1>3, <1>11 DEF Retry, disk, bounds
  <1>12. ASSUME NEW k \in Key, RefusedByCapacity(k)
         PROVE  FileInv'
    BY <1>3, <1>12 DEF RefusedByCapacity, disk, bounds
  <1>13. File(Extended([Junk EXCEPT !.newline = FALSE]))
    BY ExtendedBroken
  <1>14. ASSUME NEW k \in Key, AppendFails(k)
         PROVE  FileInv'
    <2>1. up' = up /\ faults' = faults
      BY <1>14 DEF AppendFails, bounds
    <2>2. CASE "full" \in faults /\ lines' = Extended([Junk EXCEPT !.newline = FALSE])
      <3> HIDE DEF File
      <3>1. File(lines')
        BY <1>13, <2>2
      <3> USE DEF File
      <3> QED
        BY <2>1, <2>2, <3>1 DEF FileInv
    <2>3. CASE MayWrite(k) /\ lines' = Extended(FrameOf(k))
      <3>1. ~BadTail(lines)
        BY <2>3 DEF MayWrite, MayCommit, FileInv
      <3>2. /\ ~BadTail(lines') /\ \A i \in 1..Len(lines') : Ends(lines'[i])
            /\ \A i \in 1..Len(lines') : lines'[i].whole
        BY <2>3, <3>1, ExtendedFrame
      <3>3. \A i \in 1..Len(lines') - 1 : i \in 1..Len(lines')
        BY TypeStep DEF TypeInv
      <3> QED
        BY <2>1, <3>2, <3>3 DEF FileInv
    <2> QED
      BY <1>2, <1>14, <2>2, <2>3 DEF AppendFails
  <1>15. ASSUME NEW k \in Key, CrashInAppend(k)
         PROVE  FileInv'
    <2>1. \/ Dies(Extended([Junk EXCEPT !.newline = FALSE]), snaps)
          \/ Dies(Extended(FrameOf(k)), snaps)
      BY <1>2, <1>15 DEF CrashInAppend
    <2>2. File(Extended(FrameOf(k)))
      BY <1>9, <1>15 DEF CrashInAppend
    <2> HIDE DEF File
    <2> QED
      BY <1>4, <1>13, <2>1, <2>2 DEF Dies
  <1>16. CASE DamageManifest
    BY <1>3, <1>16 DEF DamageManifest
  <1>17. ASSUME NEW s \in snaps, Damage(s)
         PROVE  FileInv'
    BY <1>3, <1>17 DEF Damage
  <1>18. CASE UNCHANGED vars
    BY <1>3, <1>18 DEF vars
  <1> QED
    BY <1>5, <1>6, <1>7, <1>8, <1>10, <1>11, <1>12, <1>14, <1>15, <1>16, <1>17, <1>18 DEF Next

LEMMA FileInit ==
  ASSUME Init
  PROVE  FileInv
  BY DEF Init, FileInv, BadTail

\* The faults of a behaviour are its environment's.
LEMMA FaultsStay ==
  ASSUME [Next]_vars
  PROVE  faults' = faults
  BY DEF Next, vars, bounds, Restart, TakeSnapshot, Crash, CrashInSnapshot, Dies, Commit, Retry,
         RefusedByCapacity, AppendFails, CrashInAppend, DamageManifest, Damage

\* The process starts again after any crash (LocalJournal._load), in an environment
\* where no write that failed halfway is followed by one that succeeds and no crash
\* takes only the newline of a frame.
THEOREM AlwaysStartsAgain == Spec /\ WholeLinesEnd => []StartsAgain
  <1>1. Init => TypeInv /\ FileInv
    BY TypeInit, FileInit
  <1>2. TypeInv /\ FileInv /\ WholeLinesEnd /\ [Next]_vars
           => (TypeInv /\ FileInv /\ WholeLinesEnd)'
    BY TypeStep, FileStep, FaultsStay DEF WholeLinesEnd
  <1>3. FileInv => StartsAgain
    BY DEF FileInv, StartsAgain
  <1> QED
    BY <1>1, <1>2, <1>3, PTL DEF Spec
-----------------------------------------------------------------------------
(* The log: the records of the file.  Every snapshot a restart may load is    *)
(* a prefix of it, and its sequence tells which.                             *)

Log(ls) == FrameRecords(Truncated(ls))

\* The environments in which memory is what a restart recovers.  In others a broken
\* line that is not the last one hides a frame (halfway, newline); or a frame was
\* written and not acknowledged, and is on the disk but not in memory (fsync); or the
\* sequence of a snapshot is ahead of the records it holds, because appends were
\* refused or failed, and the snapshot before it is loaded, because this one is
\* damaged: the numbers up to it are handed out again.
FaultsApart ==
    /\ faults \cap {"halfway", "newline", "fsync"} = {}
    /\ "damage" \in faults => faults \cap {"capacity", "full"} = {}

Top(L) == IF L = <<>> THEN 0 ELSE L[Len(L)].seq
Ordered(L) ==
    /\ \A i \in 1..Len(L) : L[i].seq > 0
    /\ \A i, j \in 1..Len(L) : i < j => L[i].seq < L[j].seq
Holds(s, L, n) ==
    /\ s.recs = SubSeq(L, 1, n)
    /\ \A i \in 1..Len(L) : i <= n <=> L[i].seq <= s.seq
Good(s, L) == \E n \in 0..Len(L) : Holds(s, L, n)

Damaging == "damage" \in faults

\* The snapshots that a restart may load.
Trusted == {s \in snaps : s.valid /\ (Damaging \/ manifest = 0 \/ s.seq = manifest)}

LogInv ==
    /\ Ordered(Log(lines))
    /\ answered \subseteq Keys(Log(lines))
    /\ up = "up" => /\ records = Log(lines)
                    /\ \A i \in 1..Len(records) : records[i].seq <= sequence
SnapsInv ==
    /\ \A s \in snaps : s.seq > 0
    /\ \A s \in Trusted : Good(s, Log(lines))
    /\ up = "up" => \A s \in Trusted : s.seq <= sequence
    /\ ~Damaging => /\ \A s \in snaps : s.valid
                    /\ manifest # 0 => \E s \in snaps : s.seq = manifest
    /\ Damaging => /\ \A s \in snaps : s.seq <= Top(Log(lines))
                   /\ up = "up" => sequence = Top(Log(lines))

RecoveryInv == LogInv /\ SnapsInv

LEMMA LogType ==
  ASSUME TypeInv, FileInv
  PROVE  Log(lines) \in Seq(Record) /\ Len(Log(lines)) = Len(Truncated(lines))
  BY TruncatedFacts, FrameRecordsType DEF Log

LEMMA TopFacts ==
  ASSUME NEW L \in Seq(Record), Ordered(L)
  PROVE  /\ Top(L) \in Nat
         /\ \A i \in 1..Len(L) : L[i].seq <= Top(L)
  <1>1. \A r \in Record : r.seq \in Nat
    BY DEF Record
  <1>2. CASE L = <<>>
    BY <1>2 DEF Top
  <1>3. CASE L # <<>>
    <2>1. Len(L) \in 1..Len(L) /\ Top(L) = L[Len(L)].seq
      BY <1>3, EmptySeq DEF Top
    <2>2. \A i \in 1..Len(L) : L[i].seq \in Nat
      BY <1>1
    <2>3. \A i \in 1..Len(L) : i = Len(L) \/ i < Len(L)
      OBVIOUS
    <2>4. \A i \in 1..Len(L) : i < Len(L) => L[i].seq < L[Len(L)].seq
      BY <2>1 DEF Ordered
    <2> QED
      BY <2>1, <2>2, <2>3, <2>4
  <1> QED
    BY <1>2, <1>3

\* The snapshot that is loaded is a prefix of the log, no snapshot that may be
\* loaded is newer, and what is replayed after it completes the log.
LEMMA LoadedIsGood ==
  ASSUME TypeInv, FileInv, RecoveryInv
  PROVE  /\ Good(Loaded, Log(lines))
         /\ \A s \in Trusted : Damaging \/ s.seq <= Loaded.seq
         /\ Damaging => Loaded.seq <= Top(Log(lines))
  <1> DEFINE L == Log(lines)
  <1>0. L \in Seq(Record) /\ Len(L) \in Nat /\ Ordered(L) /\ Top(L) \in Nat
    BY LogType, TopFacts DEF RecoveryInv, LogInv
  <1>1. CASE Loaded \in Valid /\ Loaded.seq = manifest
    <2>1. Loaded \in Trusted /\ Loaded \in snaps
      BY <1>1 DEF Trusted, Valid
    <2>2. manifest # 0
      BY <1>1, <2>1 DEF RecoveryInv, SnapsInv, TypeInv
    <2>3. \A s \in Trusted : Damaging \/ s.seq <= Loaded.seq
      BY <1>1, <2>2 DEF Trusted, TypeInv
    <2> QED
      BY <2>1, <2>3 DEF RecoveryInv, SnapsInv
  <1>2. CASE Loaded = NoSnapshot /\ Valid = {}
    <2>1. Loaded.recs = <<>> /\ Loaded.seq = 0
      BY <1>2 DEF NoSnapshot
    <2>2. SubSeq(L, 1, 0) = <<>>
      <3> HIDE DEF L
      <3> QED
        BY <1>0, PrefixFacts, EmptySeq
    <2>3. \A r \in Record : r.seq \in Nat
      BY DEF Record
    <2>4. Holds(Loaded, L, 0)
      <3>1. \A i \in 1..Len(L) : L[i].seq > 0 /\ L[i].seq \in Nat
        BY <1>0, <2>3 DEF Ordered
      <3> HIDE DEF L
      <3> QED
        BY <1>0, <2>1, <2>2, <3>1 DEF Holds
    <2>5. Trusted = {}
      BY <1>2 DEF Trusted, Valid
    <2> QED
      BY <1>0, <2>1, <2>4, <2>5 DEF Good
  <1>3. CASE /\ Loaded \in Valid /\ \A s \in Valid : s.seq <= Loaded.seq
             /\ \A s \in Valid : s.seq # manifest
    <2>1. Loaded \in snaps /\ Loaded.valid
      BY <1>3 DEF Valid
    <2>2. Damaging \/ manifest = 0
      BY <1>3 DEF RecoveryInv, SnapsInv, Valid
    <2>3. Loaded \in Trusted
      BY <2>1, <2>2 DEF Trusted
    <2>4. \A s \in Trusted : s \in Valid
      BY DEF Trusted, Valid
    <2> QED
      BY <1>3, <2>1, <2>3, <2>4 DEF RecoveryInv, SnapsInv
  <1> QED
    BY <1>1, <1>2, <1>3, LoadedFacts

LEMMA ReplayedIsLog ==
  ASSUME TypeInv, FileInv, RecoveryInv
  PROVE  Replayed(lines) = Log(lines)
  <1> DEFINE t == Truncated(lines)
  <1> DEFINE L == Log(lines)
  <1>1. t \in Seq(Whole) /\ Len(t) \in Nat
    BY TruncatedFacts
  <1>2. L \in Seq(Record) /\ Len(L) = Len(t) /\ \A i \in 1..Len(t) : L[i] = t[i].rec
    BY <1>1, FrameRecordsType DEF Log
  <1>3. PICK n \in 0..Len(L) : Holds(Loaded, L, n)
    BY LoadedIsGood DEF Good
  <1>4. Loaded.seq \in Nat /\ \A r \in Record : r.seq \in Nat
    BY LoadedFacts DEF IsSnapshot, Record
  <1> HIDE DEF t, L
  <1>5. \A i \in 1..Len(t) : Beyond(Loaded, t[i]) <=> i > n
    <2> TAKE i \in 1..Len(t)
    <2>1. t[i].whole
      <3>1. t[i] \in Whole /\ t[i] \in Line
        BY <1>1 DEF Line
      <3> QED
        BY <3>1, WholeLines
    <2>2. t[i].rec.seq > Loaded.seq <=> ~(L[i].seq <= Loaded.seq)
      BY <1>2, <1>4
    <2>3. i <= n <=> L[i].seq <= Loaded.seq
      BY <1>2, <1>3 DEF Holds
    <2> QED
      BY <1>1, <2>1, <2>2, <2>3 DEF Beyond
  <1>6. {i \in 1..Len(t) : Beyond(Loaded, t[i])} = (n + 1)..Len(t)
    BY <1>1, <1>2, <1>5
  <1> DEFINE new == Select(t, (n + 1)..Len(t))
  <1>7. Replayed(lines) = Loaded.recs \o FrameRecords(new)
    BY <1>6 DEF Replayed, t
  <1>8. /\ DOMAIN new = 1..(Len(t) - n) /\ \A j \in 1..(Len(t) - n) : new[j] = t[n + j]
        /\ new \in Seq(Whole)
    <2>1. n \in 0..Len(t)
      BY <1>2
    <2>2. (n + 1)..Len(t) \in SUBSET (1..Len(t)) /\ \A i \in (n + 1)..Len(t) : t[i] \in Whole
      BY <1>1, <2>1
    <2>3. new \in Seq(Whole)
      BY <1>1, <2>2, SelectType
    <2> QED
      BY <1>1, <2>1, <2>3, SelectSuffix
  <1> HIDE DEF new
  <1>9. Len(new) = Len(t) - n
    BY <1>1, <1>2, <1>8
  <1>10. /\ FrameRecords(new) \in Seq(Record) /\ Len(FrameRecords(new)) = Len(L) - n
         /\ \A j \in 1..(Len(L) - n) : FrameRecords(new)[j] = L[n + j]
    <2>1. \A j \in 1..(Len(L) - n) : n + j \in 1..Len(t)
      BY <1>1, <1>2
    <2> QED
      BY <1>2, <1>8, <1>9, <2>1, FrameRecordsType
  <1>11. /\ Loaded.recs \in Seq(Record) /\ Len(Loaded.recs) = n
         /\ \A i \in 1..n : Loaded.recs[i] = L[i]
    BY <1>2, <1>3, PrefixFacts DEF Holds
  <1> DEFINE R == Loaded.recs \o FrameRecords(new)
  <1>12. /\ R \in Seq(Record) /\ Len(R) = Len(L)
         /\ \A i \in 1..Len(L) : R[i] = L[i]
    <2> DEFINE f == FrameRecords(new)
    <2>1. f \in Seq(Record) /\ Len(f) = Len(L) - n
      BY <1>10
    <2>2. /\ R \in Seq(Record) /\ Len(R) = n + Len(f)
          /\ \A i \in 1..n + Len(f) : R[i] = IF i <= n THEN Loaded.recs[i] ELSE f[i - n]
      BY <1>11, <2>1, ConcatProperties
    <2>3. \A i \in 1..Len(L) : ~(i <= n) => i - n \in 1..(Len(L) - n) /\ n + (i - n) = i
      BY <1>2
    <2>4. \A i \in 1..Len(L) : i <= n => i \in 1..n
      OBVIOUS
    <2>5. \A i \in 1..Len(L) : ~(i <= n) => f[i - n] = L[i]
      BY <1>10, <2>3
    <2> HIDE DEF R, f
    <2>6. \A i \in 1..Len(L) : R[i] = L[i]
      BY <1>1, <1>2, <1>11, <2>1, <2>2, <2>4, <2>5
    <2> QED
      BY <1>1, <1>2, <2>1, <2>2, <2>6
  <1> HIDE DEF R
  <1>13. R = L
    BY <1>2, <1>12, SeqEqual
  <1> QED
    BY <1>7, <1>13 DEF R, L
LEMMA OrderedAppend ==
  ASSUME NEW L \in Seq(Record), Ordered(L), NEW r \in Record, r.seq > 0,
         \A i \in 1..Len(L) : L[i].seq < r.seq
  PROVE  /\ Ordered(Append(L, r)) /\ Top(Append(L, r)) = r.seq
         /\ Append(L, r) \in Seq(Record) /\ Len(Append(L, r)) = Len(L) + 1
         /\ Append(L, r)[Len(L) + 1] = r
         /\ \A i \in 1..Len(L) : Append(L, r)[i] = L[i]
  <1> DEFINE A == Append(L, r)
  <1>1. /\ A \in Seq(Record) /\ Len(A) = Len(L) + 1 /\ A[Len(L) + 1] = r
        /\ \A i \in 1..Len(L) : A[i] = L[i]
    BY AppendProperties
  <1>2. Len(L) \in Nat
    OBVIOUS
  <1> HIDE DEF A
  <1>3. \A i \in 1..Len(A) : i = Len(L) + 1 \/ i \in 1..Len(L)
    BY <1>1, <1>2
  <1>4. \A i \in 1..Len(A) : A[i].seq > 0
    BY <1>1, <1>3 DEF Ordered
  <1>5. ASSUME NEW i \in 1..Len(A), NEW j \in 1..Len(A), i < j
        PROVE  A[i].seq < A[j].seq
    <2>1. i \in 1..Len(L)
      BY <1>1, <1>2, <1>5
    <2>2. CASE j = Len(L) + 1
      BY <1>1, <2>1, <2>2
    <2>3. CASE j \in 1..Len(L)
      BY <1>1, <1>5, <2>1, <2>3 DEF Ordered
    <2> QED
      BY <1>3, <2>2, <2>3
  <1>6. A # <<>>
    BY <1>1, <1>2, EmptySeq
  <1>7. Ordered(A) /\ Top(A) = r.seq
    BY <1>1, <1>4, <1>5, <1>6 DEF Ordered, Top
  <1> QED
    BY <1>1, <1>7 DEF A

LEMMA GoodAppend ==
  ASSUME NEW L \in Seq(Record), NEW r \in Record, NEW s \in IsSnapshot, Good(s, L), r.seq > s.seq
  PROVE  Good(s, Append(L, r))
  <1> DEFINE A == Append(L, r)
  <1>1. /\ A \in Seq(Record) /\ Len(A) = Len(L) + 1 /\ A[Len(L) + 1] = r
        /\ \A i \in 1..Len(L) : A[i] = L[i]
    BY AppendProperties
  <1>2. Len(L) \in Nat /\ s.seq \in Nat /\ r.seq \in Nat
    BY DEF IsSnapshot, Record
  <1>3. PICK n \in 0..Len(L) : Holds(s, L, n)
    BY DEF Good
  <1> HIDE DEF A
  <1>4. SubSeq(A, 1, n) = SubSeq(L, 1, n)
    <2> DEFINE u == SubSeq(A, 1, n)
    <2> DEFINE v == SubSeq(L, 1, n)
    <2>1. n \in 0..Len(A) /\ n \in 0..Len(L)
      BY <1>1, <1>2
    <2>2. u \in Seq(Record) /\ Len(u) = n /\ \A i \in 1..n : u[i] = A[i]
      BY <1>1, <2>1, PrefixFacts
    <2>3. v \in Seq(Record) /\ Len(v) = n /\ \A i \in 1..n : v[i] = L[i]
      BY <2>1, PrefixFacts
    <2>4. \A i \in 1..n : i \in 1..Len(L)
      BY <1>2
    <2> HIDE DEF u, v
    <2>5. u = v
      BY <1>1, <2>2, <2>3, <2>4, SeqEqual
    <2> QED
      BY <2>5 DEF u, v
  <1>5. ASSUME NEW i \in 1..Len(A)
        PROVE  i <= n <=> A[i].seq <= s.seq
    <2>1. CASE i \in 1..Len(L)
      BY <1>1, <1>3, <2>1 DEF Holds
    <2>2. CASE i = Len(L) + 1
      BY <1>1, <1>2, <2>2
    <2> QED
      BY <1>1, <1>2, <2>1, <2>2
  <1>6. Holds(s, A, n)
    BY <1>3, <1>4, <1>5 DEF Holds
  <1>7. n \in 0..Len(A)
    BY <1>1, <1>2
  <1>8. Good(s, A)
    BY <1>6, <1>7 DEF Good
  <1> QED
    BY <1>8 DEF A

LEMMA GoodWhole ==
  ASSUME NEW L \in Seq(Record), NEW s, s.recs = L, \A i \in 1..Len(L) : L[i].seq <= s.seq
  PROVE  Good(s, L)
  <1>1. Len(L) \in 0..Len(L) /\ SubSeq(L, 1, Len(L)) = L
    <2>1. Len(L) \in 0..Len(L)
      OBVIOUS
    <2> DEFINE u == SubSeq(L, 1, Len(L))
    <2>2. u \in Seq(Record) /\ Len(u) = Len(L) /\ \A i \in 1..Len(L) : u[i] = L[i]
      BY <2>1, PrefixFacts
    <2> HIDE DEF u
    <2>3. u = L
      BY <2>2, SeqEqual
    <2> QED
      BY <2>1, <2>3 DEF u
  <1>2. Holds(s, L, Len(L))
    BY <1>1 DEF Holds
  <1> QED
    BY <1>1, <1>2 DEF Good

LEMMA LogExtended ==
  ASSUME TypeInv, FileInv, ~BadTail(lines), NEW k \in Key
  PROVE  Log(Extended(FrameOf(k))) = Append(Log(lines), FrameOf(k).rec)
  <1> DEFINE f == FrameOf(k)
  <1> DEFINE L == Log(lines)
  <1> DEFINE A == Append(L, f.rec)
  <1> DEFINE B == Append(lines, f)
  <1>1. Truncated(lines) = lines /\ lines \in Seq(Whole)
    <2>1. Truncated(lines) = lines /\ Truncated(lines) \in Seq(Whole)
      BY TruncatedFacts
    <2> QED
      BY <2>1
  <1>2. f \in Whole /\ f.rec \in Record
    BY FrameOfFacts
  <1>3. Truncated(Extended(f)) = B
    BY ExtendedFrame DEF Truncated
  <1>4. /\ L \in Seq(Record) /\ Len(L) = Len(lines)
        /\ \A i \in 1..Len(lines) : L[i] = lines[i].rec
    BY <1>1, FrameRecordsType DEF Log
  <1> HIDE DEF f, L
  <1>5. /\ A \in Seq(Record) /\ Len(A) = Len(L) + 1 /\ A[Len(L) + 1] = f.rec
        /\ \A i \in 1..Len(L) : A[i] = L[i]
    BY <1>2, <1>4, AppendProperties
  <1>6. /\ B \in Seq(Whole) /\ Len(B) = Len(lines) + 1 /\ B[Len(lines) + 1] = f
        /\ \A i \in 1..Len(lines) : B[i] = lines[i]
    BY <1>1, <1>2, AppendProperties
  <1> HIDE DEF A, B
  <1>7. /\ FrameRecords(B) \in Seq(Record) /\ Len(FrameRecords(B)) = Len(B)
        /\ \A i \in 1..Len(B) : FrameRecords(B)[i] = B[i].rec
    BY <1>6, FrameRecordsType
  <1>8. \A i \in 1..Len(B) : FrameRecords(B)[i] = A[i]
    <2> TAKE i \in 1..Len(B)
    <2>1. i = Len(lines) + 1 \/ i \in 1..Len(lines)
      BY <1>1, <1>6
    <2> QED
      BY <1>4, <1>5, <1>6, <1>7, <2>1
  <1>9. Len(A) = Len(B)
    BY <1>4, <1>5, <1>6
  <1> DEFINE F == FrameRecords(B)
  <1>10. F = A
    <2>1. F \in Seq(Record) /\ Len(F) = Len(A) /\ \A i \in 1..Len(F) : F[i] = A[i]
      BY <1>7, <1>8, <1>9
    <2> HIDE DEF F
    <2> QED
      BY <1>5, <2>1, SeqEqual
  <1>11. Log(Extended(f)) = F
    BY <1>3 DEF Log
  <1> QED
    BY <1>10, <1>11 DEF A, L, f
LEMMA KeysOfLog ==
  ASSUME NEW L \in Seq(Record), NEW r \in Record
  PROVE  Keys(Append(L, r)) = Keys(L) \cup {r.key}
  <1> DEFINE A == Append(L, r)
  <1>1. /\ Len(A) = Len(L) + 1 /\ A[Len(L) + 1] = r /\ Len(L) \in Nat
        /\ \A i \in 1..Len(L) : A[i] = L[i]
    BY AppendProperties
  <1> HIDE DEF A
  <1>2. 1..Len(A) = 1..Len(L) \cup {Len(L) + 1}
    BY <1>1
  <1>3. \A i \in 1..Len(L) : A[i].key = L[i].key
    BY <1>1
  <1>4. {A[i].key : i \in 1..Len(A)} = {L[i].key : i \in 1..Len(L)} \cup {r.key}
    BY <1>1, <1>2, <1>3
  <1> QED
    BY <1>4 DEF Keys, A

LEMMA SequenceNumbers ==
  ASSUME NEW L \in Seq(Record)
  PROVE  \A i \in 1..Len(L) : L[i].seq \in Nat
  <1>1. \A r \in Record : r.seq \in Nat
    BY DEF Record
  <1> QED
    BY <1>1

\* The disk's log and snapshots stay; memory stays, or uses a sequence number
\* up, or is gone.
LEMMA DiskKept ==
  ASSUME TypeInv, TypeInv', FileInv, RecoveryInv,
         Log(lines') = Log(lines), UNCHANGED <<snaps, manifest, faults>>,
         answered' \subseteq Keys(Log(lines)),
         \/ up' # "up"
         \/ /\ up' = up /\ records' = records
            /\ sequence' = sequence \/ (sequence' = sequence + 1 /\ ~Damaging)
  PROVE  RecoveryInv'
  <1>1. Trusted' = Trusted /\ Damaging' = Damaging
    BY DEF Trusted, Damaging
  <1>2. up' = "up" => /\ sequence' >= sequence /\ records' = records /\ up = "up"
                      /\ Damaging => sequence' = sequence
    BY DEF TypeInv
  <1>3. \A i \in 1..Len(records) : records[i].seq \in Nat
    BY SequenceNumbers DEF TypeInv
  <1>4. \A s \in snaps : s.seq \in Nat
    BY DEF TypeInv, IsSnapshot
  <1>5. LogInv'
    <2>1. up' = "up" => \A i \in 1..Len(records) : records[i].seq <= sequence'
      BY <1>2, <1>3 DEF RecoveryInv, LogInv, TypeInv
    <2> QED
      BY <1>2, <2>1 DEF RecoveryInv, LogInv
  <1>6. SnapsInv'
    <2>1. up' = "up" => \A s \in Trusted : s.seq <= sequence'
      BY <1>2, <1>4 DEF RecoveryInv, SnapsInv, TypeInv, Trusted
    <2>2. Damaging => (up' = "up" => sequence' = Top(Log(lines)))
      BY <1>2 DEF RecoveryInv, SnapsInv
    <2> QED
      BY <1>1, <2>1, <2>2 DEF RecoveryInv, SnapsInv
  <1> QED
    BY <1>5, <1>6 DEF RecoveryInv

\* The record of the operation of k is appended to the log.
LEMMA LogGrows ==
  ASSUME TypeInv, TypeInv', FileInv, RecoveryInv,
         NEW k \in Key, MayWrite(k), lines' = Extended(FrameOf(k)),
         UNCHANGED <<snaps, manifest, faults>>,
         answered' \in {answered, answered \cup {k}},
         \/ up' # "up"
         \/ up' = up /\ records' = Append(records, FrameOf(k).rec) /\ sequence' = sequence + 1
  PROVE  /\ RecoveryInv'
         /\ Log(lines') = Append(Log(lines), [seq |-> sequence + 1, key |-> k])
         /\ k \notin Keys(Log(lines))
  <1> DEFINE L == Log(lines)
  <1> DEFINE r == FrameOf(k).rec
  <1> DEFINE A == Append(L, r)
  <1>1. up = "up" /\ ~BadTail(lines)
    BY DEF MayWrite, MayCommit, FileInv
  <1>2. /\ r = [seq |-> sequence + 1, key |-> k] /\ r \in Record
        /\ r.seq = sequence + 1 /\ r.key = k /\ sequence \in Nat /\ r.seq \in Nat
    BY FrameOfFacts DEF TypeInv
  <1>3. Log(lines') = A
    BY <1>1, LogExtended
  <1>4. L \in Seq(Record) /\ records = L
    BY <1>1, LogType DEF RecoveryInv, LogInv
  <1>5. k \notin Keys(L)
    BY <1>4 DEF MayWrite, MayCommit
  <1>6. \A i \in 1..Len(L) : L[i].seq <= sequence /\ L[i].seq \in Nat
    BY <1>1, <1>4, SequenceNumbers DEF RecoveryInv, LogInv
  <1>7. Ordered(L) /\ Top(L) \in Nat
    BY <1>4, TopFacts DEF RecoveryInv, LogInv
  <1>8. answered \subseteq Keys(L)
    BY DEF RecoveryInv, LogInv
  <1> HIDE DEF r, L
  <1>9. \A i \in 1..Len(L) : L[i].seq < r.seq
    BY <1>2, <1>6
  <1>10. /\ Ordered(A) /\ Top(A) = r.seq /\ A \in Seq(Record) /\ Len(A) = Len(L) + 1
         /\ A[Len(L) + 1] = r /\ \A i \in 1..Len(L) : A[i] = L[i]
    BY <1>2, <1>4, <1>7, <1>9, OrderedAppend
  <1>11. Keys(A) = Keys(L) \cup {k}
    BY <1>2, <1>4, KeysOfLog
  <1> HIDE DEF A
  <1>12. LogInv'
    <2>1. \A i \in 1..Len(A) : A[i].seq <= sequence + 1
      <3> TAKE i \in 1..Len(A)
      <3>1. i = Len(L) + 1 \/ i \in 1..Len(L)
        BY <1>4, <1>10
      <3> QED
        BY <1>2, <1>6, <1>10, <3>1
    <2>2. up' = "up" => records' = A /\ sequence' = sequence + 1
      BY <1>4 DEF A, r
    <2>3. answered' \subseteq Keys(A)
      BY <1>8, <1>11
    <2>4. Log(lines)' = A
      BY <1>3
    <2> QED
      BY <1>10, <2>1, <2>2, <2>3, <2>4 DEF LogInv
  <1>13. SnapsInv'
    <2>1. Trusted' = Trusted /\ Damaging' = Damaging
      BY DEF Trusted, Damaging
    <2>2. \A s \in snaps : s \in IsSnapshot /\ s.seq \in Nat /\ s.seq > 0
      BY DEF TypeInv, IsSnapshot, RecoveryInv, SnapsInv
    <2>3. \A s \in Trusted : s \in snaps /\ Good(s, L) /\ s.seq <= sequence
      BY <1>1 DEF RecoveryInv, SnapsInv, Trusted, L
    <2>4. ASSUME NEW s \in Trusted
          PROVE  Good(s, A) /\ s.seq <= sequence + 1
      <3>1. s \in IsSnapshot /\ Good(s, L) /\ r.seq > s.seq /\ s.seq <= sequence + 1
        BY <1>2, <2>2, <2>3
      <3> QED
        BY <1>2, <1>4, <3>1, GoodAppend DEF A
    <2>5. Damaging => \A s \in snaps : s.seq <= Top(A)
      <3>1. Damaging => sequence = Top(L) /\ \A s \in snaps : s.seq <= Top(L)
        BY <1>1 DEF RecoveryInv, SnapsInv, L
      <3> QED
        BY <1>2, <1>10, <2>2, <3>1
    <2>6. up' = "up" => sequence' = sequence + 1
      OBVIOUS
    <2>7. Top(A) = sequence + 1
      BY <1>2, <1>10
    <2>8. ~Damaging => (\A s \in snaps : s.valid) /\ (manifest # 0 => \E s \in snaps : s.seq = manifest)
      BY DEF RecoveryInv, SnapsInv
    <2>9. Log(lines)' = A
      BY <1>3
    <2> QED
      BY <2>1, <2>2, <2>4, <2>5, <2>6, <2>7, <2>8, <2>9 DEF SnapsInv
  <1> QED
    BY <1>2, <1>3, <1>5, <1>12, <1>13 DEF RecoveryInv, A, L

\* After a restart nothing that is handed out is older than a snapshot which
\* may still be loaded.
LEMMA RestartRecovers ==
  ASSUME TypeInv, FileInv, RecoveryInv, Restart
  PROVE  RecoveryInv' /\ Log(lines') = Log(lines)
  <1> DEFINE L == Log(lines)
  <1>1. ~Refuses /\ up = "down"
    BY DEF Restart, Refuses, FileInv
  <1>2. /\ up' = "up" /\ lines' = Truncated(lines) /\ records' = Replayed(lines)
        /\ sequence' = Continues(Replayed(lines))
        /\ snaps' = snaps /\ manifest' = manifest /\ answered' = answered /\ faults' = faults
    BY <1>1 DEF Restart, bounds
  <1>3. Log(lines') = L
    BY <1>2, TruncatedFacts DEF Log
  <1>4. L \in Seq(Record) /\ Replayed(lines) = L /\ Ordered(L) /\ Top(L) \in Nat
    BY LogType, ReplayedIsLog, TopFacts DEF RecoveryInv, LogInv
  <1> HIDE DEF L
  <1>5. \A i \in 1..Len(L) : L[i].seq <= Top(L) /\ L[i].seq \in Nat
    BY <1>4, TopFacts, SequenceNumbers
  <1>6. Continues(L) \in Nat /\ Loaded.seq \in Nat /\ Continues(L) >= Loaded.seq
    BY <1>4, ContinuesType
  <1>7. Continues(L) >= Top(L)
    <2>1. CASE L = <<>>
      BY <1>6, <2>1 DEF Top
    <2>2. CASE L # <<>>
      BY <1>4, <2>2, ContinuesType DEF Top
    <2> QED
      BY <2>1, <2>2
  <1>8. Loaded.seq <= Top(L) => Continues(L) = Top(L)
    <2>1. CASE L = <<>>
      <3>1. Top(L) = 0
        BY <2>1 DEF Top
      <3>2. Continues(L) = Loaded.seq
        BY <1>4, <2>1, ContinuesType
      <3> QED
        BY <1>6, <3>1, <3>2
    <2>2. CASE L # <<>>
      BY <1>4, <2>2, ContinuesType DEF Top
    <2> QED
      BY <2>1, <2>2
  <1>9. Trusted' = Trusted /\ Damaging' = Damaging
    BY <1>2 DEF Trusted, Damaging
  <1>10. \A s \in snaps : s.seq \in Nat
    BY DEF TypeInv, IsSnapshot
  <1>11. LogInv'
    <2>1. \A i \in 1..Len(L) : L[i].seq <= Continues(L)
      BY <1>4, <1>5, <1>6, <1>7
    <2>2. Log(lines)' = L
      BY <1>3
    <2>3. answered \subseteq Keys(L)
      BY DEF RecoveryInv, LogInv, L
    <2> QED
      BY <1>2, <1>4, <2>1, <2>2, <2>3 DEF LogInv
  <1>12. SnapsInv'
    <2>1. Damaging => Continues(L) = Top(L)
      BY <1>8, LoadedIsGood DEF L
    <2>2. \A s \in Trusted : s.seq <= Continues(L)
      <3> TAKE s \in Trusted
      <3>1. s \in snaps /\ s.seq \in Nat
        BY <1>10 DEF Trusted
      <3>2. CASE Damaging
        BY <2>1, <3>1, <3>2 DEF RecoveryInv, SnapsInv, L
      <3>3. CASE ~Damaging
        BY <1>6, <3>1, <3>3, LoadedIsGood
      <3> QED
        BY <3>2, <3>3
    <2>3. Log(lines)' = L
      BY <1>3
    <2>4. sequence' = Continues(L)
      BY <1>2, <1>4
    <2> QED
      BY <1>2, <1>9, <2>1, <2>2, <2>3, <2>4 DEF RecoveryInv, SnapsInv, L
  <1> QED
    BY <1>3, <1>11, <1>12 DEF RecoveryInv, L
\* A snapshot of what is in memory is written, and the manifest points to it or
\* the process dies before.
LEMMA SnapshotTaken ==
  ASSUME TypeInv, TypeInv', FileInv, RecoveryInv, up = "up", sequence > 0,
         snaps' = Saved, UNCHANGED <<lines, answered, faults>>,
         \/ up' = "down" /\ manifest' = manifest
         \/ up' = "up" /\ manifest' = sequence /\ sequence' = sequence /\ records' = records
  PROVE  RecoveryInv'
  <1> DEFINE L == Log(lines)
  <1> DEFINE new == Snapshot(sequence, records)
  <1>1. /\ new \in Saved /\ new.seq = sequence /\ new.recs = records /\ new.valid
        /\ \A s \in Saved : (s \in snaps /\ s.seq # sequence) \/ s = new
        /\ \A s \in snaps : s.seq # sequence => s \in Saved
    BY SavedFacts
  <1>2. L \in Seq(Record) /\ records = L /\ \A i \in 1..Len(L) : L[i].seq <= sequence
    BY LogType DEF RecoveryInv, LogInv
  <1> HIDE DEF L, new
  <1>3. Good(new, L)
    BY <1>1, <1>2, GoodWhole
  <1>4. Damaging' = Damaging /\ Log(lines)' = L /\ Log(lines) = L
    BY DEF Damaging, Log, L
  <1>5. \A s \in Trusted' : s \in Trusted \/ s = new
    <2> SUFFICES ASSUME NEW s \in Trusted', s # new
                 PROVE  s \in Trusted
      OBVIOUS
    <2>1. s \in Saved /\ s.valid /\ (Damaging \/ manifest' = 0 \/ s.seq = manifest')
      BY <1>4 DEF Trusted
    <2>2. s \in snaps /\ s.seq # sequence
      BY <1>1, <2>1
    <2>3. Damaging \/ manifest' = manifest
      BY <2>1, <2>2
    <2> QED
      BY <2>1, <2>2, <2>3 DEF Trusted
  <1>6. /\ \A s \in snaps : s.seq > 0
        /\ \A s \in Trusted : Good(s, L) /\ s.seq <= sequence
        /\ ~Damaging => (\A s \in snaps : s.valid) /\ (manifest # 0 => \E s \in snaps : s.seq = manifest)
        /\ Damaging => (\A s \in snaps : s.seq <= Top(L)) /\ sequence = Top(L)
    BY <1>4 DEF RecoveryInv, SnapsInv
  <1>7. sequence \in Nat /\ sequence <= sequence
    BY DEF TypeInv
  <1>8. LogInv'
    BY <1>4 DEF RecoveryInv, LogInv
  <1>9. SnapsInv'
    <2>1. \A s \in Saved : s.seq > 0
      BY <1>1, <1>6
    <2>2. \A s \in Trusted' : Good(s, L) /\ s.seq <= sequence
      BY <1>1, <1>3, <1>5, <1>6, <1>7
    <2>3. ~Damaging => \A s \in Saved : s.valid
      BY <1>1, <1>6
    <2>4. ~Damaging => (manifest' # 0 => \E s \in Saved : s.seq = manifest')
      BY <1>1, <1>6
    <2>5. Damaging => \A s \in Saved : s.seq <= Top(L)
      <3> HAVE Damaging
      <3>1. new.seq <= Top(L)
        BY <1>1, <1>6, <1>7
      <3> QED
        BY <1>1, <1>6, <3>1
    <2> QED
      BY <1>4, <1>6, <2>1, <2>2, <2>3, <2>4, <2>5 DEF SnapsInv
  <1> QED
    BY <1>8, <1>9 DEF RecoveryInv

\* A snapshot or the manifest is damaged.
LEMMA DiskDamaged ==
  ASSUME TypeInv, FileInv, RecoveryInv, Damaging,
         UNCHANGED <<lines, answered, faults, up, records, sequence>>,
         \/ snaps' = snaps
         \/ \E s \in snaps : snaps' = (snaps \ {s}) \cup {[s EXCEPT !.valid = FALSE]}
  PROVE  RecoveryInv'
  <1>1. Damaging' /\ Log(lines)' = Log(lines)
    BY DEF Damaging, Log
  <1>2. /\ \A t \in snaps' : \E s \in snaps : t.seq = s.seq
        /\ \A t \in snaps' : t.valid => t \in snaps
    <2>1. CASE snaps' = snaps
      BY <2>1
    <2>2. ASSUME NEW s \in snaps, snaps' = (snaps \ {s}) \cup {[s EXCEPT !.valid = FALSE]}
          PROVE  <1>2!1 /\ <1>2!2
      <3> DEFINE d == [s EXCEPT !.valid = FALSE]
      <3>1. d.seq = s.seq /\ ~d.valid
        BY DamagedFacts
      <3> HIDE DEF d
      <3>2. snaps' = (snaps \ {s}) \cup {d}
        BY <2>2 DEF d
      <3> QED
        BY <3>1, <3>2
    <2> QED
      BY <2>1, <2>2
  <1>3. Trusted' \subseteq Trusted
    BY <1>1, <1>2 DEF Trusted
  <1>4. LogInv'
    BY <1>1 DEF RecoveryInv, LogInv
  <1>5. SnapsInv'
    BY <1>1, <1>2, <1>3 DEF RecoveryInv, SnapsInv
  <1> QED
    BY <1>4, <1>5 DEF RecoveryInv

\* What a step may do to the log and to the answered operations.
LogStep ==
    \/ Log(lines') = Log(lines) /\ answered' = answered
    \/ \E k \in Key : /\ k \in Keys(Log(lines))
                      /\ Log(lines') = Log(lines) /\ answered' = answered \cup {k}
    \/ \E k \in Key : /\ k \notin Keys(Log(lines))
                      /\ Log(lines') = Append(Log(lines), [seq |-> sequence + 1, key |-> k])
                      /\ answered' \in {answered, answered \cup {k}}

LEMMA RecoveryStep ==
  ASSUME TypeInv, TypeInv', FileInv, RecoveryInv, FaultsApart, [Next]_vars
  PROVE  RecoveryInv' /\ LogStep
  <1>0. "halfway" \notin faults /\ "newline" \notin faults /\ "fsync" \notin faults
        /\ (Damaging => "capacity" \notin faults /\ "full" \notin faults)
    BY DEF FaultsApart, Damaging
  <1>1. answered \subseteq Keys(Log(lines)) /\ (up = "up" => records = Log(lines))
    BY DEF RecoveryInv, LogInv
  <1>2. Truncated(Extended([Junk EXCEPT !.newline = FALSE])) = Truncated(lines)
    BY ExtendedBroken
  <1>3. CASE Restart
    <2>1. answered' = answered
      BY <1>3 DEF Restart
    <2> QED
      BY <1>3, <2>1, RestartRecovers DEF LogStep
  <1>4. CASE TakeSnapshot
    <2>1. RecoveryInv'
      BY <1>4, SnapshotTaken DEF TakeSnapshot, memory, bounds
    <2> QED
      BY <1>4, <2>1 DEF TakeSnapshot, LogStep
  <1>5. CASE Crash
    <2>1. /\ lines' = lines /\ snaps' = snaps /\ manifest' = manifest /\ faults' = faults
          /\ answered' = answered /\ up' = "down"
      BY <1>5 DEF Crash, Dies
    <2>2. Log(lines') = Log(lines) /\ answered' \subseteq Keys(Log(lines)) /\ up' # "up"
      BY <1>1, <2>1
    <2>3. RecoveryInv'
      BY <2>1, <2>2, DiskKept
    <2> QED
      BY <2>1, <2>2, <2>3 DEF LogStep
  <1>6. CASE CrashInSnapshot
    <2>1. RecoveryInv'
      BY <1>6, SnapshotTaken DEF CrashInSnapshot, Dies
    <2> QED
      BY <1>6, <2>1 DEF CrashInSnapshot, Dies, LogStep
  <1>7. ASSUME NEW k \in Key, Commit(k)
        PROVE  RecoveryInv' /\ LogStep
    <2>1. /\ MayWrite(k) /\ lines' = Extended(FrameOf(k))
          /\ UNCHANGED <<snaps, manifest, faults>> /\ answered' = answered \cup {k}
          /\ up' = up /\ records' = Append(records, FrameOf(k).rec) /\ sequence' = sequence + 1
      BY <1>7 DEF Commit, bounds
    <2> QED
      BY <2>1, LogGrows DEF LogStep
  <1>8. ASSUME NEW k \in Key, Retry(k)
        PROVE  RecoveryInv' /\ LogStep
    <2>1. /\ lines' = lines /\ snaps' = snaps /\ manifest' = manifest /\ faults' = faults
          /\ answered' = answered \cup {k} /\ up' = up /\ records' = records /\ sequence' = sequence
          /\ k \in Keys(Log(lines))
      BY <1>1, <1>8 DEF Retry, disk, memory, bounds
    <2>2. Log(lines') = Log(lines) /\ answered' \subseteq Keys(Log(lines))
      BY <1>1, <2>1
    <2>3. RecoveryInv'
      BY <2>1, <2>2, DiskKept
    <2> QED
      BY <2>1, <2>2, <2>3 DEF LogStep
  <1>9. ASSUME NEW k \in Key, RefusedByCapacity(k)
        PROVE  RecoveryInv' /\ LogStep
    <2>1. /\ lines' = lines /\ snaps' = snaps /\ manifest' = manifest /\ faults' = faults
          /\ answered' = answered /\ up' = up /\ records' = records /\ sequence' = sequence + 1
          /\ ~Damaging
      BY <1>0, <1>9 DEF RefusedByCapacity, disk, bounds
    <2>2. Log(lines') = Log(lines) /\ answered' \subseteq Keys(Log(lines))
      BY <1>1, <2>1
    <2>3. RecoveryInv'
      BY <2>1, <2>2, DiskKept
    <2> QED
      BY <2>1, <2>2, <2>3 DEF LogStep
  <1>10. ASSUME NEW k \in Key, AppendFails(k)
         PROVE  RecoveryInv' /\ LogStep
    <2>1. /\ lines' = Extended([Junk EXCEPT !.newline = FALSE])
          /\ snaps' = snaps /\ manifest' = manifest /\ faults' = faults
          /\ answered' = answered /\ up' = up /\ records' = records /\ sequence' = sequence + 1
      BY <1>0, <1>10 DEF AppendFails, bounds
    <2>2. ~Damaging
      BY <1>0, <1>10 DEF AppendFails
    <2>3. Log(lines') = Log(lines) /\ answered' \subseteq Keys(Log(lines))
      BY <1>1, <1>2, <2>1 DEF Log
    <2>4. RecoveryInv'
      BY <2>1, <2>2, <2>3, DiskKept
    <2> QED
      BY <2>1, <2>3, <2>4 DEF LogStep
  <1>11. ASSUME NEW k \in Key, CrashInAppend(k)
         PROVE  RecoveryInv' /\ LogStep
    <2>1. CASE Dies(Extended([Junk EXCEPT !.newline = FALSE]), snaps)
      <3>1. /\ lines' = Extended([Junk EXCEPT !.newline = FALSE])
            /\ snaps' = snaps /\ manifest' = manifest /\ faults' = faults
            /\ answered' = answered /\ up' = "down"
        BY <2>1 DEF Dies
      <3>2. Log(lines') = Log(lines) /\ answered' \subseteq Keys(Log(lines)) /\ up' # "up"
        BY <1>1, <1>2, <3>1 DEF Log
      <3>3. RecoveryInv'
        BY <3>1, <3>2, DiskKept
      <3> QED
        BY <3>1, <3>2, <3>3 DEF LogStep
    <2>2. CASE Dies(Extended(FrameOf(k)), snaps)
      <3>1. /\ MayWrite(k) /\ lines' = Extended(FrameOf(k))
            /\ UNCHANGED <<snaps, manifest, faults>> /\ answered' = answered /\ up' # "up"
        BY <1>11, <2>2 DEF CrashInAppend, Dies
      <3> QED
        BY <3>1, LogGrows DEF LogStep
    <2> QED
      BY <1>0, <1>11, <2>1, <2>2 DEF CrashInAppend
  <1>12. CASE DamageManifest
    <2>1. RecoveryInv'
      BY <1>12, DiskDamaged DEF DamageManifest, memory, Damaging
    <2> QED
      BY <1>12, <2>1 DEF DamageManifest, LogStep
  <1>13. ASSUME NEW s \in snaps, Damage(s)
         PROVE  RecoveryInv' /\ LogStep
    <2>1. RecoveryInv'
      BY <1>13, DiskDamaged DEF Damage, memory, Damaging
    <2> QED
      BY <1>13, <2>1 DEF Damage, LogStep
  <1>14. CASE UNCHANGED vars
    <2>1. /\ lines' = lines /\ snaps' = snaps /\ manifest' = manifest /\ faults' = faults
          /\ answered' = answered /\ up' = up /\ records' = records /\ sequence' = sequence
      BY <1>14 DEF vars
    <2>2. Log(lines') = Log(lines) /\ answered' \subseteq Keys(Log(lines))
      BY <1>1, <2>1
    <2>3. RecoveryInv'
      BY <2>1, <2>2, DiskKept
    <2> QED
      BY <2>1, <2>2, <2>3 DEF LogStep
  <1> QED
    BY <1>3, <1>4, <1>5, <1>6, <1>7, <1>8, <1>9, <1>10, <1>11, <1>12, <1>13, <1>14 DEF Next
Inv == TypeInv /\ FileInv /\ RecoveryInv

LEMMA InvInit ==
  ASSUME Init
  PROVE  Inv
  <1>1. TypeInv /\ FileInv
    BY TypeInit, FileInit
  <1>2. Log(lines) = <<>>
    <2>1. Truncated(lines) = <<>>
      BY DEF Init, Truncated, BadTail
    <2> QED
      BY <2>1 DEF Log, FrameRecords
  <1>3. Ordered(<<>>) /\ Top(<<>>) = 0
    BY DEF Ordered, Top
  <1>4. RecoveryInv
    BY <1>2, <1>3 DEF Init, RecoveryInv, LogInv, SnapsInv, Trusted
  <1> QED
    BY <1>1, <1>4 DEF Inv

LEMMA InvStep ==
  ASSUME Inv, FaultsApart, [Next]_vars
  PROVE  Inv' /\ LogStep
  <1>1. WholeLinesEnd
    BY DEF FaultsApart, WholeLinesEnd
  <1>2. TypeInv' /\ FileInv'
    BY <1>1, TypeStep, FileStep DEF Inv
  <1> QED
    BY <1>2, RecoveryStep DEF Inv

\* The records in memory are those of the file, in an order that only the
\* sequence numbers given out, each once, can have.
LEMMA InvMeans ==
  ASSUME Inv
  PROVE  MemoryIsReplay /\ SequenceFresh /\ AnsweredIsRecovered
  <1>1. Replayed(lines) = Log(lines) /\ Log(lines) \in Seq(Record)
    BY ReplayedIsLog, LogType DEF Inv
  <1>2. MemoryIsReplay /\ AnsweredIsRecovered
    BY <1>1 DEF Inv, RecoveryInv, LogInv, MemoryIsReplay, AnsweredIsRecovered
  <1>3. SequenceFresh
    <2> SUFFICES ASSUME up = "up", NEW i \in 1..Len(records)
                 PROVE  /\ records[i].seq <= sequence
                        /\ i > 1 => records[i - 1].seq < records[i].seq
      BY DEF SequenceFresh
    <2>1. records = Log(lines) /\ Ordered(records) /\ records[i].seq <= sequence
      BY DEF Inv, RecoveryInv, LogInv
    <2>2. i > 1 => i - 1 \in 1..Len(records) /\ i - 1 < i
      BY <1>1, <2>1
    <2> QED
      BY <2>1, <2>2 DEF Ordered
  <1> QED
    BY <1>2, <1>3

-----------------------------------------------------------------------------
(* Results *)

\* Memory and disk agree at any time (append_frame, snapshot, compact, _load), in the
\* environments of FaultsApart.
THEOREM MemoryAlwaysReplayed == Spec /\ FaultsApart => []MemoryIsReplay
  <1>1. Init => Inv
    BY InvInit
  <1>2. Inv /\ FaultsApart /\ [Next]_vars => (Inv /\ FaultsApart)'
    BY InvStep, FaultsStay DEF FaultsApart
  <1>3. Inv => MemoryIsReplay
    BY InvMeans
  <1> QED
    BY <1>1, <1>2, <1>3, PTL DEF Spec

\* No sequence number is given to two records (append_frame, _load), in the
\* environments of FaultsApart.
THEOREM SequenceAlwaysFresh == Spec /\ FaultsApart => []SequenceFresh
  <1>1. Init => Inv
    BY InvInit
  <1>2. Inv /\ FaultsApart /\ [Next]_vars => (Inv /\ FaultsApart)'
    BY InvStep, FaultsStay DEF FaultsApart
  <1>3. Inv => SequenceFresh
    BY InvMeans
  <1> QED
    BY <1>1, <1>2, <1>3, PTL DEF Spec

\* What was answered is recovered by the next start (append_frame, _load), whatever
\* crashes, and whether appends are refused, the disk is full, or snapshots and the
\* manifest are damaged.  It does not hold, and FaultsApart
\* excludes it, when a write that failed halfway is followed by one that succeeds, when
\* a crash takes only the newline of a frame (claim_newline.cfg), or when damage meets
\* refused or failed appends (claim_snapshot.cfg).
THEOREM AnsweredAlwaysRecovered == Spec /\ FaultsApart => []AnsweredIsRecovered
  <1>1. Init => Inv
    BY InvInit
  <1>2. Inv /\ FaultsApart /\ [Next]_vars => (Inv /\ FaultsApart)'
    BY InvStep, FaultsStay DEF FaultsApart
  <1>3. Inv => AnsweredIsRecovered
    BY InvMeans
  <1> QED
    BY <1>1, <1>2, <1>3, PTL DEF Spec

-----------------------------------------------------------------------------
(* The refinement of DurableLog *)

LEMMA KeysOfFacts ==
  ASSUME NEW L \in Seq(Record)
  PROVE  /\ KeysOf(L) \in Seq(Key) /\ Len(KeysOf(L)) = Len(L)
         /\ \A i \in 1..Len(L) : KeysOf(L)[i] = L[i].key
         /\ {KeysOf(L)[i] : i \in 1..Len(KeysOf(L))} = Keys(L)
  <1>1. \A r \in Record : r.key \in Key
    BY DEF Record
  <1>2. \A i \in 1..Len(L) : L[i].key \in Key
    BY <1>1
  <1> DEFINE K == KeysOf(L)
  <1>3. K = [i \in 1..Len(L) |-> L[i].key]
    BY DEF KeysOf
  <1> HIDE DEF K
  <1>4. K \in Seq(Key) /\ Len(K) = Len(L) /\ \A i \in 1..Len(L) : K[i] = L[i].key
    BY <1>2, <1>3
  <1>5. {K[i] : i \in 1..Len(K)} = {L[i].key : i \in 1..Len(L)}
    BY <1>4
  <1> QED
    BY <1>4, <1>5 DEF K, Keys

LEMMA KeysOfAppend ==
  ASSUME NEW L \in Seq(Record), NEW r \in Record
  PROVE  KeysOf(Append(L, r)) = Append(KeysOf(L), r.key)
  <1> DEFINE A == Append(L, r)
  <1> DEFINE K == KeysOf(A)
  <1> DEFINE B == Append(KeysOf(L), r.key)
  <1>1. /\ A \in Seq(Record) /\ Len(A) = Len(L) + 1 /\ A[Len(L) + 1] = r /\ Len(L) \in Nat
        /\ \A i \in 1..Len(L) : A[i] = L[i]
    BY AppendProperties
  <1>2. r.key \in Key
    BY DEF Record
  <1> HIDE DEF A
  <1>3. K \in Seq(Key) /\ Len(K) = Len(A) /\ \A i \in 1..Len(A) : K[i] = A[i].key
    BY <1>1, KeysOfFacts
  <1>4. /\ B \in Seq(Key) /\ Len(B) = Len(L) + 1 /\ B[Len(L) + 1] = r.key
        /\ \A i \in 1..Len(L) : B[i] = L[i].key
    <2> DEFINE M == KeysOf(L)
    <2>1. M \in Seq(Key) /\ Len(M) = Len(L) /\ \A i \in 1..Len(L) : M[i] = L[i].key
      BY KeysOfFacts
    <2>2. B = Append(M, r.key)
      OBVIOUS
    <2> HIDE DEF M, B
    <2> QED
      BY <1>2, <2>1, <2>2, AppendProperties
  <1> HIDE DEF K, B
  <1>5. \A i \in 1..Len(K) : K[i] = B[i]
    <2> TAKE i \in 1..Len(K)
    <2>1. i = Len(L) + 1 \/ i \in 1..Len(L)
      BY <1>1, <1>3
    <2> QED
      BY <1>1, <1>3, <1>4, <2>1
  <1>6. K = B
    BY <1>1, <1>3, <1>4, <1>5, SeqEqual
  <1> QED
    BY <1>6 DEF K, B, A

LEMMA DurableStep ==
  ASSUME Inv, Inv', LogStep
  PROVE  [D!Next]_<<RecoveredKeys, answered>>
  <1> DEFINE L == Log(lines)
  <1>1. L \in Seq(Record) /\ Replayed(lines) = L /\ sequence \in Nat
    BY ReplayedIsLog, LogType DEF Inv, TypeInv
  <1>2. Replayed(lines)' = Log(lines')
    <2>1. (TypeInv /\ FileInv /\ RecoveryInv)'
      BY DEF Inv
    <2>2. (TypeInv /\ FileInv /\ RecoveryInv => Replayed(lines) = Log(lines))'
      BY ReplayedIsLog, PTL
    <2> QED
      BY <2>1, <2>2 DEF Log
  <1>3. RecoveredKeys = KeysOf(L) /\ RecoveredKeys' = KeysOf(Log(lines'))
    BY <1>1, <1>2 DEF RecoveredKeys
  <1>4. D!Logged = Keys(L)
    BY <1>1, <1>3, KeysOfFacts DEF D!Logged
  <1>5. CASE Log(lines') = L /\ answered' = answered
    BY <1>3, <1>5
  <1>6. ASSUME NEW k \in Key, k \in Keys(L), Log(lines') = L, answered' = answered \cup {k}
        PROVE  D!Next
    <2>1. D!Answer(k)
      BY <1>3, <1>4, <1>6 DEF D!Answer
    <2> QED
      BY <2>1 DEF D!Next
  <1>7. ASSUME NEW k \in Key, k \notin Keys(L),
               Log(lines') = Append(L, [seq |-> sequence + 1, key |-> k]),
               answered' \in {answered, answered \cup {k}}
        PROVE  D!Next
    <2> DEFINE r == [seq |-> sequence + 1, key |-> k]
    <2>1. r \in Record /\ r.key = k
      BY <1>1 DEF Record
    <2>2. Log(lines') = Append(L, r)
      BY <1>7
    <2> HIDE DEF r, L
    <2>3. RecoveredKeys' = Append(RecoveredKeys, k)
      BY <1>1, <1>3, <2>1, <2>2, KeysOfAppend
    <2>4. D!Commit(k)
      BY <1>4, <1>7, <2>3 DEF D!Commit
    <2> QED
      BY <2>4 DEF D!Next
  <1> QED
    BY <1>5, <1>6, <1>7 DEF LogStep

\* What a restart recovers is a log that only grows, holds every operation once
\* and every answered one, in the environments of FaultsApart.
THEOREM DurableLogRefined == Spec /\ FaultsApart => DurableLogSpec
  <1>1. Init => Inv
    BY InvInit
  <1>2. Inv /\ FaultsApart /\ [Next]_vars => (Inv /\ FaultsApart)' /\ LogStep
    BY InvStep, FaultsStay DEF FaultsApart
  <1>3. Init => D!Init
    <2> SUFFICES ASSUME Init PROVE D!Init
      OBVIOUS
    <2>1. Replayed(lines) = Log(lines) /\ Truncated(lines) = <<>>
      BY InvInit, ReplayedIsLog DEF Init, Inv, Truncated, BadTail
    <2>2. RecoveredKeys = <<>>
      BY <2>1 DEF RecoveredKeys, KeysOf, Log, FrameRecords
    <2> QED
      BY <2>2 DEF Init, D!Init
  <1>4. Inv /\ Inv' /\ LogStep => [D!Next]_<<RecoveredKeys, answered>>
    BY DurableStep
  <1> QED
    BY <1>1, <1>2, <1>3, <1>4, PTL DEF Spec, DurableLogSpec, D!Spec
=============================================================================
