--------------------------- MODULE WorkspacesProofs ---------------------------
(***************************************************************************)
(* TypeOK, LeasesExclude, LandsInOrder, IntegratedHasLanded, NoLostUpdate    *)
(* and LandsUnderLease for every instance of Workspaces.                     *)
(***************************************************************************)
EXTENDS Workspaces, TableProofs

-----------------------------------------------------------------------------
(* Regions: what the code takes to be disjoint has nothing in common.        *)

IsRegion(r) ==
    /\ r.sel \in {"path_prefix", "json_pointer"} => r.val \in Seq(STRING)
    /\ r.sel = "key_range" /\ r.val # Unparsed => r.val \in Int \X Int

LEMMA PrefixFacts ==
  ASSUME NEW s \in Seq(STRING), NEW t \in Seq(STRING)
  PROVE  IsPrefix(s, t) <=> Len(s) <= Len(t) /\ \A i \in 1..Len(s) : s[i] = t[i]
  <1>1. SubSeq(s, 1, Len(s)) = s
    OBVIOUS
  <1>2. CASE Len(s) <= Len(t)
    <2> DEFINE u == SubSeq(t, 1, Len(s))
    <2>1. u \in Seq(STRING) /\ Len(u) = Len(s) /\ \A i \in 1..Len(s) : u[i] = t[i]
      BY <1>2, SubSeqProperties
    <2>2. u = s <=> \A i \in 1..Len(s) : s[i] = u[i]
      <3> HIDE DEF u
      <3> QED
        BY <2>1, SeqEqual
    <2> QED
      BY <1>1, <1>2, <2>1, <2>2 DEF IsPrefix
  <1>3. CASE ~(Len(s) <= Len(t))
    BY <1>3 DEF IsPrefix
  <1> QED
    BY <1>2, <1>3

\* Two prefixes of one sequence: one is a prefix of the other.
LEMMA PrefixesMeet ==
  ASSUME NEW s \in Seq(STRING), NEW t \in Seq(STRING), NEW u \in Seq(STRING),
         IsPrefix(s, u), IsPrefix(t, u)
  PROVE  IsPrefix(s, t) \/ IsPrefix(t, s)
  <1>1. Len(s) \in Nat /\ Len(t) \in Nat
    OBVIOUS
  <1>2. \A i \in 1..Len(s) : s[i] = u[i]
    BY PrefixFacts
  <1>3. \A i \in 1..Len(t) : t[i] = u[i]
    BY PrefixFacts
  <1>4. CASE Len(s) <= Len(t)
    <2>1. \A i \in 1..Len(s) : i \in 1..Len(t)
      BY <1>1, <1>4
    <2> QED
      BY <1>2, <1>3, <1>4, <2>1, PrefixFacts
  <1>5. CASE ~(Len(s) <= Len(t))
    <2>1. \A i \in 1..Len(t) : i \in 1..Len(s)
      BY <1>1, <1>5
    <2>2. Len(t) <= Len(s)
      BY <1>1, <1>5
    <2> QED
      BY <1>2, <1>3, <2>1, <2>2, PrefixFacts
  <1> QED
    BY <1>4, <1>5

LEMMA LargerOfTwo ==
  ASSUME NEW a \in Int, NEW b \in Int
  PROVE  Max({a, b}) = IF a >= b THEN a ELSE b
  BY DEF Max

LEMMA SmallerOfTwo ==
  ASSUME NEW a \in Int, NEW b \in Int
  PROVE  Min({a, b}) = IF a <= b THEN a ELSE b
  BY DEF Min

LEMMA RangesMeet ==
  ASSUME NEW a \in Int \X Int, NEW b \in Int \X Int, NEW k \in Int,
         a[1] <= k, k <= a[2], b[1] <= k, k <= b[2]
  PROVE  RangesOverlap(a, b)
  <1>1. Max({a[1], b[1]}) <= Min({a[2], b[2]})
    BY LargerOfTwo, SmallerOfTwo
  <1> QED
    BY <1>1 DEF RangesOverlap

LEMMA NotOverlapping ==
  ASSUME NEW a, IsRegion(a), NEW b, IsRegion(b), ~Overlaps(a, b), a.kind = b.kind, a.id = b.id
  PROVE  Disjoint(a, b)
  <1> DEFINE paths == {<<"path", p>> : p \in Path}
             keys == {<<"key", k>> : k \in Keys}
  <1>1. /\ a.sel = b.sel /\ a.sel # "whole_resource"
        /\ ~SelectorsOverlap(a.sel, a.val, b.val)
    BY DEF Overlaps
  <1>2. CASE a.sel = "path_prefix"
    <2>1. a.val \in Seq(STRING) /\ b.val \in Seq(STRING)
      BY <1>1, <1>2 DEF IsRegion
    <2>2. ~Below(a.val, b.val) /\ ~Below(b.val, a.val)
      BY <1>1, <1>2 DEF SelectorsOverlap
    <2>3. ASSUME NEW i, i \in Footprint(a, Path, Keys), i \in Footprint(b, Path, Keys)
          PROVE  FALSE
      <3>1. i \in paths /\ a.val # <<>> /\ b.val # <<>> /\ IsPrefix(a.val, i[2]) /\ IsPrefix(b.val, i[2])
        BY <1>1, <1>2, <2>3 DEF Footprint
      <3>2. i[2] \in Seq(STRING)
        BY <3>1, WorkspacesAssumption
      <3> QED
        BY <2>1, <2>2, <3>1, <3>2, PrefixesMeet DEF Below
    <2> QED
      BY <2>3 DEF Disjoint
  <1>3. CASE a.sel = "row_keys"
    <2>1. Unparsed # a.val /\ Unparsed # b.val /\ a.val \cap b.val = {}
      BY <1>1, <1>3 DEF SelectorsOverlap
    <2> QED
      BY <1>1, <1>3, <2>1 DEF Disjoint, Footprint
  <1>4. CASE a.sel = "key_range"
    <2>1. ~RangesOverlap(a.val, b.val)
      BY <1>1, <1>4 DEF SelectorsOverlap
    <2>2. Unparsed # a.val /\ Unparsed # b.val
      BY <2>1 DEF RangesOverlap
    <2>3. a.val \in Int \X Int /\ b.val \in Int \X Int
      BY <1>1, <1>4, <2>2 DEF IsRegion
    <2>4. ASSUME NEW i, i \in Footprint(a, Path, Keys), i \in Footprint(b, Path, Keys)
          PROVE  FALSE
      <3>1. /\ i \in keys /\ a.val[1] <= i[2] /\ i[2] <= a.val[2]
            /\ b.val[1] <= i[2] /\ i[2] <= b.val[2]
        BY <1>1, <1>4, <2>2, <2>4 DEF Footprint
      <3>2. i[2] \in Int
        BY <3>1, WorkspacesAssumption
      <3> QED
        BY <2>1, <2>3, <3>1, <3>2, RangesMeet
    <2> QED
      BY <2>4 DEF Disjoint
  <1>5. CASE a.sel \in {"symbol", "partition", "provider_subresource"}
    <2>1. a.val # b.val
      BY <1>1, <1>5 DEF SelectorsOverlap
    <2>2. Footprint(a, Path, Keys) = {<<"name", a.val>>} /\ Footprint(b, Path, Keys) = {<<"name", b.val>>}
      BY <1>1, <1>5 DEF Footprint
    <2>3. <<"name", a.val>> # <<"name", b.val>>
      BY <2>1
    <2> QED
      BY <2>2, <2>3 DEF Disjoint
  <1>6. CASE a.sel = "json_pointer"
    <2>1. a.val \in Seq(STRING) /\ b.val \in Seq(STRING)
      BY <1>1, <1>6 DEF IsRegion
    <2>2. ~IsPrefix(a.val, b.val) /\ ~IsPrefix(b.val, a.val)
      BY <1>1, <1>6 DEF SelectorsOverlap
    <2>3. ASSUME NEW i, i \in Footprint(a, Path, Keys), i \in Footprint(b, Path, Keys)
          PROVE  FALSE
      <3>1. i \in paths /\ IsPrefix(a.val, i[2]) /\ IsPrefix(b.val, i[2])
        BY <1>1, <1>6, <2>3 DEF Footprint
      <3>2. i[2] \in Seq(STRING)
        BY <3>1, WorkspacesAssumption
      <3> QED
        BY <2>1, <2>2, <3>1, <3>2, PrefixesMeet
    <2> QED
      BY <2>3 DEF Disjoint
  <1>7. CASE a.sel \notin {"path_prefix", "row_keys", "key_range", "json_pointer", "symbol",
                           "partition", "provider_subresource"}
    BY <1>1, <1>7 DEF SelectorsOverlap
  <1> QED
    BY <1>2, <1>3, <1>4, <1>5, <1>6, <1>7

-----------------------------------------------------------------------------
(* Leases *)

\* Regions of files and directories are written without ".", which workspaces/
\* drops and ownership/resolver.py does not.
Plain(r) ==
    /\ r.kind = "file" /\ r.sel = "whole_resource" => Normal(r.id) = r.id
    /\ r.kind = "directory" /\ r.sel = "path_prefix" => Normal(r.val) = r.val
PlainRegions == \A s \in Scenarios : \A o \in Ref : \A rg \in s.pool[o] : Plain(rg)

LeaseStatus == {"active", "released", "expired"}
IsLease(x) ==
    /\ DOMAIN x = {"owner", "region", "status", "expires"}
    /\ x.owner \in Ref /\ IsRegion(x.region)
    /\ PlainRegions => Plain(x.region)
    /\ x.status \in LeaseStatus
    /\ x.expires \in 0..(MaxTime + TTL)

\* Leases, by ids that were given out.
AreLeases(ls, n) == \A l \in DOMAIN ls : l \in 1..n /\ IsLease(ls[l])

LeaseInv ==
    /\ scenario \in Scenarios /\ now \in 0..MaxTime /\ issued \in 0..MaxLease
    /\ AreLeases(leases, issued) /\ AreLeases(dleases, issued)

\* An acquisition looks at the leases that are active then.
Apart(ls) == \A l, m \in Active(ls) : l < m => ~Overlaps(ls[l].region, ls[m].region)

\* Every operation makes the same change to memory and to the journal, unless its
\* append is refused.
ApartInv ==
    /\ refusals \in Nat
    /\ refusals = 0 => leases = dleases /\ Apart(leases)

\* No lease of ns is active that was not in ls.
Retains(ls, ns) == \A l \in Active(ns) : l \in Active(ls) /\ ns[l].region = ls[l].region

LEMMA Limits == TTL \in Nat /\ MaxTime \in Nat /\ MaxLease \in Nat /\ MaxRefuse \in Nat
  BY WorkspacesAssumption

LEMMA RetainedApart ==
  ASSUME NEW ls, NEW ns, Retains(ls, ns), Apart(ls)
  PROVE  Apart(ns)
  BY DEF Retains, Apart

\* A lease that ends.
LEMMA EndsLease ==
  ASSUME NEW ls, NEW n, AreLeases(ls, n), NEW l \in DOMAIN ls, NEW s \in LeaseStatus, s # "active"
  PROVE  /\ AreLeases([ls EXCEPT ![l].status = s], n)
         /\ Retains(ls, [ls EXCEPT ![l].status = s])
  <1> DEFINE x == [ls[l] EXCEPT !.status = s]
             ns == [ls EXCEPT ![l] = x]
  <1>1. IsLease(x) /\ x.status = s
    BY DEF AreLeases, IsLease
  <1>2. [ls EXCEPT ![l].status = s] = ns
    OBVIOUS
  <1>3. DOMAIN ns = DOMAIN ls /\ ns[l] = x /\ \A m \in DOMAIN ls : m # l => ns[m] = ls[m]
    OBVIOUS
  <1> HIDE DEF x, ns
  <1>4. AreLeases(ns, n)
    BY <1>1, <1>3 DEF AreLeases
  <1>5. Retains(ls, ns)
    BY <1>1, <1>3 DEF Retains, Active
  <1> QED
    BY <1>2, <1>4, <1>5

\* The leases that expire; ls are those of the journal or of memory.
LEMMA SweptFacts ==
  ASSUME LeaseInv, NEW ls, AreLeases(ls, issued), NEW ids \in SUBSET Due
  PROVE  /\ AreLeases(Swept(ls, ids), issued)
         /\ Retains(ls, Swept(ls, ids))
  <1> DEFINE x(l) == [leases[l] EXCEPT !.status = "expired"]
             ns == Swept(ls, ids)
  <1>1. \A l \in ids : l \in DOMAIN leases
    BY DEF Due, Active
  <1>2. \A l \in DOMAIN leases : l \in 1..issued /\ IsLease(x(l)) /\ x(l).status = "expired"
    BY DEF LeaseInv, AreLeases, IsLease, LeaseStatus
  <1>3. /\ DOMAIN ns = DOMAIN ls \cup ids
        /\ \A l \in ids : ns[l] = x(l)
        /\ \A l \in DOMAIN ls : l \notin ids => ns[l] = ls[l]
    BY DEF Swept
  <1> HIDE DEF x, ns
  <1>4. AreLeases(ns, issued)
    BY <1>1, <1>2, <1>3 DEF AreLeases
  <1>5. Retains(ls, ns)
    BY <1>1, <1>2, <1>3 DEF Retains, Active
  <1> QED
    BY <1>4, <1>5 DEF ns

\* A lease that is granted or renewed.
LEMMA PutLease ==
  ASSUME NEW ls, NEW n, AreLeases(ls, n), NEW l \in 1..n, NEW x, IsLease(x)
  PROVE  /\ AreLeases(WithLease(ls, l, x), n)
         /\ DOMAIN WithLease(ls, l, x) = DOMAIN ls \cup {l}
         /\ WithLease(ls, l, x)[l] = x
         /\ \A m \in DOMAIN ls : m # l => WithLease(ls, l, x)[m] = ls[m]
  <1>1. /\ DOMAIN WithLease(ls, l, x) = DOMAIN ls \cup {l}
        /\ WithLease(ls, l, x)[l] = x
        /\ \A m \in DOMAIN ls : m # l => WithLease(ls, l, x)[m] = ls[m]
    BY DEF WithLease, Put
  <1> QED
    BY <1>1 DEF AreLeases

LEMMA AreLeasesMonotone ==
  ASSUME NEW ls, NEW n \in Nat, AreLeases(ls, n)
  PROVE  AreLeases(ls, n + 1)
  BY DEF AreLeases

LEMMA LeaseInit == Init => LeaseInv /\ ApartInv
  <1> SUFFICES ASSUME Init PROVE LeaseInv /\ ApartInv
    OBVIOUS
  <1>1. DOMAIN leases = {} /\ leases = dleases /\ refusals = 0
    BY DEF Init
  <1>2. AreLeases(leases, issued) /\ Apart(leases)
    BY <1>1 DEF AreLeases, Apart, Active
  <1> QED
    BY <1>1, <1>2, Limits DEF Init, LeaseInv, ApartInv

LEMMA AcquireKeeps ==
  ASSUME LeaseInv, ApartInv, NEW o \in Ref, NEW rg \in scenario.pool[o], NEW base, Acquire(o, rg, base)
  PROVE  LeaseInv' /\ ApartInv'
  <1> DEFINE region == [kind |-> rg.kind, id |-> rg.id, sel |-> rg.sel, val |-> rg.val, base |-> base]
             x == [owner |-> o, region |-> region, status |-> "active", expires |-> now + TTL]
             l == issued + 1
             ns == WithLease(leases, l, x)
  <1>1. WellFormed(rg)
    BY WorkspacesAssumption DEF LeaseInv, Scenario
  <1>2. IsRegion(region) /\ (PlainRegions => Plain(region))
    BY <1>1 DEF WellFormed, IsRegion, PlainRegions, Plain, LeaseInv
  <1>3. IsLease(x) /\ x.status = "active" /\ x.region = region
    <2> HIDE DEF region
    <2> QED
      BY <1>2, Limits DEF IsLease, LeaseInv, LeaseStatus
  <1>4. /\ issued' = l /\ issued < MaxLease /\ leases' = ns
        /\ ~Blocks(region)
        /\ Journalled(WithLease(dleases, l, x)) \/ NotJournalled
        /\ UNCHANGED <<scenario, now>>
    BY DEF Acquire, Held
  <1> HIDE DEF region, x
  <1>5. issued \in Nat /\ l \in 1..l /\ l \in 0..MaxLease
    BY <1>4, Limits DEF LeaseInv
  <1>6. AreLeases(leases, l) /\ AreLeases(dleases, l)
    BY <1>5, AreLeasesMonotone DEF LeaseInv
  <1>7. /\ AreLeases(ns, l) /\ DOMAIN ns = DOMAIN leases \cup {l} /\ ns[l] = x
        /\ \A m \in DOMAIN leases : m # l => ns[m] = leases[m]
    BY <1>3, <1>5, <1>6, PutLease
  <1>8. AreLeases(WithLease(dleases, l, x), l)
    BY <1>3, <1>5, <1>6, PutLease
  <1>9. LeaseInv'
    BY <1>4, <1>5, <1>6, <1>7, <1>8 DEF LeaseInv, Journalled, NotJournalled
  <1>10. refusals' \in Nat /\ (refusals' = 0 => refusals = 0 /\ dleases' = WithLease(dleases, l, x))
    BY <1>4 DEF ApartInv, Journalled, NotJournalled
  <1>11. ASSUME refusals = 0 PROVE Apart(ns)
    <2> SUFFICES ASSUME NEW i \in Active(ns), NEW j \in Active(ns), i < j
                 PROVE  ~Overlaps(ns[i].region, ns[j].region)
      BY DEF Apart
    <2>1. \A m \in DOMAIN leases : m \in 1..issued
      BY DEF LeaseInv, AreLeases
    <2>2. i \in DOMAIN leases
      BY <1>5, <1>7, <2>1 DEF Active
    <2>3. i # l /\ ns[i] = leases[i] /\ i \in Active(leases)
      BY <1>5, <1>7, <2>1, <2>2 DEF Active
    <2>4. CASE j = l
      BY <1>3, <1>4, <1>7, <2>3, <2>4 DEF Blocks
    <2>5. CASE j # l
      <3>1. j \in Active(leases) /\ ns[j] = leases[j]
        BY <1>7, <2>5 DEF Active
      <3> QED
        BY <1>11, <2>3, <3>1 DEF ApartInv, Apart
    <2> QED
      BY <2>4, <2>5
  <1> QED
    BY <1>4, <1>9, <1>10, <1>11 DEF ApartInv

\* An operation that makes no lease active.
LEMMA KeepsApart ==
  ASSUME ApartInv, Retains(leases, leases'), refusals' \in Nat,
         refusals' = 0 => refusals = 0 /\ (leases = dleases => leases' = dleases')
  PROVE  ApartInv'
  <1>1. ASSUME refusals' = 0 PROVE leases' = dleases' /\ Apart(leases')
    BY <1>1, RetainedApart DEF ApartInv
  <1>2. Apart(leases') = Apart(leases)'
    BY DEF Apart, Active
  <1> QED
    BY <1>1, <1>2 DEF ApartInv

LEMMA ReleaseKeeps ==
  ASSUME LeaseInv, ApartInv, NEW l \in DOMAIN leases, Release(l)
  PROVE  LeaseInv' /\ ApartInv'
  <1> DEFINE ns == [leases EXCEPT ![l].status = "released"]
             nd == [dleases EXCEPT ![l].status = "released"]
  <1>1. /\ leases' = ns /\ UNCHANGED <<scenario, now, issued>>
        /\ \/ l \in DOMAIN dleases /\ dleases' = nd /\ refusals' = refusals
           \/ l \notin DOMAIN dleases /\ dleases' = dleases /\ refusals' = refusals
           \/ dleases' = dleases /\ refusals' = refusals + 1
    BY DEF Release, Held, Journalled, NotJournalled
  <1>2. AreLeases(ns, issued) /\ Retains(leases, ns)
    BY EndsLease DEF LeaseInv, LeaseStatus
  <1>3. l \in DOMAIN dleases => AreLeases(nd, issued)
    BY EndsLease DEF LeaseInv, LeaseStatus
  <1>4. leases = dleases => ns = nd /\ l \in DOMAIN dleases
    OBVIOUS
  <1> HIDE DEF ns, nd
  <1>5. LeaseInv'
    BY <1>1, <1>2, <1>3 DEF LeaseInv
  <1>6. refusals' \in Nat /\ (refusals' = 0 => refusals = 0)
    BY <1>1 DEF ApartInv
  <1>7. refusals' = 0 => (leases = dleases => leases' = dleases')
    BY <1>1, <1>4 DEF ApartInv
  <1> QED
    BY <1>1, <1>2, <1>5, <1>6, <1>7, KeepsApart

LEMMA HeartbeatKeeps ==
  ASSUME LeaseInv, ApartInv, NEW l \in DOMAIN leases, Heartbeat(l)
  PROVE  LeaseInv' /\ ApartInv'
  <1> DEFINE x == [leases[l] EXCEPT !.expires = now + TTL]
             ns == WithLease(leases, l, x)
             nd == WithLease(dleases, l, x)
  <1>1. /\ leases' = ns /\ UNCHANGED <<scenario, now, issued>> /\ leases[l].status = "active"
        /\ \/ dleases' = nd /\ refusals' = refusals
           \/ dleases' = dleases /\ refusals' = refusals + 1
    BY DEF Heartbeat, Held, Journalled, NotJournalled
  <1>2. l \in 1..issued /\ IsLease(leases[l])
    BY DEF LeaseInv, AreLeases
  <1>3. IsLease(x) /\ x.region = leases[l].region
    BY <1>2, Limits DEF IsLease, LeaseInv
  <1> HIDE DEF x
  <1>4. /\ AreLeases(ns, issued) /\ DOMAIN ns = DOMAIN leases \cup {l} /\ ns[l] = x
        /\ \A m \in DOMAIN leases : m # l => ns[m] = leases[m]
    BY <1>2, <1>3, PutLease DEF LeaseInv
  <1>5. AreLeases(nd, issued)
    BY <1>2, <1>3, PutLease DEF LeaseInv
  <1>6. leases = dleases => ns = nd
    OBVIOUS
  <1> HIDE DEF ns, nd
  <1>7. Retains(leases, ns)
    BY <1>1, <1>3, <1>4 DEF Retains, Active
  <1>8. LeaseInv'
    BY <1>1, <1>4, <1>5 DEF LeaseInv
  <1>9. refusals' \in Nat /\ (refusals' = 0 => refusals = 0)
    BY <1>1 DEF ApartInv
  <1>10. refusals' = 0 => (leases = dleases => leases' = dleases')
    BY <1>1, <1>6 DEF ApartInv
  <1> QED
    BY <1>1, <1>7, <1>8, <1>9, <1>10, KeepsApart

LEMMA ExpireKeeps ==
  ASSUME LeaseInv, ApartInv, Expire
  PROVE  LeaseInv' /\ ApartInv'
  <1>1. PICK out \in SUBSET Due, dout \in SUBSET Due :
           /\ leases' = Swept(leases, out) /\ dleases' = Swept(dleases, dout)
           /\ UNCHANGED <<scenario, now, issued>>
           /\ (refusals' = refusals /\ out = dout) \/ refusals' = refusals + 1
    <2>1. CASE leases' = Swept(leases, Due) /\ Journalled(Swept(dleases, Due))
      BY <2>1 DEF Expire, Held, Journalled
    <2>2. CASE \E last \in Due :
                 /\ refusals' = refusals + 1
                 /\ leases' = Swept(leases, {l \in Due : l <= last})
                 /\ dleases' = Swept(dleases, {l \in Due : l < last})
      <3>1. PICK last \in Due :
                 /\ refusals' = refusals + 1
                 /\ leases' = Swept(leases, {l \in Due : l <= last})
                 /\ dleases' = Swept(dleases, {l \in Due : l < last})
        BY <2>2
      <3>2. {l \in Due : l <= last} \in SUBSET Due /\ {l \in Due : l < last} \in SUBSET Due
        OBVIOUS
      <3>3. UNCHANGED <<scenario, now, issued>>
        BY DEF Expire, Held
      <3> QED
        BY <3>1, <3>2, <3>3
    <2> QED
      BY <2>1, <2>2 DEF Expire
  <1>2. AreLeases(Swept(leases, out), issued) /\ Retains(leases, Swept(leases, out))
    BY SweptFacts DEF LeaseInv
  <1>3. AreLeases(Swept(dleases, dout), issued)
    BY SweptFacts DEF LeaseInv
  <1>4. LeaseInv'
    BY <1>1, <1>2, <1>3 DEF LeaseInv
  <1>5. refusals' \in Nat /\ (refusals' = 0 => refusals = 0)
    BY <1>1 DEF ApartInv
  <1>6. refusals' = 0 => (leases = dleases => leases' = dleases')
    BY <1>1 DEF ApartInv
  <1> QED
    BY <1>1, <1>2, <1>4, <1>5, <1>6, KeepsApart

LEMMA CrashKeepsLeases ==
  ASSUME LeaseInv, ApartInv, Crash
  PROVE  LeaseInv' /\ ApartInv'
  BY DEF Crash, LeaseInv, ApartInv, Apart, Active

\* The steps that touch no lease: at most, they are refused an append.
LEMMA LeasesUntouched ==
  ASSUME LeaseInv, ApartInv, UNCHANGED <<scenario, leaseVars>>,
         refusals' = refusals \/ refusals' = refusals + 1
  PROVE  LeaseInv' /\ ApartInv'
  BY DEF LeaseInv, ApartInv, Apart, Active, leaseVars

LEMMA WorkspaceUntouched ==
  ASSUME WorkspaceStep
  PROVE  UNCHANGED <<scenario, leaseVars, jobVars, refusals>>
  BY DEF WorkspaceStep, Bind, Write, Deliver, Adopt, FastForward, Worked, leaseVars, jobVars

LEMMA IntegrationUntouched ==
  ASSUME IntegrationStep
  PROVE  /\ UNCHANGED <<scenario, leaseVars, ws, changes, adopted, crashes>>
         /\ refusals' = refusals \/ refusals' = refusals + 1
  <1>1. CASE Integrate \/ SkipDone \/ Stop \/ Stage \/ MoveAside \/ MoveIn \/ Recover
    BY <1>1 DEF Integrate, SkipDone, Stop, Stage, MoveAside, MoveIn, Recover, Integrating
  <1>2. CASE Enqueue \/ Claim
    BY <1>2 DEF Enqueue, Claim, Recorded, Integrating
  <1>3. CASE Rejected \/ Conflicted \/ MoveBack \/ Completed
    BY <1>3 DEF Rejected, Conflicted, MoveBack, Completed, Conclude, Recorded, Integrating
  <1> QED
    BY <1>1, <1>2, <1>3 DEF IntegrationStep

LEMMA LeaseNext == LeaseInv /\ ApartInv /\ [Next]_vars => LeaseInv' /\ ApartInv'
  <1> SUFFICES ASSUME LeaseInv, ApartInv, [Next]_vars PROVE LeaseInv' /\ ApartInv'
    OBVIOUS
  <1>1. CASE LeaseStep
    <2>1. CASE \E o \in Ref : \E rg \in scenario.pool[o], base \in Bases(o) : Acquire(o, rg, base)
      BY <2>1, AcquireKeeps
    <2>2. CASE \E l \in DOMAIN leases : Release(l) \/ Heartbeat(l)
      BY <2>2, ReleaseKeeps, HeartbeatKeeps
    <2>3. CASE Expire
      BY <2>3, ExpireKeeps
    <2>4. CASE Tick
      <3>1. UNCHANGED <<scenario, leases, dleases, issued, refusals>> /\ now' = now + 1 /\ now < MaxTime
        BY <2>4 DEF Tick, Held
      <3>2. now' \in 0..MaxTime
        BY <3>1, Limits DEF LeaseInv
      <3> QED
        BY <3>1, <3>2 DEF LeaseInv, ApartInv, Apart, Active
    <2> QED
      BY <1>1, <2>1, <2>2, <2>3, <2>4 DEF LeaseStep
  <1>2. CASE WorkspaceStep
    BY <1>2, WorkspaceUntouched, LeasesUntouched
  <1>3. CASE IntegrationStep
    BY <1>3, IntegrationUntouched, LeasesUntouched
  <1>4. CASE Crash
    BY <1>4, CrashKeepsLeases
  <1>5. CASE UNCHANGED vars
    BY <1>5, LeasesUntouched DEF vars
  <1> QED
    BY <1>1, <1>2, <1>3, <1>4, <1>5 DEF Next

\* While no append was refused, two active leases of one resource stand for
\* nothing in common, in memory and after a restart (ownership/manager.py).
THEOREM LeasesKeepApart == Spec => []LeasesExclude
  <1>1. LeaseInv /\ ApartInv => LeasesExclude
    <2> SUFFICES ASSUME LeaseInv, ApartInv, refusals = 0 PROVE ExcludesIn(leases)
      BY DEF LeasesExclude, ApartInv
    <2> SUFFICES ASSUME NEW l \in Active(leases), NEW m \in Active(leases), l # m,
                        leases[l].region.kind = leases[m].region.kind,
                        leases[l].region.id = leases[m].region.id
                 PROVE  Disjoint(leases[l].region, leases[m].region)
      BY DEF ExcludesIn
    <2>1. /\ l \in Int /\ IsRegion(leases[l].region)
          /\ m \in Int /\ IsRegion(leases[m].region)
      BY DEF LeaseInv, AreLeases, IsLease, Active
    <2>2. CASE l < m
      BY <2>1, <2>2, NotOverlapping DEF ApartInv, Apart
    <2>3. CASE m < l
      <3>1. Disjoint(leases[m].region, leases[l].region)
        BY <2>1, <2>3, NotOverlapping DEF ApartInv, Apart
      <3> QED
        BY <3>1 DEF Disjoint
    <2> QED
      BY <2>1, <2>2, <2>3
  <1> QED
    BY <1>1, LeaseInit, LeaseNext, PTL DEF Spec

-----------------------------------------------------------------------------
(* Directories, workspaces and changesets *)

Value == Ref \cup {"old"}
IsChange(c) == /\ c.base \in Content
               /\ DOMAIN c.after \subseteq Path /\ \A p \in DOMAIN c.after : c.after[p] \in Value

FilesInv ==
    /\ canonical \in Content \cup {Missing} /\ backup \in Content \cup {Missing}
    /\ (canonical = Missing <=> backup # Missing)
    /\ DOMAIN ws = Ref /\ DOMAIN changes = Ref
    /\ \A o \in Ref :
          /\ ws[o] # Missing => /\ DOMAIN ws[o] = {"base", "content"}
                                /\ ws[o].base \in Content /\ ws[o].content \in Content
          /\ changes[o] # Missing => IsChange(changes[o]) /\ ws[o] = Missing
    /\ \A o \in DOMAIN adopted :
          /\ o \in Ref /\ changes[o] # Missing
          /\ adopted[o].parent = changes[o].base /\ adopted[o].content \in Content
    /\ scenario.adapter = "local" => DOMAIN adopted = {}
    /\ landed \in Seq(Ref)
    /\ crashes \in Nat

Phases == {"idle", "next", "queued", "started", "staged", "aside", "moved"}
Moving == {"staged", "aside"}
Running == {"started", "staged", "aside", "moved"}

\* An integration that is under way works on the first ref that is not
\* integrated, and on the changes it has accepted.
JobInv ==
    /\ DOMAIN job = {"phase", "at", "staging"} /\ job.phase \in Phases
    /\ attempts \in [Ref -> AttemptStatus]
    /\ claims \subseteq {r \in Ref : attempts[r] = "running"}
    /\ job.phase # "idle" =>
          /\ job.at \in 1..(Len(Order) + 1)
          /\ \A i \in 1..Len(Order) : i < job.at => attempts[Order[i]] = "integrated"
          /\ job.phase # "next" => job.at \in 1..Len(Order)
          /\ job.phase # "aside" => canonical # Missing
    /\ job.phase = "queued" => attempts[Current] = "queued"
    /\ job.phase \in Running => attempts[Current] = "running"
    /\ job.phase = "aside" => canonical = Missing
    /\ job.phase \in {"staged", "aside", "moved"} =>
          scenario.adapter = "local" /\ changes[Current] # Missing
    /\ job.phase \in Moving =>
          /\ job.staging \in Content
          /\ \A p \in DOMAIN changes[Current].after : Replaced[p] = changes[Current].base[p]
    /\ canonical = Missing => job.phase = "aside" \/ crashes > 0

\* What has landed is what is integrated, and perhaps the ref after it: one whose
\* attempt was interrupted, so that it stays unfinished.
LandInv ==
    /\ scenario.adapter = "local" =>
          /\ Len(landed) <= Len(Order)
          /\ \A i \in 1..Len(landed) : landed[i] = Order[i]
          /\ \A i \in 1..Len(Order) :
                /\ attempts[Order[i]] = "integrated" => i <= Len(landed)
                /\ attempts[Order[i]] = "none" => i > Len(landed)
          /\ job.phase \in {"queued", "started", "staged", "aside"} => Len(landed) = job.at - 1
          /\ job.phase = "moved" => Len(landed) = job.at
    /\ scenario.adapter # "local" => \A r \in Ref : attempts[r] # "integrated"

LEMMA OrderFacts ==
  /\ Order \in Seq(Ref) /\ Len(Order) \in Nat
  /\ \A i \in 1..Len(Order) : Order[i] \in Ref
  /\ \A i, j \in 1..Len(Order) : Order[i] = Order[j] => i = j
  /\ \A r \in Ref : \E i \in 1..Len(Order) : r = Order[i]
  <1>1. Order \in Seq(Ref) /\ IsInjective(Order)
    BY WorkspacesAssumption
  <1>2. DOMAIN Order = 1..Len(Order) /\ Len(Order) \in Nat
    BY <1>1
  <1> QED
    BY <1>1, <1>2 DEF IsInjective, Ref, Range

LEMMA MissingIsNoContent == Missing \notin Content
  BY WorkspacesAssumption

LEMMA AppliedType ==
  ASSUME NEW c \in Content, NEW o, IsChange(changes[o])
  PROVE  Applied(c, o) \in Content
  <1>1. /\ DOMAIN Applied(c, o) = Path
        /\ \A p \in Path : Applied(c, o)[p] \in Value
    BY DEF Applied, Overlaid, IsChange, Content, Value
  <1>2. Applied(c, o) = [p \in DOMAIN Applied(c, o) |-> Applied(c, o)[p]]
    BY DEF Applied, Overlaid
  <1> QED
    BY <1>1, <1>2 DEF Content, Value

LEMMA FilesInit == Init => FilesInv /\ JobInv /\ LandInv
  <1> SUFFICES ASSUME Init PROVE FilesInv /\ JobInv /\ LandInv
    OBVIOUS
  <1>1. canonical \in Content
    BY DEF Init, Original, Content
  <1>2. DOMAIN adopted = {} /\ landed \in Seq(Ref) /\ Len(landed) = 0
    BY DEF Init
  <1>3. FilesInv
    BY <1>1, <1>2, MissingIsNoContent DEF Init, FilesInv
  <1>4. DOMAIN job = {"phase", "at", "staging"} /\ job.phase = "idle"
    BY DEF Init, NoJob
  <1>5. JobInv
    BY <1>1, <1>4, MissingIsNoContent DEF Init, JobInv, Phases, Moving, Running, AttemptStatus
  <1>6. LandInv
    BY <1>2, <1>4, OrderFacts DEF Init, LandInv
  <1> QED
    BY <1>3, <1>5, <1>6

-----------------------------------------------------------------------------
(* The steps of the workspaces and of the git adapter *)

LEMMA IdlePhase ==
  ASSUME Idle
  PROVE  job.phase = "idle"
  BY DEF Idle, NoJob

\* Between integrations, JobInv speaks of little.
LEMMA JobIdle ==
  ASSUME JobInv, job.phase = "idle", UNCHANGED <<jobVars, crashes>>,
         canonical' = canonical \/ canonical' \in Content
  PROVE  JobInv'
  BY MissingIsNoContent DEF JobInv, jobVars, Moving, Running

LEMMA LandIdle ==
  ASSUME LandInv, job.phase = "idle", UNCHANGED <<scenario, jobVars>>,
         landed' = landed \/ scenario.adapter # "local"
  PROVE  LandInv'
  BY DEF LandInv, jobVars

LEMMA BindKeeps ==
  ASSUME FilesInv, JobInv, LandInv, NEW o \in Ref, Bind(o)
  PROVE  FilesInv' /\ JobInv' /\ LandInv'
  <1> DEFINE w == [base |-> canonical, content |-> canonical]
  <1>1. /\ ws' = [ws EXCEPT ![o] = w] /\ changes[o] = Missing /\ canonical # Missing
        /\ UNCHANGED <<scenario, jobVars, canonical, backup, changes, adopted, landed, crashes>>
    BY DEF Bind, Worked
  <1>2. job.phase = "idle"
    BY IdlePhase DEF Bind
  <1>3. DOMAIN w = {"base", "content"} /\ w.base \in Content /\ w.content \in Content
    BY <1>1 DEF FilesInv
  <1> HIDE DEF w
  <1>4. DOMAIN ws' = Ref /\ ws'[o] = w /\ \A u \in Ref : u # o => ws'[u] = ws[u]
    BY <1>1 DEF FilesInv
  <1>5. FilesInv'
    BY <1>1, <1>3, <1>4 DEF FilesInv, IsChange
  <1> QED
    BY <1>1, <1>2, <1>5, JobIdle, LandIdle

LEMMA WriteKeeps ==
  ASSUME FilesInv, JobInv, LandInv, NEW o \in Ref, NEW p \in Path, Write(o, p, o)
  PROVE  FilesInv' /\ JobInv' /\ LandInv'
  <1> DEFINE c == [ws[o].content EXCEPT ![p] = o]
             w == [ws[o] EXCEPT !.content = c]
  <1>1. /\ ws' = [ws EXCEPT ![o] = w] /\ ws[o] # Missing
        /\ UNCHANGED <<scenario, jobVars, canonical, backup, changes, adopted, landed, crashes>>
    BY DEF Write, Worked
  <1>2. job.phase = "idle"
    BY IdlePhase DEF Write
  <1>3. /\ DOMAIN ws[o] = {"base", "content"} /\ ws[o].base \in Content /\ ws[o].content \in Content
        /\ changes[o] = Missing
    BY <1>1 DEF FilesInv
  <1>4. c \in Content
    BY <1>3 DEF Content
  <1> HIDE DEF c
  <1>5. DOMAIN w = {"base", "content"} /\ w.base \in Content /\ w.content \in Content
    BY <1>3, <1>4
  <1> HIDE DEF w
  <1>6. DOMAIN ws' = Ref /\ ws'[o] = w /\ \A u \in Ref : u # o => ws'[u] = ws[u]
    BY <1>1 DEF FilesInv
  <1>7. FilesInv'
    BY <1>1, <1>3, <1>5, <1>6 DEF FilesInv, IsChange
  <1> QED
    BY <1>1, <1>2, <1>7, JobIdle, LandIdle

LEMMA DeliverKeeps ==
  ASSUME FilesInv, JobInv, LandInv, NEW o \in Ref, Deliver(o)
  PROVE  FilesInv' /\ JobInv' /\ LandInv'
  <1> DEFINE differs == {p \in Path : ws[o].content[p] # ws[o].base[p]}
             after == Restrict(ws[o].content, differs)
             c == [base |-> ws[o].base, after |-> after]
  <1>1. /\ changes' = [changes EXCEPT ![o] = c] /\ ws' = [ws EXCEPT ![o] = Missing]
        /\ ws[o] # Missing
        /\ UNCHANGED <<scenario, jobVars, canonical, backup, adopted, landed, crashes>>
    BY DEF Deliver, Worked
  <1>2. job.phase = "idle"
    BY IdlePhase DEF Deliver
  <1>3. ws[o].base \in Content /\ ws[o].content \in Content /\ changes[o] = Missing
    BY <1>1 DEF FilesInv
  <1>4. DOMAIN after \subseteq Path /\ \A p \in DOMAIN after : after[p] \in Value
    BY <1>3 DEF Restrict, Content, Value
  <1> HIDE DEF after
  <1>5. IsChange(c)
    BY <1>3, <1>4 DEF IsChange
  <1> HIDE DEF c
  <1>6. /\ DOMAIN changes' = Ref /\ changes'[o] = c /\ \A u \in Ref : u # o => changes'[u] = changes[u]
        /\ DOMAIN ws' = Ref /\ ws'[o] = Missing /\ \A u \in Ref : u # o => ws'[u] = ws[u]
    BY <1>1 DEF FilesInv
  <1>7. \A u \in DOMAIN adopted : u # o /\ u \in Ref
    BY <1>3 DEF FilesInv
  <1>8. \A u \in Ref : changes'[u] # Missing => IsChange(changes'[u])
    BY <1>5, <1>6 DEF FilesInv
  <1>9. FilesInv'
    BY <1>1, <1>6, <1>7, <1>8 DEF FilesInv, IsChange
  <1> QED
    BY <1>1, <1>2, <1>9, JobIdle, LandIdle

LEMMA AdoptKeeps ==
  ASSUME FilesInv, JobInv, LandInv, NEW o \in Ref, Adopt(o)
  PROVE  FilesInv' /\ JobInv' /\ LandInv'
  <1> DEFINE a == [parent |-> canonical, content |-> Applied(canonical, o)]
  <1>1. /\ adopted' = Put(adopted, o, a) /\ scenario.adapter = "git"
        /\ changes[o] # Missing /\ canonical = changes[o].base
        /\ UNCHANGED <<scenario, jobVars, canonical, backup, ws, changes, landed, crashes>>
    BY DEF Adopt
  <1>2. job.phase = "idle"
    BY IdlePhase DEF Adopt
  <1>3. IsChange(changes[o])
    BY <1>1 DEF FilesInv
  <1>4. canonical \in Content
    BY <1>1, <1>3 DEF IsChange
  <1>5. a.parent = changes[o].base /\ a.content \in Content
    BY <1>1, <1>3, <1>4, AppliedType
  <1> HIDE DEF a
  <1>6. /\ DOMAIN adopted' = DOMAIN adopted \cup {o} /\ adopted'[o] = a
        /\ \A u \in DOMAIN adopted : u # o => adopted'[u] = adopted[u]
    BY <1>1 DEF Put
  <1>7. FilesInv'
    BY <1>1, <1>5, <1>6 DEF FilesInv, IsChange
  <1> QED
    BY <1>1, <1>2, <1>7, JobIdle, LandIdle

LEMMA FastForwardKeeps ==
  ASSUME FilesInv, JobInv, LandInv, NEW o \in Ref, FastForward(o)
  PROVE  FilesInv' /\ JobInv' /\ LandInv'
  <1>1. /\ canonical' = adopted[o].content /\ landed' = Append(landed, o)
        /\ o \in DOMAIN adopted /\ canonical = adopted[o].parent
        /\ UNCHANGED <<scenario, jobVars, backup, ws, changes, adopted, crashes>>
    BY DEF FastForward
  <1>2. job.phase = "idle"
    BY IdlePhase DEF FastForward
  <1>3. /\ canonical' \in Content /\ canonical \in Content /\ scenario.adapter # "local"
    BY <1>1 DEF FilesInv, IsChange
  <1>4. landed' \in Seq(Ref)
    BY <1>1 DEF FilesInv
  <1>5. FilesInv'
    BY <1>1, <1>3, <1>4, MissingIsNoContent DEF FilesInv, IsChange
  <1> QED
    BY <1>1, <1>2, <1>3, <1>5, JobIdle, LandIdle

-----------------------------------------------------------------------------
(* The steps of an integration *)

LEMMA FilesStay ==
  ASSUME FilesInv,
         UNCHANGED <<scenario, canonical, backup, ws, changes, adopted, landed, crashes>>
  PROVE  FilesInv'
  BY DEF FilesInv, IsChange

\* The job is over, and its attempt as it was: a call that ends, a refused append, a death.
LEMMA JobEnds ==
  ASSUME JobInv, LandInv, job' = NoJob, claims' \subseteq claims,
         UNCHANGED <<scenario, attempts, landed>>,
         canonical' = Missing => crashes' > 0
  PROVE  JobInv' /\ LandInv'
  <1>1. DOMAIN job' = {"phase", "at", "staging"} /\ job'.phase = "idle"
    BY DEF NoJob
  <1>2. JobInv'
    BY <1>1 DEF JobInv, Phases, Moving, Running
  <1>3. LandInv'
    BY <1>1 DEF LandInv
  <1> QED
    BY <1>2, <1>3

LEMMA CurrentFacts ==
  ASSUME JobInv, job.phase \notin {"idle", "next"}
  PROVE  /\ job.at \in 1..Len(Order) /\ Current = Order[job.at] /\ Current \in Ref
         /\ \A i \in 1..Len(Order) : Order[i] = Current <=> i = job.at
  BY OrderFacts DEF JobInv, Current

\* An attempt changes from s to t.
LEMMA StatusFacts ==
  ASSUME JobInv, job.phase # "idle", NEW r \in Ref, NEW t \in AttemptStatus,
         attempts' = [attempts EXCEPT ![r] = t]
  PROVE  /\ attempts' \in [Ref -> AttemptStatus]
         /\ attempts'[r] = t
         /\ \A u \in Ref : u # r => attempts'[u] = attempts[u]
  BY DEF JobInv

\* The attempt ends otherwise than integrated.
LEMMA AttemptFails ==
  ASSUME JobInv, LandInv, job.phase \in {"started", "aside"},
         NEW t \in {"rejected", "conflicted"},
         attempts' = [attempts EXCEPT ![Current] = t], claims' = claims \ {Current},
         job' = NoJob, UNCHANGED <<scenario, landed>>, canonical' # Missing
  PROVE  JobInv' /\ LandInv'
  <1> DEFINE r == Current
  <1>1. /\ job.at \in 1..Len(Order) /\ r = Order[job.at] /\ r \in Ref
        /\ \A i \in 1..Len(Order) : Order[i] = r <=> i = job.at
    BY CurrentFacts
  <1>2. /\ attempts' \in [Ref -> AttemptStatus] /\ attempts'[r] = t
        /\ \A u \in Ref : u # r => attempts'[u] = attempts[u]
    BY <1>1, StatusFacts DEF AttemptStatus
  <1>3. DOMAIN job' = {"phase", "at", "staging"} /\ job'.phase = "idle"
    BY DEF NoJob
  <1>4. claims' = claims \ {r}
    OBVIOUS
  <1> HIDE DEF r
  <1>5. claims' \subseteq {u \in Ref : attempts'[u] = "running"}
    BY <1>2, <1>4 DEF JobInv
  <1>6. JobInv'
    BY <1>2, <1>3, <1>5 DEF JobInv, Phases, Moving, Running
  <1>7. \A i \in 1..Len(Order) : Order[i] \in Ref
    BY OrderFacts
  <1>8. LandInv'
    BY <1>1, <1>2, <1>3, <1>7 DEF LandInv
  <1> QED
    BY <1>6, <1>8

LEMMA IntegrateKeeps ==
  ASSUME FilesInv, JobInv, LandInv, Integrate
  PROVE  FilesInv' /\ JobInv' /\ LandInv'
  <1>1. /\ job' = [NoJob EXCEPT !.phase = "next", !.at = 1] /\ canonical # Missing
        /\ UNCHANGED <<scenario, attempts, claims, canonical, backup, ws, changes, adopted, landed, crashes>>
    BY DEF Integrate, Integrating, Filed
  <1>2. DOMAIN job' = {"phase", "at", "staging"} /\ job'.phase = "next" /\ job'.at = 1
    BY <1>1 DEF NoJob
  <1>3. FilesInv'
    BY <1>1, FilesStay
  <1>4. JobInv'
    BY <1>1, <1>2, OrderFacts DEF JobInv, Phases, Moving, Running
  <1>5. LandInv'
    BY <1>1, <1>2 DEF LandInv
  <1> QED
    BY <1>3, <1>4, <1>5

LEMMA AdvanceFacts ==
  ASSUME Advance
  PROVE  /\ DOMAIN job' = {"phase", "at", "staging"}
         /\ job'.phase = "next" /\ job'.at = job.at + 1
  BY DEF Advance

LEMMA SkipKeeps ==
  ASSUME FilesInv, JobInv, LandInv, SkipDone
  PROVE  FilesInv' /\ JobInv' /\ LandInv'
  <1>1. /\ job.phase = "next" /\ job.at <= Len(Order) /\ attempts[Order[job.at]] = "integrated"
        /\ Advance
        /\ UNCHANGED <<scenario, attempts, claims, canonical, backup, ws, changes, adopted, landed, crashes>>
    BY DEF SkipDone, Integrating, Filed, Current
  <1>2. /\ DOMAIN job' = {"phase", "at", "staging"} /\ job'.phase = "next" /\ job'.at = job.at + 1
    BY <1>1, AdvanceFacts
  <1>3. job.at \in 1..Len(Order) /\ Len(Order) \in Nat
    BY <1>1, OrderFacts DEF JobInv
  <1>4. \A i \in 1..Len(Order) : i < job'.at => attempts[Order[i]] = "integrated"
    BY <1>1, <1>2, <1>3 DEF JobInv
  <1>5. FilesInv'
    BY <1>1, FilesStay
  <1>6. JobInv'
    BY <1>1, <1>2, <1>3, <1>4 DEF JobInv, Phases, Moving, Running
  <1>7. LandInv'
    BY <1>1, <1>2 DEF LandInv
  <1> QED
    BY <1>5, <1>6, <1>7

LEMMA StopKeeps ==
  ASSUME FilesInv, JobInv, LandInv, Stop
  PROVE  FilesInv' /\ JobInv' /\ LandInv'
  <1>1. /\ job.phase = "next" /\ job' = NoJob
        /\ UNCHANGED <<scenario, attempts, claims, canonical, backup, ws, changes, adopted, landed, crashes>>
    BY DEF Stop, Ended, Integrating, Filed
  <1>2. canonical # Missing
    BY <1>1 DEF JobInv
  <1> QED
    BY <1>1, <1>2, FilesStay, JobEnds

LEMMA EnqueueKeeps ==
  ASSUME FilesInv, JobInv, LandInv, Enqueue
  PROVE  FilesInv' /\ JobInv' /\ LandInv'
  <1>1. /\ job.phase = "next" /\ job.at <= Len(Order) /\ attempts[Current] = "none"
        /\ Recorded("queued", Phase("queued"))
        /\ UNCHANGED <<scenario, claims, canonical, backup, ws, changes, adopted, landed, crashes>>
    BY DEF Enqueue, Integrating, Filed
  <1>2. FilesInv'
    BY <1>1, FilesStay
  <1>3. canonical # Missing /\ Len(Order) \in Nat
    BY <1>1, OrderFacts DEF JobInv
  <1>4. CASE job' = NoJob /\ UNCHANGED attempts
    BY <1>1, <1>2, <1>3, <1>4, JobEnds
  <1>5. CASE attempts' = [attempts EXCEPT ![Current] = "queued"] /\ Phase("queued")
    <2> DEFINE r == Current
    <2>1. job.at \in 1..Len(Order)
      BY <1>1, <1>3 DEF JobInv
    <2>2. r = Order[job.at] /\ r \in Ref /\ \A i \in 1..Len(Order) : Order[i] = r <=> i = job.at
      BY <2>1, OrderFacts DEF Current
    <2>3. /\ attempts' \in [Ref -> AttemptStatus] /\ attempts'[r] = "queued"
          /\ \A u \in Ref : u # r => attempts'[u] = attempts[u]
      BY <1>1, <1>5, <2>2, StatusFacts DEF AttemptStatus
    <2>4. DOMAIN job' = {"phase", "at", "staging"} /\ job'.phase = "queued" /\ job'.at = job.at
      BY <1>5 DEF Phase, JobInv
    <2>5. Current' = r /\ attempts[r] = "none"
      BY <1>1, <2>4 DEF Current
    <2> HIDE DEF r
    <2>6. claims' \subseteq {u \in Ref : attempts'[u] = "running"}
      BY <1>1, <2>3, <2>5 DEF JobInv
    <2>7. \A i \in 1..Len(Order) : Order[i] \in Ref
      BY OrderFacts
    <2>8. \A i \in 1..Len(Order) : i < job'.at => attempts'[Order[i]] = "integrated"
      BY <1>1, <2>2, <2>3, <2>4, <2>5, <2>7 DEF JobInv
    <2>9. JobInv'
      BY <1>1, <1>3, <2>1, <2>3, <2>4, <2>5, <2>6, <2>8 DEF JobInv, Phases, Moving, Running
    <2>10. scenario.adapter = "local" => Len(landed) = job.at - 1
      <3>1. SUFFICES ASSUME scenario.adapter = "local" PROVE Len(landed) = job.at - 1
        OBVIOUS
      <3>2. Len(landed) \in Nat /\ job.at > Len(landed)
        BY <2>1, <2>2, <2>5, <3>1 DEF LandInv, FilesInv
      <3>3. CASE job.at = 1
        BY <3>2, <3>3
      <3>4. CASE job.at # 1
        <4>1. job.at - 1 \in 1..Len(Order) /\ job.at - 1 < job.at
          BY <1>3, <2>1, <3>4
        <4>2. attempts[Order[job.at - 1]] = "integrated"
          BY <1>1, <4>1 DEF JobInv
        <4> QED
          BY <2>1, <3>1, <3>2, <4>1, <4>2 DEF LandInv
      <3> QED
        BY <3>3, <3>4
    <2>11. LandInv'
      BY <1>1, <2>1, <2>2, <2>3, <2>4, <2>5, <2>7, <2>10 DEF LandInv
    <2> QED
      BY <1>2, <2>9, <2>11
  <1> QED
    BY <1>1, <1>4, <1>5 DEF Recorded, Ended

LEMMA ClaimKeeps ==
  ASSUME FilesInv, JobInv, LandInv, Claim
  PROVE  FilesInv' /\ JobInv' /\ LandInv'
  <1>1. /\ job.phase = "queued" /\ Recorded("running", Phase("started"))
        /\ claims' = IF refusals' = refusals THEN claims \cup {Current} ELSE claims
        /\ UNCHANGED <<scenario, canonical, backup, ws, changes, adopted, landed, crashes>>
    BY DEF Claim, Integrating, Filed
  <1>2. FilesInv'
    BY <1>1, FilesStay
  <1>3. canonical # Missing
    BY <1>1 DEF JobInv
  <1>4. CASE job' = NoJob /\ UNCHANGED attempts /\ claims' = claims
    BY <1>1, <1>2, <1>3, <1>4, JobEnds
  <1>5. CASE attempts' = [attempts EXCEPT ![Current] = "running"] /\ Phase("started")
             /\ claims' \subseteq claims \cup {Current}
    <2> DEFINE r == Current
    <2>1. /\ job.at \in 1..Len(Order) /\ r = Order[job.at] /\ r \in Ref
          /\ \A i \in 1..Len(Order) : Order[i] = r <=> i = job.at
      BY <1>1, CurrentFacts
    <2>2. /\ attempts' \in [Ref -> AttemptStatus] /\ attempts'[r] = "running"
          /\ \A u \in Ref : u # r => attempts'[u] = attempts[u]
      BY <1>1, <1>5, <2>1, StatusFacts DEF AttemptStatus
    <2>3. DOMAIN job' = {"phase", "at", "staging"} /\ job'.phase = "started" /\ job'.at = job.at
      BY <1>5 DEF Phase, JobInv
    <2>4. Current' = r /\ attempts[r] = "queued"
      BY <1>1, <2>3 DEF Current, JobInv
    <2>5. claims' \subseteq claims \cup {r}
      BY <1>5
    <2> HIDE DEF r
    <2>6. claims' \subseteq {u \in Ref : attempts'[u] = "running"}
      BY <2>1, <2>2, <2>5 DEF JobInv
    <2>7. \A i \in 1..Len(Order) : Order[i] \in Ref
      BY OrderFacts
    <2>8. \A i \in 1..Len(Order) : i < job'.at => attempts'[Order[i]] = "integrated"
      BY <1>1, <2>1, <2>2, <2>3, <2>4, <2>7 DEF JobInv
    <2>9. JobInv'
      BY <1>1, <1>3, <2>1, <2>2, <2>3, <2>4, <2>6, <2>8 DEF JobInv, Phases, Moving, Running
    <2>10. LandInv'
      BY <1>1, <2>1, <2>2, <2>3, <2>4, <2>7 DEF LandInv
    <2> QED
      BY <1>2, <2>9, <2>10
  <1>6. CASE refusals' = refusals + 1 /\ Ended /\ UNCHANGED attempts
    BY <1>1, <1>2, <1>3, <1>6, JobEnds DEF Ended
  <1> QED
    BY <1>1, <1>5, <1>6 DEF Recorded

\* A terminal status other than integrated, or the append is refused.
LEMMA FailsOrStops ==
  ASSUME FilesInv, FilesInv', JobInv, LandInv, job.phase \in {"started", "aside"},
         NEW t \in {"rejected", "conflicted"}, Conclude(t, Ended), landed' = landed,
         canonical' # Missing
  PROVE  JobInv' /\ LandInv'
  <1>1. CASE attempts' = [attempts EXCEPT ![Current] = t] /\ job' = NoJob /\ refusals' = refusals
    <2>1. claims' = claims \ {Current} /\ scenario' = scenario
      BY <1>1 DEF Conclude, Integrating
    <2> QED
      BY <1>1, <2>1, AttemptFails
  <1>2. CASE job' = NoJob /\ UNCHANGED attempts
    <2>1. claims' \subseteq claims /\ scenario' = scenario
      BY DEF Conclude, Integrating
    <2> QED
      BY <1>2, <2>1, JobEnds
  <1> QED
    BY <1>1, <1>2 DEF Conclude, Recorded, Ended

LEMMA FailureKeeps ==
  ASSUME FilesInv, JobInv, LandInv, Rejected \/ Conflicted
  PROVE  FilesInv' /\ JobInv' /\ LandInv'
  <1>1. PICK t \in {"rejected", "conflicted"} : Conclude(t, Ended) /\ Filed /\ job.phase = "started"
    BY DEF Rejected, Conflicted
  <1>2. UNCHANGED <<scenario, canonical, backup, ws, changes, adopted, landed, crashes>>
    BY <1>1 DEF Conclude, Integrating, Filed
  <1>3. canonical # Missing
    BY <1>1 DEF JobInv
  <1>4. FilesInv'
    BY <1>2, FilesStay
  <1> QED
    BY <1>1, <1>2, <1>3, <1>4, FailsOrStops

LEMMA StageKeeps ==
  ASSUME FilesInv, JobInv, LandInv, Stage
  PROVE  FilesInv' /\ JobInv' /\ LandInv'
  <1> DEFINE r == Current
             new == Applied(canonical, r)
  <1>1. /\ job.phase = "started" /\ scenario.adapter = "local" /\ changes[r] # Missing
        /\ UpToDate(r)
        /\ job' = [job EXCEPT !.phase = "staged", !.staging = new]
        /\ UNCHANGED <<scenario, attempts, claims, canonical, backup, ws, changes, adopted, landed, crashes>>
    BY DEF Stage, Accepts, Integrating, Filed
  <1>2. /\ job.at \in 1..Len(Order) /\ r = Order[job.at] /\ r \in Ref
    BY <1>1, CurrentFacts
  <1>3. canonical # Missing /\ canonical \in Content /\ attempts[r] = "running"
    BY <1>1 DEF JobInv, FilesInv, Running
  <1>4. IsChange(changes[r])
    BY <1>1, <1>2 DEF FilesInv
  <1>5. new \in Content
    BY <1>3, <1>4, AppliedType
  <1> HIDE DEF new
  <1>6. /\ DOMAIN job' = {"phase", "at", "staging"} /\ job'.phase = "staged"
        /\ job'.at = job.at /\ job'.staging = new
    BY <1>1 DEF JobInv
  <1>7. Current' = r
    BY <1>6 DEF Current
  <1> HIDE DEF r
  <1>8. \A p \in DOMAIN changes[r].after : canonical[p] = changes[r].base[p]
    BY <1>1 DEF UpToDate
  <1>9. Replaced' = canonical
    BY <1>1, <1>3 DEF Replaced
  <1>10. FilesInv'
    BY <1>1, FilesStay
  <1>11. JobInv'
    BY <1>1, <1>2, <1>3, <1>5, <1>6, <1>7, <1>8, <1>9 DEF JobInv, Phases, Moving, Running
  <1>12. LandInv'
    BY <1>1, <1>6 DEF LandInv
  <1> QED
    BY <1>10, <1>11, <1>12

LEMMA MoveAsideKeeps ==
  ASSUME FilesInv, JobInv, LandInv, MoveAside
  PROVE  FilesInv' /\ JobInv' /\ LandInv'
  <1>1. /\ job.phase = "staged" /\ backup' = canonical /\ canonical' = Missing
        /\ job' = [job EXCEPT !.phase = "aside"]
        /\ UNCHANGED <<scenario, attempts, claims, ws, changes, adopted, landed, crashes>>
    BY DEF MoveAside, Phase, Integrating
  <1>2. /\ DOMAIN job' = {"phase", "at", "staging"} /\ job'.phase = "aside"
        /\ job'.at = job.at /\ job'.staging = job.staging
    BY <1>1 DEF JobInv
  <1>3. Current' = Current
    BY <1>2 DEF Current
  <1>4. canonical # Missing
    BY <1>1 DEF JobInv
  <1>5. Replaced' = Replaced
    BY <1>1, <1>4 DEF Replaced
  <1>6. FilesInv'
    BY <1>1, <1>4 DEF FilesInv, IsChange
  <1>7. JobInv'
    BY <1>1, <1>2, <1>3, <1>5 DEF JobInv, Phases, Moving, Running
  <1>8. LandInv'
    BY <1>1, <1>2 DEF LandInv
  <1> QED
    BY <1>6, <1>7, <1>8

LEMMA MoveInKeeps ==
  ASSUME FilesInv, JobInv, LandInv, MoveIn
  PROVE  FilesInv' /\ JobInv' /\ LandInv'
  <1> DEFINE r == Current
  <1>1. /\ job.phase = "aside" /\ canonical' = job.staging /\ backup' = Missing
        /\ landed' = Append(landed, r)
        /\ job' = [job EXCEPT !.phase = "moved"]
        /\ UNCHANGED <<scenario, attempts, claims, ws, changes, adopted, crashes>>
    BY DEF MoveIn, Phase, Integrating
  <1>2. /\ DOMAIN job' = {"phase", "at", "staging"} /\ job'.phase = "moved" /\ job'.at = job.at
    BY <1>1 DEF JobInv
  <1>3. Current' = r
    BY <1>2 DEF Current
  <1>4. canonical' \in Content /\ canonical' # Missing
    BY <1>1, MissingIsNoContent DEF JobInv, Moving
  <1>5. job.at \in 1..Len(Order) /\ r = Order[job.at] /\ r \in Ref
    BY <1>1, CurrentFacts
  <1>9. scenario.adapter = "local" /\ attempts[r] = "running" /\ changes[r] # Missing
    BY <1>1 DEF JobInv, Running
  <1> HIDE DEF r
  <1>6. /\ landed' \in Seq(Ref) /\ Len(landed') = Len(landed) + 1 /\ Len(landed) \in Nat
        /\ \A i \in 1..Len(landed) : landed'[i] = landed[i]
        /\ landed'[Len(landed) + 1] = r
    BY <1>1, <1>5 DEF FilesInv
  <1>7. FilesInv'
    BY <1>1, <1>4, <1>6 DEF FilesInv, IsChange
  <1>8. JobInv'
    BY <1>1, <1>2, <1>3, <1>4, <1>5, <1>9 DEF JobInv, Phases, Moving, Running
  <1>10. Len(landed) = job.at - 1
    BY <1>1, <1>9 DEF LandInv
  <1>11. \A i \in 1..Len(landed') : i \in 1..Len(landed) \/ i = job.at
    BY <1>5, <1>6, <1>10
  <1>12. \A i \in 1..Len(landed') : landed'[i] = Order[i]
    BY <1>5, <1>6, <1>9, <1>10, <1>11 DEF LandInv
  <1>13. \A i \in 1..Len(Order) : i > Len(landed) /\ i # job.at => i > Len(landed')
    BY <1>5, <1>6, <1>10, OrderFacts
  <1>14. LandInv'
    BY <1>1, <1>2, <1>5, <1>6, <1>9, <1>10, <1>12, <1>13 DEF LandInv
  <1> QED
    BY <1>7, <1>8, <1>14

LEMMA MoveBackKeeps ==
  ASSUME FilesInv, JobInv, LandInv, MoveBack
  PROVE  FilesInv' /\ JobInv' /\ LandInv'
  <1>1. /\ job.phase = "aside" /\ canonical' = backup /\ backup' = Missing
        /\ Conclude("rejected", Ended)
        /\ UNCHANGED <<scenario, ws, changes, adopted, landed, crashes>>
    BY DEF MoveBack, Conclude, Integrating
  <1>2. canonical = Missing
    BY <1>1 DEF JobInv
  <1>3. canonical' # Missing
    BY <1>1, <1>2 DEF FilesInv
  <1>4. FilesInv'
    BY <1>1, <1>2, <1>3 DEF FilesInv, IsChange
  <1> QED
    BY <1>1, <1>3, <1>4, FailsOrStops

LEMMA CompletedKeeps ==
  ASSUME FilesInv, JobInv, LandInv, Completed
  PROVE  FilesInv' /\ JobInv' /\ LandInv'
  <1> DEFINE r == Current
  <1>1. /\ job.phase = "moved" /\ Conclude("integrated", Advance)
        /\ UNCHANGED <<scenario, canonical, backup, ws, changes, adopted, landed, crashes>>
    BY DEF Completed, Conclude, Integrating, Filed
  <1>2. FilesInv'
    BY <1>1, FilesStay
  <1>3. canonical # Missing
    BY <1>1 DEF JobInv
  <1>4. claims' \subseteq claims
    BY <1>1 DEF Conclude
  <1>5. CASE job' = NoJob /\ UNCHANGED attempts
    BY <1>1, <1>2, <1>3, <1>4, <1>5, JobEnds
  <1>6. CASE attempts' = [attempts EXCEPT ![r] = "integrated"] /\ Advance /\ refusals' = refusals
    <2>1. /\ job.at \in 1..Len(Order) /\ r = Order[job.at] /\ r \in Ref
          /\ \A i \in 1..Len(Order) : Order[i] = r <=> i = job.at
      BY <1>1, CurrentFacts
    <2>2. /\ attempts' \in [Ref -> AttemptStatus] /\ attempts'[r] = "integrated"
          /\ \A u \in Ref : u # r => attempts'[u] = attempts[u]
      BY <1>1, <1>6, <2>1, StatusFacts DEF AttemptStatus
    <2>3. DOMAIN job' = {"phase", "at", "staging"} /\ job'.phase = "next" /\ job'.at = job.at + 1
      BY <1>6, AdvanceFacts
    <2>4. claims' = claims \ {r} /\ attempts[r] = "running" /\ scenario.adapter = "local"
      BY <1>1, <1>6 DEF Conclude, JobInv, Running
    <2> HIDE DEF r
    <2>5. claims' \subseteq {u \in Ref : attempts'[u] = "running"}
      BY <2>1, <2>2, <2>4 DEF JobInv
    <2>6. (\A i \in 1..Len(Order) : Order[i] \in Ref) /\ Len(Order) \in Nat
      BY OrderFacts
    <2>7. \A i \in 1..Len(Order) : i < job'.at => i < job.at \/ i = job.at
      BY <2>1, <2>3
    <2>8. \A i \in 1..Len(Order) : i < job'.at => attempts'[Order[i]] = "integrated"
      BY <1>1, <2>1, <2>2, <2>6, <2>7 DEF JobInv
    <2>9. JobInv'
      BY <1>1, <1>3, <2>1, <2>2, <2>3, <2>5, <2>6, <2>8 DEF JobInv, Phases, Moving, Running
    <2>10. Len(landed) = job.at
      BY <1>1, <2>4 DEF LandInv
    <2>11. \A i \in 1..Len(Order) :
              /\ attempts'[Order[i]] = "integrated" => i <= Len(landed)
              /\ attempts'[Order[i]] = "none" => i > Len(landed)
      <3> TAKE i \in 1..Len(Order)
      <3>1. CASE i = job.at
        BY <2>1, <2>2, <2>10, <3>1
      <3>2. CASE i # job.at
        <4>1. attempts'[Order[i]] = attempts[Order[i]]
          BY <2>1, <2>2, <2>6, <3>2
        <4> QED
          BY <2>4, <4>1 DEF LandInv
      <3> QED
        BY <3>1, <3>2
    <2>12. LandInv'
      BY <1>1, <2>3, <2>4, <2>11 DEF LandInv
    <2> QED
      BY <1>2, <2>9, <2>12
  <1> QED
    BY <1>1, <1>5, <1>6 DEF Conclude, Recorded, Ended

LEMMA RecoverKeeps ==
  ASSUME FilesInv, JobInv, LandInv, Recover
  PROVE  FilesInv' /\ JobInv' /\ LandInv'
  <1>1. /\ attempts' = [r \in Ref |-> IF attempts[r] = "running" THEN "queued" ELSE attempts[r]]
        /\ claims' = {}
        /\ UNCHANGED <<scenario, job, canonical, backup, ws, changes, adopted, landed, crashes>>
    BY DEF Recover, Integrating, Filed
  <1>2. job.phase = "idle"
    BY IdlePhase DEF Recover
  <1>3. attempts' \in [Ref -> AttemptStatus]
    BY <1>1 DEF JobInv, AttemptStatus
  <1>4. FilesInv'
    BY <1>1, FilesStay
  <1>5. JobInv'
    BY <1>1, <1>2, <1>3 DEF JobInv, Moving, Running
  <1>6. LandInv'
    BY <1>1, <1>2, OrderFacts DEF LandInv
  <1> QED
    BY <1>4, <1>5, <1>6

LEMMA CrashKeeps ==
  ASSUME FilesInv, JobInv, LandInv, Crash
  PROVE  FilesInv' /\ JobInv' /\ LandInv'
  <1>1. /\ job' = NoJob /\ claims' = {} /\ crashes' = crashes + 1
        /\ UNCHANGED <<scenario, attempts, canonical, backup, ws, changes, adopted, landed>>
    BY DEF Crash, Ended, fileVars
  <1>2. crashes' \in Nat /\ crashes' > 0
    BY <1>1 DEF FilesInv
  <1>3. FilesInv'
    BY <1>1, <1>2 DEF FilesInv, IsChange
  <1> QED
    BY <1>1, <1>2, <1>3, JobEnds

LEMMA OthersStay ==
  ASSUME FilesInv, JobInv, LandInv, UNCHANGED <<scenario, fileVars, jobVars, crashes>>
  PROVE  FilesInv' /\ JobInv' /\ LandInv'
  <1>1. FilesInv'
    BY FilesStay DEF fileVars
  <1>2. Current' = Current /\ Replaced' = Replaced
    BY DEF Current, Replaced, jobVars, fileVars
  <1>3. JobInv'
    BY <1>2 DEF JobInv, jobVars, fileVars
  <1>4. LandInv'
    BY DEF LandInv, jobVars, fileVars
  <1> QED
    BY <1>1, <1>3, <1>4

LEMMA WorkNext == FilesInv /\ JobInv /\ LandInv /\ [Next]_vars => FilesInv' /\ JobInv' /\ LandInv'
  <1> SUFFICES ASSUME FilesInv, JobInv, LandInv, [Next]_vars
               PROVE  FilesInv' /\ JobInv' /\ LandInv'
    OBVIOUS
  <1>1. CASE LeaseStep
    <2>1. UNCHANGED <<scenario, fileVars, jobVars, crashes>>
      BY <1>1 DEF LeaseStep, Acquire, Release, Heartbeat, Expire, Tick, Held
    <2> QED
      BY <2>1, OthersStay
  <1>2. CASE WorkspaceStep
    BY <1>2, BindKeeps, WriteKeeps, DeliverKeeps, AdoptKeeps, FastForwardKeeps DEF WorkspaceStep
  <1>3. CASE IntegrationStep
    BY <1>3, IntegrateKeeps, SkipKeeps, StopKeeps, EnqueueKeeps, ClaimKeeps, FailureKeeps, StageKeeps,
       MoveAsideKeeps, MoveInKeeps, MoveBackKeeps, CompletedKeeps, RecoverKeeps
       DEF IntegrationStep
  <1>4. CASE Crash
    BY <1>4, CrashKeeps
  <1>5. CASE UNCHANGED vars
    BY <1>5, OthersStay DEF vars
  <1> QED
    BY <1>1, <1>2, <1>3, <1>4, <1>5 DEF Next

\* Leases are those of owners, within the bounds, in memory and in the journal; an
\* attempt has a status, a claim is of what runs, and the canonical directory is
\* missing only between the two renames or after a death there.
THEOREM TypeCorrect == Spec => []TypeOK
  <1>1. LeaseInv /\ FilesInv /\ JobInv => TypeOK
    <2> SUFFICES ASSUME LeaseInv, FilesInv, JobInv PROVE TypeOK
      OBVIOUS
    <2>1. \A ls \in {leases, dleases} : \A l \in DOMAIN ls :
             /\ l \in 1..issued
             /\ ls[l].owner \in Ref
             /\ ls[l].status \in {"active", "released", "expired"}
             /\ ls[l].expires \in 0..(MaxTime + TTL)
      BY DEF LeaseInv, AreLeases, IsLease, LeaseStatus
    <2> QED
      BY <2>1 DEF TypeOK, LeaseInv, FilesInv, JobInv, Phases
  <1> QED
    BY <1>1, LeaseInit, LeaseNext, FilesInit, WorkNext, PTL DEF Spec

\* integration/service.py: with the local adapter the refs land in the order of
\* the plan and each once, whatever crashes, refused appends and calls again.
THEOREM RefsLandInOrder == Spec => []LandsInOrder
  <1>1. FilesInv /\ LandInv => LandsInOrder
    <2> SUFFICES ASSUME FilesInv, LandInv, scenario.adapter = "local" PROVE IsPrefix(landed, Order)
      BY DEF LandsInOrder
    <2>1. /\ landed \in Seq(Ref) /\ Order \in Seq(Ref) /\ Len(landed) <= Len(Order)
          /\ \A i \in 1..Len(landed) : landed[i] = Order[i]
      BY OrderFacts DEF FilesInv, LandInv
    <2> DEFINE u == SubSeq(Order, 1, Len(landed))
    <2>2. u \in Seq(Ref) /\ Len(u) = Len(landed) /\ \A i \in 1..Len(landed) : u[i] = Order[i]
      BY <2>1, SubSeqProperties
    <2>3. u = landed
      <3> HIDE DEF u
      <3> QED
        BY <2>1, <2>2, SeqEqual
    <2>4. SubSeq(landed, 1, Len(landed)) = landed
      BY <2>1
    <2> QED
      BY <2>1, <2>3, <2>4 DEF IsPrefix
  <1> QED
    BY <1>1, FilesInit, WorkNext, PTL DEF Spec

\* A ref is recorded as integrated only when its changes are in the canonical
\* directory: the append follows the renames (integration/service.py).
THEOREM IntegratedMeansLanded == Spec => []IntegratedHasLanded
  <1>1. FilesInv /\ LandInv => IntegratedHasLanded
    <2> SUFFICES ASSUME FilesInv, LandInv, NEW r \in Ref, attempts[r] = "integrated"
                 PROVE  r \in Range(landed)
      BY DEF IntegratedHasLanded
    <2>1. scenario.adapter = "local"
      BY DEF LandInv
    <2>2. PICK i \in 1..Len(Order) : r = Order[i]
      BY OrderFacts
    <2>3. landed \in Seq(Ref) /\ Len(landed) \in Nat /\ i <= Len(landed) /\ landed[i] = r
      BY <2>1, <2>2, OrderFacts DEF LandInv, FilesInv
    <2>4. DOMAIN landed = 1..Len(landed) /\ i \in DOMAIN landed
      BY <2>2, <2>3
    <2> QED
      BY <2>3, <2>4 DEF Range
  <1> QED
    BY <1>1, FilesInit, WorkNext, PTL DEF Spec

-----------------------------------------------------------------------------
(* What a landing replaces, and whose it is *)

LEMMA AppendFacts ==
  ASSUME NEW s \in Seq(Ref), NEW a \in Ref
  PROVE  /\ Append(s, a) # s
         /\ \A b \in Ref : Append(s, a) = Append(s, b) => a = b
  <1>1. \A b \in Ref : Len(Append(s, b)) = Len(s) + 1 /\ Append(s, b)[Len(s) + 1] = b
    BY AppendProperties
  <1>2. Len(s) \in Nat /\ Len(s) + 1 # Len(s)
    BY LenProperties
  <1> QED
    BY <1>1, <1>2

\* Only two steps land something.
LEMMA LandingSteps ==
  ASSUME FilesInv, JobInv, [Next]_vars, NEW o \in Ref, Landing(o)
  PROVE  (MoveIn /\ o = Current) \/ FastForward(o)
  <1>1. landed \in Seq(Ref) /\ landed' # landed
    BY AppendFacts DEF FilesInv, Landing
  <1>2. CASE MoveIn
    <2>1. job.phase = "aside" /\ landed' = Append(landed, Current)
      BY <1>2 DEF MoveIn
    <2>2. Current \in Ref
      BY <2>1, CurrentFacts
    <2> QED
      BY <1>1, <1>2, <2>1, <2>2, AppendFacts DEF Landing
  <1>3. CASE \E u \in Ref : FastForward(u)
    <2>1. PICK u \in Ref : FastForward(u)
      BY <1>3
    <2>2. landed' = Append(landed, u)
      BY <2>1 DEF FastForward
    <2> QED
      BY <1>1, <2>1, <2>2, AppendFacts DEF Landing
  <1>4. CASE LeaseStep
    BY <1>1, <1>4 DEF LeaseStep, Acquire, Release, Heartbeat, Expire, Tick, Held, fileVars
  <1>5. CASE \E u \in Ref : Bind(u) \/ (\E p \in Path : Write(u, p, u)) \/ Deliver(u) \/ Adopt(u)
    BY <1>1, <1>5 DEF Bind, Write, Deliver, Adopt, Worked
  <1>6. CASE Integrate \/ SkipDone \/ Stop \/ Stage \/ MoveAside \/ Recover \/ Enqueue \/ Claim
    BY <1>1, <1>6 DEF Integrate, SkipDone, Stop, Stage, MoveAside, Recover, Enqueue, Claim, Filed
  <1>7. CASE Rejected \/ Conflicted \/ MoveBack \/ Completed
    BY <1>1, <1>7 DEF Rejected, Conflicted, MoveBack, Completed, Filed
  <1>8. CASE Crash \/ UNCHANGED vars
    BY <1>1, <1>8 DEF Crash, vars, fileVars
  <1> QED
    BY <1>2, <1>3, <1>4, <1>5, <1>6, <1>7, <1>8 DEF Next, WorkspaceStep, IntegrationStep

\* workspaces/local.py and git.py: a changed path that lands held, in what it
\* replaces, exactly what it was changed from.
THEOREM NothingIsLost == Spec => NoLostUpdate
  <1> DEFINE A == \A o \in Ref : Landing(o) =>
                     \A p \in DOMAIN changes[o].after : Replaced[p] = changes[o].base[p]
  <1>1. FilesInv /\ JobInv /\ [Next]_vars => [A]_vars
    <2> SUFFICES ASSUME FilesInv, JobInv, [Next]_vars, NEW o \in Ref, Landing(o),
                        NEW p \in DOMAIN changes[o].after
                 PROVE  Replaced[p] = changes[o].base[p]
      OBVIOUS
    <2>1. CASE MoveIn /\ o = Current
      BY <2>1 DEF MoveIn, JobInv, Moving
    <2>2. CASE FastForward(o)
      <3>1. o \in DOMAIN adopted /\ canonical = adopted[o].parent
        BY <2>2 DEF FastForward
      <3>2. canonical = changes[o].base /\ canonical \in Content
        BY <3>1 DEF FilesInv, IsChange
      <3>3. Replaced = canonical
        BY <3>2, MissingIsNoContent DEF Replaced
      <3> QED
        BY <3>2, <3>3
    <2> QED
      BY <2>1, <2>2, LandingSteps
  <1> QED
    BY <1>1, FilesInit, WorkNext, PTL DEF Spec, NoLostUpdate

LEMMA AllowsIsMatches ==
  ASSUME NEW region, Plain(region), NEW p, NEW base
  PROVE  Allows(p, region, base) <=> region.base = base /\ Matches(p, region)
  BY DEF Plain, Allows, Matches

\* A path that resolves, and that an owner may change, no other owner may.
LEMMA OneOwnerMay ==
  ASSUME LeaseInv, PlainRegions, NEW r \in Ref, NEW p, NEW base, OwnerMay(r, p, base),
         ResolvesPath(p, base, [l \in Active(leases) |-> leases[l].region])
  PROVE  {u \in Ref : OwnerMay(u, p, base)} = {r}
  <1> DEFINE regions == [l \in Active(leases) |-> leases[l].region]
             hits == {l \in {m \in DOMAIN regions : regions[m].base = base} : Matches(p, regions[l])}
  <1>1. \A l \in Active(leases) : Allows(p, leases[l].region, base) => l \in hits
    BY AllowsIsMatches DEF LeaseInv, AreLeases, IsLease, Active
  <1>2. Cardinality(hits) = 1
    BY DEF ResolvesPath
  <1>3. IsFiniteSet(hits)
    <2>1. hits \subseteq 1..issued /\ issued \in Int
      BY DEF LeaseInv, AreLeases, Active
    <2>2. IsFiniteSet(1..issued)
      BY <2>1, FS_Interval
    <2> HIDE DEF hits
    <2> QED
      BY <2>1, <2>2, FS_Subset
  <1> HIDE DEF hits, regions
  <1>4. \A l \in hits, m \in hits : l = m
    BY <1>2, <1>3, FS_Singleton
  <1>5. ASSUME NEW u \in Ref, OwnerMay(u, p, base) PROVE u = r
    <2>1. PICK l \in Active(leases) : leases[l].owner = u /\ Allows(p, leases[l].region, base)
      BY <1>5 DEF OwnerMay
    <2>2. PICK m \in Active(leases) : leases[m].owner = r /\ Allows(p, leases[m].region, base)
      BY DEF OwnerMay
    <2> QED
      BY <1>1, <1>4, <2>1, <2>2
  <1> QED
    BY <1>5

\* The changes an integration is about to move in are those of one owner.
OwnerInv == job.phase \in Moving =>
    \A p \in DOMAIN changes[Current].after :
        {r \in Ref : OwnerMay(r, p, changes[Current].base)} = {Current}

LEMMA OwnerNext ==
  ASSUME PlainRegions, LeaseInv, JobInv, OwnerInv, [Next]_vars
  PROVE  OwnerInv'
  <1> DEFINE Same == UNCHANGED <<leases, changes, job>>
  <1>1. ASSUME Same PROVE OwnerInv'
    BY <1>1 DEF OwnerInv, OwnerMay, Active, Current
  <1>2. ASSUME job'.phase \notin Moving PROVE OwnerInv'
    BY <1>2 DEF OwnerInv
  <1>3. CASE Stage
    <2> DEFINE r == Current
    <2>1. /\ job.phase = "started" /\ Resolves(r) /\ InScope(r)
          /\ job' = [job EXCEPT !.phase = "staged", !.staging = Applied(canonical, r)]
          /\ UNCHANGED <<leases, changes>>
      BY <1>3 DEF Stage, Accepts, Integrating, leaseVars
    <2>2. Current' = r
      BY <2>1 DEF JobInv, Current
    <2>3. r \in Ref
      BY <2>1, CurrentFacts
    <2> HIDE DEF r
    <2>4. \A p \in DOMAIN changes[r].after : {u \in Ref : OwnerMay(u, p, changes[r].base)} = {r}
      BY <2>1, <2>3, OneOwnerMay DEF Resolves, InScope
    <2>5. \A u, p, base : OwnerMay(u, p, base)' <=> OwnerMay(u, p, base)
      BY <2>1 DEF OwnerMay, Active
    <2> QED
      BY <2>1, <2>2, <2>4, <2>5 DEF OwnerInv
  <1>4. CASE MoveAside
    <2>1. job.phase = "staged" /\ job' = [job EXCEPT !.phase = "aside"] /\ UNCHANGED <<leases, changes>>
      BY <1>4 DEF MoveAside, Phase, Integrating, leaseVars
    <2>2. Current' = Current
      BY <2>1 DEF JobInv, Current
    <2>3. \A u, p, base : OwnerMay(u, p, base)' <=> OwnerMay(u, p, base)
      BY <2>1 DEF OwnerMay, Active
    <2> QED
      BY <2>1, <2>2, <2>3 DEF OwnerInv, Moving
  <1>5. CASE LeaseStep
    <2>1. Idle /\ job' = job
      BY <1>5 DEF LeaseStep, Acquire, Release, Heartbeat, Expire, Tick, Held, jobVars
    <2> QED
      BY <2>1, IdlePhase, <1>2 DEF Moving
  <1>6. CASE WorkspaceStep
    <2>1. Idle /\ job' = job
      BY <1>6 DEF WorkspaceStep, Bind, Write, Deliver, Adopt, FastForward, Worked, jobVars
    <2> QED
      BY <2>1, IdlePhase, <1>2 DEF Moving
  <1>7. CASE Crash \/ Stop
    <2>1. job'.phase = "idle"
      BY <1>7 DEF Crash, Stop, Ended, NoJob
    <2> QED
      BY <2>1, <1>2 DEF Moving
  <1>8. CASE Recover \/ UNCHANGED vars
    <2>1. Same
      BY <1>8 DEF Recover, Integrating, leaseVars, vars, jobVars, fileVars
    <2> QED
      BY <2>1, <1>1
  <1>9. CASE Integrate \/ SkipDone \/ MoveIn
    <2>1. CASE Integrate
      <3>1. job'.phase = "next"
        BY <2>1 DEF Integrate, NoJob
      <3> QED
        BY <3>1, <1>2 DEF Moving
    <2>2. CASE SkipDone
      <3>1. job'.phase = "next"
        BY <2>2, AdvanceFacts DEF SkipDone
      <3> QED
        BY <3>1, <1>2 DEF Moving
    <2>3. CASE MoveIn
      <3>1. job'.phase = "moved"
        BY <2>3 DEF MoveIn, Phase, JobInv
      <3> QED
        BY <3>1, <1>2 DEF Moving
    <2> QED
      BY <1>9, <2>1, <2>2, <2>3
  <1>10. CASE Enqueue \/ Claim
    <2>1. job'.phase \in {"queued", "started", "idle"}
      BY <1>10 DEF Enqueue, Claim, Recorded, Phase, Ended, NoJob, JobInv
    <2> QED
      BY <2>1, <1>2 DEF Moving
  <1>11. CASE Rejected \/ Conflicted \/ MoveBack \/ Completed
    <2>1. job'.phase \in {"next", "idle"}
      BY <1>11 DEF Rejected, Conflicted, MoveBack, Completed, Conclude, Recorded, Ended, NoJob, Advance
    <2> QED
      BY <2>1, <1>2 DEF Moving
  <1> QED
    BY <1>3, <1>4, <1>5, <1>6, <1>7, <1>8, <1>9, <1>10, <1>11 DEF Next, IntegrationStep

\* ownership/resolver.py: where regions are written without ".", what lands was
\* open to its owner by an active lease, and to no other owner on the same base.
THEOREM LandingsAreOwned ==
  ASSUME PlainRegions
  PROVE  Spec => LandsUnderLease
  <1> DEFINE A == \A o \in Ref : Landing(o) /\ scenario.adapter = "local" =>
                     \A p \in DOMAIN changes[o].after :
                         {r \in Ref : OwnerMay(r, p, changes[o].base)} = {o}
  <1>1. FilesInv /\ JobInv /\ OwnerInv /\ [Next]_vars => [A]_vars
    <2> SUFFICES ASSUME FilesInv, JobInv, OwnerInv, [Next]_vars, NEW o \in Ref, Landing(o),
                        scenario.adapter = "local", NEW p \in DOMAIN changes[o].after
                 PROVE  {r \in Ref : OwnerMay(r, p, changes[o].base)} = {o}
      OBVIOUS
    <2>1. ~FastForward(o)
      BY DEF FastForward, FilesInv
    <2>2. job.phase = "aside" /\ o = Current
      BY <2>1, LandingSteps DEF MoveIn
    <2> QED
      BY <2>2 DEF OwnerInv, Moving
  <1>2. Init => OwnerInv
    BY DEF Init, NoJob, OwnerInv, Moving
  <1>3. LeaseInv /\ JobInv /\ OwnerInv /\ [Next]_vars => OwnerInv'
    BY OwnerNext
  <1> QED
    BY <1>1, <1>2, <1>3, LeaseInit, LeaseNext, FilesInit, WorkNext, PTL DEF Spec, LandsUnderLease
=============================================================================
