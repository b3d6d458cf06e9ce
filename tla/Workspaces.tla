----------------------------- MODULE Workspaces -----------------------------
(***************************************************************************)
(* Writer leases, the owners' workspaces, and the integration of their       *)
(* changesets into the canonical directory: ownership/manager.py,            *)
(* integration/service.py, integration/queue.py, workspaces/local.py,        *)
(* workspaces/git.py, storage/store.py.                                      *)
(*                                                                         *)
(* The host makes the calls, one at a time, and none awaits.  A lease         *)
(* operation makes one append, so it is one step; an integration makes        *)
(* several appends and file operations, so it is a job of several steps       *)
(* between which only the process can die.  A revision is what it hashes: the *)
(* content.  Each client_ref has one owner, named like it.                    *)
(***************************************************************************)
EXTENDS Regions, Functions, Tables

CONSTANTS
    Missing,    \* no directory, workspace or changeset
    Order,      \* integration_order of the plan: the client_refs
    Path,       \* the files of the canonical directory
    Keys,       \* the keys of a table that is leased
    TTL,        \* of a lease, in ticks
    MaxTime, MaxLease, MaxCrash, MaxRefuse, \* bounds
    Scenarios   \* the environments to consider

Ref == Range(Order)
Adapter == {"local", "git"}

\* What a host may put into a region, by the type of its selector.
WellFormed(rg) ==
    /\ DOMAIN rg = {"kind", "id", "sel", "val"}
    /\ rg.sel \in {"path_prefix", "json_pointer"} => rg.val \in Seq(STRING)
    /\ rg.sel = "key_range" /\ rg.val # Unparsed => rg.val \in Int \X Int

\* An environment: the regions, without their base, that each owner leases; the
\* adapter of the workspaces; whether owners work in them; whether time passes;
\* whether appends and renames may fail.
Scenario(s) ==
    /\ s.adapter \in Adapter
    /\ \A o \in Ref : \A rg \in s.pool[o] : WellFormed(rg)
    /\ {s.working, s.clock, s.full} \subseteq BOOLEAN

\* What the files of a directory hold: what they held at first, or what an owner
\* wrote.
Content == [Path -> Ref \cup {"old"}]

ASSUME WorkspacesAssumption ==
    /\ Order \in Seq(Ref) /\ IsInjective(Order)
    /\ Path \subseteq Seq(STRING) /\ Keys \subseteq Int
    /\ \A p \in Path : Normal(p) = p
    /\ Missing \notin Content
    /\ {TTL, MaxTime, MaxLease, MaxCrash, MaxRefuse} \subseteq Nat
    /\ \A s \in Scenarios : Scenario(s)

VARIABLES
    scenario, now,
    leases,     \* Store.leases: id -> [owner, region, status, expires]
    dleases,    \* the leases a restart rebuilds
    issued,     \* ids given out
    broken,     \* the journal holds an event whose replay raises
    up,         \* FALSE when the application does not start any more
    attempts,   \* Store.integration_attempts: the status of each ref's only one
    claims,     \* IntegrationQueue._claims
    canonical,  \* the content of the canonical directory, or Missing
    backup,     \* the directory moved aside, or Missing
    ws,         \* the workspace of each owner: [base, content], or Missing
    changes,    \* the changeset of each owner: [base, after], or Missing
    adopted,    \* commits the git adapter made: ref -> [parent, content]
    job,        \* the integration under way
    landed,     \* the refs whose changes reached the canonical directory
    crashes, refusals

leaseVars == <<leases, dleases, issued, now>>
fileVars == <<canonical, backup, ws, changes, adopted, landed>>
jobVars == <<attempts, claims, job>>
vars == <<scenario, leaseVars, fileVars, jobVars, broken, up, crashes, refusals>>

NoJob == [phase |-> "idle", at |-> 0, staging |-> Missing]
Idle == up /\ job = NoJob

AttemptStatus == {"none", "queued", "running", "integrated", "conflicted", "rejected"}

Active(ls) == {l \in DOMAIN ls : ls[l].status = "active"}

-----------------------------------------------------------------------------
(* Leases: memory changes first; the append that follows may be refused.     *)

Held == UNCHANGED <<scenario, fileVars, jobVars, up, crashes>>

Journalled(ls) == dleases' = ls /\ UNCHANGED <<broken, refusals>>
NotJournalled ==
    /\ scenario.full
    /\ refusals < MaxRefuse
    /\ refusals' = refusals + 1
    /\ UNCHANGED <<dleases, broken>>

WithLease(ls, l, rec) == Put(ls, l, rec)

BlocksUnexpired(region) ==
    \E l \in Active(leases) : leases[l].expires > now /\ Overlaps(leases[l].region, region)
Blocks(region) == \E l \in Active(leases) : Overlaps(leases[l].region, region)

\* The base is the canonical revision, or the one the owner works from.
Bases(o) == ({canonical} \ {Missing}) \cup (IF ws[o] = Missing THEN {} ELSE {ws[o].base})

\* LeaseManager.acquire and Service.acquire_lease
Acquire(o, rg, base) ==
    LET region == [kind |-> rg.kind, id |-> rg.id, sel |-> rg.sel, val |-> rg.val, base |-> base]
        rec == [owner |-> o, region |-> region, status |-> "active", expires |-> now + TTL]
    IN /\ Idle
       /\ issued < MaxLease
       /\ ~Blocks(region)
       /\ issued' = issued + 1
       /\ leases' = WithLease(leases, issued', rec)
       /\ Journalled(WithLease(dleases, issued', rec)) \/ NotJournalled
       /\ UNCHANGED now /\ Held

\* lease.released names the lease only: its replay looks the lease up.
Release(l) ==
    /\ Idle
    /\ leases[l].status = "active"
    /\ leases' = [leases EXCEPT ![l].status = "released"]
    /\ \/ l \in DOMAIN dleases /\ Journalled([dleases EXCEPT ![l].status = "released"])
       \/ l \notin DOMAIN dleases /\ broken' = TRUE /\ UNCHANGED <<dleases, refusals>>
       \/ NotJournalled
    /\ UNCHANGED <<issued, now>> /\ Held

\* An active lease is renewed, also when its time is over.
Heartbeat(l) ==
    LET renewed == [leases[l] EXCEPT !.expires = now + TTL]
    IN /\ Idle
       /\ leases[l].status = "active"
       /\ leases' = WithLease(leases, l, renewed)
       /\ Journalled(WithLease(dleases, l, renewed)) \/ NotJournalled
       /\ UNCHANGED <<issued, now>> /\ Held

\* expire appends once for each lease that is due, in the order they were
\* acquired; a refused append ends it.
Due == {l \in Active(leases) : leases[l].expires <= now}
Swept(ls, ids) ==
    [l \in DOMAIN ls \cup ids |-> IF l \in ids THEN [leases[l] EXCEPT !.status = "expired"] ELSE ls[l]]
Expire ==
    /\ Idle
    /\ Due # {}
    /\ \/ leases' = Swept(leases, Due) /\ Journalled(Swept(dleases, Due))
       \/ \E last \in Due :
             /\ scenario.full /\ refusals < MaxRefuse
             /\ refusals' = refusals + 1
             /\ leases' = Swept(leases, {l \in Due : l <= last})
             /\ dleases' = Swept(dleases, {l \in Due : l < last})
             /\ UNCHANGED broken
    /\ UNCHANGED <<issued, now>> /\ Held

Tick ==
    /\ Idle /\ scenario.clock
    /\ now < MaxTime
    /\ now' = now + 1
    /\ UNCHANGED <<leases, dleases, issued, broken, refusals>> /\ Held

-----------------------------------------------------------------------------
(* Workspaces *)

Worked == UNCHANGED <<scenario, leaseVars, jobVars, canonical, backup, adopted, landed, broken, up,
                      crashes, refusals>>

\* bind_owner_workspace: a copy of the canonical content, or a worktree of its revision.
Bind(o) ==
    /\ Idle /\ scenario.working
    /\ canonical # Missing
    /\ ws[o] = Missing /\ changes[o] = Missing
    /\ ws' = [ws EXCEPT ![o] = [base |-> canonical, content |-> canonical]]
    /\ Worked /\ UNCHANGED changes

\* write_file; an owner may also delete.
Write(o, p, v) ==
    /\ Idle
    /\ ws[o] # Missing
    /\ v # ws[o].content[p]
    /\ ws[o].content[p] = ws[o].base[p]
    /\ ws' = [ws EXCEPT ![o].content[p] = v]
    /\ Worked /\ UNCHANGED changes

\* The host takes what differs from the base (create_changeset), and removes the
\* workspace (cleanup_owner_workspace).
Deliver(o) ==
    /\ Idle
    /\ ws[o] # Missing
    /\ LET differs == {p \in Path : ws[o].content[p] # ws[o].base[p]}
       IN changes' = [changes EXCEPT ![o] =
                        [base |-> ws[o].base, after |-> Restrict(ws[o].content, differs)]]
    /\ ws' = [ws EXCEPT ![o] = Missing]
    /\ Worked

\* validate_changeset
OwnerMay(o, p, base) ==
    \E l \in Active(leases) : leases[l].owner = o /\ Allows(p, leases[l].region, base)
InScope(o) == \A p \in DOMAIN changes[o].after : OwnerMay(o, p, changes[o].base)

\* resolve_changeset
Resolves(o) == \A p \in DOMAIN changes[o].after :
    ResolvesPath(p, changes[o].base, [l \in Active(leases) |-> leases[l].region])

NoConflict(o) == TRUE
\* A directory that has moved on may still hold, in the changed paths, what the
\* changeset was made from.
UpToDate(o) ==
    \/ canonical = changes[o].base
    \/ \A p \in DOMAIN changes[o].after : canonical[p] = changes[o].base[p]

Applied(content, o) == Overlaid(changes[o].after, content)

-----------------------------------------------------------------------------
(* Integration.  record_integration_attempt appends before memory changes.   *)

Current == Order[job.at]
Ended == job' = NoJob
Phase(p) == job' = [job EXCEPT !.phase = p]
Advance == job' = [phase |-> "next", at |-> job.at + 1, staging |-> Missing]

Integrating == UNCHANGED <<scenario, leaseVars, ws, changes, adopted, broken, up, crashes>>
Filed == UNCHANGED <<canonical, backup, landed>>

\* The status of the current ref is appended, and the job goes on with Go; or
\* the append is refused, and the exception leaves integrate_in_order.
Recorded(s, Go) ==
    \/ attempts' = [attempts EXCEPT ![Current] = s] /\ Go /\ UNCHANGED refusals
    \/ /\ scenario.full /\ refusals < MaxRefuse
       /\ refusals' = refusals + 1
       /\ Ended /\ UNCHANGED attempts

\* integrate_in_order is called, for the first time or again.
Integrate ==
    /\ Idle /\ scenario.working
    /\ canonical # Missing
    /\ \E o \in Ref : changes[o] # Missing
    /\ job' = [NoJob EXCEPT !.phase = "next", !.at = 1]
    /\ UNCHANGED <<attempts, claims, refusals>> /\ Integrating /\ Filed

\* What is integrated is skipped, what is not known to be stops the job.
SkipUnfinished ==
    /\ job.phase = "next"
    /\ job.at <= Len(Order) /\ attempts[Current] \in {"integrated", "queued", "running"}
    /\ Advance
    /\ UNCHANGED <<attempts, claims, refusals>> /\ Integrating /\ Filed
SkipDone ==
    /\ job.phase = "next"
    /\ job.at <= Len(Order) /\ attempts[Current] = "integrated"
    /\ Advance
    /\ UNCHANGED <<attempts, claims, refusals>> /\ Integrating /\ Filed
Stop ==
    /\ job.phase = "next"
    /\ job.at <= Len(Order) => attempts[Current] \notin {"integrated", "none"}
    /\ Ended
    /\ UNCHANGED <<attempts, claims, refusals>> /\ Integrating /\ Filed

\* IntegrationQueue.enqueue, then claim.
Enqueue ==
    /\ job.phase = "next"
    /\ job.at <= Len(Order) /\ attempts[Current] = "none"
    /\ Recorded("queued", Phase("queued"))
    /\ UNCHANGED claims /\ Integrating /\ Filed
Claim ==
    /\ job.phase = "queued"
    /\ Recorded("running", Phase("started"))
    /\ claims' = IF refusals' = refusals THEN claims \cup {Current} ELSE claims
    /\ Integrating /\ Filed

\* The terminal status is appended and the claim acknowledged.
Conclude(s, Go) ==
    /\ Recorded(s, Go)
    /\ claims' = IF refusals' = refusals THEN claims \ {Current} ELSE claims
    /\ Integrating

Accepts == changes[Current] # Missing /\ Resolves(Current) /\ InScope(Current)
              /\ scenario.adapter = "local"

\* No changeset; a change that resolves to no lease or is out of scope; the git
\* adapter, which never integrates.
Rejected ==
    /\ job.phase = "started"
    /\ ~Accepts
    /\ Conclude("rejected", Ended) /\ Filed

Conflicted ==
    /\ job.phase = "started"
    /\ Accepts /\ ~UpToDate(Current)
    /\ Conclude("conflicted", Ended) /\ Filed

Stage ==
    /\ job.phase = "started"
    /\ Accepts /\ UpToDate(Current)
    /\ job' = [job EXCEPT !.phase = "staged", !.staging = Applied(canonical, Current)]
    /\ UNCHANGED <<attempts, claims, refusals>> /\ Integrating /\ Filed

\* The two renames.
MoveAside ==
    /\ job.phase = "staged"
    /\ backup' = canonical
    /\ canonical' = Missing
    /\ Phase("aside")
    /\ UNCHANGED <<attempts, claims, refusals, landed>> /\ Integrating
MoveIn ==
    /\ job.phase = "aside"
    /\ canonical' = job.staging
    /\ backup' = Missing
    /\ landed' = Append(landed, Current)
    /\ Phase("moved")
    /\ UNCHANGED <<attempts, claims, refusals>> /\ Integrating

\* The second rename fails: the first is undone.
MoveBack ==
    /\ scenario.full
    /\ job.phase = "aside"
    /\ canonical' = backup
    /\ backup' = Missing
    /\ Conclude("rejected", Ended)
    /\ UNCHANGED landed

CompletedEarly ==
    /\ job.phase = "staged"
    /\ Conclude("integrated", Advance) /\ Filed
Completed ==
    /\ job.phase = "moved"
    /\ Conclude("integrated", Advance) /\ Filed

\* IntegrationQueue.recover: what runs is queued again, and nothing is claimed.
\* (A refused append changes nothing, and ends it.)
RecoverKeepsClaims ==
    /\ Idle
    /\ \E r \in Ref : attempts[r] = "running"
    /\ attempts' = [r \in Ref |-> IF attempts[r] = "running" THEN "queued" ELSE attempts[r]]
    /\ UNCHANGED <<claims, job, refusals>> /\ Integrating /\ Filed
Recover ==
    /\ Idle
    /\ \E r \in Ref : attempts[r] = "running"
    /\ attempts' = [r \in Ref |-> IF attempts[r] = "running" THEN "queued" ELSE attempts[r]]
    /\ claims' = {}
    /\ UNCHANGED <<job, refusals>> /\ Integrating /\ Filed

-----------------------------------------------------------------------------
(* The git adapter: the host adopts a changeset as a commit on its base, and  *)
(* moves the canonical checkout to it when it likes.                         *)

Adopt(o) ==
    /\ Idle
    /\ scenario.adapter = "git"
    /\ changes[o] # Missing /\ o \notin DOMAIN adopted
    /\ InScope(o)
    /\ canonical = changes[o].base
    /\ DOMAIN changes[o].after # {}
    /\ adopted' = Put(adopted, o, [parent |-> canonical, content |-> Applied(canonical, o)])
    /\ UNCHANGED <<scenario, leaseVars, jobVars, canonical, backup, ws, changes, landed, broken, up,
                   crashes, refusals>>

FastForward(o) ==
    /\ Idle
    /\ o \in DOMAIN adopted
    /\ canonical = adopted[o].parent
    /\ canonical' = adopted[o].content
    /\ landed' = Append(landed, o)
    /\ UNCHANGED <<scenario, leaseVars, jobVars, backup, ws, changes, adopted, broken, up,
                   crashes, refusals>>

-----------------------------------------------------------------------------
(* The process dies and is started again.  Workspaces and changesets are the  *)
(* host's, and survive; so does what is in the file system.                  *)

Crash ==
    /\ up
    /\ crashes < MaxCrash
    /\ crashes' = crashes + 1
    /\ up' = ~broken
    /\ leases' = dleases
    /\ claims' = {}
    /\ Ended
    /\ UNCHANGED <<scenario, dleases, issued, now, attempts, fileVars, broken, refusals>>

Original == [p \in Path |-> "old"]

Init ==
    /\ scenario \in Scenarios
    /\ now = 0 /\ issued = 0
    /\ leases = <<>> /\ dleases = <<>>
    /\ broken = FALSE /\ up = TRUE
    /\ attempts = [r \in Ref |-> "none"]
    /\ claims = {}
    /\ canonical = Original
    /\ backup = Missing
    /\ ws = [o \in Ref |-> Missing]
    /\ changes = [o \in Ref |-> Missing]
    /\ adopted = <<>>
    /\ job = NoJob
    /\ landed = <<>>
    /\ crashes = 0 /\ refusals = 0

LeaseStep ==
    \/ \E o \in Ref : \E rg \in scenario.pool[o], base \in Bases(o) : Acquire(o, rg, base)
    \/ \E l \in DOMAIN leases : Release(l) \/ Heartbeat(l)
    \/ Expire
    \/ Tick

WorkspaceStep == \E o \in Ref :
    \/ Bind(o)
    \/ \E p \in Path : Write(o, p, o)
    \/ Deliver(o)
    \/ Adopt(o)
    \/ FastForward(o)

IntegrationStep ==
    \/ Integrate \/ SkipDone \/ Stop \/ Enqueue \/ Claim
    \/ Rejected \/ Conflicted \/ Stage
    \/ MoveAside \/ MoveIn \/ MoveBack \/ Completed
    \/ Recover

Next == LeaseStep \/ WorkspaceStep \/ IntegrationStep \/ Crash

Spec == Init /\ [][Next]_vars

-----------------------------------------------------------------------------
(* Properties *)

\* Leases are well formed, and only an integration that is under way has moved
\* the canonical directory, unless the process died.
TypeOK ==
    /\ scenario \in Scenarios /\ now \in 0..MaxTime /\ issued \in 0..MaxLease
    /\ \A ls \in {leases, dleases} : \A l \in DOMAIN ls :
          /\ l \in 1..issued
          /\ ls[l].owner \in Ref
          /\ ls[l].status \in {"active", "released", "expired"}
          /\ ls[l].expires \in 0..(MaxTime + TTL)
    /\ attempts \in [Ref -> AttemptStatus]
    /\ claims \subseteq {r \in Ref : attempts[r] = "running"}
    /\ job.phase \in {"idle", "next", "queued", "started", "staged", "aside", "moved"}
    /\ (canonical = Missing <=> backup # Missing)
    /\ canonical = Missing => job.phase = "aside" \/ crashes > 0

\* ownership/manager.py: two active leases of one resource never stand for a
\* common item, in memory and after a restart, whatever expired or was renewed
\* in between.
Disjoint(a, b) == Footprint(a, Path, Keys) \cap Footprint(b, Path, Keys) = {}
ExcludesIn(ls) == \A l, m \in Active(ls) :
    LET a == ls[l].region
        b == ls[m].region
    IN l # m /\ a.kind = b.kind /\ a.id = b.id => Disjoint(a, b)
LeasesExclude == refusals = 0 => ExcludesIn(leases) /\ ExcludesIn(dleases)

\* workspaces/local.py and git.py: what reaches the canonical directory, or is
\* adopted, was changed from exactly what it replaces.
Landing(o) == landed' = Append(landed, o)
Replaced == IF canonical = Missing THEN backup ELSE canonical
NoLostUpdate ==
    [][\A o \in Ref : Landing(o) =>
          \A p \in DOMAIN changes[o].after : Replaced[p] = changes[o].base[p]]_vars

\* ownership/resolver.py: an integrated change is inside an active lease of its
\* owner, and inside no lease that another owner holds on the same base, though
\* leases of a file and of its directory do not exclude each other.
LandsUnderLease ==
    [][\A o \in Ref : Landing(o) /\ scenario.adapter = "local" =>
          \A p \in DOMAIN changes[o].after :
              {r \in Ref : OwnerMay(r, p, changes[o].base)} = {o}]_vars

\* integration/service.py: refs land in the plan's order, each once, across
\* crashes, refused appends and repeated calls.
LandsInOrder == scenario.adapter = "local" => IsPrefix(landed, Order)

\* A ref is recorded as integrated only when its changes have landed.
IntegratedHasLanded == \A r \in Ref : attempts[r] = "integrated" => r \in Range(landed)

-----------------------------------------------------------------------------
(* What is said of this part and the code does not do; the README names the *)
(* configuration that refutes each.                                         *)

\* ValueRoute-*.md:1323 (NFR-015) and CHANGELOG.md:63: a failed integration
\* leaves the canonical workspace at the last committed revision.
CanonicalSurvives == Idle => canonical # Missing

\* ValueRoute-*.md:1310 (NFR-002): no overlapping leases, also when an append is
\* refused.
LeasesAlwaysExclude == ExcludesIn(leases) /\ ExcludesIn(dleases)

\* ValueRoute-*.md, 8.4: a lease of a directory covers all its descendants.
FilesAllowed(rg) == {p \in Path : Allows(p, rg, rg.base)}
DirectoriesExclude == refusals = 0 => \A l, m \in Active(leases) :
    l # m => FilesAllowed(leases[l].region) \cap FilesAllowed(leases[m].region) = {}

\* ValueRoute-*.md:808: a transition and its effect are committed together.  Between
\* calls, what has landed is recorded as integrated.
LandedIsIntegrated ==
    Idle /\ scenario.adapter = "local" => \A r \in Range(landed) : attempts[r] = "integrated"

\* ValueRoute-*.md:1309 (NFR-001): leases that were committed are not lost.
LeasesReload == up
=============================================================================
