------------------------------ MODULE Regions ------------------------------
(***************************************************************************)
(* Resource regions: when two overlap, when one covers another, and which    *)
(* changed paths a region lets its owner write.  application/service.py,     *)
(* ownership/boundaries.py, ownership/resolver.py, workspaces/local.py,      *)
(* workspaces/git.py, evidence/verifier.py.                                  *)
(*                                                                         *)
(* A path or a JSON pointer is the sequence of its names, so a trailing "/"  *)
(* is gone already; "." is kept, for only workspaces/ drops it.  A region is  *)
(* [kind, id, sel, val, base] as in domain/models.py.                        *)
(***************************************************************************)
EXTENDS Integers, Sequences, SequencesExt, FiniteSetsExt

CONSTANT Unparsed   \* the value of a selector that the code cannot parse

\* path == prefix or path.startswith(prefix + "/"): the empty prefix has only
\* itself below it.
Below(prefix, path) == path = prefix \/ (prefix # <<>> /\ IsPrefix(prefix, path))

\* _ranges_overlap, on pairs of bounds.
RangesOverlap(a, b) == Unparsed \in {a, b} \/ Max({a[1], b[1]}) <= Min({a[2], b[2]})

\* What remains of overlaps() for two selectors of one type, by that type.
SelectorsOverlap(sel, a, b) ==
    CASE sel \in {"symbol", "partition", "provider_subresource"} -> a = b
      [] sel = "path_prefix" -> Below(a, b) \/ Below(b, a)
      [] sel = "json_pointer" -> IsPrefix(a, b) \/ IsPrefix(b, a)    \* a pointer begins with "/"
      [] sel = "row_keys" -> Unparsed \in {a, b} \/ a \cap b # {}
      [] sel = "key_range" -> RangesOverlap(a, b)
      [] OTHER -> TRUE

\* overlaps: nothing of two resources does; otherwise what is not known to be
\* disjoint does.
Overlaps(a, b) ==
    /\ a.kind = b.kind
    /\ a.id = b.id
    /\ \/ a.base # b.base
       \/ "whole_resource" \in {a.sel, b.sel}
       \/ a.sel # b.sel
       \/ SelectorsOverlap(a.sel, a.val, b.val)

\* _covers, of boundaries.py and of verifier.py.
Covers(allowed, requested) ==
    /\ allowed.kind = requested.kind
    /\ allowed.id = requested.id
    /\ allowed.base = requested.base
    /\ \/ allowed.sel = "whole_resource"
       \/ allowed.sel = "path_prefix" /\ requested.sel = "path_prefix"
            /\ Below(allowed.val, requested.val)
       \/ allowed.sel = requested.sel /\ allowed.val = requested.val

\* _normal_path.  (A path that leaves the workspace, which it refuses, is left out.)
Normal(path) == SelectSeq(path, LAMBDA name : name # ".")

\* _allows: may the owner of the region change the path?
Allows(path, region, base) ==
    /\ region.base = base
    /\ \/ region.kind = "file" /\ region.sel = "whole_resource" /\ Normal(region.id) = path
       \/ region.kind = "directory" /\ region.sel = "path_prefix" /\ Below(Normal(region.val), path)

\* resolve_change_path looks at the paths as they were written, ...
Matches(path, region) ==
    \/ region.kind = "file" /\ region.sel = "whole_resource" /\ region.id = path
    \/ region.kind = "directory" /\ region.sel = "path_prefix" /\ Below(region.val, path)

\* ... and gives up on a region that no file change can be held against.
Unresolvable(region) ==
    /\ ~(region.kind = "file" /\ region.sel = "whole_resource")
    /\ ~(region.kind = "directory" /\ region.sel = "path_prefix")
    /\ \/ region.kind \in {"database", "external"}
       \/ region.sel \in {"symbol", "ast_node", "row_keys", "key_range", "partition",
                          "json_pointer", "provider_subresource"}

\* regions: the regions of the active leases, one for each lease.
ResolvesSomewhere(path, base, regions) ==
    LET onBase == {l \in DOMAIN regions : regions[l].base = base}
    IN /\ \A l \in onBase : ~Unresolvable(regions[l])
       /\ \E l \in onBase : Matches(path, regions[l])
ResolvesPath(path, base, regions) ==
    LET onBase == {l \in DOMAIN regions : regions[l].base = base}
    IN /\ \A l \in onBase : ~Unresolvable(regions[l])
       /\ Cardinality({l \in onBase : Matches(path, regions[l])}) = 1

\* resolve_observation, with a trusted resolver whose answer is checked to be
\* what was observed: exactly one active lease overlaps it.
ResolvesObservation(seen, regions) ==
    /\ seen.kind \in {"database", "external"}
    /\ Cardinality({l \in DOMAIN regions : Overlaps(regions[l], seen)}) = 1

-----------------------------------------------------------------------------
(* A reference: what a region stands for (design document, section 8.4).     *)
(* The items of a resource are paths, keys and names.                        *)

Footprint(r, paths, keys) ==
    LET allPaths == {<<"path", p>> : p \in paths}
        allKeys == {<<"key", k>> : k \in keys}
    IN CASE r.sel = "whole_resource" -> allPaths \cup allKeys
         [] r.sel = "path_prefix" -> {i \in allPaths : r.val # <<>> /\ IsPrefix(r.val, i[2])}
         [] r.sel = "json_pointer" -> {i \in allPaths : IsPrefix(r.val, i[2])}
         [] r.sel = "row_keys" -> {i \in allKeys : r.val = Unparsed \/ i[2] \in r.val}
         [] r.sel = "key_range" ->
              {i \in allKeys : r.val = Unparsed \/ (r.val[1] <= i[2] /\ i[2] <= r.val[2])}
         [] OTHER -> {<<"name", r.val>>}
=============================================================================
