----------------------------- MODULE MCReviews -----------------------------
(* The instances of Reviews that TLC checks. *)
EXTENDS Reviews

CONSTANTS r1, r2, r3, r4, r5, nobody, alice, bob

FiveRequests == {r1, r2, r3, r4, r5}
TwoOwners == {alice, bob}
Agents == Permutations(TwoOwners)
Dir(prefix) ==
    [kind |-> "directory", id |-> <<"ws">>, sel |-> "path_prefix", val |-> prefix, base |-> "r"]
TwoRegions == {Dir(<<"ui">>), Dir(<<"api">>)}
FourRegions == TwoRegions \cup {Dir(<<"ui", "css">>), Dir(<<"db">>)}
Grants == {TwoRegions, FourRegions}
OneByOne == {{x} : x \in FourRegions}
Observed == 1 :> Dir(<<"ui", "css">>)

Scene(a, b, c, d, e, full) ==
    [ask |-> r1 :> a @@ r2 :> b @@ r3 :> c @@ r4 :> d @@ r5 :> e, full |-> full]

\* A child that changes hands with a review pending or accepted; a review that
\* is rejected and submitted again; two verifications of one review; appends
\* that are refused.
HandOvers ==
    {Scene("assign", "submit", "verify", "release", "transfer", FALSE),
     Scene("assign", "submit", "reject", "submit", "verify", FALSE),
     Scene("assign", "submit", "submit", "verify", "verify", FALSE),
     Scene("assign", "release", "transfer", "submit", "none", TRUE),
     Scene("assign", "submit", "verify", "none", "none", TRUE)}
=============================================================================
