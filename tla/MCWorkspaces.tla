---------------------------- MODULE MCWorkspaces ----------------------------
(* The instances of Workspaces that TLC checks. *)
EXTENDS Workspaces

TwoRefs == <<"back", "front">>
TwoPaths == {<<"f">>, <<"d", "x">>}
FourKeys == 1..4

Dir(prefix) == [kind |-> "directory", id |-> <<"ws">>, sel |-> "path_prefix", val |-> prefix]
File(path) == [kind |-> "file", id |-> path, sel |-> "whole_resource", val |-> Unparsed]
Table(sel, val) == [kind |-> "database", id |-> <<"t">>, sel |-> sel, val |-> val]

Pools(a, b) == "back" :> a @@ "front" :> b
Scene(pool, adapter, working, clock, full) ==
    [pool |-> pool, adapter |-> adapter, working |-> working, clock |-> clock, full |-> full]

Tree == Pools({Dir(<<"d">>)}, {Dir(<<"d", "x">>), File(<<"f">>)})
Mixed == Pools({Dir(<<"d">>)}, {File(<<"d", "x">>)})
Apart == Pools({Dir(<<"d">>)}, {File(<<"f">>)})
Rows == Pools({Table("row_keys", {1, 2}), Table("key_range", <<1, 2>>), Table("whole_resource", Unparsed)},
              {Table("row_keys", {2, 3}), Table("key_range", <<2, 4>>), Table("key_range", <<3, 1>>),
               Table("row_keys", Unparsed)})
Dotted == Pools({Dir(<<"d">>)}, {Dir(<<".", "d">>)})

\* Leases alone, with time; integrations of separate and of overlapping work;
\* the git adapter.
WorkScenarios ==
    {Scene(Tree, "local", FALSE, TRUE, TRUE),
     Scene(Rows, "local", FALSE, TRUE, TRUE),
     Scene(Apart, "local", TRUE, FALSE, TRUE),
     Scene(Mixed, "local", TRUE, FALSE, FALSE),
     Scene(Apart, "git", TRUE, FALSE, FALSE)}
DottedScenarios == {Scene(Dotted, "local", TRUE, FALSE, FALSE)}
=============================================================================
