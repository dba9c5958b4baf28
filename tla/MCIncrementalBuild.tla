--------------------------- MODULE MCIncrementalBuild ---------------------------
(* Projects for IncrementalBuild.                                          *)
EXTENDS IncrementalBuild, TLC

CONSTANTS u, v, h, lib, app

(* u includes the header                                                   *)
OwnIncludes == (u :> <<h>> @@ v :> <<>>)

OldFlags == <<"a", "b">>
OtherFlags == {OldFlags, <<"a", "c">>}

(* a program of two files, and a program with a library                    *)
OneTarget(may) ==
    [units |-> (lib :> {} @@ app :> {u, v}),
     libs |-> (lib :> {} @@ app :> {}), may |-> may]
WithLibrary(may) ==
    [units |-> (lib :> {u} @@ app :> {v}),
     libs |-> (lib :> {} @@ app :> {lib}), may |-> may]

(* builds that are killed and repeated, builds that fail, and a project    *)
(* that changes                                                            *)
OwnProjects ==
    {WithLibrary({"edit", "kill"}),
     WithLibrary({"edit", "flags", "rebuild", "fail"}),
     WithLibrary({"edit", "remove"}),
     OneTarget({"edit", "sources", "fail"})}

(* a rebuild that is killed, and a build after it                          *)
KilledRebuild == {OneTarget({"rebuild", "kill"})}
=============================================================================
