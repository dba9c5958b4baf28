----------------------------- MODULE MCBuildGraph -----------------------------
(* Projects for BuildGraph.                                                *)
EXTENDS BuildGraph

(* all policies, with two groups of source files in each target            *)
Policies ==
    [kinds |-> {"object", "static", "phony"}, layers |-> {2},
     parallel |-> BOOLEAN, fences |-> BOOLEAN, enabled |-> {TRUE},
     private |-> FALSE, choices |-> {Targets}]

(* targets that are disabled, not inherited or not asked for               *)
Choice ==
    [kinds |-> {"object", "binary", "phony"}, layers |-> {0},
     parallel |-> {TRUE}, fences |-> {FALSE}, enabled |-> BOOLEAN,
     private |-> TRUE, choices |-> {Targets, Targets \ {1}}]

OwnProfiles == {Policies, Choice}
=============================================================================
