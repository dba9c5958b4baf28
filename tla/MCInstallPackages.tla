--------------------------- MODULE MCInstallPackages ---------------------------
(* Projects for InstallPackages.                                           *)
EXTENDS InstallPackages, TLC

CONSTANTS p1, p2, a, b, c, grp, fa, fb, fc

Plain ==
    [order |-> (p1 :> <<a, b, c>> @@ p2 :> <<>>),
     deps |-> [x \in Pkgs |-> {}],
     group |-> [x \in Pkgs |-> NONE],
     file |-> (a :> fa @@ b :> fb @@ c :> fc),
     serial |-> {}, optional |-> {}, precompiled |-> {}, faulty |-> {},
     comax |-> 2]

Deps(da, db, dc) == (a :> da @@ b :> db @@ c :> dc)

(* one process: all dependencies along a, b, c and up to two packages that *)
(* must be alone; a and b may have one lock file if b must be alone        *)
Alone ==
    {[Plain EXCEPT !.deps = Deps({}, db, dc), !.serial = ser, !.file = fl,
                   !.comax = 3] :
        db \in SUBSET {a}, dc \in SUBSET {a, b},
        ser \in {{}, {b}, {a, c}, {b, c}},
        fl \in {Plain.file, (a :> fa @@ b :> fa @@ c :> fc)}}

(* failures that leave at most one package behind                          *)
Failing ==
    {[Plain EXCEPT !.deps = Deps({}, {}, dc), !.serial = ser, !.faulty = fau,
                   !.optional = opt, !.precompiled = pre] :
        dc \in SUBSET {b}, ser \in SUBSET {a, b}, fau \in {{b}, {a, b}},
        opt \in {{}, {b}}, pre \in {{}, {b}}}

(* a and b are of one group                                                *)
Grouped ==
    {[Plain EXCEPT !.group = (a :> grp @@ b :> grp @@ c :> NONE),
                   !.deps = Deps({}, {}, dc), !.faulty = fau, !.optional = {a}] :
        dc \in SUBSET {a}, fau \in SUBSET {a}}

(* two processes that install the same packages, in the same order         *)
Shared ==
    {[Plain EXCEPT !.order = (p1 :> <<a, b>> @@ p2 :> o),
                   !.deps = Deps({}, db, {}), !.faulty = fau] :
        o \in {<<a, b>>, <<b>>}, db \in SUBSET {a}, fau \in SUBSET {b}}

OwnSetups == {s \in Alone : s.file[a] # s.file[b] \/ b \in s.serial}
                \cup Failing \cup Grouped
                \cup {s \in Shared : s.order[p2] = <<a, b>> \/ s.deps[b] = {}}

(* a fails, b and c wait for it                                            *)
LeftBehind == {[Plain EXCEPT !.deps = Deps({}, {a}, {a}), !.faulty = {a},
                             !.comax = 3]}
=============================================================================
