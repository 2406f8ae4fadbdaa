--------------------------- MODULE MCStreamSetup ---------------------------
(* StreamSetup with values for TLC. *)
EXTENDS StreamSetup

\* A size that is no multiple of the macroblock, whose rows are not whole
\* strides.
SomeSizes == {<< 720, 470 >>}

\* An allocation of each kind: one that fails the session before, in and
\* after its tables, one that drops a table, one of a frame's.
SomeDenied == {<<"open", 0>>, <<"coloc", 1>>, <<"xc", 1>>, <<"pic", 0>>,
               <<"proc", 0>>}
Neighbours == {<<"nbr", 0>>}
Nothing == {}

\* No floor, and one above what the picture needs.
NoFloor == {0}
SomeFloors == {0, 4000000}

\* Of each kind of setting, the one that meets the others' limits: most B
\* frames, the profile without them, the highest QP, limits that cross, ten
\* bits and a client that takes them back.
SomeSettings == {<< "b_frames", 2 >>, << "profile", 66 >>, << "qp", 51 >>,
                 << "rc", TRUE >>, << "p_refs", 2 >>, << "qp_max", 5 >>,
                 << "main10", TRUE >>, << "main10", FALSE >>}
=============================================================================
