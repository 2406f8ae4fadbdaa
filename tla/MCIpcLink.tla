----------------------------- MODULE MCIpcLink -----------------------------
EXTENDS IpcLink, TLC
\* Enough to fill SHAREDMALLOC and to keep BUF_T2H's slots for good.
SmallSpeaks == (IO :> 1) @@ (IO_T2H :> 1) @@ (SHAREDMALLOC :> 3)
               @@ (TERMINAL :> 1) @@ (BUF_T2H :> 1)
Symmetry == Permutations(Blocks)
=============================================================================
