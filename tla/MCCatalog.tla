----------------------------- MODULE MCCatalog -----------------------------
(* Instances of Catalog for TLC.                                           *)
EXTENDS Catalog, TLC

CONSTANTS w1, w2, w3, service, cli, t1, t2, t3

\* Two threads of the service process.
OneProcess == (w1 :> service) @@ (w2 :> service)
\* A service thread and a command-line process.
TwoProcesses == (w1 :> service) @@ (w2 :> cli)
\* Two service threads and a command-line process.
ThreeThreads == (w1 :> service) @@ (w2 :> service) @@ (w3 :> cli)

EveryOp   == AllOps
NoProtect == {{}}
SomeProtect == {{}, {1}}

WriteSymmetry == Permutations(Writes)
============================================================================
