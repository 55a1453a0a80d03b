---------------------------- MODULE MCWorkspace ----------------------------
(***************************************************************************)
(* Pipelines, files and bounds for model checking Workspace.               *)
(***************************************************************************)
EXTENDS Workspace

\* Two writers, one with a file of the project and one with a new file, and a
\* publisher that waits for the second.
PrDeps == [s \in Stages |-> IF s = Publisher THEN {"web"} ELSE {}]
TwoOwners == [f \in Files |-> IF f = "page" THEN "web" ELSE "api"]

WorkBounds == [attempts |-> 2, stops |-> 1, faults |-> 1]
=============================================================================
