------------------------------- MODULE MCVideo -------------------------------
(***************************************************************************)
(* Instances of VideoWorker, one project each: a behaviour is one of one   *)
(* `part`, which says who acts and what is asked for.                      *)
(***************************************************************************)
EXTENDS VideoWorker, TLC

CONSTANT Parts

VARIABLE part

suiteVars == <<part, vars>>

Symmetry == Permutations(Request) \union Permutations(Worker)

Everything == {"source", "cover", "frame", "reconcile", "reprocess", "publish", "retry", "edit", "cancel", "cleanup", "revoke"}

\* A reviewed project is published by two workers.
Publishing == INSTANCE VideoWorker WITH
    Reviewed <- TRUE, Asks <- {"publish", "retry", "edit", "cancel", "cleanup"},
    MaxCovers <- 1, MaxCommands <- 2, MaxFaults <- 2
\* Covers are uploaded, taken from frames and chosen.
Covering == INSTANCE VideoWorker WITH
    Reviewed <- TRUE, Asks <- {"cover", "frame", "edit", "reconcile"},
    MaxCovers <- 2, MaxCommands <- 3, MaxFaults <- 1
\* A new project: two uploads, processing, revocation of the administrator.
Uploading == INSTANCE VideoWorker WITH
    Reviewed <- FALSE, Asks <- {"source", "reconcile", "reprocess", "cancel", "revoke"},
    MaxCovers <- 1, MaxCommands <- 2, MaxFaults <- 1
\* A cover is uploaded while the project is published or cancelled.
Meeting == INSTANCE VideoWorker WITH
    Reviewed <- TRUE, Asks <- {"cover", "publish", "cancel"},
    MaxCovers <- 1, MaxCommands <- 3, MaxFaults <- 1
\* The administrator is revoked while the project is published.
Denied == INSTANCE VideoWorker WITH
    Reviewed <- TRUE, Asks <- {"publish", "cancel", "revoke"},
    MaxCovers <- 1, MaxCommands <- 2, MaxFaults <- 1

\* Only one upload operation, or one process, takes part.
OneRequest == Cardinality({r \in Request : ingress'[r] # NoIngress \/ calls'[r] # NoCall}) <= 1
OneWorker == Cardinality({w \in Worker : work'[w] # Idle \/ lease'.owner = w}) <= 1

ASSUME /\ VideoAssumption /\ Publishing!VideoAssumption /\ Covering!VideoAssumption
       /\ Uploading!VideoAssumption /\ Meeting!VideoAssumption /\ Denied!VideoAssumption

SuiteInit == /\ part \in Parts
             /\ CASE part = "publish" -> Publishing!WorkInit
                  [] part = "covers" -> Covering!WorkInit
                  [] part = "upload" -> Uploading!WorkInit
                  [] part = "meeting" -> Meeting!WorkInit
                  [] part = "denied" -> Denied!WorkInit

SuiteNext == /\ UNCHANGED part
             /\ CASE part = "publish" -> Publishing!Next
                  [] part = "covers" -> Covering!Next /\ OneRequest /\ OneWorker
                  [] part = "upload" -> Uploading!Next /\ OneWorker
                  [] part = "meeting" -> Meeting!Next /\ OneRequest /\ OneWorker
                  [] part = "denied" -> Denied!Next

SuiteSpec == SuiteInit /\ [][SuiteNext]_suiteVars
=============================================================================
