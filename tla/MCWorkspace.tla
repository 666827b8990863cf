---------------------------- MODULE MCWorkspace ----------------------------
(***************************************************************************)
(* One workspace small enough for TLC, its team and its files, each alone. *)
(* Team and owners: which kinds of request overlap. Files and deletions:   *)
(* two overlapping requests or jobs, a file of two bytes among files of    *)
(* one. A behaviour is in one of the parts from the start.                 *)
(***************************************************************************)
EXTENDS Workspace, Files

CONSTANTS p1, p2, r1, r2

TeamDoes == [p \in {p1, p2} |-> Kinds]

\* The owner submits a transfer twice, and a new owner may pass it on.
TransferDoes == [p \in {p1, p2} |-> {"invite", "accept", "transfer"}]

SizeDef == [f \in Uploads |-> IF f = 3 THEN 2 ELSE 1]

\* Everything but logos, beside a second that does not send pictures.
AnyFiles == [p \in {r1, r2} |->
  IF p = r1 THEN FileKinds \ {"logo"} ELSE {"upload", "delete", "purge"}]

\* The logo is replaced again and again.
LogoDoes == [p \in {r1} |-> {"logo"}]

VARIABLE part

workspaceVars == <<part, vars, filesVars>>

WorkspaceInit ==
  /\ part \in {"team", "owners", "files", "deletions"} /\ Init /\ FilesInit
  /\ part \in {"files", "deletions"} => limit = 1
  /\ part = "owners" => limit = 2
  /\ part \in {"team", "owners"} => quota = 1

InTeam == part \in {"team", "owners"} /\ UNCHANGED <<part, filesVars>>
InFiles == part \in {"files", "deletions"} /\ UNCHANGED <<part, vars>>

\* Admissions overlap with everything and with each other; and whoever departs
\* or transfers, with each other and with somebody coming in.
Admissions == {"invite", "accept", "revoke", "none"}
Moves == {"accept", "depart", "transfer", "none"}
Overlap ==
  \/ part = "team" /\ kind'[p2] \in Admissions
  \/ part = "owners" /\ UNCHANGED <<limit, expired>>
     /\ kind'[p1] \in Moves \cup {"invite", "delete"} /\ kind'[p2] \in Moves

\* A purge overlaps with everything, another purge included; and whoever
\* deletes, with another who does.
FilesOverlap ==
  \/ part = "files" /\ purpose'[r2] # "delete"
  \/ part = "deletions" /\ UNCHANGED <<quota, lapsed, faults>> /\ purpose'[r2] # "purge"

WorkspaceNext == \/ InTeam /\ Next /\ Overlap
                 \/ InFiles /\ FilesNext /\ FilesOverlap

\* Row locks are granted in turn; requests about files are served to their end
\* and the purge runs every night.
WorkspaceSpec ==
  /\ WorkspaceInit /\ [][WorkspaceNext]_workspaceVars
  /\ \A p \in Procs : SF_workspaceVars(InTeam /\ Finish(p))
  /\ \A p \in Requests : WF_workspaceVars(InFiles /\ ServeStep(p))
  /\ WF_workspaceVars(InFiles /\ \E p \in Requests : StartPurge(p))

\* The team alone.
TransfersSpec == WorkspaceInit /\ part = "team" /\ [][InTeam /\ Next]_workspaceVars

\* The files alone, with pictures for the workspace as well as for people.
LogoSpec ==
  /\ WorkspaceInit /\ part = "files"
  /\ [][InFiles /\ (FilesNext \/ \E p \in Requests : SaveLogo(p))]_workspaceVars
=============================================================================
