----------------------------- MODULE MCErasure -----------------------------
(***************************************************************************)
(* Small workspaces for TLC: one or two people, the owner's password or    *)
(* none, staff beside a worker.                                            *)
(***************************************************************************)
EXTENDS Erasure

CONSTANTS ann, bob, p1, p2

\* Staff decide and run at once; a worker runs the jobs while people cancel.
StaffDoes ==
  [p \in {p1, p2} |->
     IF p = p1 THEN {"approve", "reject", "retry", "start"} ELSE {"job", "cancel"}]
=============================================================================
