---------------------------- MODULE MCBackOffice ----------------------------
(***************************************************************************)
(* The desks staff work at: tickets, articles, announcements, what they do *)
(* to subscriptions and the waiting list. They share no state, so a        *)
(* behaviour follows one of them, chosen at the start, and the others stay *)
(* as they began: one run checks them all, and a violation names the part  *)
(* it is in.                                                               *)
(***************************************************************************)
EXTENDS Support, Content, Notifications, Billing, WaitingList, TLC

CONSTANTS v1, v2, y1, y2, ann, free, pro

VARIABLE part

deskVars == <<part, supportVars, contentVars, noticeVars, vars, waitVars>>

\* One request makes articles, another does everything else to them.
OneMakesOneEdits ==
  [v \in {v1, v2} |-> IF v = v1 THEN {"insert"} ELSE Kinds \ {"insert"}]

\* Forms with what their type does not use left in, and with what is nothing.
SomeForms ==
  <<{[type |-> "plan", planKeys |-> {pro, Unknown}, userIds |-> {ann}]},
    {[type |-> "users", planKeys |-> {free}, userIds |-> {ann, Unknown}],
     [type |-> "owners", planKeys |-> {Unknown}, userIds |-> {}]}>>

\* Staff cancel or delete, or convert and resend, while visitors join.
TwoVisits ==
  [y \in {y1, y2} |-> IF y = y1 THEN {"join", "cancel", "delete"}
                     ELSE {"join", "convert", "resend"}]

\* Requests about tickets are alike.
Alike == Permutations(Desks)

BackOfficeInit ==
  /\ part \in {"tickets", "articles", "announcements", "billing", "waiting list"}
  /\ SupportInit /\ ContentInit /\ NoticesInit /\ Init /\ WaitInit
  /\ part # "announcements" => viewer[ann].role = "owner" /\ viewer[ann].plan = free

BackOfficeNext ==
  /\ UNCHANGED part
  /\ \/ part = "tickets" /\ SupportNext
        /\ UNCHANGED <<contentVars, noticeVars, vars, waitVars>>
     \/ part = "articles" /\ ContentNext
        /\ UNCHANGED <<supportVars, noticeVars, vars, waitVars>>
     \/ part = "announcements" /\ NoticesNext
        /\ UNCHANGED <<supportVars, contentVars, vars, waitVars>>
     \/ part = "billing" /\ Next
        /\ UNCHANGED <<supportVars, contentVars, noticeVars, waitVars>>
     \/ part = "waiting list" /\ WaitNext
        /\ UNCHANGED <<supportVars, contentVars, noticeVars, vars>>

BackOfficeSpec == BackOfficeInit /\ [][BackOfficeNext]_deskVars
=============================================================================
