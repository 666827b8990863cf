------------------------------ MODULE Support ------------------------------
(***************************************************************************)
(* Support conversations: customers and staff who answer each other, and   *)
(* the ticket whose status says whose turn it is (support_service.ts and   *)
(* its two controllers). A request loads the ticket, and writes it in a    *)
(* later transaction with the columns that changed against what it loaded. *)
(***************************************************************************)
EXTENDS Integers, Sequences, Lucid

CONSTANTS
  Tickets, Desks,          \* tickets, and requests under way at once
  Customers, Owners,       \* members of the workspace, and its owners
  Agents,                  \* staff who may answer
  MaxTalk,                 \* bound on the messages of a ticket
  AttachmentLimit,         \* SUPPORT_ATTACHMENT_LIMIT
  NoOne

TicketRow ==
  [status : {"open", "answered", "resolved"}, author : Customers,
   assigned : Agents \cup {NoOne}, lastMessageAt : 1..MaxTalk,
   firstRespondedAt : 0..MaxTalk, resolvedAt : BOOLEAN]

ASSUME SupportAssumption ==
  /\ Owners \subseteq Customers /\ Customers \cap Agents = {}
  /\ MaxTalk \in Nat \ {0} /\ AttachmentLimit \in Nat
  /\ NoOne \notin Customers \cup Agents \cup Tickets \cup TicketRow

VARIABLES
  ticket,        \* support_tickets: NoOne, or the row
  talk,          \* support_messages of each, oldest first
  desk,          \* where each request is: step, who, ticket, the row as it
                 \* loaded it, the message it wrote
  overtaken,     \* requests whose ticket was spoken on since they loaded it
  clear          \* tickets last written by a request that was not overtaken

supportVars == <<ticket, talk, desk, overtaken, clear>>

Message == [by : Customers \cup Agents, files : 0..AttachmentLimit, mailed : BOOLEAN]
Idle == [step |-> "idle", who |-> NoOne, on |-> NoOne, loaded |-> NoOne, said |-> 0]

SupportInit ==
  /\ ticket = [t \in Tickets |-> NoOne]
  /\ talk = [t \in Tickets |-> <<>>]
  /\ desk = [d \in Desks |-> Idle]
  /\ overtaken = {} /\ clear = Tickets

-----------------------------------------------------------------------------
(* Reading. scopeFor: a member sees their own tickets, an owner all; staff *)
(* see every one.                                                          *)

Opened == {t \in Tickets : ticket[t] # NoOne}
InScope(u) == {t \in Opened : u \in Owners \/ ticket[t].author = u}
AwaitingCustomer(u) == {t \in InScope(u) : ticket[t].status = "answered"}
Queue(status) == {t \in Opened : ticket[t].status = status}

LoadTicket(d, who, t, step) ==
  /\ desk[d].step = "idle"
  /\ t \in IF who \in Agents THEN Opened ELSE InScope(who)
  /\ desk' = [desk EXCEPT ![d] = [step |-> step, who |-> who, on |-> t,
                                  loaded |-> ticket[t], said |-> 0]]
  /\ UNCHANGED <<ticket, talk, overtaken, clear>>

-----------------------------------------------------------------------------
(* Speaking. Every write of the status overtakes those who have loaded the *)
(* ticket and not written it yet.                                          *)

StatusSteps == {"userReply", "staffReply", "resolve"}

Overtakes(d, t) ==
  /\ overtaken' = (overtaken \ {d}) \cup
       {e \in Desks \ {d} : desk[e].on = t /\ desk[e].step \in StatusSteps}
  /\ clear' = IF d \in overtaken THEN clear \ {t} ELSE clear \cup {t}

LeavesDesk(d) == desk' = [desk EXCEPT ![d] = Idle]

Says(who) == [by |-> who, files |-> 0, mailed |-> FALSE]

\* open: the row and its first message are one transaction.
OpenTicket(d, u, t) ==
  /\ desk[d].step = "idle" /\ ticket[t] = NoOne
  /\ ticket' = [ticket EXCEPT ![t] =
       [status |-> "open", author |-> u, assigned |-> NoOne, lastMessageAt |-> 1,
        firstRespondedAt |-> 0, resolvedAt |-> FALSE]]
  /\ talk' = [talk EXCEPT ![t] = <<Says(u)>>]
  /\ desk' = [desk EXCEPT ![d] = [step |-> "attach", who |-> u, on |-> t,
                                  loaded |-> NoOne, said |-> 1]]
  /\ UNCHANGED <<overtaken, clear>>

ByUser(loaded, now) ==
  [status |-> "open", lastMessageAt |-> now, resolvedAt |-> FALSE]

Restamps(loaded, now) ==                                               \* mutant
  [status |-> "answered", lastMessageAt |-> now, resolvedAt |-> FALSE,
   firstRespondedAt |-> now]
ByStaff(loaded, now) ==
  [status |-> "answered", lastMessageAt |-> now, resolvedAt |-> FALSE,
   firstRespondedAt |-> IF loaded.firstRespondedAt = 0 THEN now
                        ELSE loaded.firstRespondedAt]

\* The hour of the next message of the ticket, which is its number.
Hour(d) == Len(talk[desk[d].on]) + 1

\* One transaction: the message and what it writes to the ticket.
Speak(d, step, next, stamps) ==
  LET t == desk[d].on
  IN /\ desk[d].step = step /\ Hour(d) <= MaxTalk
     /\ talk' = [talk EXCEPT ![t] = Append(@, Says(desk[d].who))]
     /\ ticket' = [ticket EXCEPT ![t] = Saved(@, desk[d].loaded, stamps)]
     /\ Overtakes(d, t)
     /\ desk' = [desk EXCEPT ![d].step = next, ![d].loaded = NoOne, ![d].said = Hour(d)]

ReplyAsUser(d) ==
  Speak(d, "userReply", "attach", ByUser(desk[d].loaded, Hour(d)))
ReplyAsStaff(d) ==
  Speak(d, "staffReply", "tell", ByStaff(desk[d].loaded, Hour(d)))

ResolveTicket(d) ==
  LET t == desk[d].on IN
  /\ desk[d].step = "resolve"
  /\ ticket' = [ticket EXCEPT ![t] =
       [Saved(@, desk[d].loaded, [status |-> "resolved"]) EXCEPT !.resolvedAt = TRUE]]
  /\ Overtakes(d, t)
  /\ LeavesDesk(d)
  /\ UNCHANGED talk

Assign(d, staff) ==
  LET t == desk[d].on IN
  /\ desk[d].step = "assign" /\ staff \in {desk[d].who, NoOne}
  /\ ticket' = [ticket EXCEPT ![t] = Saved(@, desk[d].loaded, [assigned |-> staff])]
  /\ LeavesDesk(d)
  /\ UNCHANGED <<talk, overtaken, clear>>

-----------------------------------------------------------------------------
(* What follows the transaction: the customer's files one by one, until    *)
(* one is refused, and the mail about an answer.                           *)

Attach(d) ==
  /\ desk[d].step = "attach"
  /\ talk[desk[d].on][desk[d].said].files < AttachmentLimit
  /\ talk' = [talk EXCEPT ![desk[d].on][desk[d].said].files = @ + 1]
  /\ UNCHANGED <<ticket, desk, overtaken, clear>>

\* No more files, or one too large or of another kind.
AttachedOrRefused(d) ==
  /\ desk[d].step = "attach"
  /\ LeavesDesk(d)
  /\ UNCHANGED <<ticket, talk, overtaken, clear>>

Tell(d) ==
  /\ desk[d].step = "tell"
  /\ talk' = [talk EXCEPT ![desk[d].on][desk[d].said].mailed = TRUE]
  /\ LeavesDesk(d)
  /\ UNCHANGED <<ticket, overtaken, clear>>

\* The request fails, or its process dies; a transaction leaves no trace.
Abandon(d) ==
  /\ desk[d].step # "idle"
  /\ LeavesDesk(d)
  /\ overtaken' = overtaken \ {d}
  /\ UNCHANGED <<ticket, talk, clear>>

SupportNext ==
  \E d \in Desks :
    \/ \E t \in Tickets, u \in Customers :
         OpenTicket(d, u, t) \/ LoadTicket(d, u, t, "userReply")
    \/ \E t \in Tickets, s \in Agents, step \in {"staffReply", "resolve", "assign"} :
         LoadTicket(d, s, t, step)
    \/ ReplyAsUser(d) \/ ReplyAsStaff(d) \/ ResolveTicket(d)
    \/ \E s \in Agents \cup {NoOne} : Assign(d, s)
    \/ Attach(d) \/ AttachedOrRefused(d) \/ Tell(d) \/ Abandon(d)

SupportSpec == SupportInit /\ [][SupportNext]_supportVars

-----------------------------------------------------------------------------

\* Every column holds a value of its own kind, and a request works on a row
\* that exists (the columns support_service.ts reads and writes).
SupportTypeOK ==
  /\ ticket \in [Tickets -> TicketRow \cup {NoOne}]
  /\ talk \in [Tickets -> Seq(Message)]
  /\ \A t \in Tickets : Len(talk[t]) <= MaxTalk
  /\ \A d \in Desks : desk[d].step # "idle" => desk[d].on \in Opened
  /\ overtaken \subseteq {d \in Desks : desk[d].step \in StatusSteps}
  /\ clear \subseteq Tickets

\* The status says whose turn it is: after a write by a request that nobody
\* overtook, in the open queue exactly if the customer spoke last, in nobody's
\* menu unless staff did, and resolved exactly if it carries the moment it was
\* resolved (replyAsUser, replyAsStaff, resolve, awaitingCustomerCount).
StatusSaysWhoseTurn ==
  \A t \in Opened \cap clear :
    LET last == talk[t][Len(talk[t])].by IN
      /\ ticket[t].resolvedAt <=> t \in Queue("resolved")
      /\ t \notin Queue("resolved") => (t \in Queue("open") <=> last \in Customers)
      /\ \A u \in Customers : t \in AwaitingCustomer(u) => last \in Agents

\* However requests overlap, the list sorts by the newest message, and the
\* ticket has a first answer exactly if staff ever spoke (last_message_at and
\* first_responded_at are written in the transaction of the message).
TimesMatchTheConversation ==
  \A t \in Opened :
    /\ ticket[t].lastMessageAt = Len(talk[t])
    /\ ticket[t].firstRespondedAt = 0 <=> \A i \in 1..Len(talk[t]) : talk[t][i].by \notin Agents
    /\ ticket[t].firstRespondedAt # 0 => talk[t][ticket[t].firstRespondedAt].by \in Agents

\* How long until somebody answered never changes once it is known, except by
\* a reply that was under way when the first one was stored (replyAsStaff).
FirstAnswerStays ==
  [][\A t \in Opened :
       \/ ticket[t].firstRespondedAt \in {0, ticket'[t].firstRespondedAt}
       \/ \E d \in overtaken : desk[d].on = t /\ desk'[d].step = "tell"]_supportVars

\* What the desk promises of every ticket, at any moment and in every step
\* (support_service.ts).
TicketsSafe ==
  /\ [](SupportTypeOK /\ StatusSaysWhoseTurn /\ TimesMatchTheConversation)
  /\ FirstAnswerStays
=============================================================================
