-------------------------- MODULE BackOfficeProofs --------------------------
(***************************************************************************)
(* What the desks of staff promise, for any number of customers, readers,  *)
(* rows and overlapping requests: tickets, articles, announcements and the *)
(* waiting list; and that the figures of the dashboard agree. They share   *)
(* no state. Each desk has an invariant about every request under way,     *)
(* that says what it may still believe of the row that it loaded.          *)
(***************************************************************************)
EXTENDS Support, Content, Notifications, WaitingList, Figures, FiniteSetTheorems,
        WellFoundedInduction, TLAPS

-----------------------------------------------------------------------------
(* Support tickets. Whoever was not overtaken holds the ticket's turn as   *)
(* the row has it; whoever was knows at least that a first answer stays    *)
(* known and that the conversation only grows.                             *)

DeskSteps == {"idle", "userReply", "staffReply", "resolve", "assign", "attach", "tell"}
DeskRow == [step : DeskSteps, who : Customers \cup Agents \cup {NoOne}, on : Tickets \cup {NoOne},
            loaded : TicketRow \cup {NoOne}, said : 0..MaxTalk]

\* What a row and its conversation have in common.
Conversation(row, msgs) ==
  /\ row \in TicketRow /\ msgs \in Seq(Message) /\ Len(msgs) <= MaxTalk
  /\ row.lastMessageAt = Len(msgs) /\ row.firstRespondedAt \in 0..Len(msgs)
  /\ row.firstRespondedAt = 0 <=> \A i \in 1..Len(msgs) : msgs[i].by \notin Agents
  /\ row.firstRespondedAt # 0 => msgs[row.firstRespondedAt].by \in Agents

TurnKept(row, msgs) ==
  /\ row.resolvedAt <=> row.status = "resolved"
  /\ row.status = "open" => msgs[Len(msgs)].by \in Customers
  /\ row.status = "answered" => msgs[Len(msgs)].by \in Agents

SameTurn(a, b) ==
  /\ a.status = b.status /\ a.lastMessageAt = b.lastMessageAt
  /\ a.firstRespondedAt = b.firstRespondedAt /\ a.resolvedAt = b.resolvedAt

\* What a request with x in memory may rely on, overtaken or not.
Serves(x) ==
  x.step # "idle" =>
    /\ x.on \in Opened
    /\ x.step \in StatusSteps \cup {"assign"} =>
         /\ x.loaded \in TicketRow /\ x.loaded.lastMessageAt <= Len(talk[x.on])
         /\ x.loaded.firstRespondedAt # 0 => ticket[x.on].firstRespondedAt # 0
    /\ x.step = "userReply" => x.who \in Customers
    /\ x.step \in {"staffReply", "resolve", "assign"} => x.who \in Agents
    /\ x.step \in {"attach", "tell"} => x.said \in 1..Len(talk[x.on])

UpToDate(x) == x.step \in StatusSteps => SameTurn(x.loaded, ticket[x.on])

SupportInv ==
  /\ ticket \in [Tickets -> TicketRow \cup {NoOne}]
  /\ talk \in [Tickets -> Seq(Message)] /\ \A t \in Tickets : Len(talk[t]) <= MaxTalk
  /\ desk \in [Desks -> DeskRow] /\ clear \subseteq Tickets
  /\ overtaken \subseteq {d \in Desks : desk[d].step \in StatusSteps}
  /\ \A t \in Opened : /\ Conversation(ticket[t], talk[t])
                       /\ t \in clear => TurnKept(ticket[t], talk[t])
  /\ \A d \in Desks : Serves(desk[d]) /\ (d \notin overtaken => UpToDate(desk[d]))

\* One ticket and one request move.
LEMMA DeskStep ==
  ASSUME SupportInv, NEW t \in Tickets, NEW d \in Desks,
         NEW row \in TicketRow, ticket' = [ticket EXCEPT ![t] = row],
         NEW msgs \in Seq(Message), talk' = [talk EXCEPT ![t] = msgs],
         NEW x \in DeskRow, desk' = [desk EXCEPT ![d] = x],
         Conversation(row, msgs),
         t \in Opened => /\ Len(talk[t]) <= Len(msgs)
                         /\ ticket[t].firstRespondedAt # 0 => row.firstRespondedAt # 0,
         clear' \subseteq clear \cup {t}, t \in clear' => TurnKept(row, msgs),
         Serves(x)', d \notin overtaken' => UpToDate(x)',
         overtaken' \subseteq overtaken \cup {e \in Desks \ {d} : desk[e].step \in StatusSteps},
         d \in overtaken' => x.step \in StatusSteps,
         \A e \in Desks \ {d} :
           e \notin overtaken' => /\ e \notin overtaken
                                  /\ desk[e].on = t /\ desk[e].step \in StatusSteps
                                       => SameTurn(row, ticket[t])
  PROVE  SupportInv'
<1>1. /\ ticket \in [Tickets -> TicketRow \cup {NoOne}] /\ talk \in [Tickets -> Seq(Message)]
      /\ desk \in [Desks -> DeskRow]
  BY DEF SupportInv
<1>2. /\ ticket' \in [Tickets -> TicketRow \cup {NoOne}] /\ ticket'[t] = row
      /\ \A u \in Tickets \ {t} : ticket'[u] = ticket[u]
  BY <1>1
<1>3. /\ talk' \in [Tickets -> Seq(Message)] /\ talk'[t] = msgs
      /\ \A u \in Tickets \ {t} : talk'[u] = talk[u]
  BY <1>1
<1>4. /\ desk' \in [Desks -> DeskRow] /\ desk'[d] = x
      /\ \A e \in Desks \ {d} : desk'[e] = desk[e]
  BY <1>1
<1>5. \A u \in Tickets : Len(talk'[u]) <= MaxTalk
  BY <1>3 DEF SupportInv, Conversation
<1>6. clear' \subseteq Tickets BY DEF SupportInv
<1>7. overtaken' \subseteq {e \in Desks : desk'[e].step \in StatusSteps}
  <2>1. ASSUME NEW e \in overtaken' PROVE e \in Desks /\ desk'[e].step \in StatusSteps
    <3>1. e \in Desks BY DEF SupportInv
    <3>2. CASE e = d BY <1>4, <2>1, <3>1, <3>2
    <3>3. CASE e # d BY <1>4, <2>1, <3>1, <3>3 DEF SupportInv
    <3> QED BY <3>1, <3>2, <3>3
  <2> QED BY <2>1
<1>8. row # NoOne BY SupportAssumption
<1>9. t \in Opened' /\ \A u \in Tickets \ {t} : (u \in Opened' <=> u \in Opened)
  BY <1>2, <1>8 DEF Opened
<1>10. ASSUME NEW u \in Opened'
       PROVE  Conversation(ticket'[u], talk'[u]) /\ (u \in clear' => TurnKept(ticket'[u], talk'[u]))
  <2>1. u \in Tickets BY DEF Opened
  <2>2. CASE u = t BY <1>2, <1>3, <2>2
  <2>3. CASE u # t
    <3>1. u \in Opened /\ ticket'[u] = ticket[u] /\ talk'[u] = talk[u] /\ (u \in clear' => u \in clear)
      BY <1>2, <1>3, <1>9, <2>1, <2>3
    <3> QED BY <3>1 DEF SupportInv
  <2> QED BY <2>2, <2>3
<1>11. ASSUME NEW e \in Desks
       PROVE  Serves(desk[e])' /\ (e \notin overtaken' => UpToDate(desk[e])')
  <2>1. PICK y : y = desk'[e] OBVIOUS
  <2>2. CASE e = d
    <3>1. y = x BY <1>4, <2>1, <2>2
    <3>2. Serves(y)' /\ (e \notin overtaken' => UpToDate(y)') BY <2>2, <3>1
    <3> QED BY <2>1, <3>2 DEF Serves, UpToDate
  <2>3. CASE e # d
    <3>1. y = desk[e] /\ y \in DeskRow /\ Serves(y) /\ (e \notin overtaken => UpToDate(y))
      BY <1>4, <2>1, <2>3 DEF SupportInv
    <3>2. ASSUME y.step # "idle"
          PROVE  /\ y.on \in Opened' /\ Len(talk[y.on]) <= Len(talk'[y.on])
                 /\ Len(talk[y.on]) \in Nat /\ Len(talk'[y.on]) \in Nat
                 /\ ticket[y.on].firstRespondedAt # 0 => ticket'[y.on].firstRespondedAt # 0
      <4>1. y.on \in Opened /\ y.on \in Tickets BY <3>1, <3>2 DEF Serves, Opened
      <4>2. talk[y.on] \in Seq(Message) /\ talk'[y.on] \in Seq(Message) BY <1>1, <1>3, <4>1
      <4>3. Len(talk[y.on]) \in Nat /\ Len(talk'[y.on]) \in Nat BY <4>2
      <4>4. CASE y.on = t BY <1>2, <1>3, <1>9, <4>1, <4>3, <4>4
      <4>5. CASE y.on # t BY <1>2, <1>3, <1>9, <4>1, <4>3, <4>5
      <4> QED BY <4>4, <4>5
    <3>3. Serves(y)'
      <4>1. SUFFICES ASSUME y.step # "idle"
            PROVE  /\ y.on \in Opened'
                   /\ y.step \in StatusSteps \cup {"assign"} =>
                        /\ y.loaded \in TicketRow /\ y.loaded.lastMessageAt <= Len(talk'[y.on])
                        /\ y.loaded.firstRespondedAt # 0 => ticket'[y.on].firstRespondedAt # 0
                   /\ y.step = "userReply" => y.who \in Customers
                   /\ y.step \in {"staffReply", "resolve", "assign"} => y.who \in Agents
                   /\ y.step \in {"attach", "tell"} => y.said \in 1..Len(talk'[y.on])
        BY DEF Serves
      <4>2. y.loaded \in TicketRow => y.loaded.lastMessageAt \in Int
        BY SupportAssumption DEF TicketRow
      <4> QED BY <3>1, <3>2, <4>1, <4>2 DEF Serves
    <3>4. ASSUME e \notin overtaken' PROVE UpToDate(y)'
      <4>1. SUFFICES ASSUME y.step \in StatusSteps PROVE SameTurn(y.loaded, ticket'[y.on])
        BY DEF UpToDate, SameTurn
      <4>2. e \notin overtaken BY <2>3, <3>4
      <4>3. SameTurn(y.loaded, ticket[y.on]) BY <3>1, <4>1, <4>2 DEF UpToDate
      <4>4. y.on \in Tickets BY <3>1, <4>1 DEF Serves, StatusSteps, Opened
      <4>5. CASE y.on = t
        <5>1. SameTurn(row, ticket[t]) BY <2>3, <3>1, <3>4, <4>1, <4>5
        <5> QED BY <1>2, <4>3, <4>5, <5>1 DEF SameTurn
      <4>6. CASE y.on # t BY <1>2, <4>3, <4>4, <4>6
      <4> QED BY <4>5, <4>6
    <3> QED BY <2>1, <3>3, <3>4 DEF Serves, UpToDate
  <2> QED BY <2>2, <2>3
<1> QED BY <1>2, <1>3, <1>4, <1>5, <1>6, <1>7, <1>10, <1>11 DEF SupportInv

\* What is saved over the ticket, column by column.
TicketColumns(columns) ==
  /\ DOMAIN columns \subseteq {"status", "assigned", "lastMessageAt", "firstRespondedAt", "resolvedAt"}
  /\ "status" \in DOMAIN columns => columns.status \in {"open", "answered", "resolved"}
  /\ "assigned" \in DOMAIN columns => columns.assigned \in Agents \cup {NoOne}
  /\ "lastMessageAt" \in DOMAIN columns => columns.lastMessageAt \in 1..MaxTalk
  /\ "firstRespondedAt" \in DOMAIN columns => columns.firstRespondedAt \in 0..MaxTalk
  /\ "resolvedAt" \in DOMAIN columns => columns.resolvedAt \in BOOLEAN

SavedOver(s, row, loaded, columns) ==
  /\ s \in TicketRow /\ s.author = row.author
  /\ s.status = IF "status" \in DOMAIN columns /\ columns.status # loaded.status
                THEN columns.status ELSE row.status
  /\ s.lastMessageAt = IF "lastMessageAt" \in DOMAIN columns /\ columns.lastMessageAt # loaded.lastMessageAt
                       THEN columns.lastMessageAt ELSE row.lastMessageAt
  /\ s.firstRespondedAt =
       IF "firstRespondedAt" \in DOMAIN columns /\ columns.firstRespondedAt # loaded.firstRespondedAt
       THEN columns.firstRespondedAt ELSE row.firstRespondedAt
  /\ s.resolvedAt = IF "resolvedAt" \in DOMAIN columns /\ columns.resolvedAt # loaded.resolvedAt
                    THEN columns.resolvedAt ELSE row.resolvedAt

LEMMA TicketFields ==
  ASSUME NEW s, s = [x \in DOMAIN s |-> s[x]],
         DOMAIN s = {"status", "author", "assigned", "lastMessageAt", "firstRespondedAt", "resolvedAt"},
         s.status \in {"open", "answered", "resolved"}, s.author \in Customers,
         s.assigned \in Agents \cup {NoOne}, s.lastMessageAt \in 1..MaxTalk,
         s.firstRespondedAt \in 0..MaxTalk, s.resolvedAt \in BOOLEAN
  PROVE  s \in TicketRow
<1>1. s = [status |-> s.status, author |-> s.author, assigned |-> s.assigned,
           lastMessageAt |-> s.lastMessageAt, firstRespondedAt |-> s.firstRespondedAt,
           resolvedAt |-> s.resolvedAt]
  OBVIOUS
<1> QED BY <1>1 DEF TicketRow

LEMMA SavedTicket ==
  ASSUME NEW row \in TicketRow, NEW loaded \in TicketRow, NEW columns, TicketColumns(columns),
         NEW s, s = Saved(row, loaded, columns)
  PROVE  SavedOver(s, row, loaded, columns)
<1>1. DOMAIN row = {"status", "author", "assigned", "lastMessageAt", "firstRespondedAt", "resolvedAt"}
  BY DEF TicketRow
<1>2. /\ row.status \in {"open", "answered", "resolved"} /\ row.author \in Customers
      /\ row.assigned \in Agents \cup {NoOne} /\ row.lastMessageAt \in 1..MaxTalk
      /\ row.firstRespondedAt \in 0..MaxTalk /\ row.resolvedAt \in BOOLEAN
  BY DEF TicketRow
<1>3. /\ DOMAIN s = {"status", "author", "assigned", "lastMessageAt", "firstRespondedAt", "resolvedAt"}
      /\ s = [x \in DOMAIN s |-> s[x]]
  BY <1>1 DEF Saved
<1>4. /\ s.status = IF "status" \in DOMAIN columns /\ columns.status # loaded.status
                    THEN columns.status ELSE row.status
      /\ s.author = IF "author" \in DOMAIN columns /\ columns.author # loaded.author
                    THEN columns.author ELSE row.author
      /\ s.assigned = IF "assigned" \in DOMAIN columns /\ columns.assigned # loaded.assigned
                      THEN columns.assigned ELSE row.assigned
  BY <1>1 DEF Saved
<1>5. /\ s.lastMessageAt = IF "lastMessageAt" \in DOMAIN columns /\ columns.lastMessageAt # loaded.lastMessageAt
                           THEN columns.lastMessageAt ELSE row.lastMessageAt
      /\ s.firstRespondedAt =
           IF "firstRespondedAt" \in DOMAIN columns /\ columns.firstRespondedAt # loaded.firstRespondedAt
           THEN columns.firstRespondedAt ELSE row.firstRespondedAt
      /\ s.resolvedAt = IF "resolvedAt" \in DOMAIN columns /\ columns.resolvedAt # loaded.resolvedAt
                        THEN columns.resolvedAt ELSE row.resolvedAt
  BY <1>1 DEF Saved
<1>6. s.author = row.author BY <1>4 DEF TicketColumns
<1>7. /\ s.status \in {"open", "answered", "resolved"}
      /\ s.assigned \in Agents \cup {NoOne}
  BY <1>2, <1>4 DEF TicketColumns
<1>8. s.lastMessageAt \in 1..MaxTalk /\ s.firstRespondedAt \in 0..MaxTalk /\ s.resolvedAt \in BOOLEAN
  BY <1>2, <1>5 DEF TicketColumns
<1>9. s \in TicketRow BY <1>2, <1>3, <1>6, <1>7, <1>8, TicketFields
<1> QED BY <1>4, <1>5, <1>6, <1>9 DEF SavedOver

\* A message at the end of a conversation.
LEMMA Appended ==
  ASSUME NEW msgs \in Seq(Message), NEW who \in Customers \cup Agents, NEW more,
         more = Append(msgs, Says(who))
  PROVE  /\ more \in Seq(Message) /\ Len(more) = Len(msgs) + 1 /\ Len(msgs) \in Nat
         /\ \A i \in 1..Len(msgs) : more[i] = msgs[i]
         /\ more[Len(more)].by = who
<1>1. PICK m : m = Says(who) OBVIOUS
<1>2. m \in Message /\ m.by = who
  <2>1. 0 \in 0..AttachmentLimit BY SupportAssumption
  <2> QED BY <1>1, <2>1 DEF Says, Message
<1>3. more = Append(msgs, m) BY <1>1
<1> QED BY <1>2, <1>3

\* A message whose text stays: files are added, or it is mailed.
LEMMA Amended ==
  ASSUME NEW msgs \in Seq(Message), NEW i \in 1..Len(msgs), NEW m \in Message, m.by = msgs[i].by,
         NEW amended, amended = [msgs EXCEPT ![i] = m]
  PROVE  /\ amended \in Seq(Message) /\ Len(amended) = Len(msgs) /\ Len(msgs) \in Nat
         /\ \A j \in 1..Len(msgs) : amended[j].by = msgs[j].by
OBVIOUS

-----------------------------------------------------------------------------

LEMMA DeskKnows ==
  ASSUME SupportInv, NEW d \in Desks, desk[d].step # "idle"
  PROVE  /\ desk[d].on \in Tickets /\ desk[d].on \in Opened /\ desk[d] \in DeskRow
         /\ Serves(desk[d]) /\ (d \notin overtaken => UpToDate(desk[d]))
         /\ ticket[desk[d].on] \in TicketRow /\ talk[desk[d].on] \in Seq(Message)
         /\ Conversation(ticket[desk[d].on], talk[desk[d].on])
         /\ desk[d].on \in clear => TurnKept(ticket[desk[d].on], talk[desk[d].on])
<1>1. desk[d].on \in Opened /\ desk[d] \in DeskRow BY DEF SupportInv, Serves
<1>2. desk[d].on \in Tickets BY <1>1 DEF Opened
<1> QED BY <1>1, <1>2 DEF SupportInv, Opened

LEMMA IdleIsRow == Idle \in DeskRow /\ Idle.step = "idle"
<1>1. 0 \in 0..MaxTalk BY SupportAssumption
<1> QED BY <1>1 DEF Idle, DeskRow, DeskSteps

\* A step that leaves the row and at most amends a message.
LEMMA AsideStep ==
  ASSUME SupportInv, NEW d \in Desks, NEW t \in Opened, ticket' = ticket,
         NEW msgs \in Seq(Message), talk' = [talk EXCEPT ![t] = msgs], Len(msgs) = Len(talk[t]),
         \A i \in 1..Len(msgs) : msgs[i].by = talk[t][i].by,
         NEW x \in DeskRow, desk' = [desk EXCEPT ![d] = x],
         Serves(x)', UpToDate(x)', clear' = clear,
         overtaken' = overtaken \ {d}
  PROVE  SupportInv'
<1>1. /\ t \in Tickets /\ ticket[t] \in TicketRow /\ Conversation(ticket[t], talk[t])
      /\ t \in clear => TurnKept(ticket[t], talk[t])
  BY DEF SupportInv, Opened
<1>2. PICK row \in TicketRow : row = ticket[t] BY <1>1
<1>3. ticket' = [ticket EXCEPT ![t] = row] BY <1>2 DEF SupportInv
<1>4. Len(talk[t]) \in Nat /\ talk[t] \in Seq(Message) BY <1>1 DEF Conversation
<1>5. Conversation(row, msgs)
  BY <1>1, <1>2, <1>4 DEF Conversation
<1>6. Len(msgs) \in 1..Len(msgs)
  BY <1>1, <1>2, <1>4, SupportAssumption DEF Conversation, TicketRow
<1>7. t \in clear' => TurnKept(row, msgs) BY <1>1, <1>2, <1>6 DEF TurnKept
<1>8. SameTurn(row, ticket[t]) BY <1>2 DEF SameTurn
<1>9. Len(talk[t]) <= Len(msgs) BY <1>4
<1>10. /\ overtaken' \subseteq overtaken \cup {e \in Desks \ {d} : desk[e].step \in StatusSteps}
       /\ d \notin overtaken' /\ \A e \in Desks \ {d} : e \notin overtaken' => e \notin overtaken
       /\ clear' \subseteq clear \cup {t}
  OBVIOUS
<1>11. ticket[t].firstRespondedAt # 0 => row.firstRespondedAt # 0 BY <1>2
<1>12. /\ d \notin overtaken' => UpToDate(x)'
       /\ d \in overtaken' => x.step \in StatusSteps
       /\ \A e \in Desks \ {d} :
            e \notin overtaken' => /\ e \notin overtaken
                                   /\ desk[e].on = t /\ desk[e].step \in StatusSteps
                                        => SameTurn(row, ticket[t])
       /\ t \in Opened => /\ Len(talk[t]) <= Len(msgs)
                          /\ ticket[t].firstRespondedAt # 0 => row.firstRespondedAt # 0
  BY <1>8, <1>9, <1>10, <1>11
<1> QED BY <1>1, <1>3, <1>5, <1>7, <1>10, <1>12, DeskStep

LEMMA LoadTicketStep ==
  ASSUME SupportInv, NEW d \in Desks, NEW t \in Tickets, NEW who \in Customers \cup Agents,
         NEW step \in StatusSteps \cup {"assign"},
         step = "userReply" => who \in Customers, step # "userReply" => who \in Agents,
         LoadTicket(d, who, t, step)
  PROVE  SupportInv'
<1>1. /\ desk[d].step = "idle" /\ t \in Opened
      /\ desk' = [desk EXCEPT ![d] = [step |-> step, who |-> who, on |-> t,
                                      loaded |-> ticket[t], said |-> 0]]
      /\ UNCHANGED <<ticket, talk, overtaken, clear>>
  BY DEF LoadTicket, InScope
<1>2. /\ ticket[t] \in TicketRow /\ talk[t] \in Seq(Message) /\ Conversation(ticket[t], talk[t])
      /\ talk \in [Tickets -> Seq(Message)]
  BY <1>1 DEF SupportInv, Opened
<1>3. PICK x : x = [step |-> step, who |-> who, on |-> t, loaded |-> ticket[t], said |-> 0] OBVIOUS
<1>4. /\ x.step = step /\ x.who = who /\ x.on = t /\ x.loaded = ticket[t]
      /\ x \in DeskRow
  <2>1. 0 \in 0..MaxTalk BY SupportAssumption
  <2>2. step \in DeskSteps BY DEF DeskSteps, StatusSteps
  <2> QED BY <1>2, <1>3, <2>1, <2>2 DEF DeskRow
<1>5. Serves(x)'
  <2>1. x.step \notin {"attach", "tell"} BY <1>4 DEF StatusSteps
  <2>2. t \in Opened' BY <1>1 DEF Opened
  <2>3. ticket[t].lastMessageAt <= Len(talk[t]) BY <1>2 DEF Conversation
  <2>4. x.step \in {"staffReply", "resolve", "assign"} => x.who \in Agents BY <1>4
  <2>5. x.step = "userReply" => x.who \in Customers BY <1>4
  <2> QED BY <1>1, <1>2, <1>4, <2>1, <2>2, <2>3, <2>4, <2>5 DEF Serves
<1>6. UpToDate(x)' BY <1>1, <1>4 DEF UpToDate, SameTurn
<1>7. PICK msgs \in Seq(Message) : msgs = talk[t] BY <1>2
<1>8. talk' = [talk EXCEPT ![t] = msgs] BY <1>1, <1>2, <1>7
<1>9. overtaken' = overtaken \ {d} BY <1>1 DEF SupportInv, StatusSteps
<1>10. /\ ticket' = ticket /\ clear' = clear /\ desk' = [desk EXCEPT ![d] = x]
       /\ Len(msgs) = Len(talk[t]) /\ \A i \in 1..Len(msgs) : msgs[i].by = talk[t][i].by
  BY <1>1, <1>3, <1>7
<1> QED BY <1>1, <1>4, <1>5, <1>6, <1>8, <1>9, <1>10, AsideStep

\* The desk is left, or goes on, and at most a message was amended.
LEMMA LeaveStep ==
  ASSUME SupportInv, NEW d \in Desks, desk[d].step # "idle",
         NEW x \in {Idle, desk[d]}, desk' = [desk EXCEPT ![d] = x],
         NEW msgs \in Seq(Message), talk' = [talk EXCEPT ![desk[d].on] = msgs],
         Len(msgs) = Len(talk[desk[d].on]),
         \A i \in 1..Len(msgs) : msgs[i].by = talk[desk[d].on][i].by,
         ticket' = ticket, clear' = clear, overtaken' = overtaken \ {d},
         x = desk[d] => desk[d].step \notin StatusSteps
  PROVE  SupportInv'
<1>1. PICK t \in Opened : t = desk[d].on BY DeskKnows
<1>2. x \in DeskRow BY IdleIsRow, DeskKnows
<1>3. Serves(x)'
  <2>1. CASE x = Idle BY <2>1, IdleIsRow DEF Serves
  <2>2. CASE x = desk[d]
    <3>1. Serves(x) BY <2>2, DeskKnows
    <3>2. talk'[t] = msgs /\ Len(talk'[t]) = Len(talk[t]) BY <1>1 DEF SupportInv, Opened
    <3>3. x.on = t /\ t \in Opened' BY <1>1, <2>2 DEF Opened
    <3> QED BY <3>1, <3>2, <3>3 DEF Serves
  <2> QED BY <2>1, <2>2
<1>4. UpToDate(x)' BY IdleIsRow DEF UpToDate, StatusSteps
<1>5. /\ talk' = [talk EXCEPT ![t] = msgs] /\ Len(msgs) = Len(talk[t])
      /\ \A i \in 1..Len(msgs) : msgs[i].by = talk[t][i].by
  BY <1>1
<1> QED BY <1>1, <1>2, <1>3, <1>4, <1>5, AsideStep

LEMMA AbandonSteps ==
  ASSUME SupportInv, NEW d \in Desks, AttachedOrRefused(d) \/ Abandon(d) PROVE SupportInv'
<1>1. /\ desk[d].step # "idle" /\ desk' = [desk EXCEPT ![d] = Idle]
      /\ UNCHANGED <<ticket, talk, clear>>
  BY DEF AttachedOrRefused, Abandon, LeavesDesk
<1>2. overtaken' = overtaken \ {d}
  BY DEF AttachedOrRefused, Abandon, SupportInv, StatusSteps
<1>3. PICK msgs \in Seq(Message) : msgs = talk[desk[d].on] BY <1>1, DeskKnows
<1>4. talk' = [talk EXCEPT ![desk[d].on] = msgs] BY <1>1, <1>3 DEF SupportInv
<1>5. PICK x \in {Idle, desk[d]} : x = Idle OBVIOUS
<1>6. x # desk[d] BY <1>1, <1>5, IdleIsRow
<1> QED BY <1>1, <1>2, <1>3, <1>4, <1>5, <1>6, LeaveStep

LEMMA TellStep ==
  ASSUME SupportInv, NEW d \in Desks, Tell(d) PROVE SupportInv'
<1>1. /\ desk[d].step = "tell" /\ desk' = [desk EXCEPT ![d] = Idle]
      /\ talk' = [talk EXCEPT ![desk[d].on][desk[d].said].mailed = TRUE]
      /\ UNCHANGED <<ticket, overtaken, clear>>
  BY DEF Tell, LeavesDesk
<1>2. PICK t \in Tickets, i \in Nat, msgs \in Seq(Message) :
        t = desk[d].on /\ i = desk[d].said /\ msgs = talk[t] /\ i \in 1..Len(msgs)
  BY <1>1, DeskKnows DEF Serves
<1>3. PICK old \in Message : old = msgs[i] BY <1>2
<1>4. PICK m : m = [by |-> old.by, files |-> old.files, mailed |-> TRUE] OBVIOUS
<1>5. m \in Message /\ m.by = msgs[i].by BY <1>3, <1>4 DEF Message
<1>6. PICK amended : amended = [msgs EXCEPT ![i] = m] OBVIOUS
<1>7. talk' = [talk EXCEPT ![t] = amended]
  <2>1. PICK z : z = [old EXCEPT !.mailed = TRUE] OBVIOUS
  <2>2. old = [by |-> old.by, files |-> old.files, mailed |-> old.mailed] BY DEF Message
  <2>3. z = m
    <3>1. DOMAIN z = {"by", "files", "mailed"} /\ z = [x \in DOMAIN z |-> z[x]] BY <2>1, <2>2
    <3>2. z.by = old.by /\ z.files = old.files /\ z.mailed = TRUE BY <2>1, <2>2
    <3>3. z = [by |-> z.by, files |-> z.files, mailed |-> z.mailed] BY <3>1
    <3> QED BY <1>4, <3>2, <3>3
  <2>4. talk' = [talk EXCEPT ![t] = [msgs EXCEPT ![i] = z]]
    BY <1>1, <1>2, <1>3, <2>1 DEF SupportInv
  <2> QED BY <1>6, <2>3, <2>4
<1>8. /\ amended \in Seq(Message) /\ Len(amended) = Len(msgs)
      /\ \A j \in 1..Len(amended) : amended[j].by = msgs[j].by
  BY <1>2, <1>5, <1>6, Amended
<1>9. overtaken' = overtaken \ {d} BY <1>1 DEF SupportInv, StatusSteps
<1>10. PICK x \in {Idle, desk[d]} : x = Idle OBVIOUS
<1>11. x # desk[d] /\ desk[d].step # "idle" BY <1>1, <1>10, IdleIsRow
<1>12. /\ desk' = [desk EXCEPT ![d] = x] /\ talk' = [talk EXCEPT ![desk[d].on] = amended]
       /\ Len(amended) = Len(talk[desk[d].on])
       /\ \A j \in 1..Len(amended) : amended[j].by = talk[desk[d].on][j].by
  BY <1>1, <1>2, <1>7, <1>8, <1>10
<1> QED BY <1>1, <1>8, <1>9, <1>11, <1>12, LeaveStep

LEMMA AttachStep ==
  ASSUME SupportInv, NEW d \in Desks, Attach(d) PROVE SupportInv'
<1>1. /\ desk[d].step = "attach" /\ desk' = desk
      /\ talk[desk[d].on][desk[d].said].files < AttachmentLimit
      /\ talk' = [talk EXCEPT ![desk[d].on][desk[d].said].files = @ + 1]
      /\ UNCHANGED <<ticket, overtaken, clear>>
  BY DEF Attach
<1>2. PICK t \in Tickets, i \in Nat, msgs \in Seq(Message) :
        t = desk[d].on /\ i = desk[d].said /\ msgs = talk[t] /\ i \in 1..Len(msgs)
  BY <1>1, DeskKnows DEF Serves
<1>3. PICK old \in Message : old = msgs[i] BY <1>2
<1>4. PICK m : m = [by |-> old.by, files |-> old.files + 1, mailed |-> old.mailed] OBVIOUS
<1>5. m \in Message /\ m.by = msgs[i].by
  <2>1. old.files + 1 \in 0..AttachmentLimit
    <3>1. old.files < AttachmentLimit BY <1>1, <1>2, <1>3
    <3>2. old.files \in 0..AttachmentLimit BY DEF Message
    <3> QED BY <3>1, <3>2, SupportAssumption
  <2> QED BY <1>3, <1>4, <2>1 DEF Message
<1>6. PICK amended : amended = [msgs EXCEPT ![i] = m] OBVIOUS
<1>7. talk' = [talk EXCEPT ![t] = amended]
  <2>1. PICK z : z = [old EXCEPT !.files = old.files + 1] OBVIOUS
  <2>2. old = [by |-> old.by, files |-> old.files, mailed |-> old.mailed] BY DEF Message
  <2>3. z = m BY <1>4, <2>1, <2>2
  <2>4. talk' = [talk EXCEPT ![t] = [msgs EXCEPT ![i] = z]]
    BY <1>1, <1>2, <1>3, <2>1 DEF SupportInv
  <2> QED BY <1>6, <2>3, <2>4
<1>8. /\ amended \in Seq(Message) /\ Len(amended) = Len(msgs)
      /\ \A j \in 1..Len(amended) : amended[j].by = msgs[j].by
  BY <1>2, <1>5, <1>6, Amended
<1>9. overtaken' = overtaken \ {d} BY <1>1 DEF SupportInv, StatusSteps
<1>10. PICK x \in {Idle, desk[d]} : x = desk[d] OBVIOUS
<1>11. x = desk[d] => desk[d].step \notin StatusSteps BY <1>1 DEF StatusSteps
<1>12. /\ desk' = [desk EXCEPT ![d] = x] /\ talk' = [talk EXCEPT ![desk[d].on] = amended]
       /\ Len(amended) = Len(talk[desk[d].on])
       /\ \A j \in 1..Len(amended) : amended[j].by = talk[desk[d].on][j].by
       /\ desk[d].step # "idle"
  BY <1>1, <1>2, <1>7, <1>8, <1>10 DEF SupportInv
<1> QED BY <1>1, <1>8, <1>9, <1>11, <1>12, LeaveStep

LEMMA OpenTicketStep ==
  ASSUME SupportInv, NEW d \in Desks, NEW u \in Customers, NEW t \in Tickets, OpenTicket(d, u, t)
  PROVE  SupportInv'
<1>1. PICK row, msgs, x :
        /\ row = [status |-> "open", author |-> u, assigned |-> NoOne, lastMessageAt |-> 1,
                  firstRespondedAt |-> 0, resolvedAt |-> FALSE]
        /\ msgs = <<Says(u)>>
        /\ x = [step |-> "attach", who |-> u, on |-> t, loaded |-> NoOne, said |-> 1]
  OBVIOUS
<1>2. /\ desk[d].step = "idle" /\ ticket[t] = NoOne
      /\ ticket' = [ticket EXCEPT ![t] = row] /\ talk' = [talk EXCEPT ![t] = msgs]
      /\ desk' = [desk EXCEPT ![d] = x] /\ UNCHANGED <<overtaken, clear>>
  BY <1>1 DEF OpenTicket
<1>3. 0 \in 0..MaxTalk /\ 1 \in 1..MaxTalk /\ 1 \in 0..MaxTalk BY SupportAssumption
<1>4. row \in TicketRow /\ row # NoOne
  <2>1. row \in TicketRow BY <1>1, <1>3 DEF TicketRow
  <2> QED BY <2>1, SupportAssumption
<1>5. PICK m : m = Says(u) OBVIOUS
<1>6. m \in Message /\ m.by = u
  <2>1. 0 \in 0..AttachmentLimit BY SupportAssumption
  <2> QED BY <1>5, <2>1 DEF Says, Message
<1>7. msgs = <<m>> BY <1>1, <1>5
<1>8. msgs \in Seq(Message) /\ Len(msgs) = 1 /\ msgs[1].by = u
  BY <1>6, <1>7
<1>9. u \notin Agents BY SupportAssumption
<1>10. Conversation(row, msgs)
  <2>1. row.lastMessageAt = 1 /\ row.firstRespondedAt = 0 BY <1>1
  <2> QED BY <1>3, <1>4, <1>8, <1>9, <2>1 DEF Conversation
<1>11. TurnKept(row, msgs)
  <2>1. row.status = "open" /\ row.resolvedAt = FALSE BY <1>1
  <2> QED BY <1>8, <2>1 DEF TurnKept
<1>12. x \in DeskRow /\ x.step = "attach" /\ x.on = t /\ x.said = 1
  BY <1>1, <1>3 DEF DeskRow, DeskSteps
<1>13. Serves(x)'
  <2>1. t \in Opened' BY <1>2, <1>4 DEF Opened, SupportInv
  <2>2. talk'[t] = msgs BY <1>2 DEF SupportInv
  <2>3. 1 \in 1..Len(talk'[t]) BY <1>8, <2>2
  <2>4. x.step \notin StatusSteps \cup {"assign", "userReply", "staffReply", "resolve"}
    BY <1>12 DEF StatusSteps
  <2> QED BY <1>12, <2>1, <2>3, <2>4 DEF Serves
<1>14. UpToDate(x)' BY <1>12 DEF UpToDate, StatusSteps
<1>15. t \notin Opened BY <1>2 DEF Opened
<1>16. /\ overtaken' \subseteq overtaken \cup {e \in Desks \ {d} : desk[e].step \in StatusSteps}
       /\ d \in overtaken' => x.step \in StatusSteps
       /\ \A e \in Desks \ {d} :
            e \notin overtaken' => /\ e \notin overtaken
                                   /\ desk[e].on = t /\ desk[e].step \in StatusSteps
                                        => SameTurn(row, ticket[t])
  <2>1. d \notin overtaken BY <1>2 DEF SupportInv, StatusSteps
  <2>2. \A e \in Desks : desk[e].step \in StatusSteps => desk[e].on # t
    BY <1>15 DEF SupportInv, Serves, StatusSteps
  <2> QED BY <1>2, <2>1, <2>2
<1>17. clear' \subseteq clear \cup {t} BY <1>2
<1> QED BY <1>2, <1>4, <1>8, <1>10, <1>11, <1>12, <1>13, <1>14, <1>15, <1>16, <1>17, DeskStep

\* The transaction of whoever writes the status: the others are overtaken.
LEMMA WriteStep ==
  ASSUME SupportInv, NEW d \in Desks, desk[d].step \in StatusSteps, NEW t, t = desk[d].on,
         NEW row \in TicketRow, ticket' = [ticket EXCEPT ![t] = row],
         NEW msgs \in Seq(Message), talk' = [talk EXCEPT ![t] = msgs],
         Len(talk[t]) <= Len(msgs), Conversation(row, msgs),
         ticket[t].firstRespondedAt # 0 => row.firstRespondedAt # 0,
         d \notin overtaken => TurnKept(row, msgs), Overtakes(d, t),
         NEW x \in DeskRow, desk' = [desk EXCEPT ![d] = x], x.step \notin StatusSteps, Serves(x)'
  PROVE  SupportInv'
<1>1. t \in Tickets /\ desk[d].step # "idle" BY DeskKnows DEF StatusSteps
<1>2. /\ overtaken' = (overtaken \ {d}) \cup {e \in Desks \ {d} : desk[e].on = t /\ desk[e].step \in StatusSteps}
      /\ clear' = IF d \in overtaken THEN clear \ {t} ELSE clear \cup {t}
  BY DEF Overtakes
<1>3. UpToDate(x)' BY DEF UpToDate
<1>4. clear' \subseteq clear \cup {t} /\ (t \in clear' => TurnKept(row, msgs)) BY <1>2
<1>5. /\ overtaken' \subseteq overtaken \cup {e \in Desks \ {d} : desk[e].step \in StatusSteps}
      /\ d \notin overtaken'
      /\ \A e \in Desks \ {d} :
           e \notin overtaken' => e \notin overtaken /\ ~(desk[e].on = t /\ desk[e].step \in StatusSteps)
  BY <1>2
<1>6. /\ d \in overtaken' => x.step \in StatusSteps
      /\ d \notin overtaken' => UpToDate(x)'
      /\ \A e \in Desks \ {d} :
            e \notin overtaken' => /\ e \notin overtaken
                                   /\ desk[e].on = t /\ desk[e].step \in StatusSteps
                                        => SameTurn(row, ticket[t])
      /\ t \in Opened => /\ Len(talk[t]) <= Len(msgs)
                         /\ ticket[t].firstRespondedAt # 0 => row.firstRespondedAt # 0
  BY <1>3, <1>5
<1> QED BY <1>1, <1>4, <1>5, <1>6, DeskStep

\* When somebody first answered changes only by one who was overtaken.
FirstMayChange ==
  \A t \in Opened :
    \/ ticket[t].firstRespondedAt \in {0, ticket'[t].firstRespondedAt}
    \/ \E d \in overtaken : desk[d].on = t /\ desk'[d].step = "tell"

\* What a reply writes to the ticket t at the hour now.
Spoken(d, step, next, t, now, columns, row) ==
  /\ Speak(d, step, next, columns) /\ TicketColumns(columns)
  /\ step \in {"userReply", "staffReply"} /\ next \in {"attach", "tell"}
  /\ t = desk[d].on /\ now = Hour(d)
  /\ "lastMessageAt" \in DOMAIN columns /\ columns.lastMessageAt = now
  /\ row = Saved(ticket[t], desk[d].loaded, columns)
  /\ row.firstRespondedAt \in {now, ticket[t].firstRespondedAt}
  /\ step = "userReply" => row.firstRespondedAt = ticket[t].firstRespondedAt
  /\ step = "staffReply" => row.firstRespondedAt # 0
  /\ d \notin overtaken => /\ row.resolvedAt = FALSE
                           /\ row.status = IF step = "userReply" THEN "open" ELSE "answered"

LEMMA SpeakStep ==
  ASSUME SupportInv, NEW d \in Desks, NEW step, NEW next, NEW t, NEW now, NEW columns, NEW row,
         Spoken(d, step, next, t, now, columns, row)
  PROVE  /\ SupportInv' /\ ticket' = [ticket EXCEPT ![t] = row] /\ desk'[d].step = next
<1>0. /\ Speak(d, step, next, columns) /\ TicketColumns(columns)
      /\ step \in {"userReply", "staffReply"} /\ next \in {"attach", "tell"}
      /\ t = desk[d].on /\ now = Hour(d)
      /\ "lastMessageAt" \in DOMAIN columns /\ columns.lastMessageAt = now
      /\ row = Saved(ticket[t], desk[d].loaded, columns)
      /\ row.firstRespondedAt \in {now, ticket[t].firstRespondedAt}
      /\ step = "userReply" => row.firstRespondedAt = ticket[t].firstRespondedAt
      /\ step = "staffReply" => row.firstRespondedAt # 0
      /\ d \notin overtaken => /\ row.resolvedAt = FALSE
                               /\ row.status = IF step = "userReply" THEN "open" ELSE "answered"
  BY DEF Spoken
<1>1. /\ desk[d].step = step /\ step \in StatusSteps /\ step # "idle" /\ now <= MaxTalk
      /\ talk' = [talk EXCEPT ![t] = Append(@, Says(desk[d].who))]
      /\ ticket' = [ticket EXCEPT ![t] = row] /\ Overtakes(d, t)
      /\ desk' = [desk EXCEPT ![d].step = next, ![d].loaded = NoOne, ![d].said = now]
  BY <1>0 DEF Speak, StatusSteps, SupportInv
<1>2. /\ t \in Tickets /\ t \in Opened /\ desk[d] \in DeskRow /\ Serves(desk[d])
      /\ ticket[t] \in TicketRow /\ talk[t] \in Seq(Message) /\ Conversation(ticket[t], talk[t])
  BY <1>0, <1>1, DeskKnows
<1>3. /\ desk[d].loaded \in TicketRow /\ desk[d].loaded.lastMessageAt <= Len(talk[t])
      /\ step = "userReply" => desk[d].who \in Customers
      /\ step = "staffReply" => desk[d].who \in Agents
  BY <1>0, <1>1, <1>2 DEF Serves
<1>4. PICK who \in Customers \cup Agents : who = desk[d].who BY <1>0, <1>3
<1>5. PICK msgs \in Seq(Message) : msgs = talk[t] BY <1>2
<1>6. PICK more : more = Append(msgs, Says(who)) OBVIOUS
<1>7. /\ more \in Seq(Message) /\ Len(more) = Len(msgs) + 1 /\ Len(msgs) \in Nat
      /\ \A i \in 1..Len(msgs) : more[i] = msgs[i]
      /\ more[Len(more)].by = who
  BY <1>6, Appended
<1>8. now = Len(more) /\ now \in 1..MaxTalk
  BY <1>0, <1>1, <1>5, <1>7, SupportAssumption DEF Hour
<1>9. PICK old, loaded \in TicketRow : old = ticket[t] /\ loaded = desk[d].loaded BY <1>2, <1>3
<1>10. SavedOver(row, old, loaded, columns)
  <2>1. old \in TicketRow BY <1>2, <1>9
  <2>2. row = Saved(old, loaded, columns) BY <1>0, <1>9
  <2> QED BY <1>0, <2>1, <2>2, SavedTicket
<1>11. row \in TicketRow /\ row.lastMessageAt = now
  <2>1. loaded.lastMessageAt # now
    <3>1. loaded.lastMessageAt \in Int BY SupportAssumption DEF TicketRow
    <3> QED BY <1>3, <1>5, <1>7, <1>8, <1>9, <3>1
  <2> QED BY <1>0, <1>10, <2>1 DEF SavedOver
<1>12. Conversation(row, more)
  <2>1. /\ old.firstRespondedAt \in 0..Len(msgs)
        /\ old.firstRespondedAt = 0 <=> \A i \in 1..Len(msgs) : msgs[i].by \notin Agents
        /\ old.firstRespondedAt # 0 => msgs[old.firstRespondedAt].by \in Agents
    BY <1>2, <1>5, <1>9 DEF Conversation
  <2>2. \A i \in 1..Len(more) : i = Len(more) \/ i \in 1..Len(msgs) BY <1>7
  <2>3. row.firstRespondedAt \in 0..Len(more) BY <1>0, <1>7, <1>8, <1>9, <2>1
  <2>4. CASE step = "userReply"
    <3>1. row.firstRespondedAt = old.firstRespondedAt /\ who \notin Agents
      BY <1>0, <1>3, <1>4, <1>9, <2>4, SupportAssumption
    <3>2. row.firstRespondedAt = 0 <=> \A i \in 1..Len(more) : more[i].by \notin Agents
      <4>1. 1..Len(msgs) \subseteq 1..Len(more) BY <1>7
      <4> QED BY <1>7, <2>1, <2>2, <3>1, <4>1
    <3>3. row.firstRespondedAt # 0 => more[row.firstRespondedAt].by \in Agents
      <4>1. old.firstRespondedAt # 0 => old.firstRespondedAt \in 1..Len(msgs) BY <1>7, <2>1
      <4> QED BY <1>7, <2>1, <3>1, <4>1
    <3> QED BY <1>1, <1>7, <1>8, <1>11, <2>3, <3>2, <3>3 DEF Conversation
  <2>5. CASE step = "staffReply"
    <3>1. row.firstRespondedAt # 0 /\ who \in Agents BY <1>0, <1>3, <1>4, <2>5
    <3>2. more[row.firstRespondedAt].by \in Agents
      <4>1. CASE row.firstRespondedAt = now BY <1>7, <1>8, <3>1, <4>1
      <4>2. CASE row.firstRespondedAt = old.firstRespondedAt
        <5>1. old.firstRespondedAt \in 1..Len(msgs) BY <1>7, <2>1, <3>1, <4>2
        <5> QED BY <1>7, <2>1, <3>1, <4>2, <5>1
      <4> QED BY <1>0, <1>9, <4>1, <4>2
    <3>3. row.firstRespondedAt \in 1..Len(more) BY <1>7, <2>3, <3>1
    <3> QED BY <1>1, <1>7, <1>8, <1>11, <2>3, <3>1, <3>2, <3>3 DEF Conversation
  <2> QED BY <1>0, <2>4, <2>5
<1>13. d \notin overtaken => TurnKept(row, more)
  BY <1>0, <1>3, <1>4, <1>7 DEF TurnKept
<1>14. ticket[t].firstRespondedAt # 0 => row.firstRespondedAt # 0 BY <1>0, <1>7, <1>8
<1>15. PICK x : x = [step |-> next, who |-> who, on |-> t, loaded |-> NoOne, said |-> now] OBVIOUS
<1>16. x \in DeskRow /\ x.step = next /\ x.on = t /\ x.said = now
  <2>1. now \in 0..MaxTalk BY <1>8, SupportAssumption
  <2> QED BY <1>0, <1>2, <1>15, <2>1 DEF DeskRow, DeskSteps
<1>17. desk' = [desk EXCEPT ![d] = x]
  <2>1. PICK y \in DeskRow : y = desk[d] BY <1>2
  <2>2. y = [step |-> y.step, who |-> who, on |-> t, loaded |-> y.loaded, said |-> y.said]
    BY <1>0, <1>4, <2>1 DEF DeskRow
  <2>3. PICK f : f = [y EXCEPT !.step = next] OBVIOUS
  <2>4. f = [step |-> next, who |-> who, on |-> t, loaded |-> y.loaded, said |-> y.said] BY <2>2, <2>3
  <2>5. PICK g : g = [f EXCEPT !.loaded = NoOne] OBVIOUS
  <2>6. g = [step |-> next, who |-> who, on |-> t, loaded |-> NoOne, said |-> y.said] BY <2>4, <2>5
  <2>7. PICK z : z = [g EXCEPT !.said = now] OBVIOUS
  <2>8. z = x BY <1>15, <2>6, <2>7
  <2>9. desk' = [desk EXCEPT ![d] = z] BY <1>1, <2>1, <2>3, <2>5, <2>7 DEF SupportInv
  <2> QED BY <2>8, <2>9
<1>18. /\ talk' = [talk EXCEPT ![t] = more] /\ Len(talk[t]) <= Len(more)
  BY <1>1, <1>4, <1>5, <1>6, <1>7 DEF SupportInv
<1>19. Serves(x)'
  <2>1. talk'[t] = more BY <1>2, <1>18 DEF SupportInv
  <2>2. row # NoOne BY <1>11, SupportAssumption
  <2>3. t \in Opened' BY <1>1, <1>2, <2>2 DEF Opened, SupportInv
  <2> QED BY <1>0, <1>8, <1>16, <2>1, <2>3 DEF Serves, StatusSteps
<1>20. x.step \notin StatusSteps /\ desk[d].step \in StatusSteps BY <1>0, <1>1, <1>16 DEF StatusSteps
<1>21. desk'[d] = x BY <1>17 DEF SupportInv
<1>22. SupportInv'
  BY <1>0, <1>1, <1>7, <1>11, <1>12, <1>13, <1>14, <1>16, <1>17, <1>18, <1>19, <1>20, WriteStep
<1> QED BY <1>1, <1>16, <1>21, <1>22

LEMMA ReplyAsUserStep ==
  ASSUME SupportInv, NEW d \in Desks, ReplyAsUser(d) PROVE SupportInv' /\ FirstMayChange
<1>1. PICK t, now, loaded, step :
        /\ t = desk[d].on /\ now = Hour(d) /\ loaded = desk[d].loaded /\ step = "userReply"
        /\ step \in {"userReply", "staffReply"}
  OBVIOUS
<1>2. PICK columns : columns = [status |-> "open", lastMessageAt |-> now, resolvedAt |-> FALSE]
  OBVIOUS
<1>3. Speak(d, step, "attach", columns) BY <1>1, <1>2 DEF ReplyAsUser, ByUser
<1>4. desk[d].step = step /\ now <= MaxTalk BY <1>1, <1>3 DEF Speak
<1>5. /\ t \in Opened /\ ticket[t] \in TicketRow /\ talk[t] \in Seq(Message)
      /\ loaded \in TicketRow /\ (d \notin overtaken => SameTurn(loaded, ticket[t]))
  BY <1>1, <1>4, DeskKnows DEF Serves, UpToDate, StatusSteps
<1>6. now \in 1..MaxTalk
  <2>1. Len(talk[t]) \in Nat BY <1>5
  <2> QED BY <1>1, <1>4, <2>1, SupportAssumption DEF Hour
<1>7. /\ DOMAIN columns = {"status", "lastMessageAt", "resolvedAt"} /\ columns.status = "open"
      /\ columns.lastMessageAt = now /\ columns.resolvedAt = FALSE
  BY <1>2
<1>8. TicketColumns(columns) BY <1>6, <1>7 DEF TicketColumns
<1>9. PICK old, row : old = ticket[t] /\ old \in TicketRow /\ row = Saved(old, loaded, columns) BY <1>5
<1>10. SavedOver(row, old, loaded, columns) BY <1>5, <1>8, <1>9, SavedTicket
<1>11. row.firstRespondedAt = old.firstRespondedAt BY <1>7, <1>10 DEF SavedOver
<1>12. ASSUME d \notin overtaken PROVE row.resolvedAt = FALSE /\ row.status = "open"
  BY <1>5, <1>7, <1>9, <1>10, <1>12 DEF SavedOver, SameTurn
<1>13. /\ row = Saved(ticket[t], desk[d].loaded, columns)
       /\ row.firstRespondedAt \in {now, ticket[t].firstRespondedAt}
       /\ step = "userReply" => row.firstRespondedAt = ticket[t].firstRespondedAt
       /\ step = "staffReply" => row.firstRespondedAt # 0
       /\ d \notin overtaken => /\ row.resolvedAt = FALSE
                                /\ row.status = IF step = "userReply" THEN "open" ELSE "answered"
  BY <1>1, <1>9, <1>11, <1>12
<1>14. PICK next \in {"attach", "tell"} : next = "attach" OBVIOUS
<1>15. Speak(d, step, next, columns) /\ "lastMessageAt" \in DOMAIN columns BY <1>3, <1>7, <1>14
<1>16. SupportInv' /\ ticket' = [ticket EXCEPT ![t] = row]
  <2>1. t = desk[d].on /\ now = Hour(d) /\ step \in {"userReply", "staffReply"} BY <1>1
  <2>2. Spoken(d, step, next, t, now, columns, row) BY <1>7, <1>8, <1>13, <1>14, <1>15, <2>1 DEF Spoken
  <2> QED BY <2>2, SpeakStep
<1>17. FirstMayChange
  BY <1>9, <1>11, <1>16 DEF FirstMayChange, Opened, SupportInv
<1> QED BY <1>16, <1>17

LEMMA ReplyAsStaffStep ==
  ASSUME SupportInv, NEW d \in Desks, ReplyAsStaff(d) PROVE SupportInv' /\ FirstMayChange
<1>1. PICK t, now, loaded, step :
        /\ t = desk[d].on /\ now = Hour(d) /\ loaded = desk[d].loaded /\ step = "staffReply"
        /\ step \in {"userReply", "staffReply"}
  OBVIOUS
<1>2. PICK columns :
        columns = [status |-> "answered", lastMessageAt |-> now, resolvedAt |-> FALSE,
                   firstRespondedAt |-> IF loaded.firstRespondedAt = 0 THEN now
                                        ELSE loaded.firstRespondedAt]
  OBVIOUS
<1>3. Speak(d, step, "tell", columns) BY <1>1, <1>2 DEF ReplyAsStaff, ByStaff
<1>4. desk[d].step = step /\ now <= MaxTalk BY <1>1, <1>3 DEF Speak
<1>5. /\ t \in Opened /\ ticket[t] \in TicketRow /\ talk[t] \in Seq(Message)
      /\ loaded \in TicketRow /\ (d \notin overtaken => SameTurn(loaded, ticket[t]))
      /\ loaded.firstRespondedAt # 0 => ticket[t].firstRespondedAt # 0
  BY <1>1, <1>4, DeskKnows DEF Serves, UpToDate, StatusSteps
<1>6. now \in 1..MaxTalk
  <2>1. Len(talk[t]) \in Nat BY <1>5
  <2> QED BY <1>1, <1>4, <2>1, SupportAssumption DEF Hour
<1>7. /\ DOMAIN columns = {"status", "lastMessageAt", "resolvedAt", "firstRespondedAt"}
      /\ columns.status = "answered" /\ columns.lastMessageAt = now /\ columns.resolvedAt = FALSE
      /\ columns.firstRespondedAt = IF loaded.firstRespondedAt = 0 THEN now ELSE loaded.firstRespondedAt
  BY <1>2
<1>8. TicketColumns(columns)
  <2>1. loaded.firstRespondedAt \in 0..MaxTalk /\ now \in 0..MaxTalk
    BY <1>5, <1>6, SupportAssumption DEF TicketRow
  <2> QED BY <1>6, <1>7, <2>1 DEF TicketColumns
<1>9. PICK old, row : old = ticket[t] /\ old \in TicketRow /\ row = Saved(old, loaded, columns) BY <1>5
<1>10. SavedOver(row, old, loaded, columns) BY <1>5, <1>8, <1>9, SavedTicket
<1>11. /\ loaded.firstRespondedAt = 0 => row.firstRespondedAt = now
       /\ loaded.firstRespondedAt # 0 => row.firstRespondedAt = old.firstRespondedAt
  <2>1. now # 0 BY <1>6
  <2> QED BY <1>7, <1>10, <2>1 DEF SavedOver
<1>12. ASSUME d \notin overtaken
       PROVE  /\ row.resolvedAt = FALSE /\ row.status = "answered"
              /\ old.firstRespondedAt \in {0, row.firstRespondedAt}
  BY <1>5, <1>7, <1>9, <1>10, <1>11, <1>12 DEF SavedOver, SameTurn
<1>13. /\ row = Saved(ticket[t], desk[d].loaded, columns)
       /\ row.firstRespondedAt \in {now, ticket[t].firstRespondedAt}
       /\ step = "userReply" => row.firstRespondedAt = ticket[t].firstRespondedAt
       /\ step = "staffReply" => row.firstRespondedAt # 0
       /\ d \notin overtaken => /\ row.resolvedAt = FALSE
                                /\ row.status = IF step = "userReply" THEN "open" ELSE "answered"
  <2>1. step = "staffReply" /\ step # "userReply" BY <1>1
  <2>2. row.firstRespondedAt \in {now, ticket[t].firstRespondedAt} BY <1>9, <1>11
  <2>3. row.firstRespondedAt # 0
    <3>1. now # 0 BY <1>6
    <3> QED BY <1>5, <1>9, <1>11, <3>1
  <2>4. row = Saved(ticket[t], desk[d].loaded, columns) BY <1>1, <1>9
  <2> QED BY <1>12, <2>1, <2>2, <2>3, <2>4
<1>14. PICK next \in {"attach", "tell"} : next = "tell" OBVIOUS
<1>15. Speak(d, step, next, columns) /\ "lastMessageAt" \in DOMAIN columns BY <1>3, <1>7, <1>14
<1>16. SupportInv' /\ ticket' = [ticket EXCEPT ![t] = row] /\ desk'[d].step = next
  <2>1. t = desk[d].on /\ now = Hour(d) /\ step \in {"userReply", "staffReply"} BY <1>1
  <2>2. Spoken(d, step, next, t, now, columns, row) BY <1>7, <1>8, <1>13, <1>14, <1>15, <2>1 DEF Spoken
  <2> QED BY <2>2, SpeakStep
<1>17. FirstMayChange
  <2>1. ticket'[t] = row /\ \A u \in Tickets \ {t} : ticket'[u] = ticket[u]
    BY <1>5, <1>16 DEF Opened, SupportInv
  <2>2. ASSUME NEW u \in Opened
        PROVE  \/ ticket[u].firstRespondedAt \in {0, ticket'[u].firstRespondedAt}
               \/ \E e \in overtaken : desk[e].on = u /\ desk'[e].step = "tell"
    <3>1. CASE u # t BY <2>1, <3>1 DEF Opened
    <3>2. CASE u = t /\ d \notin overtaken BY <1>9, <1>12, <2>1, <3>2
    <3>3. CASE u = t /\ d \in overtaken BY <1>1, <1>14, <1>16, <3>3
    <3> QED BY <3>1, <3>2, <3>3
  <2> QED BY <2>2 DEF FirstMayChange
<1> QED BY <1>16, <1>17

LEMMA ResolveTicketStep ==
  ASSUME SupportInv, NEW d \in Desks, ResolveTicket(d) PROVE SupportInv' /\ FirstMayChange
<1>1. PICK t, loaded, columns, base, row :
        /\ t = desk[d].on /\ loaded = desk[d].loaded /\ columns = [status |-> "resolved"]
        /\ base = Saved(ticket[t], loaded, columns)
        /\ row = [base EXCEPT !.resolvedAt = TRUE]
  OBVIOUS
<1>2. desk[d].step = "resolve" /\ Overtakes(d, t) /\ desk' = [desk EXCEPT ![d] = Idle] /\ talk' = talk
  BY <1>1 DEF ResolveTicket, LeavesDesk
<1>3. /\ t \in Tickets /\ t \in Opened /\ ticket[t] \in TicketRow /\ talk[t] \in Seq(Message)
      /\ Conversation(ticket[t], talk[t])
      /\ loaded \in TicketRow /\ (d \notin overtaken => SameTurn(loaded, ticket[t]))
  BY <1>1, <1>2, DeskKnows DEF Serves, UpToDate, StatusSteps
<1>4. ticket' = [ticket EXCEPT ![t] = row]
  BY <1>1, <1>3 DEF ResolveTicket, SupportInv
<1>5. DOMAIN columns = {"status"} /\ columns.status = "resolved" BY <1>1
<1>6. TicketColumns(columns) BY <1>5 DEF TicketColumns
<1>7. PICK old \in TicketRow : old = ticket[t] BY <1>3
<1>8. SavedOver(base, old, loaded, columns)
  <2>1. base = Saved(old, loaded, columns) BY <1>1, <1>7
  <2> QED BY <1>3, <1>6, <2>1, SavedTicket
<1>9. /\ base \in TicketRow /\ base.lastMessageAt = old.lastMessageAt
      /\ base.firstRespondedAt = old.firstRespondedAt
      /\ base.status = IF loaded.status # "resolved" THEN "resolved" ELSE old.status
  BY <1>5, <1>8 DEF SavedOver
<1>10. /\ row \in TicketRow /\ row.lastMessageAt = old.lastMessageAt
       /\ row.firstRespondedAt = old.firstRespondedAt
       /\ row.status = base.status /\ row.resolvedAt = TRUE
  BY <1>1, <1>9 DEF TicketRow
<1>11. PICK msgs \in Seq(Message) : msgs = talk[t] BY <1>3
<1>12. Conversation(row, msgs) BY <1>3, <1>7, <1>10, <1>11 DEF Conversation
<1>13. d \notin overtaken => TurnKept(row, msgs) BY <1>3, <1>7, <1>9, <1>10 DEF TurnKept, SameTurn
<1>14. talk' = [talk EXCEPT ![t] = msgs] /\ Len(talk[t]) <= Len(msgs)
  <2>1. Len(talk[t]) \in Nat BY <1>3
  <2> QED BY <1>2, <1>3, <1>11, <2>1 DEF SupportInv
<1>15. PICK x \in DeskRow : x = Idle BY IdleIsRow
<1>16. /\ desk' = [desk EXCEPT ![d] = x] /\ x.step \notin StatusSteps /\ Serves(x)'
       /\ desk[d].step \in StatusSteps /\ (ticket[t].firstRespondedAt # 0 => row.firstRespondedAt # 0)
  BY <1>2, <1>7, <1>10, <1>15, IdleIsRow DEF StatusSteps, Serves
<1>17. SupportInv' BY <1>1, <1>2, <1>4, <1>10, <1>12, <1>13, <1>14, <1>16, WriteStep
<1>18. FirstMayChange BY <1>3, <1>4, <1>7, <1>10 DEF FirstMayChange, Opened, SupportInv
<1> QED BY <1>17, <1>18

LEMMA AssignStep ==
  ASSUME SupportInv, NEW d \in Desks, NEW staff, Assign(d, staff) PROVE SupportInv' /\ FirstMayChange
<1>1. PICK t, loaded, columns, row :
        /\ t = desk[d].on /\ loaded = desk[d].loaded /\ columns = [assigned |-> staff]
        /\ row = Saved(ticket[t], loaded, columns)
  OBVIOUS
<1>2. /\ desk[d].step = "assign" /\ staff \in {desk[d].who, NoOne} /\ desk' = [desk EXCEPT ![d] = Idle]
      /\ ticket' = [ticket EXCEPT ![t] = row] /\ UNCHANGED <<talk, overtaken, clear>>
  BY <1>1 DEF Assign, LeavesDesk, SupportInv
<1>3. /\ t \in Tickets /\ t \in Opened /\ ticket[t] \in TicketRow /\ talk[t] \in Seq(Message)
      /\ Conversation(ticket[t], talk[t]) /\ (t \in clear => TurnKept(ticket[t], talk[t]))
      /\ loaded \in TicketRow /\ desk[d].who \in Agents
  BY <1>1, <1>2, DeskKnows DEF Serves
<1>4. DOMAIN columns = {"assigned"} /\ columns.assigned = staff BY <1>1
<1>5. TicketColumns(columns) BY <1>2, <1>3, <1>4 DEF TicketColumns
<1>6. PICK old \in TicketRow : old = ticket[t] BY <1>3
<1>7. SavedOver(row, old, loaded, columns)
  <2>1. row = Saved(old, loaded, columns) BY <1>1, <1>6
  <2> QED BY <1>3, <1>5, <2>1, SavedTicket
<1>8. row \in TicketRow /\ SameTurn(row, old) BY <1>4, <1>7 DEF SavedOver, SameTurn
<1>9. PICK msgs \in Seq(Message) : msgs = talk[t] BY <1>3
<1>10. Conversation(row, msgs) BY <1>3, <1>6, <1>8, <1>9 DEF Conversation, SameTurn
<1>11. t \in clear' => TurnKept(row, msgs) BY <1>2, <1>3, <1>6, <1>8, <1>9 DEF TurnKept, SameTurn
<1>12. talk' = [talk EXCEPT ![t] = msgs] /\ Len(talk[t]) <= Len(msgs)
  <2>1. Len(talk[t]) \in Nat BY <1>3
  <2> QED BY <1>2, <1>3, <1>9, <2>1 DEF SupportInv
<1>13. PICK x \in DeskRow : x = Idle BY IdleIsRow
<1>14. desk' = [desk EXCEPT ![d] = x] /\ Serves(x)' /\ UpToDate(x)'
  BY <1>2, <1>13, IdleIsRow DEF StatusSteps, Serves, UpToDate
<1>15. d \notin overtaken BY <1>2 DEF SupportInv, StatusSteps
<1>16. /\ clear' \subseteq clear \cup {t}
       /\ overtaken' \subseteq overtaken \cup {e \in Desks \ {d} : desk[e].step \in StatusSteps}
       /\ d \in overtaken' => x.step \in StatusSteps
       /\ d \notin overtaken' => UpToDate(x)'
       /\ \A e \in Desks \ {d} :
            e \notin overtaken' => /\ e \notin overtaken
                                   /\ desk[e].on = t /\ desk[e].step \in StatusSteps
                                        => SameTurn(row, ticket[t])
       /\ t \in Opened => /\ Len(talk[t]) <= Len(msgs)
                          /\ ticket[t].firstRespondedAt # 0 => row.firstRespondedAt # 0
  BY <1>2, <1>6, <1>8, <1>12, <1>14, <1>15 DEF SameTurn
<1>17. SupportInv' BY <1>2, <1>3, <1>8, <1>10, <1>11, <1>12, <1>14, <1>16, DeskStep
<1>18. FirstMayChange BY <1>2, <1>3, <1>6, <1>8 DEF FirstMayChange, Opened, SupportInv, SameTurn
<1> QED BY <1>17, <1>18

LEMMA RowsStay == ticket' = ticket => FirstMayChange
BY DEF FirstMayChange

LEMMA SupportInvStep == ASSUME SupportInv, [SupportNext]_supportVars PROVE SupportInv' /\ FirstMayChange
<1>1. CASE UNCHANGED supportVars
  BY <1>1, RowsStay DEF supportVars, SupportInv, Opened, Serves, UpToDate
<1>2. ASSUME NEW d \in Desks, NEW t \in Tickets, NEW u \in Customers, OpenTicket(d, u, t)
      PROVE  SupportInv' /\ FirstMayChange
  <2>1. FirstMayChange BY <1>2 DEF OpenTicket, FirstMayChange, Opened, SupportInv
  <2> QED BY <1>2, <2>1, OpenTicketStep
<1>3. ASSUME NEW d \in Desks, NEW t \in Tickets, NEW who \in Customers \cup Agents,
             NEW step \in StatusSteps \cup {"assign"},
             step = "userReply" => who \in Customers, step # "userReply" => who \in Agents,
             LoadTicket(d, who, t, step)
      PROVE  SupportInv' /\ FirstMayChange
  <2>1. ticket' = ticket BY <1>3 DEF LoadTicket
  <2> QED BY <1>3, <2>1, LoadTicketStep, RowsStay
<1>4. ASSUME NEW d \in Desks, Attach(d) \/ AttachedOrRefused(d) \/ Tell(d) \/ Abandon(d)
      PROVE  SupportInv' /\ FirstMayChange
  <2>1. ticket' = ticket BY <1>4 DEF Attach, AttachedOrRefused, Tell, Abandon
  <2> QED BY <1>4, <2>1, AttachStep, AbandonSteps, TellStep, RowsStay
<1>5. ASSUME NEW d \in Desks, ReplyAsUser(d) \/ ReplyAsStaff(d) \/ ResolveTicket(d)
      PROVE  SupportInv' /\ FirstMayChange
  BY <1>5, ReplyAsUserStep, ReplyAsStaffStep, ResolveTicketStep
<1>6. ASSUME NEW d \in Desks, NEW s \in Agents \cup {NoOne}, Assign(d, s)
      PROVE  SupportInv' /\ FirstMayChange
  BY <1>6, AssignStep
<1>7. ASSUME NEW d \in Desks, NEW t \in Tickets, NEW u \in Customers, LoadTicket(d, u, t, "userReply")
      PROVE  SupportInv' /\ FirstMayChange
  <2>1. PICK step \in StatusSteps \cup {"assign"} : step = "userReply" BY DEF StatusSteps
  <2>2. PICK who \in Customers \cup Agents : who = u OBVIOUS
  <2>3. LoadTicket(d, who, t, step) /\ who \in Customers BY <1>7, <2>1, <2>2
  <2> QED BY <1>3, <2>1, <2>3
<1>8. ASSUME NEW d \in Desks, NEW t \in Tickets, NEW s \in Agents,
             NEW step \in {"staffReply", "resolve", "assign"}, LoadTicket(d, s, t, step)
      PROVE  SupportInv' /\ FirstMayChange
  <2>1. step \in StatusSteps \cup {"assign"} /\ step # "userReply" BY DEF StatusSteps
  <2>2. PICK who \in Customers \cup Agents : who = s OBVIOUS
  <2>3. LoadTicket(d, who, t, step) /\ who \in Agents BY <1>8, <2>2
  <2> QED BY <1>3, <2>1, <2>3
<1> QED BY <1>1, <1>2, <1>4, <1>5, <1>6, <1>7, <1>8 DEF SupportNext

LEMMA SupportInvInit == SupportInit => SupportInv
<1> SUFFICES ASSUME SupportInit PROVE SupportInv OBVIOUS
<1>1. Opened = {} BY DEF SupportInit, Opened
<1>2. /\ \A d \in Desks : desk[d] = Idle /\ Serves(desk[d]) /\ UpToDate(desk[d])
      /\ desk \in [Desks -> DeskRow]
  <2>1. desk = [d \in Desks |-> Idle] BY DEF SupportInit
  <2>2. Serves(Idle) /\ UpToDate(Idle) BY IdleIsRow DEF Serves, UpToDate, StatusSteps
  <2> QED BY <2>1, <2>2, IdleIsRow
<1>3. talk \in [Tickets -> Seq(Message)] /\ \A t \in Tickets : Len(talk[t]) <= MaxTalk
  BY SupportAssumption DEF SupportInit
<1> QED BY <1>1, <1>2, <1>3 DEF SupportInit, SupportInv

\* TicketsSafe: columns of their kinds, a status that says whose turn it is,
\* times that match the conversation, and a first answer that stays
\* (support_service.ts).
THEOREM TicketsHold == SupportSpec => TicketsSafe
<1>1. SupportSpec => []SupportInv
  BY SupportInvInit, SupportInvStep, PTL DEF SupportSpec
<1>2. SupportInv => SupportTypeOK BY DEF SupportInv, SupportTypeOK, Serves
<1>3. SupportInv => StatusSaysWhoseTurn
  <2> SUFFICES ASSUME SupportInv, NEW t \in Opened \cap clear
               PROVE  LET last == talk[t][Len(talk[t])].by IN
                        /\ ticket[t].resolvedAt <=> t \in Queue("resolved")
                        /\ t \notin Queue("resolved") => (t \in Queue("open") <=> last \in Customers)
                        /\ \A u \in Customers : t \in AwaitingCustomer(u) => last \in Agents
    BY DEF StatusSaysWhoseTurn
  <2>1. TurnKept(ticket[t], talk[t]) /\ ticket[t] \in TicketRow BY DEF SupportInv, Conversation
  <2>2. ticket[t].status \in {"open", "answered", "resolved"} BY <2>1 DEF TicketRow
  <2> QED BY <2>1, <2>2, SupportAssumption DEF TurnKept, Queue, AwaitingCustomer
<1>4. SupportInv => TimesMatchTheConversation
  BY DEF SupportInv, Conversation, TimesMatchTheConversation
<1>5. SupportSpec => [][FirstMayChange]_supportVars
  BY <1>1, SupportInvStep, PTL DEF SupportSpec
<1>6. [FirstMayChange]_supportVars =>
        [\A t \in Opened :
           \/ ticket[t].firstRespondedAt \in {0, ticket'[t].firstRespondedAt}
           \/ \E d \in overtaken : desk[d].on = t /\ desk'[d].step = "tell"]_supportVars
  BY DEF FirstMayChange
<1>7. SupportSpec => FirstAnswerStays BY <1>5, <1>6, PTL DEF FirstAnswerStays
<1> QED BY <1>1, <1>2, <1>3, <1>4, <1>7, PTL DEF TicketsSafe

-----------------------------------------------------------------------------
(* Posts and pages. Until an overtaken request writes, whoever was not     *)
(* overtaken has the row as it is and a slug that is nobody else's; and    *)
(* every slug at which readers saw an entry is its own or leads to it.     *)

EditorRow == [step : Kinds \cup {"idle"}, e : Entries \cup {NoContent},
              loaded : ArticleRow \cup {NoContent}, slug : Slugs \cup {NoContent},
              date : {0} \cup Dates, publish : BOOLEAN, stale : BOOLEAN]

AtHand(x) ==
  /\ x.step = "insert" => x.e \in Entries \ written /\ x.slug \in Slugs
  /\ x.step \notin {"idle", "insert"} => x.e \in written /\ x.loaded \in ArticleRow
  /\ x.step = "update" => x.slug \in Slugs

NotOvertaken(x) ==
  ~x.stale =>
    /\ x.step \in {"insert", "update"} => ~slugProblem(x.slug, x.e)
    /\ x.step \notin {"idle", "insert"} => x.e \in Published /\ x.loaded = article[x.e]

Reachable(e) ==
  shared[e] # {} =>
    /\ article[e].publishedAt \in 1..today
    /\ \A s \in shared[e] : article[e].slug = s \/ redirect[s] = e

SlugsClear ==
  \A s \in Slugs : redirect[s] # NoContent =>
    redirect[s] \in Published /\ \A e \in Published : article[e].slug # s

RowsSound ==
  /\ article \in [Entries -> ArticleRow \cup {NoContent}]
  /\ written \subseteq Entries /\ Published \subseteq written /\ undated \subseteq written
  /\ redirect \in [Slugs -> written \cup {NoContent}]
  /\ today \in Dates /\ crossed \in BOOLEAN
  /\ \A e \in Published : ~TakenByAnother(e)
  /\ shared \in [Entries -> SUBSET Slugs] /\ \A e \in Entries \ written : shared[e] = {}
  /\ ~crossed => SlugsClear /\ \A e \in Published \ undated : Reachable(e)

EditorsSound ==
  /\ editor \in [Editors -> EditorRow]
  /\ \A v \in Editors : AtHand(editor[v]) /\ NotOvertaken(editor[v])
  /\ \A v \in Editors, w \in Editors :
       v # w /\ editor[v].step = "insert" /\ editor[w].step = "insert" => editor[v].e # editor[w].e

ContentInv == RowsSound /\ EditorsSound

DatesMayMove ==
  ~crossed' => \A e \in Published :
    shared[e] # {} /\ article'[e] # NoContent /\ (e \in Live \/ e \notin undated') =>
      article'[e].publishedAt = article[e].publishedAt

SameRequest(x, y) ==
  /\ y.step = x.step /\ y.e = x.e /\ y.loaded = x.loaded /\ y.slug = x.slug
  /\ x.step # "idle" /\ x.stale => y.stale

-----------------------------------------------------------------------------
(* Requests.                                                               *)

LEMMA AwayIsRow == Away \in EditorRow /\ Away.step = "idle" /\ ~Away.stale
BY DEF Away, EditorRow

\* A request that did nothing, while another may have written.
LEMMA EditorStays ==
  ASSUME NEW x, NEW y, SameRequest(x, y), AtHand(x), NotOvertaken(x), written \subseteq written',
         x.step = "insert" => x.e \notin written',
         x.step = "idle" \/ y.stale \/ (article' = article /\ redirect' = redirect)
  PROVE  AtHand(y)' /\ NotOvertaken(y)'
<1>1. AtHand(y)' BY DEF SameRequest, AtHand
<1>2. NotOvertaken(y)'
  <2>1. CASE x.step = "idle" \/ y.stale BY <2>1 DEF NotOvertaken, SameRequest
  <2>2. CASE article' = article /\ redirect' = redirect
    BY <2>2 DEF NotOvertaken, SameRequest, slugProblem, TakenByOthers, RedirectedByOthers, Published
  <2> QED BY <2>1, <2>2
<1> QED BY <1>1, <1>2

\* One request moves, the others are as they were or overtaken.
LEMMA EditorsMove ==
  ASSUME EditorsSound, NEW v \in Editors, NEW x \in EditorRow,
         editor' \in [Editors -> EditorRow], editor'[v] = x,
         AtHand(x)', NotOvertaken(x)', written \subseteq written',
         x.step = "insert" => \A w \in Editors \ {v} : editor[w].e # x.e,
         \A w \in Editors \ {v} :
           /\ SameRequest(editor[w], editor'[w])
           /\ editor[w].step = "insert" => editor[w].e \notin written'
           /\ editor[w].step = "idle" \/ editor'[w].stale \/ (article' = article /\ redirect' = redirect)
  PROVE  EditorsSound'
<1>1. ASSUME NEW w \in Editors PROVE AtHand(editor[w])' /\ NotOvertaken(editor[w])'
  <2>1. PICK y : y = editor'[w] OBVIOUS
  <2>2. CASE w = v
    <3>1. y = x BY <2>1, <2>2
    <3>2. AtHand(y)' /\ NotOvertaken(y)' BY <3>1
    <3> QED BY <2>1, <3>2 DEF AtHand, NotOvertaken
  <2>3. CASE w # v
    <3>1. PICK z : z = editor[w] OBVIOUS
    <3>2. AtHand(z) /\ NotOvertaken(z) /\ SameRequest(z, y) BY <2>1, <2>3, <3>1 DEF EditorsSound
    <3>3. AtHand(y)' /\ NotOvertaken(y)' BY <2>1, <2>3, <3>1, <3>2, EditorStays
    <3> QED BY <2>1, <3>3 DEF AtHand, NotOvertaken
  <2> QED BY <2>2, <2>3
<1>2. ASSUME NEW u \in Editors, NEW w \in Editors, u # w,
             editor'[u].step = "insert", editor'[w].step = "insert"
      PROVE  editor'[u].e # editor'[w].e
  <2>1. CASE u = v BY <1>2, <2>1 DEF SameRequest
  <2>2. CASE w = v BY <1>2, <2>2 DEF SameRequest
  <2>3. CASE u # v /\ w # v BY <1>2, <2>3 DEF SameRequest, EditorsSound
  <2> QED BY <2>1, <2>2, <2>3
<1> QED BY <1>1, <1>2 DEF EditorsSound

\* A request begins, or ends having written nothing.
LEMMA EditorSet ==
  ASSUME EditorsSound, NEW v \in Editors, NEW x \in EditorRow, editor' = [editor EXCEPT ![v] = x],
         AtHand(x), NotOvertaken(x), x.step = "insert" => \A w \in Editors : editor[w].e # x.e,
         article' = article, redirect' = redirect, written' = written
  PROVE  EditorsSound'
<1>1. editor' \in [Editors -> EditorRow] /\ editor'[v] = x BY DEF EditorsSound
<1>2. \A w \in Editors \ {v} : editor'[w] = editor[w] BY DEF EditorsSound
<1>3. AtHand(x)' /\ NotOvertaken(x)'
  BY DEF AtHand, NotOvertaken, slugProblem, TakenByOthers, RedirectedByOthers, Published
<1>4. \A w \in Editors \ {v} :
        /\ SameRequest(editor[w], editor'[w])
        /\ editor[w].step = "insert" => editor[w].e \notin written'
  BY <1>2 DEF SameRequest, EditorsSound, AtHand
<1> QED BY <1>1, <1>3, <1>4, EditorsMove

\* A request ends, or goes on, having written: those under way are overtaken.
LEMMA EditorWrote ==
  ASSUME EditorsSound, NEW v \in Editors, NEW x \in EditorRow, x.step # "insert",
         editor' = [w \in Editors |->
           IF w = v THEN x
           ELSE IF editor[w].step # "idle" THEN [editor[w] EXCEPT !.stale = TRUE] ELSE editor[w]],
         AtHand(x)', NotOvertaken(x)', written \subseteq written',
         \A w \in Editors \ {v} : editor[w].step = "insert" => editor[w].e \notin written'
  PROVE  EditorsSound'
<1>1. ASSUME NEW w \in Editors \ {v}
      PROVE  /\ editor'[w] \in EditorRow /\ SameRequest(editor[w], editor'[w])
             /\ editor[w].step = "idle" \/ editor'[w].stale
  <2>1. PICK z \in EditorRow : z = editor[w] BY DEF EditorsSound
  <2>2. CASE z.step = "idle" BY <2>1, <2>2 DEF SameRequest
  <2>3. CASE z.step # "idle"
    <3>1. PICK y : y = [z EXCEPT !.stale = TRUE] OBVIOUS
    <3>2. editor'[w] = y BY <2>1, <2>3, <3>1
    <3>3. y \in EditorRow /\ y.stale /\ SameRequest(z, y) BY <3>1 DEF EditorRow, SameRequest
    <3> QED BY <2>1, <3>2, <3>3
  <2> QED BY <2>2, <2>3
<1>2. editor'[v] = x OBVIOUS
<1>3. editor' \in [Editors -> EditorRow] BY <1>1, <1>2
<1> QED BY <1>1, <1>2, <1>3, EditorsMove

LEMMA DoneNothing ==
  ASSUME ContentInv, NEW v \in Editors, EditorDone(v, FALSE),
         article' = article, redirect' = redirect, written' = written
  PROVE  EditorsSound'
<1>1. editor' = [editor EXCEPT ![v] = Away] BY DEF EditorDone, ContentInv, EditorsSound
<1>2. AtHand(Away) /\ NotOvertaken(Away) BY AwayIsRow DEF AtHand, NotOvertaken
<1> QED BY <1>1, <1>2, AwayIsRow, EditorSet DEF ContentInv

LEMMA DoneWriting ==
  ASSUME ContentInv, NEW v \in Editors, EditorDone(v, TRUE), written \subseteq written',
         \A w \in Editors \ {v} : editor[w].step = "insert" => editor[w].e \notin written'
  PROVE  EditorsSound'
<1>1. editor' = [w \in Editors |->
        IF w = v THEN Away
        ELSE IF editor[w].step # "idle" THEN [editor[w] EXCEPT !.stale = TRUE] ELSE editor[w]]
  BY DEF EditorDone
<1>2. PICK x \in EditorRow : x = Away BY AwayIsRow
<1>3. x.step = "idle" /\ ~x.stale BY <1>2, AwayIsRow
<1>4. AtHand(x)' /\ NotOvertaken(x)' BY <1>3 DEF AtHand, NotOvertaken
<1> QED BY <1>1, <1>2, <1>3, <1>4, EditorWrote DEF ContentInv

-----------------------------------------------------------------------------
(* Rows.                                                                   *)

LEMMA ArticlesStay ==
  ASSUME RowsSound, UNCHANGED <<article, written, redirect, today, shared, crossed, undated>>
  PROVE  RowsSound'
BY DEF RowsSound, Published, TakenByAnother, SlugsClear, Reachable

\* One row is made, saved or deleted.
LEMMA RowMoves ==
  ASSUME RowsSound, NEW e \in Entries, NEW row \in ArticleRow \cup {NoContent},
         article' = [article EXCEPT ![e] = row], written' = written \cup {e},
         undated \subseteq undated', undated' \subseteq undated \cup {e},
         today' = today, shared' = shared, crossed' \in BOOLEAN, crossed => crossed',
         redirect' \in [Slugs -> written' \cup {NoContent}],
         row # NoContent => ~TakenByOthers(row.slug, e),
         ~crossed' => /\ SlugsClear'
                      /\ \A s \in Slugs : redirect[s] \notin {NoContent, e} => redirect'[s] = redirect[s]
                      /\ row # NoContent /\ e \notin undated' => Reachable(e)'
  PROVE  RowsSound'
<1>1. /\ article' \in [Entries -> ArticleRow \cup {NoContent}] /\ article'[e] = row
      /\ \A f \in Entries \ {e} : article'[f] = article[f]
  BY DEF RowsSound
<1>2. /\ \A f \in Entries \ {e} : f \in Published' <=> f \in Published
      /\ e \in Published' <=> row # NoContent
      /\ Published \subseteq Entries /\ Published' \subseteq Entries
  BY <1>1 DEF Published
<1>3. Published' \subseteq written' /\ written' \subseteq Entries /\ undated' \subseteq written'
  BY <1>2 DEF RowsSound
<1>4. ASSUME NEW f \in Published' PROVE ~TakenByAnother(f)'
  <2>1. SUFFICES ASSUME NEW g \in Published' \ {f} PROVE article'[g].slug # article'[f].slug
    BY DEF TakenByAnother
  <2>2. CASE f = e BY <1>1, <1>2, <2>2 DEF TakenByOthers
  <2>3. CASE g = e BY <1>1, <1>2, <2>3 DEF TakenByOthers
  <2>4. CASE f # e /\ g # e BY <1>1, <1>2, <2>4 DEF RowsSound, TakenByAnother
  <2> QED BY <2>2, <2>3, <2>4
<1>5. /\ today' \in Dates /\ shared' \in [Entries -> SUBSET Slugs]
      /\ \A f \in Entries \ written' : shared'[f] = {}
  BY DEF RowsSound
<1>6. ASSUME ~crossed' PROVE SlugsClear' /\ \A f \in Published' \ undated' : Reachable(f)'
  <2>1. ASSUME NEW f \in Published' \ undated' PROVE Reachable(f)'
    <3>1. CASE f = e BY <1>2, <1>6, <2>1, <3>1
    <3>2. CASE f # e
      <4>1. f \in Entries /\ f \in Published \ undated /\ article'[f] = article[f] BY <1>1, <1>2, <3>2
      <4>2. Reachable(f) /\ shared[f] \subseteq Slugs BY <1>6, <4>1 DEF RowsSound
      <4>3. f # NoContent BY <4>1, ContentAssumption
      <4>4. \A s \in Slugs : redirect[s] = f => redirect'[s] = f BY <1>6, <3>2, <4>3
      <4> QED BY <4>1, <4>2, <4>4 DEF Reachable
    <3> QED BY <3>1, <3>2
  <2> QED BY <1>6, <2>1
<1> QED BY <1>1, <1>3, <1>4, <1>5, <1>6 DEF RowsSound

\* What is saved over an article, column by column.
ArticleColumns(columns) ==
  /\ DOMAIN columns \subseteq {"slug", "status", "publishedAt"}
  /\ "slug" \in DOMAIN columns => columns.slug \in Slugs
  /\ "status" \in DOMAIN columns => columns.status \in {"draft", "published", "archived"}
  /\ "publishedAt" \in DOMAIN columns => columns.publishedAt \in {0} \cup Dates

SavedOnto(s, row, loaded, columns) ==
  /\ s \in ArticleRow
  /\ s.slug = IF "slug" \in DOMAIN columns /\ columns.slug # loaded.slug
              THEN columns.slug ELSE row.slug
  /\ s.publishedAt = IF "publishedAt" \in DOMAIN columns /\ columns.publishedAt # loaded.publishedAt
                     THEN columns.publishedAt ELSE row.publishedAt

LEMMA SavedArticle ==
  ASSUME NEW row \in ArticleRow, NEW loaded \in ArticleRow, NEW columns, ArticleColumns(columns),
         NEW s, s = Saved(row, loaded, columns)
  PROVE  SavedOnto(s, row, loaded, columns)
<1>1. /\ DOMAIN row = {"slug", "status", "publishedAt"} /\ row.slug \in Slugs
      /\ row.status \in {"draft", "published", "archived"} /\ row.publishedAt \in {0} \cup Dates
  BY DEF ArticleRow
<1>2. DOMAIN s = {"slug", "status", "publishedAt"} /\ s = [x \in DOMAIN s |-> s[x]]
  BY <1>1 DEF Saved
<1>3. /\ s.slug = IF "slug" \in DOMAIN columns /\ columns.slug # loaded.slug
                  THEN columns.slug ELSE row.slug
      /\ s.status = IF "status" \in DOMAIN columns /\ columns.status # loaded.status
                    THEN columns.status ELSE row.status
      /\ s.publishedAt = IF "publishedAt" \in DOMAIN columns /\ columns.publishedAt # loaded.publishedAt
                         THEN columns.publishedAt ELSE row.publishedAt
  BY <1>1 DEF Saved
<1>4. /\ s.slug \in Slugs /\ s.status \in {"draft", "published", "archived"}
      /\ s.publishedAt \in {0} \cup Dates
  BY <1>1, <1>3 DEF ArticleColumns
<1>5. s = [slug |-> s.slug, status |-> s.status, publishedAt |-> s.publishedAt] BY <1>2
<1>6. s \in ArticleRow BY <1>4, <1>5 DEF ArticleRow
<1> QED BY <1>3, <1>6 DEF SavedOnto

LEMMA EditorKnows ==
  ASSUME ContentInv, NEW v \in Editors, NEW x, x = editor[v]
  PROVE  /\ x \in EditorRow /\ AtHand(x) /\ NotOvertaken(x)
         /\ x.step \in Kinds => x.e \in Entries
         /\ \A w \in Editors \ {v} :
              editor[w] \in EditorRow /\ AtHand(editor[w])
              /\ (editor[w].step = "insert" => editor[w].e \notin written)
              /\ (editor[w].step = "insert" /\ x.step = "insert" => editor[w].e # x.e)
<1>1. x \in EditorRow /\ AtHand(x) /\ NotOvertaken(x) BY DEF ContentInv, EditorsSound
<1>2. ASSUME x.step \in Kinds PROVE x.e \in Entries
  BY <1>1, <1>2 DEF AtHand, Kinds, ContentInv, RowsSound
<1> QED BY <1>1, <1>2 DEF ContentInv, EditorsSound, AtHand

-----------------------------------------------------------------------------
(* Steps.                                                                  *)

LEMMA StartCreateStep ==
  ASSUME ContentInv, NEW v \in Editors, NEW e \in Entries, NEW s \in Slugs,
         NEW date \in {0} \cup Dates, NEW publish \in BOOLEAN, StartCreate(v, e, s, date, publish)
  PROVE  ContentInv'
<1>1. PICK x : x = [Away EXCEPT !.step = "insert", !.e = e, !.slug = s, !.date = date,
                                !.publish = publish] OBVIOUS
<1>2. x \in EditorRow /\ x.step = "insert" /\ x.e = e /\ x.slug = s
  BY <1>1, AwayIsRow DEF EditorRow, Kinds
<1>3. editor' = [editor EXCEPT ![v] = x] BY <1>1 DEF StartCreate
<1>4. AtHand(x) /\ NotOvertaken(x) /\ \A w \in Editors : editor[w].e # x.e
  BY <1>2 DEF AtHand, NotOvertaken, StartCreate
<1>5. EditorsSound' BY <1>2, <1>3, <1>4, EditorSet DEF StartCreate, ContentInv
<1> QED BY <1>5, ArticlesStay DEF StartCreate, ContentInv

LEMMA StartUpdateStep ==
  ASSUME ContentInv, NEW v \in Editors, NEW e \in Entries, NEW s \in Slugs,
         NEW date \in {0} \cup Dates, StartUpdate(v, e, s, date)
  PROVE  ContentInv'
<1>1. PICK x : x = [Away EXCEPT !.step = "update", !.e = e, !.loaded = article[e], !.slug = s,
                                !.date = date] OBVIOUS
<1>2. e \in Published /\ e \in written /\ article[e] \in ArticleRow
  BY DEF StartUpdate, ContentInv, RowsSound, Published
<1>3. x \in EditorRow /\ x.step = "update" /\ x.e = e /\ x.slug = s /\ x.loaded = article[e]
  BY <1>1, <1>2, AwayIsRow DEF EditorRow, Kinds
<1>4. editor' = [editor EXCEPT ![v] = x] BY <1>1 DEF StartUpdate
<1>5. AtHand(x) /\ NotOvertaken(x) /\ x.step # "insert"
  BY <1>2, <1>3 DEF AtHand, NotOvertaken, StartUpdate
<1>6. EditorsSound' BY <1>3, <1>4, <1>5, EditorSet DEF StartUpdate, ContentInv
<1> QED BY <1>6, ArticlesStay DEF StartUpdate, ContentInv

LEMMA StartTurnStep ==
  ASSUME ContentInv, NEW v \in Editors, NEW e \in Entries, NEW kind \in Kinds \ {"insert", "update"},
         StartTurn(v, e, kind)
  PROVE  ContentInv'
<1>1. PICK x : x = [Away EXCEPT !.step = kind, !.e = e, !.loaded = article[e]] OBVIOUS
<1>2. e \in Published /\ e \in written /\ article[e] \in ArticleRow
  BY DEF StartTurn, ContentInv, RowsSound, Published
<1>3. x \in EditorRow /\ x.step = kind /\ x.e = e /\ x.loaded = article[e]
  BY <1>1, <1>2, AwayIsRow DEF EditorRow
<1>4. editor' = [editor EXCEPT ![v] = x] BY <1>1 DEF StartTurn
<1>5. AtHand(x) /\ NotOvertaken(x) /\ x.step # "insert"
  BY <1>2, <1>3 DEF AtHand, NotOvertaken, Kinds
<1>6. EditorsSound' BY <1>3, <1>4, <1>5, EditorSet DEF StartTurn, ContentInv
<1> QED BY <1>6, ArticlesStay DEF StartTurn, ContentInv

LEMMA ReadStep ==
  ASSUME ContentInv, NEW e \in Entries, Read(e)
  PROVE  ContentInv'
<1>1. /\ e \in Published /\ article[e] \in ArticleRow /\ article[e].publishedAt \in 1..today
      /\ e \in written
  BY DEF Read, Live, LiveRow, Published, ContentInv, RowsSound
<1>2. article[e].slug \in Slugs BY <1>1 DEF ArticleRow
<1>3. /\ shared' \in [Entries -> SUBSET Slugs] /\ shared'[e] = shared[e] \cup {article[e].slug}
      /\ \A f \in Entries \ {e} : shared'[f] = shared[f]
  BY <1>2 DEF Read, ContentInv, RowsSound
<1>4. UNCHANGED <<article, written, redirect, today, editor, crossed, undated>> BY DEF Read
<1>5. ASSUME ~crossed PROVE SlugsClear' /\ \A f \in Published' \ undated' : Reachable(f)'
  <2>1. SlugsClear' BY <1>4, <1>5 DEF SlugsClear, Published, ContentInv, RowsSound
  <2>2. ASSUME NEW f \in Published \ undated PROVE Reachable(f)'
    <3>1. Reachable(f) /\ f \in Entries BY <1>5 DEF ContentInv, RowsSound, Published
    <3> QED BY <1>1, <1>3, <1>4, <3>1 DEF Reachable
  <2> QED BY <1>4, <2>1, <2>2 DEF Published
<1>6. RowsSound' BY <1>1, <1>3, <1>4, <1>5 DEF ContentInv, RowsSound, Published, TakenByAnother
<1>7. EditorsSound'
  BY <1>4 DEF ContentInv, EditorsSound, AtHand, NotOvertaken, slugProblem, TakenByOthers,
              RedirectedByOthers, Published
<1> QED BY <1>6, <1>7 DEF ContentInv

LEMMA NextDayStep ==
  ASSUME ContentInv, NextDay
  PROVE  ContentInv'
<1>1. /\ UNCHANGED <<article, written, redirect, shared, crossed, undated>>
      /\ today \in Dates /\ today' \in Dates /\ today' = today + 1
  BY ContentAssumption DEF NextDay, ContentInv, RowsSound, Dates
<1>2. \A f \in Entries : Reachable(f) => Reachable(f)'
  BY <1>1 DEF Reachable, Dates
<1>3. RowsSound'
  BY <1>1, <1>2 DEF ContentInv, RowsSound, SlugsClear, Published, TakenByAnother
<1>4. ASSUME NEW w \in Editors
      PROVE  /\ editor'[w] \in EditorRow /\ SameRequest(editor[w], editor'[w])
             /\ AtHand(editor[w])' /\ NotOvertaken(editor[w])'
  <2>1. PICK z \in EditorRow : z = editor[w] BY DEF ContentInv, EditorsSound
  <2>2. PICK y : y = [z EXCEPT !.stale = z.step # "idle"] OBVIOUS
  <2>3. editor'[w] = y BY <2>1, <2>2 DEF NextDay
  <2>4. y \in EditorRow BY <2>2 DEF EditorRow
  <2>5. /\ y.step = z.step /\ y.e = z.e /\ y.loaded = z.loaded /\ y.slug = z.slug
        /\ y.stale <=> z.step # "idle"
    BY <2>2 DEF EditorRow
  <2>6. SameRequest(z, y) BY <2>5 DEF SameRequest
  <2>7. AtHand(z) /\ NotOvertaken(z) BY <2>1 DEF ContentInv, EditorsSound
  <2>8. AtHand(y)' /\ NotOvertaken(y)'
    <3>1. written \subseteq written' /\ article' = article /\ redirect' = redirect BY <1>1
    <3>2. z.step = "insert" => z.e \notin written' BY <1>1, <2>7 DEF AtHand
    <3> QED BY <2>6, <2>7, <3>1, <3>2, EditorStays
  <2> QED BY <2>1, <2>3, <2>4, <2>6, <2>8 DEF AtHand, NotOvertaken
<1>5. editor' \in [Editors -> EditorRow] BY <1>4 DEF NextDay
<1>6. EditorsSound' BY <1>4, <1>5 DEF ContentInv, EditorsSound, SameRequest
<1> QED BY <1>3, <1>6 DEF ContentInv

LEMMA InsertStep ==
  ASSUME ContentInv, NEW v \in Editors, InsertArticle(v)
  PROVE  ContentInv' /\ DatesMayMove
<1>1. PICK x : x = editor[v] OBVIOUS
<1>2. PICK e : e = x.e OBVIOUS
<1>3. PICK row : row = [slug |-> x.slug, status |-> "draft", publishedAt |-> x.date] OBVIOUS
<1>4. x \in EditorRow /\ x.step = "insert" /\ e \in Entries \ written /\ row \in ArticleRow
      /\ row.slug = x.slug
  <2>1. x \in EditorRow /\ x.step = "insert" /\ AtHand(x)
    BY <1>1, EditorKnows DEF InsertArticle
  <2> QED BY <1>2, <1>3, <2>1 DEF AtHand, EditorRow, ArticleRow
<1>5. UNCHANGED <<redirect, today, shared, undated>> BY DEF InsertArticle
<1>6. CASE TakenByOthers(row.slug, e)
  <2>1. EditorDone(v, FALSE) /\ UNCHANGED <<article, written, crossed>>
    BY <1>1, <1>2, <1>3, <1>6 DEF InsertArticle
  <2>2. EditorsSound' BY <1>5, <2>1, DoneNothing
  <2>3. RowsSound' BY <1>5, <2>1, ArticlesStay DEF ContentInv
  <2> QED BY <2>1, <2>2, <2>3 DEF ContentInv, DatesMayMove
<1>7. CASE ~TakenByOthers(row.slug, e)
  <2>1. /\ article' = [article EXCEPT ![e] = row] /\ written' = written \cup {e}
        /\ crossed' = (crossed \/ x.stale)
        /\ IF x.publish
           THEN editor' = [w \in Editors |->
                  IF w = v THEN [x EXCEPT !.step = "publish", !.loaded = row]
                  ELSE [editor[w] EXCEPT !.stale = editor[w].step # "idle"]]
           ELSE EditorDone(v, TRUE)
    BY <1>1, <1>2, <1>3, <1>7 DEF InsertArticle, MarkCrossed
  <2>2. article \in [Entries -> ArticleRow \cup {NoContent}] BY DEF ContentInv, RowsSound
  <2>3. /\ article'[e] = row /\ \A f \in Entries \ {e} : article'[f] = article[f]
        /\ e \notin Published /\ Published \subseteq Entries
        /\ Published' \subseteq Published \cup {e} /\ Published \subseteq Published' /\ e \in Published'
    BY <1>4, <2>1, <2>2, ContentAssumption DEF Published, ContentInv, RowsSound
  <2>4. redirect' \in [Slugs -> written' \cup {NoContent}]
    BY <1>5, <2>1 DEF ContentInv, RowsSound
  <2>5. ASSUME ~crossed'
        PROVE  /\ SlugsClear' /\ \A s \in Slugs : redirect'[s] = redirect[s]
               /\ Reachable(e)'
    <3>1. ~crossed /\ ~x.stale BY <2>1, <2>5
    <3>2. ~RedirectedByOthers(row.slug, e)
      BY <1>1, <1>2, <1>4, <3>1, EditorKnows DEF NotOvertaken, slugProblem
    <3>3. \A s \in Slugs : redirect[s] # e BY <1>4, ContentAssumption DEF ContentInv, RowsSound
    <3>4. row.slug \in Slugs BY <1>4 DEF ArticleRow
    <3>5. redirect[row.slug] = NoContent BY <3>2, <3>3, <3>4 DEF RedirectedByOthers
    <3>6. SlugsClear BY <3>1 DEF ContentInv, RowsSound
    <3>7. SlugsClear' BY <1>5, <2>3, <3>5, <3>6 DEF SlugsClear
    <3>8. shared[e] = {} BY <1>4 DEF ContentInv, RowsSound
    <3> QED BY <1>5, <3>7, <3>8 DEF Reachable
  <2>6. crossed' \in BOOLEAN /\ (crossed => crossed')
    BY <1>4, <2>1 DEF EditorRow, ContentInv, RowsSound
  <2>7. RowsSound'
    <3>1. undated \subseteq undated' /\ undated' \subseteq undated \cup {e} BY <1>5
    <3>2. /\ row # NoContent => ~TakenByOthers(row.slug, e)
          /\ ~crossed' =>
               /\ SlugsClear'
               /\ \A s \in Slugs : redirect[s] \notin {NoContent, e} => redirect'[s] = redirect[s]
               /\ row # NoContent /\ e \notin undated' => Reachable(e)'
      BY <1>7, <2>5
    <3>3. RowsSound BY DEF ContentInv
    <3>4. e \in Entries /\ row \in ArticleRow \cup {NoContent} BY <1>4
    <3>5. today' = today /\ shared' = shared BY <1>5
    <3> QED BY <2>1, <2>4, <2>6, <3>1, <3>2, <3>3, <3>4, <3>5, RowMoves
  <2>8. \A w \in Editors \ {v} : editor[w].step = "insert" => editor[w].e \notin written'
    BY <1>1, <1>2, <1>4, <2>1, EditorKnows
  <2>9. EditorsSound'
    <3>1. CASE x.publish
      <4>1. PICK y : y = [x EXCEPT !.step = "publish", !.loaded = row] OBVIOUS
      <4>2. /\ y \in EditorRow /\ y.step = "publish" /\ y.loaded = row /\ y.e = e
        BY <1>2, <1>4, <4>1 DEF EditorRow, Kinds
      <4>3. editor'[v] = y BY <2>1, <3>1, <4>1
      <4>4. AtHand(y)' /\ NotOvertaken(y)'
        BY <1>4, <2>1, <2>3, <4>2 DEF AtHand, NotOvertaken
      <4>5. ASSUME NEW w \in Editors \ {v}
            PROVE  /\ editor'[w] \in EditorRow /\ SameRequest(editor[w], editor'[w])
                   /\ editor[w].step = "idle" \/ editor'[w].stale
        <5>1. PICK z \in EditorRow : z = editor[w] BY DEF ContentInv, EditorsSound
        <5>2. PICK q : q = [z EXCEPT !.stale = z.step # "idle"] OBVIOUS
        <5>3. editor'[w] = q BY <2>1, <3>1, <5>1, <5>2
        <5>4. q \in EditorRow BY <5>2 DEF EditorRow
        <5>5. /\ q.step = z.step /\ q.e = z.e /\ q.loaded = z.loaded /\ q.slug = z.slug
              /\ q.stale <=> z.step # "idle"
          BY <5>2 DEF EditorRow
        <5> QED BY <5>1, <5>3, <5>4, <5>5 DEF SameRequest
      <4>6. editor' \in [Editors -> EditorRow] BY <2>1, <3>1, <4>2, <4>3, <4>5
      <4>7. EditorsSound /\ written \subseteq written' /\ y.step # "insert"
        BY <2>1, <4>2 DEF ContentInv
      <4> QED BY <2>8, <4>2, <4>3, <4>4, <4>5, <4>6, <4>7, EditorsMove
    <3>2. CASE ~x.publish
      <4>1. EditorDone(v, TRUE) /\ written \subseteq written' BY <2>1, <3>2
      <4> QED BY <2>8, <4>1, DoneWriting
    <3> QED BY <3>1, <3>2
  <2>10. DatesMayMove BY <2>3 DEF DatesMayMove
  <2> QED BY <2>7, <2>9, <2>10 DEF ContentInv
<1> QED BY <1>6, <1>7

\* One article is saved over, by a request that loaded it.
LEMMA SaveStep ==
  ASSUME ContentInv, NEW v \in Editors, NEW x, x = editor[v], x.step \in Kinds \ {"insert", "delete"},
         NEW columns, ArticleColumns(columns), SaveArticle(x.e, x.loaded, columns),
         EditorDone(v, TRUE), MarkCrossed(v), UNCHANGED <<written, today, shared>>,
         redirect' \in [Slugs -> written \cup {NoContent}],
         undated \subseteq undated', undated' \subseteq undated \cup {x.e},
         "slug" \in DOMAIN columns /\ columns.slug # x.loaded.slug /\ x.e \in Published
           => ~TakenByOthers(columns.slug, x.e),
         NEW row, row = article'[x.e],
         ~crossed' => /\ SlugsClear'
                      /\ \A s \in Slugs : redirect[s] \notin {NoContent, x.e} => redirect'[s] = redirect[s]
                      /\ x.e \notin undated' => Reachable(x.e)'
  PROVE  /\ ContentInv'
         /\ article' = [article EXCEPT ![x.e] = row]
<1>1. x \in EditorRow /\ x.e \in Entries /\ x.e \in written /\ x.loaded \in ArticleRow
  BY EditorKnows DEF AtHand, Kinds
<1>2. article \in [Entries -> ArticleRow \cup {NoContent}] BY DEF ContentInv, RowsSound
<1>3. article' = [article EXCEPT ![x.e] = row] BY <1>1, <1>2 DEF SaveArticle
<1>4. ASSUME x.e \notin Published PROVE row = NoContent
  <2>1. article[x.e] = NoContent BY <1>1, <1>4 DEF Published
  <2> QED BY <1>1, <1>2, <2>1 DEF SaveArticle
<1>5. ASSUME x.e \in Published PROVE row \in ArticleRow /\ ~TakenByOthers(row.slug, x.e)
  <2>1. article[x.e] \in ArticleRow /\ article[x.e] # NoContent BY <1>1, <1>2, <1>5 DEF Published
  <2>2. PICK old \in ArticleRow : old = article[x.e] BY <2>1
  <2>3. row = Saved(old, x.loaded, columns) BY <1>1, <1>2, <2>1, <2>2 DEF SaveArticle
  <2>4. SavedOnto(row, old, x.loaded, columns) BY <1>1, <2>2, <2>3, SavedArticle
  <2>5. ~TakenByOthers(old.slug, x.e)
    BY <1>5, <2>2 DEF ContentInv, RowsSound, TakenByAnother, TakenByOthers
  <2> QED BY <1>5, <2>4, <2>5 DEF SavedOnto
<1>6. row \in ArticleRow \cup {NoContent} /\ (row # NoContent => ~TakenByOthers(row.slug, x.e))
  BY <1>4, <1>5
<1>7. written' = written \cup {x.e} BY <1>1
<1>8. crossed' \in BOOLEAN /\ (crossed => crossed')
  BY <1>1 DEF MarkCrossed, EditorRow, ContentInv, RowsSound
<1>9. RowsSound' BY <1>1, <1>3, <1>6, <1>7, <1>8, RowMoves DEF ContentInv
<1>10. EditorsSound'
  <2>1. \A w \in Editors \ {v} : editor[w].step = "insert" => editor[w].e \notin written'
    BY EditorKnows
  <2> QED BY <2>1, DoneWriting
<1> QED BY <1>3, <1>9, <1>10 DEF ContentInv

\* A request that was not overtaken saves over the row that it loaded.
LEMMA SavesItsOwn ==
  ASSUME ContentInv, NEW v \in Editors, NEW x, x = editor[v], x.step \in Kinds \ {"insert"},
         MarkCrossed(v), ~crossed'
  PROVE  /\ ~crossed /\ ~x.stale /\ x.e \in Published /\ x.loaded = article[x.e]
         /\ SlugsClear /\ (x.e \notin undated => Reachable(x.e))
         /\ \A e \in Published : ~TakenByAnother(e)
<1>1. NotOvertaken(x) BY EditorKnows
<1>2. ~crossed /\ ~x.stale BY DEF MarkCrossed
<1>3. x.e \in Published /\ x.loaded = article[x.e] BY <1>1, <1>2 DEF NotOvertaken, Kinds
<1> QED BY <1>2, <1>3 DEF ContentInv, RowsSound

LEMMA TurnStep ==
  ASSUME ContentInv, NEW v \in Editors, Turn(v)
  PROVE  ContentInv' /\ DatesMayMove
<1>1. PICK x : x = editor[v] OBVIOUS
<1>2. PICK columns :
        columns = CASE x.step = "publish" ->
                         [status |-> "published", publishedAt |-> DateOf(x.loaded)]
                    [] x.step = "unpublish" -> [status |-> "draft"]
                    [] x.step = "archive" -> [status |-> "archived"]
  OBVIOUS
<1>3. /\ x.step \in {"publish", "unpublish", "archive"} /\ SaveArticle(x.e, x.loaded, columns)
      /\ MarkCrossed(v) /\ EditorDone(v, TRUE) /\ UNCHANGED <<written, redirect, today, shared, undated>>
  BY <1>1, <1>2 DEF Turn
<1>4. x \in EditorRow /\ x.e \in Entries /\ x.e \in written /\ x.loaded \in ArticleRow
  BY <1>1, <1>3, EditorKnows DEF AtHand, Kinds
<1>5. PICK stamp : stamp = DateOf(x.loaded) OBVIOUS
<1>6. stamp \in {0} \cup Dates /\ (x.loaded.publishedAt # 0 => stamp = x.loaded.publishedAt)
  BY <1>4, <1>5 DEF DateOf, ArticleRow, ContentInv, RowsSound
<1>7. /\ ArticleColumns(columns) /\ "slug" \notin DOMAIN columns
      /\ "publishedAt" \in DOMAIN columns => columns.publishedAt = stamp
  <2>1. CASE x.step = "publish"
    <3>1. columns = [status |-> "published", publishedAt |-> stamp] BY <1>2, <1>5, <2>1
    <3> QED BY <1>6, <3>1 DEF ArticleColumns
  <2>2. CASE x.step = "unpublish"
    <3>1. columns = [status |-> "draft"] BY <1>2, <2>2
    <3> QED BY <3>1 DEF ArticleColumns
  <2>3. CASE x.step = "archive"
    <3>1. columns = [status |-> "archived"] BY <1>2, <2>3
    <3> QED BY <3>1 DEF ArticleColumns
  <2> QED BY <1>3, <2>1, <2>2, <2>3
<1>8. PICK row : row = article'[x.e] OBVIOUS
<1>9. article \in [Entries -> ArticleRow \cup {NoContent}] BY DEF ContentInv, RowsSound
<1>10. article' = [article EXCEPT ![x.e] = row] BY <1>3, <1>4, <1>8, <1>9 DEF SaveArticle
<1>11. ASSUME ~crossed'
       PROVE  /\ x.e \in Published /\ SlugsClear /\ (x.e \notin undated => Reachable(x.e))
              /\ row \in ArticleRow /\ row.slug = article[x.e].slug
              /\ article[x.e].publishedAt # 0 => row.publishedAt = article[x.e].publishedAt
  <2>1. /\ x.e \in Published /\ x.loaded = article[x.e] /\ SlugsClear
        /\ x.e \notin undated => Reachable(x.e)
    BY <1>1, <1>3, <1>11, SavesItsOwn DEF Kinds
  <2>2. article[x.e] # NoContent BY <2>1 DEF Published
  <2>3. row = Saved(x.loaded, x.loaded, columns)
    BY <1>3, <1>4, <1>8, <1>9, <2>1, <2>2 DEF SaveArticle
  <2>4. SavedOnto(row, x.loaded, x.loaded, columns) BY <1>4, <1>7, <2>3, SavedArticle
  <2> QED BY <1>6, <1>7, <2>1, <2>4 DEF SavedOnto
<1>12. ASSUME ~crossed'
       PROVE  /\ SlugsClear' /\ (x.e \notin undated' => Reachable(x.e)')
              /\ \A s \in Slugs : redirect'[s] = redirect[s]
  <2>1. /\ article'[x.e] = row /\ \A f \in Entries \ {x.e} : article'[f] = article[f]
    BY <1>4, <1>9, <1>10
  <2>2. row # NoContent BY <1>11, <1>12, ContentAssumption
  <2>3. Published' = Published /\ \A f \in Published : article'[f].slug = article[f].slug
    BY <1>11, <1>12, <2>1, <2>2 DEF Published
  <2>4. SlugsClear' BY <1>3, <1>11, <1>12, <2>3 DEF SlugsClear
  <2>5. ASSUME x.e \notin undated' PROVE Reachable(x.e)'
    <3>1. SUFFICES ASSUME shared[x.e] # {}
          PROVE  /\ article'[x.e].publishedAt \in 1..today
                 /\ \A s \in shared[x.e] : article'[x.e].slug = s \/ redirect[s] = x.e
      BY <1>3 DEF Reachable
    <3>2. /\ article[x.e].publishedAt \in 1..today
          /\ \A s \in shared[x.e] : article[x.e].slug = s \/ redirect[s] = x.e
      BY <1>3, <1>11, <1>12, <2>5, <3>1 DEF Reachable
    <3>3. article[x.e].publishedAt # 0 BY <3>2
    <3> QED BY <1>11, <1>12, <2>1, <3>2, <3>3
  <2> QED BY <1>3, <2>4, <2>5
<1>13. ContentInv'
  <2>1. redirect' \in [Slugs -> written \cup {NoContent}] BY <1>3 DEF ContentInv, RowsSound
  <2>2. undated \subseteq undated' /\ undated' \subseteq undated \cup {x.e} BY <1>3
  <2>3. x.step \in Kinds \ {"insert", "delete"} BY <1>3 DEF Kinds
  <2>4. UNCHANGED <<written, today, shared>> BY <1>3
  <2>5. ~("slug" \in DOMAIN columns /\ columns.slug # x.loaded.slug /\ x.e \in Published) BY <1>7
  <2> QED BY <1>1, <1>3, <1>7, <1>8, <1>12, <2>1, <2>2, <2>3, <2>4, <2>5, SaveStep
<1>14. DatesMayMove
  <2>1. SUFFICES ASSUME ~crossed', NEW e \in Published, shared[e] # {}, article'[e] # NoContent,
                        e \in Live \/ e \notin undated'
                 PROVE  article'[e].publishedAt = article[e].publishedAt
    BY DEF DatesMayMove
  <2>2. CASE e # x.e BY <1>4, <1>9, <1>10, <2>2 DEF Published
  <2>3. CASE e = x.e
    <3>1. article[e].publishedAt # 0
      <4>1. CASE e \in Live BY <4>1 DEF Live, LiveRow
      <4>2. CASE e \notin undated' BY <1>3, <1>11, <2>1, <2>3, <4>2 DEF Reachable
      <4> QED BY <2>1, <4>1, <4>2
    <3> QED BY <1>8, <1>11, <2>1, <2>3, <3>1
  <2> QED BY <2>2, <2>3
<1> QED BY <1>13, <1>14

LEMMA UpdateStep ==
  ASSUME ContentInv, NEW v \in Editors, UpdateArticle(v)
  PROVE  ContentInv' /\ DatesMayMove
<1>1. PICK x : x = editor[v] OBVIOUS
<1>2. PICK loaded, e, s : loaded = x.loaded /\ e = x.e /\ s = x.slug OBVIOUS
<1>3. PICK renames \in BOOLEAN : renames <=> s # loaded.slug OBVIOUS
<1>4. PICK leaves \in BOOLEAN : leaves <=> renames /\ loaded.publishedAt # 0 OBVIOUS
<1>5. PICK date : date = IF MayDate(v) THEN x.date ELSE loaded.publishedAt OBVIOUS
<1>6. /\ x \in EditorRow /\ x.step = "update" /\ e \in Entries /\ e \in written
      /\ loaded \in ArticleRow /\ s \in Slugs
  <2>1. x \in EditorRow /\ x.step = "update" /\ AtHand(x) BY <1>1, EditorKnows DEF UpdateArticle
  <2> QED BY <1>1, <1>2, <2>1, EditorKnows DEF AtHand, Kinds
<1>7. UNCHANGED <<written, today, shared>> BY DEF UpdateArticle
<1>8. loaded.slug \in Slugs /\ loaded.publishedAt \in {0} \cup Dates /\ date \in {0} \cup Dates
  BY <1>5, <1>6 DEF ArticleRow, EditorRow
<1>9. CASE (renames /\ e \in Published /\ TakenByOthers(s, e)) \/ (leaves /\ redirect[loaded.slug] # NoContent)
  <2>1. EditorDone(v, FALSE) /\ UNCHANGED <<article, redirect, crossed, undated>>
    BY <1>1, <1>2, <1>3, <1>4, <1>9 DEF UpdateArticle, EverPublic
  <2>2. EditorsSound' BY <1>7, <2>1, DoneNothing
  <2>3. RowsSound' BY <1>7, <2>1, ArticlesStay DEF ContentInv
  <2> QED BY <2>1, <2>2, <2>3 DEF ContentInv, DatesMayMove
<1>10. CASE ~((renames /\ e \in Published /\ TakenByOthers(s, e))
              \/ (leaves /\ redirect[loaded.slug] # NoContent))
  <2>1. PICK columns : columns = [slug |-> s, publishedAt |-> date] OBVIOUS
  <2>2. /\ redirect' = [t \in Slugs |-> IF leaves /\ t = loaded.slug THEN e
                                       ELSE IF renames /\ t = s THEN TakenBack(t, e) ELSE redirect[t]]
        /\ SaveArticle(e, loaded, columns)
        /\ undated' = IF shared[e] # {} /\ date # loaded.publishedAt THEN undated \cup {e} ELSE undated
        /\ MarkCrossed(v) /\ EditorDone(v, TRUE)
    BY <1>1, <1>2, <1>3, <1>4, <1>5, <1>10, <2>1 DEF UpdateArticle, EverPublic
  <2>3. ArticleColumns(columns) /\ DOMAIN columns = {"slug", "publishedAt"}
        /\ columns.slug = s /\ columns.publishedAt = date
    BY <1>6, <1>8, <2>1 DEF ArticleColumns
  <2>4. PICK row : row = article'[e] OBVIOUS
  <2>5. article \in [Entries -> ArticleRow \cup {NoContent}] BY DEF ContentInv, RowsSound
  <2>6. article' = [article EXCEPT ![e] = row] BY <1>6, <2>2, <2>4, <2>5 DEF SaveArticle
  <2>7. redirect \in [Slugs -> written \cup {NoContent}] BY DEF ContentInv, RowsSound
  <2>8. redirect' \in [Slugs -> written \cup {NoContent}]
    BY <1>6, <2>2, <2>7 DEF TakenBack
  <2>9. ASSUME ~crossed'
        PROVE  /\ e \in Published /\ loaded = article[e] /\ SlugsClear
               /\ e \notin undated => Reachable(e)
               /\ \A f \in Published : ~TakenByAnother(f)
               /\ row \in ArticleRow /\ row.slug = s /\ row.publishedAt = date
               /\ redirect[s] \in {NoContent, e} /\ ~TakenByOthers(s, e)
    <3>1. /\ ~x.stale /\ e \in Published /\ loaded = article[e] /\ SlugsClear
          /\ e \notin undated => Reachable(e)
          /\ \A f \in Published : ~TakenByAnother(f)
      BY <1>1, <1>2, <1>6, <2>2, <2>9, SavesItsOwn DEF Kinds
    <3>2. article[e] # NoContent BY <3>1 DEF Published
    <3>3. row = Saved(loaded, loaded, columns) BY <1>6, <2>2, <2>4, <2>5, <3>1, <3>2 DEF SaveArticle
    <3>4. SavedOnto(row, loaded, loaded, columns) BY <1>6, <2>3, <3>3, SavedArticle
    <3>5. row \in ArticleRow /\ row.slug = s /\ row.publishedAt = date BY <2>3, <3>4 DEF SavedOnto
    <3>6. ~slugProblem(s, e)
      <4>1. NotOvertaken(x) BY <1>1, EditorKnows
      <4> QED BY <1>2, <1>6, <3>1, <4>1 DEF NotOvertaken
    <3> QED BY <3>1, <3>5, <3>6 DEF slugProblem, RedirectedByOthers
  <2>10. ASSUME ~crossed'
         PROVE  /\ SlugsClear' /\ (e \notin undated' => Reachable(e)')
                /\ \A t \in Slugs : redirect[t] \notin {NoContent, e} => redirect'[t] = redirect[t]
    <3>1. article'[e] = row /\ \A f \in Entries \ {e} : article'[f] = article[f]
      BY <1>6, <2>5, <2>6
    <3>2. row # NoContent BY <2>9, <2>10, ContentAssumption
    <3>3. Published' = Published /\ Published \subseteq Entries
      BY <1>6, <2>9, <2>10, <3>1, <3>2 DEF Published
    <3>4. ASSUME NEW f \in Published \ {e}
          PROVE  /\ article'[f].slug = article[f].slug /\ article[f].slug # s
                 /\ article[f].slug # loaded.slug
      <4>1. article[f].slug # s BY <2>9, <2>10, <3>4 DEF TakenByOthers
      <4>2. article[f].slug # loaded.slug BY <2>9, <2>10, <3>4 DEF TakenByAnother
      <4> QED BY <3>1, <3>3, <4>1, <4>2
    <3>5. \A t \in Slugs :
            redirect'[t] = IF leaves /\ t = loaded.slug THEN e
                           ELSE IF renames /\ t = s THEN NoContent ELSE redirect[t]
      BY <1>6, <2>2, <2>9, <2>10 DEF TakenBack
    <3>6. \A t \in Slugs : redirect[t] # NoContent =>
            redirect[t] \in Published /\ \A f \in Published : article[f].slug # t
      BY <2>9, <2>10 DEF SlugsClear
    <3>7. \A t \in Slugs : redirect[t] \notin {NoContent, e} => redirect'[t] = redirect[t]
      BY <2>9, <2>10, <3>5, <3>6
    <3>8. SlugsClear'
      <4>1. SUFFICES ASSUME NEW t \in Slugs, redirect'[t] # NoContent
            PROVE  redirect'[t] \in Published /\ \A f \in Published : article'[f].slug # t
        BY <3>3 DEF SlugsClear
      <4>2. CASE leaves /\ t = loaded.slug
        BY <1>3, <1>4, <2>9, <2>10, <3>1, <3>4, <3>5, <4>2
      <4>3. CASE ~(leaves /\ t = loaded.slug)
        <5>1. redirect'[t] = redirect[t] /\ ~(renames /\ t = s) BY <3>5, <4>1, <4>3
        <5>2. redirect[t] \in Published /\ \A f \in Published : article[f].slug # t
          BY <3>6, <4>1, <5>1
        <5>3. article'[e].slug # t BY <1>3, <2>9, <2>10, <3>1, <5>1, <5>2
        <5> QED BY <3>4, <5>1, <5>2, <5>3
      <4> QED BY <4>2, <4>3
    <3>9. ASSUME e \notin undated' PROVE Reachable(e)'
      <4>1. SUFFICES ASSUME shared[e] # {}
            PROVE  /\ article'[e].publishedAt \in 1..today
                   /\ \A t \in shared[e] : article'[e].slug = t \/ redirect'[t] = e
        BY <1>7 DEF Reachable
      <4>2. e \notin undated /\ date = loaded.publishedAt BY <2>2, <3>9, <4>1
      <4>3. /\ loaded.publishedAt \in 1..today
            /\ \A t \in shared[e] : loaded.slug = t \/ redirect[t] = e
        BY <2>9, <2>10, <4>1, <4>2 DEF Reachable
      <4>4. shared[e] \subseteq Slugs BY <1>6 DEF ContentInv, RowsSound
      <4>5. loaded.publishedAt # 0 BY <4>3
      <4>6. ASSUME NEW t \in shared[e] PROVE s = t \/ redirect'[t] = e
        BY <1>3, <1>4, <3>5, <4>3, <4>4, <4>5
      <4> QED BY <2>9, <2>10, <3>1, <4>2, <4>3, <4>6
    <3> QED BY <3>7, <3>8, <3>9
  <2>11. ContentInv'
    <3>1. undated \subseteq undated' /\ undated' \subseteq undated \cup {e} BY <2>2
    <3>2. x.step \in Kinds \ {"insert", "delete"} BY <1>6 DEF Kinds
    <3>3. "slug" \in DOMAIN columns /\ columns.slug # x.loaded.slug /\ x.e \in Published
            => ~TakenByOthers(columns.slug, x.e)
      BY <1>2, <1>3, <1>10, <2>3
    <3> QED BY <1>1, <1>2, <1>7, <2>2, <2>3, <2>4, <2>8, <2>10, <3>1, <3>2, <3>3, SaveStep
  <2>12. DatesMayMove
    <3>1. SUFFICES ASSUME ~crossed', NEW f \in Published, shared[f] # {}, article'[f] # NoContent,
                          f \in Live \/ f \notin undated'
                   PROVE  article'[f].publishedAt = article[f].publishedAt
      BY DEF DatesMayMove
    <3>2. CASE f # e BY <1>6, <2>5, <2>6, <3>2 DEF Published
    <3>3. CASE f = e
      <4>1. date = loaded.publishedAt
        <5>1. CASE f \in Live
          <6>1. LiveRow(x.loaded) BY <1>2, <2>9, <3>1, <3>3, <5>1 DEF Live
          <6>2. ~MayDate(v) BY <1>1, <6>1 DEF MayDate
          <6> QED BY <1>5, <6>2
        <5>2. CASE f \notin undated' BY <2>2, <3>1, <3>3, <5>2
        <5> QED BY <3>1, <5>1, <5>2
      <4> QED BY <2>4, <2>9, <3>1, <3>3, <4>1
    <3> QED BY <3>2, <3>3
  <2> QED BY <2>11, <2>12
<1> QED BY <1>9, <1>10

LEMMA DeleteStep ==
  ASSUME ContentInv, NEW v \in Editors, DeleteArticle(v)
  PROVE  ContentInv' /\ DatesMayMove
<1>1. PICK x : x = editor[v] OBVIOUS
<1>2. PICK e : e = x.e OBVIOUS
<1>3. /\ x.step = "delete" /\ article' = [article EXCEPT ![e] = NoContent]
      /\ redirect' = [s \in Slugs |-> IF redirect[s] = e THEN NoContent ELSE redirect[s]]
      /\ MarkCrossed(v) /\ EditorDone(v, TRUE) /\ UNCHANGED <<written, today, shared, undated>>
  BY <1>1, <1>2 DEF DeleteArticle
<1>4. x \in EditorRow /\ e \in Entries /\ e \in written
  BY <1>1, <1>2, <1>3, EditorKnows DEF AtHand, Kinds
<1>5. /\ article \in [Entries -> ArticleRow \cup {NoContent}]
      /\ redirect \in [Slugs -> written \cup {NoContent}]
  BY DEF ContentInv, RowsSound
<1>6. article'[e] = NoContent /\ \A f \in Entries \ {e} : article'[f] = article[f]
  BY <1>3, <1>4, <1>5
<1>7. redirect' \in [Slugs -> written \cup {NoContent}] BY <1>3, <1>5
<1>8. ASSUME ~crossed'
      PROVE  /\ SlugsClear'
             /\ \A s \in Slugs : redirect[s] \notin {NoContent, e} => redirect'[s] = redirect[s]
  <2>1. SlugsClear BY <1>1, <1>3, <1>8, SavesItsOwn DEF Kinds
  <2>2. Published' = Published \ {e} BY <1>4, <1>6 DEF Published
  <2> QED BY <1>3, <1>6, <2>1, <2>2 DEF SlugsClear, Published
<1>9. RowsSound'
  <2>1. crossed' \in BOOLEAN /\ (crossed => crossed')
    BY <1>1, <1>3, <1>4 DEF MarkCrossed, EditorRow, ContentInv, RowsSound
  <2>2. /\ undated \subseteq undated' /\ undated' \subseteq undated \cup {e}
        /\ today' = today /\ shared' = shared /\ written' = written \cup {e}
        /\ redirect' \in [Slugs -> written' \cup {NoContent}]
    BY <1>3, <1>4, <1>7
  <2>3. PICK row : row = NoContent OBVIOUS
  <2>4. row \in ArticleRow \cup {NoContent} /\ article' = [article EXCEPT ![e] = row]
    BY <1>3, <2>3
  <2>5. /\ row # NoContent => ~TakenByOthers(row.slug, e)
        /\ ~crossed' =>
             /\ SlugsClear'
             /\ \A s \in Slugs : redirect[s] \notin {NoContent, e} => redirect'[s] = redirect[s]
             /\ row # NoContent /\ e \notin undated' => Reachable(e)'
    BY <1>8, <2>3
  <2> QED BY <1>4, <2>1, <2>2, <2>4, <2>5, RowMoves DEF ContentInv
<1>10. EditorsSound'
  <2>1. written \subseteq written'
        /\ \A w \in Editors \ {v} : editor[w].step = "insert" => editor[w].e \notin written'
    BY <1>1, <1>3, EditorKnows
  <2> QED BY <1>3, <2>1, DoneWriting
<1>11. DatesMayMove BY <1>4, <1>6 DEF DatesMayMove, Published
<1> QED BY <1>9, <1>10, <1>11 DEF ContentInv

-----------------------------------------------------------------------------

LEMMA ContentInvInit == ContentInit => ContentInv
<1>1. SUFFICES ASSUME ContentInit PROVE ContentInv OBVIOUS
<1>2. Published = {} /\ 1 \in Dates
  BY <1>1, ContentAssumption DEF ContentInit, Published, Dates
<1>3. RowsSound BY <1>1, <1>2 DEF ContentInit, RowsSound, SlugsClear
<1>4. AtHand(Away) /\ NotOvertaken(Away) BY AwayIsRow DEF AtHand, NotOvertaken
<1>5. \A v \in Editors : editor[v] = Away BY <1>1 DEF ContentInit
<1>6. editor \in [Editors -> EditorRow] BY <1>1, AwayIsRow DEF ContentInit
<1>7. EditorsSound BY <1>4, <1>5, <1>6, AwayIsRow DEF EditorsSound
<1> QED BY <1>3, <1>7 DEF ContentInv

LEMMA ContentInvStep == ASSUME ContentInv, [ContentNext]_contentVars PROVE ContentInv' /\ DatesMayMove
<1>1. ASSUME article' = article PROVE DatesMayMove BY <1>1 DEF DatesMayMove
<1>2. CASE UNCHANGED contentVars
  <2>1. RowsSound' BY <1>2, ArticlesStay DEF ContentInv, contentVars
  <2>2. EditorsSound'
    BY <1>2 DEF ContentInv, contentVars, EditorsSound, AtHand, NotOvertaken, slugProblem,
                TakenByOthers, RedirectedByOthers, Published
  <2> QED BY <1>1, <1>2, <2>1, <2>2 DEF ContentInv, contentVars
<1>3. ASSUME NEW v \in Editors, NEW e \in Entries, NEW s \in Slugs, NEW date \in {0} \cup Dates,
             StartUpdate(v, e, s, date)
      PROVE  ContentInv' /\ DatesMayMove
  BY <1>1, <1>3, StartUpdateStep DEF StartUpdate
<1>4. ASSUME NEW v \in Editors, NEW e \in Entries, NEW s \in Slugs, NEW date \in {0} \cup Dates,
             NEW publish \in BOOLEAN, StartCreate(v, e, s, date, publish)
      PROVE  ContentInv' /\ DatesMayMove
  BY <1>1, <1>4, StartCreateStep DEF StartCreate
<1>5. ASSUME NEW v \in Editors, NEW e \in Entries, NEW kind \in Kinds \ {"insert", "update"},
             StartTurn(v, e, kind)
      PROVE  ContentInv' /\ DatesMayMove
  BY <1>1, <1>5, StartTurnStep DEF StartTurn
<1>6. ASSUME NEW v \in Editors, InsertArticle(v) \/ UpdateArticle(v) \/ Turn(v) \/ DeleteArticle(v)
      PROVE  ContentInv' /\ DatesMayMove
  BY <1>6, InsertStep, UpdateStep, TurnStep, DeleteStep
<1>7. ASSUME NEW e \in Entries, Read(e) PROVE ContentInv' /\ DatesMayMove
  BY <1>1, <1>7, ReadStep DEF Read
<1>8. ASSUME NextDay PROVE ContentInv' /\ DatesMayMove BY <1>1, <1>8, NextDayStep DEF NextDay
<1> QED BY <1>2, <1>3, <1>4, <1>5, <1>6, <1>7, <1>8 DEF ContentNext

LEMMA LinksLand == ContentInv => SharedLinksLand
<1>1. SUFFICES ASSUME ContentInv, ~crossed, NEW e \in Live \ undated, NEW s \in shared[e]
               PROVE  Lands(s) = {e}
  BY DEF SharedLinksLand
<1>2. /\ e \in Published /\ e \in Entries /\ Live \subseteq Published /\ SlugsClear /\ Reachable(e)
      /\ s \in Slugs /\ \A f \in Published : ~TakenByAnother(f)
  BY <1>1 DEF Live, Published, ContentInv, RowsSound
<1>3. article[e].slug = s \/ redirect[s] = e BY <1>1, <1>2 DEF Reachable
<1>4. CASE article[e].slug = s
  <2>1. {f \in Live : article[f].slug = s} = {e} BY <1>1, <1>2, <1>4 DEF TakenByAnother
  <2> QED BY <2>1 DEF Lands
<1>5. CASE article[e].slug # s
  <2>1. redirect[s] = e /\ e # NoContent BY <1>2, <1>3, <1>5, ContentAssumption
  <2>2. {f \in Live : article[f].slug = s} = {} BY <1>2, <2>1 DEF SlugsClear
  <2>3. redirectFor(s) = {e} BY <1>1, <2>1 DEF redirectFor
  <2> QED BY <2>2, <2>3 DEF Lands
<1> QED BY <1>4, <1>5

\* For any articles, slugs and overlapping requests: a slug means one thing,
\* a link readers were given shows its entry, and the date they saw is kept,
\* but for what an overtaken request or a change of date undid
\* (content_service.ts).
THEOREM ArticlesHold == ContentSpec => ArticlesSafe
<1>1. ContentInv => ContentTypeOK /\ SharedLinksLand /\ SlugsMeanOneThing
  BY LinksLand DEF ContentInv, RowsSound, ContentTypeOK, SlugsMeanOneThing, SlugsClear, Published
<1>2. ContentInv /\ [ContentNext]_contentVars => ContentInv' /\ DatesMayMove BY ContentInvStep
<1>3. DatesMayMove => [~crossed' => \A e \in Published :
       shared[e] # {} /\ article'[e] # NoContent /\ (e \in Live \/ e \notin undated') =>
         article'[e].publishedAt = article[e].publishedAt]_contentVars
  BY DEF DatesMayMove
<1> QED BY <1>1, <1>2, <1>3, ContentInvInit, PTL DEF ContentSpec, ArticlesSafe, DatesStay

-----------------------------------------------------------------------------
(* Announcements. A viewer who is owed one has it ahead of the time they   *)
(* last looked, or on the page they have open, where it is marked as new;  *)
(* and a draft was never shown to anybody.                                 *)

ClerkRow == [n : Notices, row : NoticeRow]
ViewerRow == [role : {"owner", "member"}, plan : PlanNames, seenAt : {0} \cup Seconds]
FeedRow == [open : BOOLEAN, seenAt : {0} \cup Seconds, shows : SUBSET Notices, new : SUBSET Notices]
ReadRow == [shown : SUBSET Notices, new : SUBSET Notices]

AsChosen(row, f) == row.audienceType = f.type /\ row.audience = normalizeAudience(f)

SeesRight(u) ==
  /\ viewer[u].seenAt <= second
  /\ feed[u].new \subseteq feed[u].shows
  /\ owed[u] \cup read[u].shown \cup feed[u].shows \subseteq Made
  /\ \A n \in There : isDraft(notice[n]) => n \notin read[u].shown \cup feed[u].shows
  /\ owed[u] \cap read[u].shown \subseteq read[u].new
  /\ feed[u].open => (owed[u] \cap feed[u].shows) \ read[u].shown \subseteq feed[u].new
  /\ \A n \in There : n \in owed[u] \ read[u].shown => notice[n].publishedAt > viewer[u].seenAt

NoticesInv ==
  /\ second \in Seconds
  /\ notice \in [Notices -> NoticeRow \cup {NoNotice}]
  /\ form \in [Notices -> FormRow \cup {NoNotice}]
  /\ clerk \in [Clerks -> ClerkRow \cup {NoNotice}]
  /\ viewer \in [Viewers -> ViewerRow] /\ feed \in [Viewers -> FeedRow]
  /\ owed \in [Viewers -> SUBSET Notices] /\ read \in [Viewers -> ReadRow]
  /\ \A n \in There : n \in Made /\ AsChosen(notice[n], form[n]) /\ notice[n].publishedAt <= second
  /\ \A u \in Viewers : SeesRight(u)

-----------------------------------------------------------------------------
(* Rows.                                                                   *)

LEMMA NoticeKnown ==
  ASSUME NoticesInv, NEW n \in There
  PROVE  /\ n \in Notices /\ n \in Made /\ notice[n] \in NoticeRow /\ form[n] \in FormRow
         /\ AsChosen(notice[n], form[n]) /\ notice[n].publishedAt <= second
         /\ notice[n].publishedAt \in {0} \cup Seconds
<1>1. n \in Notices /\ n \in Made /\ notice[n] \in NoticeRow /\ form[n] \in FormRow
  BY DEF NoticesInv, There, Made
<1>2. notice[n].publishedAt \in {0} \cup Seconds BY <1>1 DEF NoticeRow
<1> QED BY <1>1, <1>2 DEF NoticesInv

LEMMA NoticeFields ==
  ASSUME NEW s, s = [x \in DOMAIN s |-> s[x]],
         DOMAIN s = {"audienceType", "audience", "publishedAt", "expired", "deleted"},
         s.audienceType \in AudienceTypes,
         s.audience \in [planKeys : SUBSET PlanNames, userIds : SUBSET Viewers],
         s.publishedAt \in {0} \cup Seconds, s.expired \in BOOLEAN, s.deleted \in BOOLEAN
  PROVE  s \in NoticeRow
<1>1. s = [audienceType |-> s.audienceType, audience |-> s.audience, publishedAt |-> s.publishedAt,
           expired |-> s.expired, deleted |-> s.deleted]
  OBVIOUS
<1> QED BY <1>1 DEF NoticeRow

\* What publishing and deleting save over a row.
NoticeColumns(columns) ==
  /\ DOMAIN columns \subseteq {"publishedAt", "deleted"}
  /\ "publishedAt" \in DOMAIN columns => columns.publishedAt = second
  /\ "deleted" \in DOMAIN columns => columns.deleted \in BOOLEAN

SavedUpon(s, row, loaded, columns) ==
  /\ s \in NoticeRow /\ s.audienceType = row.audienceType /\ s.audience = row.audience
  /\ s.publishedAt = IF "publishedAt" \in DOMAIN columns /\ columns.publishedAt # loaded.publishedAt
                     THEN second ELSE row.publishedAt

LEMMA SavedNotice ==
  ASSUME second \in Seconds, NEW row \in NoticeRow, NEW loaded \in NoticeRow,
         NEW columns, NoticeColumns(columns), NEW s, s = Saved(row, loaded, columns)
  PROVE  SavedUpon(s, row, loaded, columns)
<1>1. /\ DOMAIN row = {"audienceType", "audience", "publishedAt", "expired", "deleted"}
      /\ row.audienceType \in AudienceTypes
      /\ row.audience \in [planKeys : SUBSET PlanNames, userIds : SUBSET Viewers]
      /\ row.publishedAt \in {0} \cup Seconds /\ row.expired \in BOOLEAN /\ row.deleted \in BOOLEAN
  BY DEF NoticeRow
<1>2. /\ DOMAIN s = {"audienceType", "audience", "publishedAt", "expired", "deleted"}
      /\ s = [x \in DOMAIN s |-> s[x]]
  BY <1>1 DEF Saved
<1>3. /\ s.audienceType = row.audienceType /\ s.audience = row.audience
      /\ s.expired = row.expired
  BY <1>1 DEF Saved, NoticeColumns
<1>4. s.publishedAt = IF "publishedAt" \in DOMAIN columns /\ columns.publishedAt # loaded.publishedAt
                      THEN second ELSE row.publishedAt
  BY <1>1 DEF Saved, NoticeColumns
<1>5. s.deleted = IF "deleted" \in DOMAIN columns /\ columns.deleted # loaded.deleted
                  THEN columns.deleted ELSE row.deleted
  BY <1>1 DEF Saved
<1>6. s.deleted \in BOOLEAN BY <1>1, <1>5 DEF NoticeColumns
<1>7. s \in NoticeRow BY <1>1, <1>2, <1>3, <1>4, <1>6, NoticeFields
<1> QED BY <1>3, <1>4, <1>7 DEF SavedUpon

\* One row is made or saved, and viewers it reaches may be owed it.
LEMMA NoticeMoves ==
  ASSUME NoticesInv, NEW n \in Notices, NEW row \in NoticeRow,
         notice' = [notice EXCEPT ![n] = row],
         form' \in [Notices -> FormRow \cup {NoNotice}], n \in Made',
         \A m \in Notices \ {n} : form'[m] = form[m],
         AsChosen(row, form'[n]), row.publishedAt <= second,
         n \in There => row.publishedAt >= notice[n].publishedAt, n \notin There => n \notin Made,
         clerk' \in [Clerks -> ClerkRow \cup {NoNotice}],
         UNCHANGED <<second, viewer, feed, read>>,
         owed' \in [Viewers -> SUBSET Notices],
         \A u \in Viewers :
           \/ owed'[u] = owed[u]
           \/ /\ owed'[u] = owed[u] \cup {n} /\ ~feed[u].open
              /\ n \notin read[u].shown /\ row.publishedAt > viewer[u].seenAt
  PROVE  NoticesInv'
<1>1. /\ notice' \in [Notices -> NoticeRow \cup {NoNotice}] /\ notice'[n] = row
      /\ \A m \in Notices \ {n} : notice'[m] = notice[m]
  BY DEF NoticesInv
<1>2. row # NoNotice /\ row.publishedAt \in {0} \cup Seconds
  BY NotificationsAssumption DEF NoticeRow
<1>3. /\ There' = There \cup {n} /\ Made' = Made \cup {n} /\ There \subseteq Notices
  BY <1>1, <1>2 DEF There, Made
<1>4. \A m \in There' : m \in Made' /\ AsChosen(notice'[m], form'[m]) /\ notice'[m].publishedAt <= second
  BY <1>1, <1>3 DEF NoticesInv
<1>5. ASSUME NEW u \in Viewers PROVE SeesRight(u)'
  <2>1. SeesRight(u) BY DEF NoticesInv
  <2>2. viewer[u].seenAt \in {0} \cup Seconds BY DEF NoticesInv, ViewerRow
  <2>3. ASSUME NEW m \in There', isDraft(notice'[m])
        PROVE  m \notin read[u].shown \cup feed[u].shows
    <3>1. CASE m # n BY <1>1, <1>3, <2>1, <2>3, <3>1 DEF SeesRight
    <3>2. CASE m = n /\ n \notin There BY <2>1, <3>2 DEF SeesRight
    <3>3. CASE m = n /\ n \in There
      <4>1. row.publishedAt = 0 /\ notice[n].publishedAt \in {0} \cup Seconds
        BY <1>1, <2>3, <3>3, NoticeKnown DEF isDraft
      <4>2. isDraft(notice[n]) BY <3>3, <4>1, NotificationsAssumption DEF isDraft, Seconds
      <4> QED BY <2>1, <3>3, <4>2 DEF SeesRight
    <3> QED BY <3>1, <3>2, <3>3
  <2>4. ASSUME NEW m \in There', m \in owed'[u] \ read[u].shown
        PROVE  notice'[m].publishedAt > viewer[u].seenAt
    <3>1. CASE m # n BY <1>1, <1>3, <2>1, <2>4, <3>1 DEF SeesRight
    <3>2. CASE m = n /\ owed'[u] # owed[u] BY <1>1, <3>2
    <3>3. CASE m = n /\ owed'[u] = owed[u]
      <4>1. n \in Made /\ n \in There BY <2>1, <2>4, <3>3 DEF SeesRight
      <4>2. notice[n].publishedAt > viewer[u].seenAt BY <2>1, <2>4, <3>3, <4>1 DEF SeesRight
      <4>3. notice[n].publishedAt \in {0} \cup Seconds BY <4>1, NoticeKnown
      <4> QED BY <1>1, <1>2, <2>2, <3>3, <4>1, <4>2, <4>3, NotificationsAssumption DEF Seconds
    <3> QED BY <3>1, <3>2, <3>3
  <2>5. owed'[u] \cap read[u].shown \subseteq read[u].new BY <2>1 DEF SeesRight
  <2>6. feed[u].open => (owed'[u] \cap feed[u].shows) \ read[u].shown \subseteq feed[u].new
    BY <2>1 DEF SeesRight
  <2>7. owed'[u] \cup read[u].shown \cup feed[u].shows \subseteq Made' BY <1>3, <2>1 DEF SeesRight
  <2> QED BY <2>1, <2>3, <2>4, <2>5, <2>6, <2>7 DEF SeesRight
<1> QED BY <1>1, <1>4, <1>5 DEF NoticesInv

LEMMA Owing ==
  ASSUME NoticesInv, NEW n \in Notices, NEW row, Owe(n, row),
         \A u \in Viewers : n \notin read[u].shown
  PROVE  /\ owed' \in [Viewers -> SUBSET Notices]
         /\ \A u \in Viewers :
              \/ owed'[u] = owed[u]
              \/ /\ owed'[u] = owed[u] \cup {n} /\ ~feed[u].open
                 /\ n \notin read[u].shown /\ second > viewer[u].seenAt
<1>1. owed \in [Viewers -> SUBSET Notices] BY DEF NoticesInv
<1>2. \A u \in Viewers : viewer[u].seenAt \in Int /\ second \in Int
  BY NotificationsAssumption DEF NoticesInv, ViewerRow, Seconds
<1> QED BY <1>1, <1>2 DEF Owe

-----------------------------------------------------------------------------
(* Steps.                                                                  *)

LEMMA NormalAudience ==
  ASSUME NEW f \in FormRow
  PROVE  normalizeAudience(f) \in [planKeys : SUBSET PlanNames, userIds : SUBSET Viewers]
<1>1. f.type \in AudienceTypes /\ f.planKeys \subseteq PlanNames \cup {Unknown}
      /\ f.userIds \subseteq Viewers \cup {Unknown}
  BY DEF FormRow
<1>2. NoAudience \in [planKeys : SUBSET PlanNames, userIds : SUBSET Viewers] BY DEF NoAudience
<1>3. [NoAudience EXCEPT !.planKeys = f.planKeys \cap PlanNames]
        \in [planKeys : SUBSET PlanNames, userIds : SUBSET Viewers]
  BY <1>2
<1>4. [NoAudience EXCEPT !.userIds = f.userIds \ {Unknown}]
        \in [planKeys : SUBSET PlanNames, userIds : SUBSET Viewers]
  BY <1>1, <1>2
<1> QED BY <1>1, <1>2, <1>3, <1>4 DEF normalizeAudience, AudienceTypes

LEMMA CreateNoticeStep ==
  ASSUME NoticesInv, NEW n \in Notices, NEW publishNow \in BOOLEAN, NEW f \in Forms[n],
         CreateNotice(n, f, publishNow)
  PROVE  NoticesInv'
<1>1. f \in FormRow /\ f # NoNotice BY NotificationsAssumption
<1>2. PICK row : row = [audienceType |-> f.type, audience |-> normalizeAudience(f),
                        publishedAt |-> IF publishNow THEN second ELSE 0,
                        expired |-> FALSE, deleted |-> FALSE] OBVIOUS
<1>3. second \in Seconds /\ second \in Nat
  BY NotificationsAssumption DEF NoticesInv, Seconds
<1>4. /\ row \in NoticeRow /\ AsChosen(row, f) /\ row.publishedAt <= second
      /\ publishNow => row.publishedAt = second
  BY <1>1, <1>2, <1>3, NormalAudience DEF NoticeRow, FormRow, AsChosen
<1>5. /\ n \notin Made /\ notice' = [notice EXCEPT ![n] = row] /\ form' = [form EXCEPT ![n] = f]
      /\ IF publishNow THEN Owe(n, row) ELSE UNCHANGED owed
      /\ UNCHANGED <<second, viewer, clerk, feed, read>>
  BY <1>2 DEF CreateNotice
<1>6. /\ form' \in [Notices -> FormRow \cup {NoNotice}] /\ form'[n] = f
      /\ \A m \in Notices \ {n} : form'[m] = form[m]
      /\ n \in Made'
  BY <1>1, <1>5 DEF NoticesInv, Made
<1>7. n \notin There BY <1>5 DEF NoticesInv
<1>8. \A u \in Viewers : n \notin read[u].shown BY <1>5 DEF NoticesInv, SeesRight
<1>9. /\ owed' \in [Viewers -> SUBSET Notices]
      /\ \A u \in Viewers :
           \/ owed'[u] = owed[u]
           \/ /\ owed'[u] = owed[u] \cup {n} /\ ~feed[u].open
              /\ n \notin read[u].shown /\ row.publishedAt > viewer[u].seenAt
  <2>1. CASE publishNow BY <1>4, <1>5, <1>8, <2>1, Owing
  <2>2. CASE ~publishNow BY <1>5, <2>2 DEF NoticesInv
  <2> QED BY <2>1, <2>2
<1>10. clerk' \in [Clerks -> ClerkRow \cup {NoNotice}] BY <1>5 DEF NoticesInv
<1> QED BY <1>4, <1>5, <1>6, <1>7, <1>9, <1>10, NoticeMoves

LEMMA LoadNoticeStep ==
  ASSUME NoticesInv, NEW c \in Clerks, NEW n \in There, LoadNotice(c, n)
  PROVE  NoticesInv'
<1>1. PICK x : x = [n |-> n, row |-> notice[n]] OBVIOUS
<1>2. x \in ClerkRow BY <1>1, NoticeKnown DEF ClerkRow
<1>3. clerk' = [clerk EXCEPT ![c] = x] BY <1>1 DEF LoadNotice
<1>4. clerk' \in [Clerks -> ClerkRow \cup {NoNotice}] BY <1>2, <1>3 DEF NoticesInv
<1>5. UNCHANGED <<second, notice, form, viewer, feed, owed, read>> BY DEF LoadNotice
<1> QED BY <1>4, <1>5 DEF NoticesInv, There, Made, SeesRight, isDraft

\* A request of staff saves over the row it loaded, which may be gone.
LEMMA SaveNoticeStep ==
  ASSUME NoticesInv, NEW c \in Clerks, clerk[c] # NoNotice,
         NEW columns, NoticeColumns(columns), SaveNotice(c, columns),
         NEW n, n = clerk[c].n,
         owed' \in [Viewers -> SUBSET Notices],
         NEW row, row = notice'[n],
         \A u \in Viewers :
           \/ owed'[u] = owed[u]
           \/ /\ owed'[u] = owed[u] \cup {n} /\ ~feed[u].open /\ n \in There
              /\ n \notin read[u].shown /\ row.publishedAt > viewer[u].seenAt
  PROVE  NoticesInv'
<1>1. clerk[c] \in ClerkRow /\ n \in Notices /\ clerk[c].row \in NoticeRow
  BY DEF NoticesInv, ClerkRow
<1>2. clerk' \in [Clerks -> ClerkRow \cup {NoNotice}] BY DEF SaveNotice, NoticesInv
<1>3. UNCHANGED <<second, form, viewer, feed, read>> BY DEF SaveNotice
<1>4. notice \in [Notices -> NoticeRow \cup {NoNotice}] BY DEF NoticesInv
<1>5. notice' = [notice EXCEPT ![n] = IF @ = NoNotice THEN @ ELSE Saved(@, clerk[c].row, columns)]
  BY DEF SaveNotice
<1>6. CASE n \in There
  <2>1. PICK old \in NoticeRow : old = notice[n] BY <1>6, NoticeKnown
  <2>2. PICK loaded \in NoticeRow : loaded = clerk[c].row BY <1>1
  <2>3. row = Saved(old, loaded, columns) /\ notice' = [notice EXCEPT ![n] = row]
    BY <1>1, <1>4, <1>5, <1>6, <2>1, <2>2 DEF There
  <2>4. SavedUpon(row, old, loaded, columns)
    <3>1. second \in Seconds BY DEF NoticesInv
    <3> QED BY <2>3, <3>1, SavedNotice
  <2>5. /\ old.publishedAt <= second /\ old.publishedAt \in Int /\ second \in Int
        /\ AsChosen(old, form[n]) /\ n \in Made
    BY <1>6, <2>1, NoticeKnown, NotificationsAssumption DEF NoticesInv, Seconds
  <2>6. /\ row \in NoticeRow /\ row.publishedAt <= second /\ row.publishedAt >= old.publishedAt
        /\ AsChosen(row, form'[n])
    BY <1>3, <2>4, <2>5 DEF SavedUpon, AsChosen
  <2>7. form' \in [Notices -> FormRow \cup {NoNotice}] /\ n \in Made'
    BY <1>3, <2>5 DEF NoticesInv, Made
  <2> QED BY <1>1, <1>2, <1>3, <1>6, <2>1, <2>3, <2>6, <2>7, NoticeMoves
<1>7. CASE n \notin There
  <2>1. notice' = notice BY <1>1, <1>4, <1>5, <1>7 DEF There
  <2>2. \A u \in Viewers : owed'[u] = owed[u] BY <1>7
  <2>3. owed' = owed BY <2>2 DEF NoticesInv
  <2> QED BY <1>2, <1>3, <2>1, <2>3 DEF NoticesInv, There, Made, SeesRight, isDraft
<1> QED BY <1>6, <1>7

LEMMA PublishNoticeStep ==
  ASSUME NoticesInv, NEW c \in Clerks, PublishNotice(c)
  PROVE  NoticesInv'
<1>1. PICK columns : columns = [publishedAt |-> second] OBVIOUS
<1>2. NoticeColumns(columns) /\ "publishedAt" \in DOMAIN columns /\ columns.publishedAt = second
  BY <1>1 DEF NoticeColumns
<1>3. PICK n : n = clerk[c].n OBVIOUS
<1>4. /\ clerk[c] # NoNotice /\ isDraft(clerk[c].row) /\ SaveNotice(c, columns)
      /\ IF n \in There /\ isDraft(notice[n]) THEN Owe(n, notice[n]) ELSE UNCHANGED owed
  BY <1>1, <1>3 DEF PublishNotice
<1>5. clerk[c] \in ClerkRow /\ n \in Notices /\ clerk[c].row \in NoticeRow
  BY <1>3, <1>4 DEF NoticesInv, ClerkRow
<1>6. PICK row : row = notice'[n] OBVIOUS
<1>7. ASSUME n \in There PROVE row.publishedAt = second
  <2>1. PICK old \in NoticeRow : old = notice[n] BY <1>7, NoticeKnown
  <2>2. PICK loaded \in NoticeRow : loaded = clerk[c].row BY <1>5
  <2>3. row = Saved(old, loaded, columns)
    BY <1>3, <1>4, <1>5, <1>6, <1>7, <2>1, <2>2 DEF SaveNotice, There, NoticesInv
  <2>4. second \in Seconds BY DEF NoticesInv
  <2>5. SavedUpon(row, old, loaded, columns) BY <1>2, <2>3, <2>4, SavedNotice
  <2>6. loaded.publishedAt = 0 /\ second # 0
    BY <1>4, <2>2, <2>4, NotificationsAssumption DEF isDraft, Seconds
  <2> QED BY <1>2, <2>5, <2>6 DEF SavedUpon
<1>8. /\ owed' \in [Viewers -> SUBSET Notices]
      /\ \A u \in Viewers :
           \/ owed'[u] = owed[u]
           \/ /\ owed'[u] = owed[u] \cup {n} /\ ~feed[u].open /\ n \in There
              /\ n \notin read[u].shown /\ row.publishedAt > viewer[u].seenAt
  <2>1. CASE n \in There /\ isDraft(notice[n])
    <3>1. \A u \in Viewers : n \notin read[u].shown BY <2>1 DEF NoticesInv, SeesRight
    <3> QED BY <1>4, <1>5, <1>7, <2>1, <3>1, Owing
  <2>2. CASE ~(n \in There /\ isDraft(notice[n])) BY <1>4, <2>2 DEF NoticesInv
  <2> QED BY <2>1, <2>2
<1> QED BY <1>2, <1>3, <1>4, <1>6, <1>8, SaveNoticeStep

LEMMA DeleteNoticeStep ==
  ASSUME NoticesInv, NEW c \in Clerks, DeleteNotice(c)
  PROVE  NoticesInv'
<1>1. PICK columns : columns = [deleted |-> TRUE] OBVIOUS
<1>2. NoticeColumns(columns) BY <1>1 DEF NoticeColumns
<1>3. PICK n, row : n = clerk[c].n /\ row = notice'[n] OBVIOUS
<1>4. clerk[c] # NoNotice /\ SaveNotice(c, columns) /\ owed' = owed
  BY <1>1 DEF DeleteNotice
<1>5. owed' \in [Viewers -> SUBSET Notices] BY <1>4 DEF NoticesInv
<1> QED BY <1>2, <1>3, <1>4, <1>5, SaveNoticeStep

LEMMA PruneNoticesStep ==
  ASSUME NoticesInv, PruneNotices
  PROVE  NoticesInv'
<1>1. PICK ns \in SUBSET There : notice' = [n \in Notices |-> IF n \in ns THEN NoNotice ELSE notice[n]]
  BY DEF PruneNotices
<1>2. UNCHANGED <<second, form, viewer, clerk, feed, owed, read>> BY DEF PruneNotices
<1>3. notice' \in [Notices -> NoticeRow \cup {NoNotice}] BY <1>1 DEF NoticesInv
<1>4. There' \subseteq There /\ \A n \in There' : notice'[n] = notice[n] BY <1>1 DEF There
<1>5. \A u \in Viewers : SeesRight(u)'
  BY <1>2, <1>4 DEF NoticesInv, SeesRight, Made, isDraft
<1> QED BY <1>2, <1>3, <1>4, <1>5 DEF NoticesInv, Made

LEMMA ExpireNoticeStep ==
  ASSUME NoticesInv, NEW n \in There, ExpireNotice(n)
  PROVE  NoticesInv'
<1>1. PICK old \in NoticeRow : old = notice[n] BY NoticeKnown
<1>2. PICK row : row = [old EXCEPT !.expired = TRUE] OBVIOUS
<1>3. /\ row \in NoticeRow /\ row.audienceType = old.audienceType /\ row.audience = old.audience
      /\ row.publishedAt = old.publishedAt
  BY <1>2 DEF NoticeRow
<1>4. UNCHANGED <<second, form, viewer, clerk, feed, owed, read>> BY DEF ExpireNotice
<1>5. n \in Notices /\ n \in Made /\ notice \in [Notices -> NoticeRow \cup {NoNotice}]
  BY NoticeKnown DEF NoticesInv
<1>6. notice' = [notice EXCEPT ![n] = row] BY <1>1, <1>2, <1>5 DEF ExpireNotice
<1>7. /\ old.publishedAt <= second /\ AsChosen(old, form[n]) /\ old.publishedAt \in Int
  BY <1>1, NoticeKnown, NotificationsAssumption DEF Seconds
<1>8. row.publishedAt <= second /\ row.publishedAt >= old.publishedAt /\ AsChosen(row, form'[n])
  BY <1>3, <1>4, <1>7 DEF AsChosen
<1>9. /\ form' \in [Notices -> FormRow \cup {NoNotice}] /\ n \in Made'
      /\ clerk' \in [Clerks -> ClerkRow \cup {NoNotice}]
      /\ owed' \in [Viewers -> SUBSET Notices] /\ \A u \in Viewers : owed'[u] = owed[u]
  BY <1>4, <1>5 DEF NoticesInv, Made
<1> QED BY <1>1, <1>3, <1>4, <1>5, <1>6, <1>8, <1>9, NoticeMoves

LEMMA OpenFeedStep ==
  ASSUME NoticesInv, NEW u \in Viewers, OpenFeed(u)
  PROVE  NoticesInv'
<1>1. PICK live : live = For(u, publishedSince(0)) OBVIOUS
<1>2. live \subseteq There /\ live \subseteq Notices /\ \A n \in live : ~isDraft(notice[n])
  BY <1>1 DEF For, publishedSince, Considered, Candidates, There
<1>3. PICK new : new = {n \in live : viewer[u].seenAt = 0 \/ notice[n].publishedAt > viewer[u].seenAt}
  OBVIOUS
<1>4. PICK x : x = [open |-> TRUE, seenAt |-> viewer[u].seenAt, shows |-> live, new |-> new] OBVIOUS
<1>5. x \in FeedRow /\ x.shows = live /\ x.new = new
  BY <1>2, <1>3, <1>4 DEF FeedRow, NoticesInv, ViewerRow
<1>6. feed' = [feed EXCEPT ![u] = x] BY <1>1, <1>3, <1>4 DEF OpenFeed, LastVisit
<1>7. UNCHANGED <<second, notice, form, viewer, clerk, owed, read>> BY DEF OpenFeed
<1>8. feed' \in [Viewers -> FeedRow] /\ feed'[u] = x /\ \A w \in Viewers \ {u} : feed'[w] = feed[w]
  BY <1>5, <1>6 DEF NoticesInv
<1>9. ASSUME NEW w \in Viewers PROVE SeesRight(w)'
  <2>1. SeesRight(w) BY DEF NoticesInv
  <2>2. CASE w # u BY <1>7, <1>8, <2>1, <2>2 DEF SeesRight, There, Made, isDraft
  <2>3. CASE w = u
    <3>1. live \subseteq Made BY <1>2 DEF NoticesInv
    <3>2. (owed[u] \cap live) \ read[u].shown \subseteq new BY <1>2, <1>3, <2>1, <2>3 DEF SeesRight
    <3>3. new \subseteq live BY <1>3
    <3> QED BY <1>2, <1>5, <1>7, <1>8, <2>1, <2>3, <3>1, <3>2, <3>3 DEF SeesRight, There, Made, isDraft
  <2> QED BY <2>2, <2>3
<1> QED BY <1>7, <1>8, <1>9 DEF NoticesInv, There, Made

LEMMA markSeenStep ==
  ASSUME NoticesInv, NEW u \in Viewers, markSeen(u)
  PROVE  NoticesInv'
<1>1. PICK x \in ViewerRow : x = [viewer[u] EXCEPT !.seenAt = second] BY DEF NoticesInv, ViewerRow
<1>2. x.seenAt = second /\ viewer' = [viewer EXCEPT ![u] = x]
  BY <1>1 DEF markSeen, NoticesInv, ViewerRow
<1>3. PICK r : r = [shown |-> read[u].shown \cup feed[u].shows,
                    new |-> read[u].new \cup (feed[u].new \ read[u].shown)] OBVIOUS
<1>4. r \in ReadRow /\ r.shown = read[u].shown \cup feed[u].shows
      /\ r.new = read[u].new \cup (feed[u].new \ read[u].shown)
  BY <1>3 DEF ReadRow, FeedRow, NoticesInv
<1>5. read' = [read EXCEPT ![u] = r] BY <1>3 DEF markSeen, NoticesInv
<1>6. Closed \in FeedRow /\ ~Closed.open /\ Closed.shows = {} /\ Closed.new = {}
  BY DEF Closed, FeedRow
<1>7. feed[u].open /\ UNCHANGED <<second, notice, form, clerk>> BY DEF markSeen
<1>8. /\ viewer' \in [Viewers -> ViewerRow] /\ viewer'[u] = x
      /\ read' \in [Viewers -> ReadRow] /\ read'[u] = r
      /\ feed' \in [Viewers -> FeedRow] /\ feed'[u] = Closed
      /\ owed' \in [Viewers -> SUBSET Notices]
      /\ owed'[u] = owed[u] \cap (read[u].shown \cup feed[u].shows)
  <2>1. viewer' \in [Viewers -> ViewerRow] /\ viewer'[u] = x BY <1>2 DEF NoticesInv
  <2>2. read' \in [Viewers -> ReadRow] /\ read'[u] = r BY <1>4, <1>5 DEF NoticesInv
  <2>3. feed' \in [Viewers -> FeedRow] /\ feed'[u] = Closed BY <1>6 DEF markSeen, NoticesInv
  <2>4. PICK kept : kept = owed[u] \cap (read[u].shown \cup feed[u].shows) OBVIOUS
  <2>5. owed \in [Viewers -> SUBSET Notices] BY DEF NoticesInv
  <2>6. owed' = [owed EXCEPT ![u] = kept] /\ kept \in SUBSET Notices
    BY <2>4, <2>5 DEF markSeen
  <2>7. owed' \in [Viewers -> SUBSET Notices] /\ owed'[u] = kept BY <2>5, <2>6
  <2> QED BY <2>1, <2>2, <2>3, <2>4, <2>7
<1>9. \A w \in Viewers \ {u} : /\ viewer'[w] = viewer[w] /\ read'[w] = read[w]
                               /\ feed'[w] = feed[w] /\ owed'[w] = owed[w]
  BY <1>2, <1>5 DEF markSeen, NoticesInv
<1>10. ASSUME NEW w \in Viewers PROVE SeesRight(w)'
  <2>1. SeesRight(w) BY DEF NoticesInv
  <2>2. CASE w # u BY <1>7, <1>9, <2>1, <2>2 DEF SeesRight, There, Made, isDraft
  <2>3. CASE w = u
    <3>1. owed'[u] \subseteq r.shown /\ owed'[u] \cap r.shown \subseteq r.new
      BY <1>4, <1>7, <1>8, <2>1, <2>3 DEF SeesRight
    <3>2. owed'[u] \cup r.shown \subseteq Made BY <1>4, <1>8, <2>1, <2>3 DEF SeesRight
    <3>3. \A n \in There : isDraft(notice[n]) => n \notin r.shown BY <1>4, <2>1, <2>3 DEF SeesRight
    <3>4. second <= second BY NotificationsAssumption DEF NoticesInv, Seconds
    <3> QED BY <1>2, <1>6, <1>7, <1>8, <2>3, <3>1, <3>2, <3>3, <3>4 DEF SeesRight, There, Made, isDraft
  <2> QED BY <2>2, <2>3
<1> QED BY <1>7, <1>8, <1>10 DEF NoticesInv, There, Made

LEMMA ChangeViewerStep ==
  ASSUME NoticesInv, NEW u \in Viewers, ChangeViewer(u)
  PROVE  NoticesInv'
<1>1. PICK role \in {"owner", "member"}, plan \in PlanNames :
        viewer' = [viewer EXCEPT ![u].role = role, ![u].plan = plan]
  BY DEF ChangeViewer
<1>2. viewer \in [Viewers -> ViewerRow] BY DEF NoticesInv
<1>3. viewer' \in [Viewers -> ViewerRow] /\ \A w \in Viewers : viewer'[w].seenAt = viewer[w].seenAt
  BY <1>1, <1>2 DEF ViewerRow
<1>4. UNCHANGED <<second, notice, form, clerk, feed, owed, read>> BY DEF ChangeViewer
<1> QED BY <1>3, <1>4 DEF NoticesInv, SeesRight, There, Made, isDraft

LEMMA TickSecondStep ==
  ASSUME NoticesInv, TickSecond
  PROVE  NoticesInv'
<1>1. UNCHANGED <<notice, form, viewer, clerk, feed, owed, read>> BY DEF TickSecond
<1>2. second' \in Seconds /\ second' = second + 1 /\ second \in Int
  BY NotificationsAssumption DEF TickSecond, NoticesInv, Seconds
<1>3. \A n \in There : notice[n].publishedAt <= second'
  <2>1. ASSUME NEW n \in There PROVE notice[n].publishedAt <= second'
    <3>1. notice[n].publishedAt \in Int /\ notice[n].publishedAt <= second
      BY NoticeKnown, NotificationsAssumption DEF Seconds
    <3> QED BY <1>2, <3>1
  <2> QED BY <2>1
<1>4. \A u \in Viewers : viewer[u].seenAt \in Int BY NotificationsAssumption DEF NoticesInv, ViewerRow, Seconds
<1>5. \A u \in Viewers : SeesRight(u)' BY <1>1, <1>2, <1>4 DEF NoticesInv, SeesRight, There, Made, isDraft
<1> QED BY <1>1, <1>2, <1>3, <1>5 DEF NoticesInv, There, Made

-----------------------------------------------------------------------------

LEMMA NoticesInvInit == NoticesInit => NoticesInv
<1>1. SUFFICES ASSUME NoticesInit PROVE NoticesInv OBVIOUS
<1>2. There = {} /\ Made = {} BY <1>1 DEF NoticesInit, There, Made
<1>3. 1 \in Seconds BY NotificationsAssumption DEF Seconds
<1>4. Closed \in FeedRow /\ ~Closed.open /\ Closed.shows = {} /\ Closed.new = {}
  BY DEF Closed, FeedRow
<1>5. viewer \in [Viewers -> ViewerRow] /\ \A u \in Viewers : viewer[u].seenAt = 0
  BY <1>1 DEF NoticesInit, ViewerRow
<1>6. /\ feed \in [Viewers -> FeedRow] /\ \A u \in Viewers : feed[u] = Closed
      /\ owed \in [Viewers -> SUBSET Notices] /\ \A u \in Viewers : owed[u] = {}
      /\ read \in [Viewers -> ReadRow] /\ \A u \in Viewers : read[u].shown = {}
  BY <1>1, <1>4 DEF NoticesInit, ReadRow
<1>7. \A u \in Viewers : SeesRight(u) BY <1>1, <1>2, <1>4, <1>5, <1>6 DEF SeesRight, NoticesInit
<1> QED BY <1>1, <1>2, <1>3, <1>5, <1>6, <1>7 DEF NoticesInit, NoticesInv

LEMMA NoticesInvStep == ASSUME NoticesInv, [NoticesNext]_noticeVars PROVE NoticesInv'
<1>1. CASE UNCHANGED noticeVars
  BY <1>1 DEF noticeVars, NoticesInv, SeesRight, There, Made, isDraft
<1>2. ASSUME NEW n \in Notices, NEW publishNow \in BOOLEAN, NEW f \in Forms[n],
             CreateNotice(n, f, publishNow)
      PROVE  NoticesInv'
  BY <1>2, CreateNoticeStep
<1>3. ASSUME NEW c \in Clerks, NEW n \in There, LoadNotice(c, n) PROVE NoticesInv'
  BY <1>3, LoadNoticeStep
<1>4. ASSUME NEW c \in Clerks, PublishNotice(c) \/ DeleteNotice(c) PROVE NoticesInv'
  BY <1>4, PublishNoticeStep, DeleteNoticeStep
<1>5. ASSUME NEW u \in Viewers, OpenFeed(u) \/ markSeen(u) \/ ChangeViewer(u) PROVE NoticesInv'
  BY <1>5, OpenFeedStep, markSeenStep, ChangeViewerStep
<1>6. ASSUME NEW n \in There, ExpireNotice(n) PROVE NoticesInv' BY <1>6, ExpireNoticeStep
<1> QED
  BY <1>1, <1>2, <1>3, <1>4, <1>5, <1>6, PruneNoticesStep, TickSecondStep DEF NoticesNext

LEMMA ReachAsChosen == NoticesInv => ReachesTheChosen
<1>1. SUFFICES ASSUME NoticesInv, NEW n \in There, NEW u \in Viewers
               PROVE  appliesTo(notice[n], viewer[u], u) <=> Chosen(form[n], viewer[u], u)
  BY DEF ReachesTheChosen
<1>2. PICK row, f : row = notice[n] /\ f = form[n] /\ f \in FormRow /\ AsChosen(row, f)
  BY <1>1, NoticeKnown
<1>3. PICK who : who = viewer[u] OBVIOUS
<1>4. f.type \in AudienceTypes /\ row.audienceType = f.type /\ row.audience = normalizeAudience(f)
  BY <1>2 DEF FormRow, AsChosen
<1>5. who.plan \in PlanNames BY <1>1, <1>3 DEF NoticesInv, ViewerRow
<1>6. ASSUME f.type = "all" PROVE appliesTo(row, who, u) <=> Chosen(f, who, u)
  <2>1. appliesTo(row, who, u) BY <1>4, <1>6 DEF appliesTo
  <2>2. Chosen(f, who, u) BY <1>6 DEF Chosen
  <2> QED BY <2>1, <2>2
<1>7. ASSUME f.type \in {"plan", "owners"} PROVE appliesTo(row, who, u) <=> Chosen(f, who, u)
  <2>1. row.audience.planKeys = f.planKeys \cap PlanNames
    BY <1>4, <1>7 DEF normalizeAudience, NoAudience
  <2>2. CASE f.type = "plan"
    <3>1. appliesTo(row, who, u) <=> who.plan \in row.audience.planKeys BY <1>4, <2>2 DEF appliesTo
    <3>2. Chosen(f, who, u) <=> who.plan \in f.planKeys \cap PlanNames BY <2>2 DEF Chosen
    <3> QED BY <2>1, <3>1, <3>2
  <2>3. CASE f.type = "owners"
    <3>1. appliesTo(row, who, u) <=>
            who.role = "owner" /\ (row.audience.planKeys = {} \/ who.plan \in row.audience.planKeys)
      BY <1>4, <2>3 DEF appliesTo
    <3>2. Chosen(f, who, u) <=>
            who.role = "owner" /\ (f.planKeys \cap PlanNames = {} \/ who.plan \in f.planKeys \cap PlanNames)
      BY <2>3 DEF Chosen
    <3> QED BY <2>1, <3>1, <3>2
  <2> QED BY <1>7, <2>2, <2>3
<1>8. ASSUME f.type = "users" PROVE appliesTo(row, who, u) <=> Chosen(f, who, u)
  <2>1. row.audience.userIds = f.userIds \ {Unknown}
    BY <1>4, <1>8 DEF normalizeAudience, NoAudience
  <2>2. appliesTo(row, who, u) <=> u \in row.audience.userIds BY <1>4, <1>8 DEF appliesTo
  <2>3. Chosen(f, who, u) <=> u \in f.userIds BY <1>8 DEF Chosen
  <2>4. u # Unknown BY NotificationsAssumption
  <2> QED BY <2>1, <2>2, <2>3, <2>4
<1>9. appliesTo(row, who, u) <=> Chosen(f, who, u) BY <1>4, <1>6, <1>7, <1>8 DEF AudienceTypes
<1> QED BY <1>2, <1>3, <1>9

LEMMA DotStays == NoticesInv => DotUntilRead
<1>1. SUFFICES ASSUME NoticesInv, Cardinality(Candidates) <= CANDIDATE_LIMIT,
                      NEW u \in Viewers, NEW n \in There,
                      n \in owed[u] \ read[u].shown, isLive(notice[n]),
                      appliesTo(notice[n], viewer[u], u)
               PROVE  n \in unread(u)
  BY DEF DotUntilRead
<1>2. n \in Candidates BY <1>1 DEF Candidates, isLive
<1>3. IsFiniteSet(Candidates)
  <2>1. IsFiniteSet(Notices) BY FS_Interval, NotificationsAssumption DEF Notices
  <2>2. Candidates \subseteq Notices BY DEF Candidates, There
  <2> QED BY <2>1, <2>2, FS_Subset
<1>4. PICK later : later = {m \in Candidates : Later(m, n)} OBVIOUS
<1>5. later \subseteq Candidates \ {n}
  <2>1. notice[n].publishedAt \in Int /\ n \in Int
    BY NoticeKnown, <1>1, NotificationsAssumption DEF Seconds, Notices
  <2>2. ~Later(n, n) BY <2>1 DEF Later
  <2> QED BY <1>4, <2>2
<1>6. /\ IsFiniteSet(Candidates \ {n})
      /\ Cardinality(Candidates \ {n}) = Cardinality(Candidates) - 1
      /\ Cardinality(Candidates) \in Nat /\ Cardinality(Candidates \ {n}) \in Nat
  BY <1>2, <1>3, FS_RemoveElement, FS_CardinalityType
<1>7. Cardinality(later) <= Cardinality(Candidates \ {n}) /\ Cardinality(later) \in Nat
  BY <1>5, <1>6, FS_Subset, FS_CardinalityType
<1>8. n \in Considered BY <1>1, <1>2, <1>4, <1>6, <1>7, NotificationsAssumption DEF Considered
<1>9. notice[n].publishedAt > viewer[u].seenAt BY <1>1 DEF NoticesInv, SeesRight
<1> QED BY <1>1, <1>8, <1>9 DEF unread, For, publishedSince

\* For any announcements, audiences and viewers: one reaches exactly those it
\* was written for, whoever it reached as it went out finds it marked as new
\* on their next visit, and the dot is there until then
\* (notification_service.ts).
THEOREM NoticesHold == NoticesSpec => []NoticesSafe
<1>1. NoticesInv => NoticeTypeOK
  <2>1. SUFFICES ASSUME NoticesInv PROVE NoticeTypeOK OBVIOUS
  <2>2. ASSUME NEW n \in There
        PROVE  /\ notice[n] \in NoticeRow
               /\ notice[n].audienceType = "users" => notice[n].audience.planKeys = {}
               /\ notice[n].audienceType # "users" => notice[n].audience.userIds = {}
    <3>1. PICK row, f : row = notice[n] /\ f = form[n] /\ f \in FormRow /\ AsChosen(row, f)
      BY <2>1, NoticeKnown
    <3>2. f.type \in AudienceTypes BY <3>1 DEF FormRow
    <3>3. /\ row.audienceType = "users" => row.audience.planKeys = {}
          /\ row.audienceType # "users" => row.audience.userIds = {}
      BY <3>1, <3>2 DEF AsChosen, normalizeAudience, NoAudience, AudienceTypes
    <3> QED BY <2>1, <3>1, <3>3, NoticeKnown
  <2> QED BY <2>1, <2>2 DEF NoticesInv, NoticeTypeOK, SeesRight
<1>2. NoticesInv => FirstShownAsNew BY DEF NoticesInv, FirstShownAsNew, SeesRight
<1>3. NoticesInv => NoticesSafe BY <1>1, <1>2, ReachAsChosen, DotStays DEF NoticesSafe
<1> QED BY <1>3, NoticesInvInit, NoticesInvStep, PTL DEF NoticesSpec

-----------------------------------------------------------------------------
(* The waiting list. A row is saved by its id, and whoever loaded it knows *)
(* under which rules that row joined, be the row still there or not.       *)

Doing == {"idle", "create", "mint", "mail", "cancel", "convert", "resend", "delete"}
VisitRow == [step : Doing, on : Addresses \cup {NoEntry}, loaded : EntryRow \cup {NoEntry},
             link : Links]

Rules(row) == IF row.optIn THEN row.status = "confirmed" => row.hash # 0
              ELSE row.hash = 0 /\ row.status # "pending"

Known(row, a) ==
  row # NoEntry =>
    /\ row \in EntryRow /\ row.hash <= minted /\ row.id <= rowsHad[a]
    /\ a \in Listed /\ entry[a].id = row.id => entry[a].optIn = row.optIn

Visitor(x) ==
  /\ x.step # "idle" => x.on \in Addresses
  /\ x.step \in {"mint", "cancel", "convert", "resend", "delete"} => x.loaded \in EntryRow
  /\ x.step = "mint" => x.loaded.optIn
  /\ x.step = "mail" => x.link \in 1..minted
  /\ Known(x.loaded, x.on)

EntriesOK ==
  /\ WaitTypeOK
  /\ \A a \in Listed : Rules(entry[a])

WaitInv ==
  /\ EntriesOK
  /\ visit \in [Visits -> VisitRow] /\ \A v \in Visits : Visitor(visit[v])
  /\ toConvert \in [Addresses -> EntryRow \cup {NoEntry}]
  /\ \A a \in Addresses :
       /\ Known(toConvert[a], a)
       /\ toConvert[a] # NoEntry => toConvert[a].status \in {"pending", "confirmed"}

\* What a save writes: the columns given, where they differ from the loaded.
LEMMA EntryFields ==
  ASSUME NEW s, s = [x \in DOMAIN s |-> s[x]], DOMAIN s = {"id", "status", "optIn", "hash"},
         s.id \in 1..MaxRows, s.status \in EntryStatuses, s.optIn \in BOOLEAN, s.hash \in Links
  PROVE  s \in EntryRow
<1>1. s = [id |-> s.id, status |-> s.status, optIn |-> s.optIn, hash |-> s.hash] OBVIOUS
<1> QED BY <1>1 DEF EntryRow

LEMMA SavedHash ==
  ASSUME NEW row \in EntryRow, NEW loaded \in EntryRow, NEW h \in Links,
         NEW columns, columns = [hash |-> h], NEW s, s = Saved(row, loaded, columns)
  PROVE  /\ s \in EntryRow /\ s.id = row.id /\ s.status = row.status
         /\ s.optIn = row.optIn
         /\ s.hash = IF h # loaded.hash THEN h ELSE row.hash
<1>1. /\ DOMAIN row = {"id", "status", "optIn", "hash"}
      /\ row.id \in 1..MaxRows /\ row.status \in EntryStatuses /\ row.optIn \in BOOLEAN /\ row.hash \in Links
  BY DEF EntryRow
<1>2. DOMAIN s = {"id", "status", "optIn", "hash"} /\ s = [x \in DOMAIN s |-> s[x]]
  BY <1>1 DEF Saved
<1>3. /\ s.id = row.id /\ s.status = row.status /\ s.optIn = row.optIn
      /\ s.hash = IF h # loaded.hash THEN h ELSE row.hash
  BY <1>1 DEF Saved
<1>4. s.hash \in Links BY <1>1, <1>3
<1> QED BY <1>1, <1>2, <1>3, <1>4, EntryFields

LEMMA SavedStatus ==
  ASSUME NEW row \in EntryRow, NEW loaded \in EntryRow, NEW st \in EntryStatuses,
         NEW columns, columns = [status |-> st, hash |-> 0],
         NEW s, s = Saved(row, loaded, columns)
  PROVE  /\ s \in EntryRow /\ s.id = row.id /\ s.optIn = row.optIn
         /\ s.status = IF st # loaded.status THEN st ELSE row.status
         /\ s.hash \in {0, row.hash}
<1>1. /\ DOMAIN row = {"id", "status", "optIn", "hash"}
      /\ row.id \in 1..MaxRows /\ row.status \in EntryStatuses /\ row.optIn \in BOOLEAN /\ row.hash \in Links
  BY DEF EntryRow
<1>2. DOMAIN s = {"id", "status", "optIn", "hash"} /\ s = [x \in DOMAIN s |-> s[x]]
  BY <1>1 DEF Saved
<1>3. /\ s.id = row.id /\ s.optIn = row.optIn
      /\ s.status = IF st # loaded.status THEN st ELSE row.status
      /\ s.hash \in {0, row.hash}
  BY <1>1 DEF Saved
<1>4. s.hash \in Links /\ s.status \in EntryStatuses
  BY <1>1, <1>3, WaitingListAssumption DEF Links
<1> QED BY <1>1, <1>2, <1>3, <1>4, EntryFields

\* What is known of rows stays known while rows keep their rules and get no
\* new ids.
LEMMA StoreStep ==
  ASSUME WaitInv, NEW a \in Addresses, NEW row \in EntryRow \cup {NoEntry},
         entry' = [entry EXCEPT ![a] = row], rowsHad' = rowsHad,
         minted' \in Links, minted <= minted', inbox' \subseteq 1..minted',
         row # NoEntry => /\ row.hash <= minted' /\ Rules(row)
                          /\ a \in Listed /\ row.id = entry[a].id /\ row.optIn = entry[a].optIn
  PROVE  /\ EntriesOK'
         /\ \A b \in Addresses \cup {NoEntry} : \A r : Known(r, b) => Known(r, b)'
<1>1. /\ entry \in [Addresses -> EntryRow \cup {NoEntry}]
      /\ rowsHad \in [Addresses -> 0..MaxRows] /\ minted \in Links
      /\ \A b \in Listed : entry[b].hash <= minted /\ entry[b].id = rowsHad[b] /\ Rules(entry[b])
  BY DEF WaitInv, EntriesOK, WaitTypeOK
<1>2. /\ entry' \in [Addresses -> EntryRow \cup {NoEntry}] /\ entry'[a] = row
      /\ \A b \in Addresses \ {a} : entry'[b] = entry[b]
  BY <1>1
<1>3. \A n \in Links : n \in Int BY WaitingListAssumption DEF Links
<1>4. \A b \in Listed : entry[b].hash \in Links BY <1>1 DEF Listed, EntryRow
<1>5. ASSUME NEW b \in Listed'
      PROVE  entry'[b].hash <= minted' /\ entry'[b].id = rowsHad'[b] /\ Rules(entry'[b])
  <2>1. CASE b = a BY <1>1, <1>2, <1>5, <2>1 DEF Listed
  <2>2. CASE b # a
    <3>1. b \in Listed /\ entry'[b] = entry[b] BY <1>2, <1>5, <2>2 DEF Listed
    <3> QED BY <1>1, <1>3, <1>4, <3>1
  <2> QED BY <2>1, <2>2
<1>6. \A b \in Listed' : (b \in Listed /\ entry'[b].id = entry[b].id /\ entry'[b].optIn = entry[b].optIn)
  BY <1>2 DEF Listed
<1>7. ASSUME NEW b \in Addresses \cup {NoEntry}, NEW r, Known(r, b) PROVE Known(r, b)'
  <2>1. r \in EntryRow => r.hash \in Links BY DEF EntryRow
  <2>2. r # NoEntry => r.hash <= minted' BY <1>1, <1>3, <1>7, <2>1 DEF Known
  <2> QED BY <1>6, <1>7, <2>2 DEF Known
<1> QED BY <1>1, <1>2, <1>5, <1>7 DEF EntriesOK, WaitTypeOK, Rules

\* One request moves on, the job does not.
LEMMA VisitStep ==
  ASSUME WaitInv, NEW v \in Visits, NEW x \in VisitRow,
         visit' = [visit EXCEPT ![v] = x], toConvert' = toConvert,
         EntriesOK', minted <= minted',
         \A b \in Addresses \cup {NoEntry} : \A r : Known(r, b) => Known(r, b)',
         Visitor(x)'
  PROVE  WaitInv'
<1>1. visit' \in [Visits -> VisitRow] BY DEF WaitInv
<1>2. ASSUME NEW w \in Visits PROVE Visitor(visit[w])'
  <2>1. visit[w] \in VisitRow /\ Visitor(visit[w]) BY DEF WaitInv
  <2>2. PICK y : y = visit'[w] OBVIOUS
  <2>3. CASE w = v BY <2>2, <2>3 DEF WaitInv, Visitor, Known
  <2>4. CASE w # v
    <3>1. y = visit[w] /\ y \in VisitRow /\ Visitor(y) BY <2>1, <2>2, <2>4 DEF WaitInv
    <3>2. Known(y.loaded, y.on)' BY <3>1 DEF Visitor, VisitRow
    <3>3. y.step = "mail" => y.link \in 1..minted'
      <4>1. minted \in Int /\ minted' \in Int
        BY WaitingListAssumption DEF WaitInv, EntriesOK, WaitTypeOK, Links
      <4> QED BY <3>1, <4>1 DEF Visitor
    <3>4. Visitor(y)' BY <3>1, <3>2, <3>3 DEF Visitor
    <3> QED BY <2>2, <3>4 DEF Visitor, Known
  <2> QED BY <2>3, <2>4
<1>3. \A b \in Addresses : Known(toConvert[b], b)'
  <2>1. ASSUME NEW b \in Addresses PROVE Known(toConvert[b], b)'
    <3>1. PICK r : r = toConvert[b] OBVIOUS
    <3>2. Known(r, b) BY <3>1 DEF WaitInv
    <3>3. Known(r, b)' BY <3>2
    <3> QED BY <3>1, <3>3 DEF Known
  <2> QED BY <2>1
<1> QED BY <1>1, <1>2, <1>3 DEF WaitInv

CancelStays(b) ==
  entry[b].status = "cancelled" =>
    entry'[b] # NoEntry /\ entry'[b].status = "cancelled" /\ entry'[b].id = entry[b].id

LEMMA StatusRowType == "cancelled" \in EntryStatuses /\ "converted" \in EntryStatuses /\ 0 \in Links
BY WaitingListAssumption DEF EntryStatuses, Links

\* A new link is for a row that joined under double opt-in.
LEMMA LinkSave ==
  ASSUME WaitInv, NEW a \in Addresses, NEW loaded \in EntryRow, loaded.optIn, Known(loaded, a),
         minted < MaxLinks, minted' = minted + 1, rowsHad' = rowsHad, inbox' = inbox,
         SaveEntry(a, loaded, [hash |-> minted + 1])
  PROVE  /\ EntriesOK' /\ minted' \in Links /\ minted <= minted' /\ minted' \in 1..minted'
         /\ \A b \in Addresses \cup {NoEntry} : \A r : Known(r, b) => Known(r, b)'
         /\ \A b \in Listed : CancelStays(b)
<1>1. minted \in Links /\ inbox \subseteq 1..minted /\ entry \in [Addresses -> EntryRow \cup {NoEntry}]
  BY DEF WaitInv, EntriesOK, WaitTypeOK
<1>2. /\ minted' \in Links /\ minted <= minted' /\ inbox' \subseteq 1..minted'
      /\ minted \in Int /\ minted >= 0
  BY <1>1, WaitingListAssumption DEF Links
<1>3. PICK s : s = Saved(entry[a], loaded, [hash |-> minted + 1]) OBVIOUS
<1>4. CASE entry[a] # NoEntry /\ entry[a].id = loaded.id
  <2>1. entry[a] \in EntryRow /\ a \in Listed BY <1>1, <1>4 DEF Listed
  <2>2. minted + 1 \in Links BY <1>2
  <2>0. loaded # NoEntry BY WaitingListAssumption
  <2>3. loaded.hash <= minted /\ loaded.hash \in Int
    <3>1. loaded.hash \in Links BY DEF EntryRow
    <3> QED BY <2>0, <3>1, WaitingListAssumption DEF Known, Links
  <2>4. /\ s \in EntryRow /\ s.id = entry[a].id /\ s.status = entry[a].status
        /\ s.optIn = entry[a].optIn /\ s.hash = IF minted + 1 # loaded.hash THEN minted + 1 ELSE entry[a].hash
    <3>1. PICK row \in EntryRow : row = entry[a] BY <2>1
    <3>2. PICK h \in Links : h = minted + 1 BY <2>2
    <3>3. PICK columns : columns = [hash |-> h] OBVIOUS
    <3>5. s = Saved(row, loaded, columns) BY <1>3, <3>1, <3>2, <3>3
    <3>4. /\ s \in EntryRow /\ s.id = row.id /\ s.status = row.status /\ s.optIn = row.optIn
          /\ s.hash = IF h # loaded.hash THEN h ELSE row.hash
      BY <3>3, <3>5, SavedHash
    <3> QED BY <3>1, <3>2, <3>4
  <2>5. s.hash = minted + 1 BY <1>2, <2>3, <2>4
  <2>6. s.optIn BY <1>4, <2>0, <2>1, <2>4 DEF Known
  <2>7. Rules(s) BY <1>2, <2>5, <2>6 DEF Rules
  <2>8. entry' = [entry EXCEPT ![a] = s] BY <1>3, <1>4 DEF SaveEntry
  <2>9. s # NoEntry BY <2>4, WaitingListAssumption
  <2>10. s.hash <= minted' BY <1>2, <2>5
  <2>11. EntriesOK' /\ \A b \in Addresses \cup {NoEntry} : \A r : Known(r, b) => Known(r, b)'
    BY <1>2, <2>1, <2>4, <2>7, <2>8, <2>10, StoreStep
  <2>12. \A b \in Listed : CancelStays(b)
    BY <1>1, <2>4, <2>8, <2>9, WaitingListAssumption DEF CancelStays, Listed
  <2> QED BY <1>2, <2>11, <2>12
<1>5. CASE ~ (entry[a] # NoEntry /\ entry[a].id = loaded.id)
  <2>1. entry' = [entry EXCEPT ![a] = entry[a]] /\ entry' = entry BY <1>1, <1>5 DEF SaveEntry
  <2>2. PICK s1 : s1 = entry[a] OBVIOUS
  <2>3. s1 \in EntryRow \cup {NoEntry} /\ entry' = [entry EXCEPT ![a] = s1] BY <1>1, <2>1, <2>2
  <2>4. s1 # NoEntry => /\ s1.hash <= minted' /\ Rules(s1)
                        /\ a \in Listed /\ s1.id = entry[a].id /\ s1.optIn = entry[a].optIn
    <3>1. SUFFICES ASSUME s1 # NoEntry PROVE s1.hash <= minted' /\ Rules(s1) /\ a \in Listed
      BY <2>2
    <3>2. a \in Listed BY <2>2, <3>1 DEF Listed
    <3>3. s1.hash \in Int BY <2>3, <3>1, WaitingListAssumption DEF EntryRow, Links
    <3>4. s1.hash <= minted /\ Rules(s1) BY <2>2, <3>2 DEF WaitInv, EntriesOK, WaitTypeOK
    <3> QED BY <1>2, <3>2, <3>3, <3>4
  <2>5. EntriesOK' /\ \A b \in Addresses \cup {NoEntry} : \A r : Known(r, b) => Known(r, b)'
    BY <1>2, <2>3, <2>4, StoreStep
  <2>6. \A b \in Listed : CancelStays(b) BY <2>1 DEF CancelStays, Listed
  <2> QED BY <1>2, <2>5, <2>6
<1> QED BY <1>4, <1>5

\* Cancelling and converting write a status the loaded row did not have.
LEMMA StatusSave ==
  ASSUME WaitInv, NEW a \in Addresses, NEW loaded \in EntryRow, Known(loaded, a),
         NEW st \in {"cancelled", "converted"}, st # loaded.status,
         minted' = minted, rowsHad' = rowsHad, inbox' = inbox,
         SaveEntry(a, loaded, [status |-> st, hash |-> 0])
  PROVE  /\ EntriesOK'
         /\ \A b \in Addresses \cup {NoEntry} : \A r : Known(r, b) => Known(r, b)'
         /\ \A b \in Listed :
              CancelStays(b) \/ (st = "converted" /\ b = a /\ loaded.id = entry[a].id)
<1>1. minted \in Links /\ inbox \subseteq 1..minted /\ entry \in [Addresses -> EntryRow \cup {NoEntry}]
  BY DEF WaitInv, EntriesOK, WaitTypeOK
<1>2. minted' \in Links /\ minted <= minted' /\ inbox' \subseteq 1..minted' /\ minted \in Int /\ minted >= 0
  BY <1>1, WaitingListAssumption DEF Links
<1>3. PICK s : s = Saved(entry[a], loaded, [status |-> st, hash |-> 0]) OBVIOUS
<1>4. CASE entry[a] # NoEntry /\ entry[a].id = loaded.id
  <2>1. entry[a] \in EntryRow /\ a \in Listed BY <1>1, <1>4 DEF Listed
  <2>2. st \in EntryStatuses BY StatusRowType
  <2>3. /\ s \in EntryRow /\ s.id = entry[a].id /\ s.optIn = entry[a].optIn
        /\ s.status = IF st # loaded.status THEN st ELSE entry[a].status
        /\ s.hash \in {0, entry[a].hash}
    <3>1. PICK row \in EntryRow : row = entry[a] BY <2>1
    <3>2. PICK columns : columns = [status |-> st, hash |-> 0] OBVIOUS
    <3>4. s = Saved(row, loaded, columns) BY <1>3, <3>1, <3>2
    <3>3. /\ s \in EntryRow /\ s.id = row.id /\ s.optIn = row.optIn
          /\ s.status = IF st # loaded.status THEN st ELSE row.status
          /\ s.hash \in {0, row.hash}
      BY <2>2, <3>2, <3>4, SavedStatus
    <3> QED BY <3>1, <3>3
  <2>4. s.status = st BY <2>3
  <2>5. entry[a].hash <= minted /\ Rules(entry[a]) BY <2>1 DEF WaitInv, EntriesOK, WaitTypeOK
  <2>6. Rules(s) /\ s.hash <= minted' BY <1>2, <2>3, <2>4, <2>5 DEF Rules
  <2>7. entry' = [entry EXCEPT ![a] = s] BY <1>3, <1>4 DEF SaveEntry
  <2>8. s # NoEntry BY <2>3, WaitingListAssumption
  <2>9. EntriesOK' /\ \A b \in Addresses \cup {NoEntry} : \A r : Known(r, b) => Known(r, b)'
    BY <1>2, <2>1, <2>3, <2>6, <2>7, StoreStep
  <2>10. \A b \in Listed : CancelStays(b) \/ (st = "converted" /\ b = a /\ loaded.id = entry[a].id)
    BY <1>1, <1>4, <2>3, <2>4, <2>7, <2>8, WaitingListAssumption DEF CancelStays, Listed
  <2> QED BY <2>9, <2>10
<1>5. CASE ~ (entry[a] # NoEntry /\ entry[a].id = loaded.id)
  <2>1. entry' = entry BY <1>1, <1>5 DEF SaveEntry
  <2>2. EntriesOK' BY <2>1 DEF WaitInv, EntriesOK, WaitTypeOK, Listed, Rules
  <2>3. \A b \in Addresses \cup {NoEntry} : \A r : Known(r, b) => Known(r, b)'
    BY <2>1 DEF Known, Listed
  <2>4. \A b \in Listed : CancelStays(b) BY <2>1 DEF CancelStays, Listed
  <2> QED BY <2>2, <2>3, <2>4
<1> QED BY <1>4, <1>5

\* What CancelStands allows a step to do.
CancelMayGo ==
  \A a \in Listed :
    entry[a].status = "cancelled" =>
      \/ entry'[a] = NoEntry
      \/ entry'[a].status = "cancelled" /\ entry'[a].id = entry[a].id
      \/ \E loaded \in {visit[v].loaded : v \in {w \in Visits :
                          visit[w].step = "convert" /\ visit[w].on = a}}
                       \cup {toConvert[a]} :
           loaded # NoEntry /\ loaded.id = entry[a].id
           /\ loaded.status \in {"pending", "confirmed"}

\* Nothing is written to the list.
LEMMA NothingStored ==
  ASSUME WaitInv, entry' = entry, rowsHad' = rowsHad, minted' = minted,
         inbox' \subseteq 1..minted
  PROVE  /\ EntriesOK' /\ CancelMayGo /\ minted <= minted'
         /\ \A b \in Addresses \cup {NoEntry} : \A r : Known(r, b) => Known(r, b)'
<1>1. EntriesOK' BY DEF WaitInv, EntriesOK, WaitTypeOK, Listed, Rules
<1>2. \A b \in Addresses \cup {NoEntry} : \A r : Known(r, b) => Known(r, b)' BY DEF Known, Listed
<1>3. minted <= minted'
  BY WaitingListAssumption DEF WaitInv, EntriesOK, WaitTypeOK, Links
<1> QED BY <1>1, <1>2, <1>3 DEF CancelMayGo

LEMMA AtTheDoorIsThere == AtTheDoor \in VisitRow /\ Visitor(AtTheDoor)
<1>1. 0 \in Links BY WaitingListAssumption DEF Links
<1> QED BY <1>1 DEF AtTheDoor, VisitRow, Visitor, Known, Doing

LEMMA RowsKnown ==
  ASSUME WaitInv, NEW a \in Listed
  PROVE  a \in Addresses /\ entry[a] \in EntryRow /\ Known(entry[a], a)
<1>1. a \in Addresses /\ entry[a] \in EntryRow BY DEF WaitInv, EntriesOK, WaitTypeOK, Listed
<1>2. entry[a].hash <= minted /\ entry[a].id = rowsHad[a] /\ entry[a].id \in Int
  BY <1>1 DEF WaitInv, EntriesOK, WaitTypeOK, EntryRow
<1> QED BY <1>1, <1>2 DEF Known

-----------------------------------------------------------------------------
(* The steps.                                                              *)

LEMMA ComeSteps ==
  ASSUME WaitInv, NEW v \in Visits, NEW a \in Addresses,
         Join(v, a) \/ \E step \in {"cancel", "convert", "resend", "delete"} : OpenEntry(v, a, step)
  PROVE  WaitInv' /\ CancelMayGo
<1> DEFINE Opens(x) ==
      /\ visit' = [visit EXCEPT ![v] = x]
      /\ \/ a \in Listed /\ x.step \in {"cancel", "convert", "resend", "delete"} /\ x.loaded = entry[a]
         \/ x.step = "create" /\ x.loaded = NoEntry /\ entry[a] = NoEntry
         \/ a \in Listed /\ x.step = "mint" /\ x.loaded = entry[a] /\ entry[a].optIn
      /\ x = [step |-> x.step, on |-> a, loaded |-> x.loaded, link |-> 0]
<1>1. PICK x : Opens(x)
  <2>1. CASE Join(v, a)
    <3>1. PICK x : x = [step |-> IF entry[a] = NoEntry THEN "create" ELSE "mint", on |-> a,
                        loaded |-> entry[a], link |-> 0] OBVIOUS
    <3>2. /\ x.step = (IF entry[a] = NoEntry THEN "create" ELSE "mint") /\ x.loaded = entry[a]
          /\ x = [step |-> x.step, on |-> a, loaded |-> x.loaded, link |-> 0]
      BY <3>1
    <3>3. visit' = [visit EXCEPT ![v] = x] BY <2>1, <3>1 DEF Join
    <3>4. entry[a] # NoEntry => a \in Listed /\ entry[a].optIn
      BY <2>1 DEF Join, Listed, WantsLinkAgain
    <3>5. Opens(x) BY <3>2, <3>3, <3>4
    <3> QED BY <3>5
  <2>2. ASSUME NEW step \in {"cancel", "convert", "resend", "delete"}, OpenEntry(v, a, step)
        PROVE  \E x : Opens(x)
    <3>1. PICK x : x = [step |-> step, on |-> a, loaded |-> entry[a], link |-> 0] OBVIOUS
    <3>2. /\ x.step = step /\ x.loaded = entry[a]
          /\ x = [step |-> x.step, on |-> a, loaded |-> x.loaded, link |-> 0]
      BY <3>1
    <3>3. visit' = [visit EXCEPT ![v] = x] /\ a \in Listed BY <2>2, <3>1 DEF OpenEntry
    <3>4. Opens(x) BY <3>2, <3>3
    <3> QED BY <3>4
  <2> QED BY <2>1, <2>2
<1>2. UNCHANGED <<entry, rowsHad, minted, inbox, toConvert>> BY DEF Join, OpenEntry
<1>3. inbox \subseteq 1..minted BY DEF WaitInv, EntriesOK, WaitTypeOK
<1>4. 0 \in Links BY WaitingListAssumption DEF Links
<1>5. x \in VisitRow
  <2>1. x.step \in Doing BY <1>1 DEF Doing
  <2>2. x.loaded \in EntryRow \cup {NoEntry} BY <1>1, RowsKnown
  <2> QED BY <1>1, <1>4, <2>1, <2>2 DEF VisitRow
<1>6. Visitor(x)
  <2>1. x.on = a /\ Known(x.loaded, a)
    <3>1. x.on = a BY <1>1
    <3>2. CASE x.loaded = NoEntry BY <3>1, <3>2 DEF Known
    <3>3. CASE a \in Listed /\ x.loaded = entry[a] BY <3>1, <3>3, RowsKnown
    <3> QED BY <1>1, <3>1, <3>2, <3>3
  <2>2. x.step \in {"mint", "cancel", "convert", "resend", "delete"} =>
          x.loaded \in EntryRow /\ (x.step = "mint" => x.loaded.optIn)
    BY <1>1, RowsKnown
  <2>3. x.step # "mail" BY <1>1
  <2> QED BY <1>1, <2>1, <2>2, <2>3 DEF Visitor
<1>7. Visitor(x)' BY <1>2, <1>6 DEF Visitor, Known, Listed
<1> QED BY <1>1, <1>2, <1>3, <1>5, <1>7, NothingStored, VisitStep

\* One request's fields are set one by one.
LEMMA VisitSet ==
  ASSUME WaitInv, NEW v \in Visits, NEW f,
         visit' = [visit EXCEPT ![v] = f],
         DOMAIN f = {"step", "on", "loaded", "link"}, f = [x \in DOMAIN f |-> f[x]],
         f.step \in Doing, f.on \in Addresses \cup {NoEntry},
         f.loaded \in EntryRow \cup {NoEntry}, f.link \in Links
  PROVE  f \in VisitRow
<1>1. f = [step |-> f.step, on |-> f.on, loaded |-> f.loaded, link |-> f.link] OBVIOUS
<1> QED BY <1>1 DEF VisitRow

LEMMA VisitAt ==
  ASSUME WaitInv, NEW v \in Visits
  PROVE  /\ visit[v] \in VisitRow /\ Visitor(visit[v])
         /\ DOMAIN visit[v] = {"step", "on", "loaded", "link"}
         /\ visit[v].step \in Doing /\ visit[v].on \in Addresses \cup {NoEntry}
         /\ visit[v].loaded \in EntryRow \cup {NoEntry} /\ visit[v].link \in Links
BY DEF WaitInv, VisitRow

LEMMA Leaving ==
  ASSUME WaitInv, NEW v \in Visits, Leaves(v), toConvert' = toConvert,
         EntriesOK', minted <= minted',
         \A b \in Addresses \cup {NoEntry} : \A r : Known(r, b) => Known(r, b)'
  PROVE  WaitInv'
<1>1. PICK x : x = AtTheDoor OBVIOUS
<1>2. x \in VisitRow /\ Visitor(x) BY <1>1, AtTheDoorIsThere
<1>3. visit' = [visit EXCEPT ![v] = x] BY <1>1 DEF Leaves
<1>4. Visitor(x)' BY <1>1 DEF Visitor, AtTheDoor, Known
<1> QED BY <1>2, <1>3, <1>4, VisitStep

LEMMA CreateEntryStep ==
  ASSUME WaitInv, doubleOptIn \in BOOLEAN, NEW v \in Visits, CreateEntry(v) PROVE WaitInv' /\ CancelMayGo
<1>1. PICK a \in Addresses : a = visit[v].on
  <2>1. visit[v].step = "create" BY DEF CreateEntry
  <2> QED BY <2>1, VisitAt DEF Visitor
<1>2. UNCHANGED <<accounts, doubleOptIn, minted, stale, inbox, toConvert>> BY DEF CreateEntry
<1>3. inbox \subseteq 1..minted /\ minted \in Links BY DEF WaitInv, EntriesOK, WaitTypeOK
<1>4. minted <= minted /\ 0 <= minted /\ 0 \in Links BY <1>3, WaitingListAssumption DEF Links
<1>5. CASE entry[a] # NoEntry
  <2>1. Leaves(v) /\ UNCHANGED <<entry, rowsHad>> BY <1>1, <1>5 DEF CreateEntry
  <2> QED BY <1>2, <1>3, <2>1, NothingStored, Leaving
<1>6. CASE entry[a] = NoEntry
  <2>1. PICK row : row = [id |-> rowsHad[a] + 1, optIn |-> doubleOptIn, hash |-> 0,
                          status |-> IF doubleOptIn THEN "pending" ELSE "confirmed"]
    OBVIOUS
  <2>2. /\ rowsHad[a] < MaxRows /\ entry' = [entry EXCEPT ![a] = row]
        /\ rowsHad' = [rowsHad EXCEPT ![a] = @ + 1]
        /\ IF row.optIn
           THEN visit' = [visit EXCEPT ![v].step = "mint", ![v].loaded = row]
           ELSE Leaves(v)
    BY <1>1, <1>6, <2>1 DEF CreateEntry
  <2>3. /\ entry \in [Addresses -> EntryRow \cup {NoEntry}]
        /\ rowsHad \in [Addresses -> 0..MaxRows] /\ doubleOptIn \in BOOLEAN
        /\ \A b \in Listed : entry[b].hash <= minted /\ entry[b].id = rowsHad[b] /\ Rules(entry[b])
    BY DEF WaitInv, EntriesOK, WaitTypeOK
  <2>4. rowsHad[a] + 1 \in 1..MaxRows /\ rowsHad[a] \in Int
    BY <2>2, <2>3, WaitingListAssumption
  <2>5. row \in EntryRow
    <3>1. (IF doubleOptIn THEN "pending" ELSE "confirmed") \in EntryStatuses BY DEF EntryStatuses
    <3> QED BY <1>4, <2>1, <2>3, <2>4, <3>1 DEF EntryRow
  <2>6. row # NoEntry BY <2>5, WaitingListAssumption
  <2>7. row.id = rowsHad[a] + 1 /\ row.hash = 0 /\ Rules(row) BY <2>1, <2>3 DEF Rules
  <2>8. entry'[a] = row /\ rowsHad'[a] = rowsHad[a] + 1
        /\ \A b \in Addresses \ {a} : entry'[b] = entry[b] /\ rowsHad'[b] = rowsHad[b]
    BY <2>2, <2>3
  <2>9. EntriesOK'
    <3>1. entry' \in [Addresses -> EntryRow \cup {NoEntry}] BY <2>2, <2>3, <2>5
    <3>2. rowsHad' \in [Addresses -> 0..MaxRows] BY <2>2, <2>3, <2>4
    <3>3. ASSUME NEW b \in Listed'
          PROVE  entry'[b].hash <= minted' /\ entry'[b].id = rowsHad'[b] /\ Rules(entry'[b])
      <4>1. CASE b = a BY <1>2, <1>4, <2>7, <2>8, <4>1
      <4>2. CASE b # a BY <1>2, <2>3, <2>8, <3>3, <4>2 DEF Listed
      <4> QED BY <4>1, <4>2
    <3> QED BY <1>2, <1>3, <3>1, <3>2, <3>3 DEF EntriesOK, WaitTypeOK, Rules
  <2>10. ASSUME NEW b \in Addresses \cup {NoEntry}, NEW r, Known(r, b) PROVE Known(r, b)'
    <3>1. SUFFICES ASSUME r # NoEntry
          PROVE /\ r \in EntryRow /\ r.hash <= minted' /\ r.id <= rowsHad'[b]
                /\ b \in Listed' /\ entry'[b].id = r.id => entry'[b].optIn = r.optIn
      BY DEF Known
    <3>2. r \in EntryRow /\ r.hash <= minted' /\ r.id <= rowsHad[b] /\ r.id \in Int
      BY <1>2, <2>10, <3>1 DEF Known, EntryRow
    <3>3. CASE b = a BY <2>4, <2>7, <2>8, <3>2, <3>3
    <3>4. CASE b # a /\ b \in Addresses BY <2>8, <2>10, <3>1, <3>2, <3>4 DEF Known, Listed
    <3>5. CASE b \notin Addresses
      <4>1. b = NoEntry /\ b # a BY <3>5
      <4>2. rowsHad'[b] = rowsHad[b] BY <2>2, <4>1, <2>3
      <4> QED BY <3>2, <3>5, <4>2 DEF Listed
    <3> QED BY <3>3, <3>4, <3>5
  <2>11. CancelMayGo BY <1>6, <2>8 DEF CancelMayGo, Listed
  <2>12. CASE ~ row.optIn BY <1>2, <1>4, <2>2, <2>9, <2>10, <2>11, <2>12, Leaving
  <2>13. CASE row.optIn
    <3>1. PICK x : x = [step |-> "mint", on |-> a, loaded |-> row, link |-> visit[v].link] OBVIOUS
    <3>2. visit' = [visit EXCEPT ![v] = x] BY <1>1, <2>2, <2>13, <3>1, VisitAt DEF VisitRow, WaitInv
    <3>3. x \in VisitRow BY <2>5, <3>1, VisitAt DEF VisitRow, Doing
    <3>4. Known(row, a)'
      BY <1>2, <1>4, <2>4, <2>5, <2>7, <2>8 DEF Known
    <3>5. x.step = "mint" /\ x.on = a /\ x.loaded = row BY <3>1
    <3>6. Visitor(x)' BY <2>5, <2>13, <3>4, <3>5 DEF Visitor, Known
    <3> QED BY <1>2, <1>4, <2>9, <2>10, <2>11, <3>2, <3>3, <3>6, VisitStep
  <2> QED BY <2>12, <2>13
<1> QED BY <1>5, <1>6

LEMMA MintLinkStep ==
  ASSUME WaitInv, NEW v \in Visits, MintLink(v) PROVE WaitInv' /\ CancelMayGo
<1>1. PICK a \in Addresses : a = visit[v].on
  <2>1. visit[v].step = "mint" BY DEF MintLink
  <2> QED BY <2>1, VisitAt DEF Visitor
<1>2. PICK loaded \in EntryRow : loaded = visit[v].loaded /\ loaded.optIn /\ Known(loaded, a)
  <2>1. visit[v].step = "mint" BY DEF MintLink
  <2> QED BY <1>1, <2>1, VisitAt DEF Visitor
<1>3. /\ minted < MaxLinks /\ minted' = minted + 1 /\ rowsHad' = rowsHad /\ inbox' = inbox
      /\ SaveEntry(a, loaded, [hash |-> minted + 1]) /\ toConvert' = toConvert
  BY <1>1, <1>2 DEF MintLink
<1>4. /\ EntriesOK' /\ minted' \in Links /\ minted <= minted' /\ minted' \in 1..minted'
      /\ \A b \in Addresses \cup {NoEntry} : \A r : Known(r, b) => Known(r, b)'
      /\ \A b \in Listed : CancelStays(b)
  BY <1>2, <1>3, LinkSave
<1>5. CancelMayGo BY <1>4 DEF CancelMayGo, CancelStays
<1>6. PICK x : x = [step |-> "mail", on |-> a, loaded |-> NoEntry, link |-> minted + 1] OBVIOUS
<1>7. visit' = [visit EXCEPT ![v] = x]
  <2>1. PICK y \in VisitRow : y = visit[v] BY VisitAt
  <2>2. y = [step |-> y.step, on |-> y.on, loaded |-> y.loaded, link |-> y.link] /\ y.on = a
    BY <1>1, <2>1 DEF VisitRow
  <2>3. PICK f : f = [y EXCEPT !.step = "mail"] OBVIOUS
  <2>4. f = [step |-> "mail", on |-> y.on, loaded |-> y.loaded, link |-> y.link] BY <2>2, <2>3
  <2>5. PICK g : g = [f EXCEPT !.link = minted + 1] OBVIOUS
  <2>6. g = [step |-> "mail", on |-> y.on, loaded |-> y.loaded, link |-> minted + 1] BY <2>4, <2>5
  <2>7. PICK z : z = [g EXCEPT !.loaded = NoEntry] OBVIOUS
  <2>8. z = x BY <1>6, <2>2, <2>6, <2>7
  <2>9. visit' = [visit EXCEPT ![v] = z] BY <2>1, <2>3, <2>5, <2>7 DEF MintLink, WaitInv
  <2> QED BY <2>8, <2>9
<1>8. x \in VisitRow BY <1>3, <1>4, <1>6 DEF VisitRow, Doing
<1>9. x.step = "mail" /\ x.on = a /\ x.loaded = NoEntry /\ x.link = minted' BY <1>3, <1>6
<1>10. Visitor(x)' BY <1>4, <1>9 DEF Visitor, Known
<1> QED BY <1>3, <1>4, <1>5, <1>7, <1>8, <1>10, VisitStep

LEMMA MailLinkStep ==
  ASSUME WaitInv, NEW v \in Visits, MailLink(v) PROVE WaitInv' /\ CancelMayGo
<1>1. visit[v].link \in 1..minted BY VisitAt DEF MailLink, Visitor
<1>2. /\ entry' = entry /\ rowsHad' = rowsHad /\ minted' = minted /\ toConvert' = toConvert
      /\ Leaves(v) /\ inbox' = inbox \cup {visit[v].link}
  BY DEF MailLink
<1>3. inbox' \subseteq 1..minted BY <1>1, <1>2 DEF WaitInv, EntriesOK, WaitTypeOK
<1> QED BY <1>2, <1>3, NothingStored, Leaving

LEMMA LoadedRow ==
  ASSUME WaitInv, NEW v \in Visits, visit[v].step \in {"cancel", "convert", "resend", "delete"}
  PROVE  /\ visit[v].on \in Addresses /\ visit[v].loaded \in EntryRow
         /\ Known(visit[v].loaded, visit[v].on)
BY VisitAt DEF Visitor

LEMMA CancelStep ==
  ASSUME WaitInv, NEW v \in Visits, Cancel(v) PROVE WaitInv' /\ CancelMayGo
<1>1. PICK a \in Addresses, loaded \in EntryRow :
        a = visit[v].on /\ loaded = visit[v].loaded /\ Known(loaded, a)
  BY LoadedRow DEF Cancel
<1>2. /\ rowsHad' = rowsHad /\ minted' = minted /\ inbox' = inbox /\ toConvert' = toConvert /\ Leaves(v)
      /\ IF loaded.status = "cancelled" THEN entry' = entry
         ELSE SaveEntry(a, loaded, [status |-> "cancelled", hash |-> 0])
  BY <1>1 DEF Cancel
<1>3. inbox \subseteq 1..minted /\ minted <= minted
  BY WaitingListAssumption DEF WaitInv, EntriesOK, WaitTypeOK, Links
<1>4. CASE loaded.status = "cancelled"
  BY <1>2, <1>3, <1>4, NothingStored, Leaving
<1>5. CASE loaded.status # "cancelled"
  <2>1. PICK st \in {"cancelled", "converted"} : st = "cancelled" OBVIOUS
  <2>2. SaveEntry(a, loaded, [status |-> st, hash |-> 0]) /\ st # loaded.status BY <1>2, <1>5, <2>1
  <2>3. /\ EntriesOK'
        /\ \A b \in Addresses \cup {NoEntry} : \A r : Known(r, b) => Known(r, b)'
        /\ \A b \in Listed :
             CancelStays(b) \/ (st = "converted" /\ b = a /\ loaded.id = entry[a].id)
    BY <1>1, <1>2, <2>2, StatusSave
  <2>4. CancelMayGo BY <2>1, <2>3 DEF CancelMayGo, CancelStays
  <2> QED BY <1>2, <1>3, <2>3, <2>4, Leaving
<1> QED BY <1>4, <1>5

\* A conversion that loaded the row before.
LEMMA ConvertSave ==
  ASSUME WaitInv, NEW a \in Addresses, NEW loaded \in EntryRow, Known(loaded, a),
         loaded.status \in {"pending", "confirmed"}, MarkConverted(a, loaded),
         rowsHad' = rowsHad, minted' = minted, inbox' = inbox,
         \/ loaded = toConvert[a]
         \/ \E v \in Visits : visit[v].step = "convert" /\ visit[v].on = a /\ loaded = visit[v].loaded
  PROVE  /\ EntriesOK' /\ CancelMayGo
         /\ \A b \in Addresses \cup {NoEntry} : \A r : Known(r, b) => Known(r, b)'
<1>1. PICK st \in {"cancelled", "converted"} : st = "converted" OBVIOUS
<1>2. SaveEntry(a, loaded, [status |-> st, hash |-> 0]) /\ st # loaded.status
  BY <1>1 DEF MarkConverted
<1>3. /\ EntriesOK'
      /\ \A b \in Addresses \cup {NoEntry} : \A r : Known(r, b) => Known(r, b)'
      /\ \A b \in Listed :
           CancelStays(b) \/ (st = "converted" /\ b = a /\ loaded.id = entry[a].id)
  BY <1>2, StatusSave
<1>4. loaded # NoEntry BY WaitingListAssumption
<1>5. ASSUME NEW b \in Listed, entry[b].status = "cancelled", ~ CancelStays(b)
      PROVE  \E w \in {visit[v].loaded : v \in {w \in Visits :
                          visit[w].step = "convert" /\ visit[w].on = b}}
                       \cup {toConvert[b]} :
               w # NoEntry /\ w.id = entry[b].id /\ w.status \in {"pending", "confirmed"}
  <2>1. b = a /\ loaded.id = entry[b].id BY <1>3, <1>5
  <2>2. loaded \in {visit[v].loaded : v \in {w \in Visits :
                          visit[w].step = "convert" /\ visit[w].on = b}}
                   \cup {toConvert[b]}
    BY <2>1
  <2> QED BY <1>4, <2>1, <2>2
<1>6. CancelMayGo BY <1>5 DEF CancelMayGo, CancelStays
<1> QED BY <1>3, <1>6

LEMMA ConvertStep ==
  ASSUME WaitInv, NEW v \in Visits, Convert(v) PROVE WaitInv' /\ CancelMayGo
<1>1. PICK a \in Addresses, loaded \in EntryRow :
        a = visit[v].on /\ loaded = visit[v].loaded /\ Known(loaded, a)
  BY LoadedRow DEF Convert
<1>2. /\ rowsHad' = rowsHad /\ minted' = minted /\ inbox' = inbox /\ toConvert' = toConvert /\ Leaves(v)
      /\ visit[v].step = "convert"
      /\ IF MayConvert(loaded) THEN MarkConverted(a, loaded) ELSE entry' = entry
  BY <1>1 DEF Convert
<1>3. inbox \subseteq 1..minted /\ minted <= minted
  BY WaitingListAssumption DEF WaitInv, EntriesOK, WaitTypeOK, Links
<1>4. CASE ~ MayConvert(loaded)
  BY <1>2, <1>3, <1>4, NothingStored, Leaving
<1>5. CASE MayConvert(loaded)
  <2>1. loaded.status \in {"pending", "confirmed"}
    BY <1>5 DEF MayConvert, EntryRow, EntryStatuses
  <2>2. /\ EntriesOK' /\ CancelMayGo
        /\ \A b \in Addresses \cup {NoEntry} : \A r : Known(r, b) => Known(r, b)'
    BY <1>1, <1>2, <1>5, <2>1, ConvertSave
  <2> QED BY <1>2, <1>3, <2>2, Leaving
<1> QED BY <1>4, <1>5

LEMMA ResendStep ==
  ASSUME WaitInv, NEW v \in Visits, Resend(v) PROVE WaitInv' /\ CancelMayGo
<1>1. UNCHANGED <<entry, rowsHad, minted, inbox, toConvert>> /\ visit[v].step = "resend"
  BY DEF Resend
<1>2. inbox \subseteq 1..minted BY DEF WaitInv, EntriesOK, WaitTypeOK
<1>3. CASE ~ WantsLinkAgain(visit[v].loaded)
  <2>1. Leaves(v) BY <1>3 DEF Resend
  <2> QED BY <1>1, <1>2, <2>1, NothingStored, Leaving
<1>4. CASE WantsLinkAgain(visit[v].loaded)
  <2>1. PICK y : y = visit[v] OBVIOUS
  <2>2. PICK x : x = [step |-> "mint", on |-> y.on, loaded |-> y.loaded, link |-> y.link] OBVIOUS
  <2>3. visit' = [visit EXCEPT ![v] = x]
    BY <1>4, <2>1, <2>2, VisitAt DEF Resend, VisitRow, WaitInv
  <2>4. x \in VisitRow BY <2>1, <2>2, VisitAt DEF VisitRow, Doing
  <2>5. y.on \in Addresses /\ y.loaded \in EntryRow /\ Known(y.loaded, y.on)
    BY <1>1, <2>1, LoadedRow
  <2>6. y.loaded.optIn BY <1>4, <2>1 DEF WantsLinkAgain
  <2>7. Known(y.loaded, y.on)' BY <1>1, <1>2, <2>5, NothingStored
  <2>8. x.step = "mint" /\ x.on = y.on /\ x.loaded = y.loaded BY <2>2
  <2>9. Visitor(x)' BY <2>5, <2>6, <2>7, <2>8 DEF Visitor, Known
  <2> QED BY <1>1, <1>2, <2>3, <2>4, <2>9, NothingStored, VisitStep
<1> QED BY <1>3, <1>4

LEMMA DestroyStep ==
  ASSUME WaitInv, NEW v \in Visits, Destroy(v) PROVE WaitInv' /\ CancelMayGo
<1>1. PICK a \in Addresses, loaded \in EntryRow : a = visit[v].on /\ loaded = visit[v].loaded
  BY LoadedRow DEF Destroy
<1>2. /\ rowsHad' = rowsHad /\ minted' = minted /\ inbox' = inbox /\ toConvert' = toConvert /\ Leaves(v)
      /\ entry' = [entry EXCEPT ![a] = IF @ # NoEntry /\ @.id = loaded.id THEN NoEntry ELSE @]
  BY <1>1 DEF Destroy
<1>3. inbox \subseteq 1..minted /\ minted <= minted /\ entry \in [Addresses -> EntryRow \cup {NoEntry}]
  BY WaitingListAssumption DEF WaitInv, EntriesOK, WaitTypeOK, Links
<1>4. CASE entry[a] # NoEntry /\ entry[a].id = loaded.id
  <2>1. entry' = [entry EXCEPT ![a] = NoEntry] BY <1>2, <1>4
  <2>2. PICK row \in EntryRow \cup {NoEntry} : row = NoEntry OBVIOUS
  <2>3. EntriesOK' /\ \A b \in Addresses \cup {NoEntry} : \A r : Known(r, b) => Known(r, b)'
    BY <1>2, <1>3, <2>1, <2>2, StoreStep DEF WaitInv, EntriesOK, WaitTypeOK
  <2>4. CancelMayGo BY <1>3, <2>1 DEF CancelMayGo, Listed
  <2> QED BY <1>2, <1>3, <2>3, <2>4, Leaving
<1>5. CASE ~ (entry[a] # NoEntry /\ entry[a].id = loaded.id)
  <2>1. entry' = entry BY <1>2, <1>3, <1>5
  <2> QED BY <1>2, <1>3, <2>1, NothingStored, Leaving
<1> QED BY <1>4, <1>5

\* No request moves.
LEMMA VisitsStay ==
  ASSUME WaitInv, visit' = visit, EntriesOK', minted <= minted',
         \A b \in Addresses \cup {NoEntry} : \A r : Known(r, b) => Known(r, b)'
  PROVE  visit' \in [Visits -> VisitRow] /\ \A v \in Visits : Visitor(visit[v])'
<1>1. ASSUME NEW v \in Visits PROVE Visitor(visit[v])'
  <2>1. PICK y : y = visit[v] OBVIOUS
  <2>2. y \in VisitRow /\ Visitor(y) BY <2>1, VisitAt
  <2>3. Known(y.loaded, y.on)' BY <2>2 DEF Visitor, VisitRow
  <2>4. minted \in Int /\ minted' \in Int
    BY WaitingListAssumption DEF WaitInv, EntriesOK, WaitTypeOK, Links
  <2>5. y.step = "mail" => y.link \in 1..minted' BY <2>2, <2>4 DEF Visitor
  <2>6. Visitor(y)' BY <2>2, <2>3, <2>5 DEF Visitor
  <2> QED BY <2>1, <2>6 DEF Visitor, Known
<1> QED BY <1>1 DEF WaitInv

\* The job's list is kept or cut short.
LEMMA JobListStep ==
  ASSUME WaitInv, visit' = visit, EntriesOK', minted <= minted',
         \A b \in Addresses \cup {NoEntry} : \A r : Known(r, b) => Known(r, b)',
         toConvert' \in [Addresses -> EntryRow \cup {NoEntry}],
         \A b \in Addresses : \/ toConvert'[b] = toConvert[b] \/ toConvert'[b] = NoEntry
                              \/ /\ b \in Listed /\ toConvert'[b] = entry[b]
                                 /\ entry[b].status \in {"pending", "confirmed"}
  PROVE  WaitInv'
<1>1. visit' \in [Visits -> VisitRow] /\ \A v \in Visits : Visitor(visit[v])' BY VisitsStay
<1>2. ASSUME NEW b \in Addresses
      PROVE  Known(toConvert[b], b)' /\ (toConvert'[b] # NoEntry => toConvert'[b].status \in {"pending", "confirmed"})
  <2>1. PICK r : r = toConvert'[b] OBVIOUS
  <2>2. Known(r, b) /\ (r # NoEntry => r.status \in {"pending", "confirmed"})
    <3>1. CASE r = NoEntry BY <3>1 DEF Known
    <3>2. CASE r = toConvert[b] BY <3>2 DEF WaitInv
    <3>3. CASE b \in Listed /\ r = entry[b] /\ entry[b].status \in {"pending", "confirmed"}
      BY <3>3, RowsKnown
    <3> QED BY <2>1, <3>1, <3>2, <3>3
  <2>3. Known(r, b)' BY <2>2
  <2> QED BY <2>1, <2>2, <2>3 DEF Known
<1> QED BY <1>1, <1>2 DEF WaitInv

LEMMA ConfirmStep ==
  ASSUME WaitInv, NEW a \in Addresses, NEW link \in inbox, Confirm(a, link) PROVE WaitInv' /\ CancelMayGo
<1>1. /\ a \in Listed /\ entry[a].hash = link /\ entry[a].status = "pending"
      /\ entry' = [entry EXCEPT ![a].status = "confirmed"]
      /\ UNCHANGED <<rowsHad, minted, inbox, visit, toConvert>>
  BY DEF Confirm, MayConfirm, isPending
<1>2. /\ inbox \subseteq 1..minted /\ minted \in Links /\ link # 0 /\ link \in Links /\ link <= minted
      /\ minted <= minted
      /\ entry \in [Addresses -> EntryRow \cup {NoEntry}]
      /\ toConvert \in [Addresses -> EntryRow \cup {NoEntry}]
  BY WaitingListAssumption DEF WaitInv, EntriesOK, WaitTypeOK, Links
<1>3. entry[a] \in EntryRow /\ Rules(entry[a]) BY <1>1, RowsKnown DEF WaitInv, EntriesOK
<1>4. PICK row : row = [id |-> entry[a].id, status |-> "confirmed", optIn |-> entry[a].optIn,
                        hash |-> entry[a].hash]
  OBVIOUS
<1>5. entry' = [entry EXCEPT ![a] = row]
  <2>1. PICK e \in EntryRow : e = entry[a] BY <1>3
  <2>2. e = [id |-> e.id, status |-> e.status, optIn |-> e.optIn, hash |-> e.hash]
    BY <2>1 DEF EntryRow
  <2>3. PICK z : z = [e EXCEPT !.status = "confirmed"] OBVIOUS
  <2>4. z = row BY <1>4, <2>1, <2>2, <2>3
  <2>5. entry' = [entry EXCEPT ![a] = z] BY <1>1, <1>2, <2>1, <2>3
  <2> QED BY <2>4, <2>5
<1>6. row \in EntryRow BY <1>3, <1>4 DEF EntryRow, EntryStatuses
<1>7. row # NoEntry BY <1>6, WaitingListAssumption
<1>8. /\ row.id = entry[a].id /\ row.optIn = entry[a].optIn /\ row.hash = link
      /\ row.status = "confirmed"
  BY <1>1, <1>4
<1>9. Rules(row) /\ row.hash <= minted' BY <1>1, <1>2, <1>3, <1>8 DEF Rules
<1>10. EntriesOK' /\ \A b \in Addresses \cup {NoEntry} : \A r : Known(r, b) => Known(r, b)'
  BY <1>1, <1>2, <1>5, <1>6, <1>8, <1>9, StoreStep
<1>11. CancelMayGo BY <1>1, <1>2 DEF CancelMayGo, Listed
<1> QED BY <1>1, <1>2, <1>10, <1>11, JobListStep

LEMMA JobConvertsStep ==
  ASSUME WaitInv, NEW a \in Addresses, JobConverts(a) PROVE WaitInv' /\ CancelMayGo
<1>1. /\ toConvert[a] # NoEntry /\ MarkConverted(a, toConvert[a])
      /\ toConvert' = [toConvert EXCEPT ![a] = NoEntry]
      /\ UNCHANGED <<rowsHad, minted, inbox, visit>>
  BY DEF JobConverts
<1>2. PICK loaded : loaded = toConvert[a] OBVIOUS
<1>3. loaded \in EntryRow /\ Known(loaded, a) /\ loaded.status \in {"pending", "confirmed"}
  BY <1>1, <1>2 DEF WaitInv
<1>4. EntriesOK' /\ CancelMayGo /\ \A b \in Addresses \cup {NoEntry} : \A r : Known(r, b) => Known(r, b)'
  BY <1>1, <1>2, <1>3, ConvertSave
<1>5. minted <= minted' /\ toConvert \in [Addresses -> EntryRow \cup {NoEntry}]
  BY <1>1, WaitingListAssumption DEF WaitInv, EntriesOK, WaitTypeOK, Links
<1>6. /\ toConvert' \in [Addresses -> EntryRow \cup {NoEntry}]
      /\ \A b \in Addresses : toConvert'[b] = toConvert[b] \/ toConvert'[b] = NoEntry
  BY <1>1, <1>5
<1> QED BY <1>1, <1>4, <1>5, <1>6, JobListStep

LEMMA JobListSteps ==
  ASSUME WaitInv, JobReads \/ JobDies PROVE WaitInv' /\ CancelMayGo
<1>1. UNCHANGED <<entry, rowsHad, minted, inbox, visit>> BY DEF JobReads, JobDies
<1>2. inbox \subseteq 1..minted BY DEF WaitInv, EntriesOK, WaitTypeOK
<1>3. \A b \in Listed : b \in Addresses /\ entry[b] \in EntryRow BY RowsKnown
<1>4. CASE JobReads
  <2>1. PICK due : /\ due \subseteq {a \in Listed : entry[a].status \in {"pending", "confirmed"}}
                   /\ toConvert' = [a \in Addresses |-> IF a \in due THEN entry[a] ELSE NoEntry]
    BY <1>4 DEF JobReads, ToBeConverted
  <2>2. toConvert' \in [Addresses -> EntryRow \cup {NoEntry}] BY <1>3, <2>1
  <2>3. \A b \in Addresses :
          \/ toConvert'[b] = NoEntry
          \/ b \in Listed /\ toConvert'[b] = entry[b] /\ entry[b].status \in {"pending", "confirmed"}
    BY <2>1
  <2> QED BY <1>1, <1>2, <2>2, <2>3, NothingStored, JobListStep
<1>5. CASE JobDies
  <2>1. toConvert' \in [Addresses -> EntryRow \cup {NoEntry}] /\ \A b \in Addresses : toConvert'[b] = NoEntry
    BY <1>5 DEF JobDies
  <2> QED BY <1>1, <1>2, <2>1, NothingStored, JobListStep
<1> QED BY <1>4, <1>5

LEMMA AroundSteps ==
  ASSUME WaitInv,
         \/ \E a \in Addresses : AccountAppears(a)
         \/ \E link \in 1..minted : LinkExpires(link)
         \/ ChangeSetting \/ UNCHANGED waitVars
  PROVE  WaitInv' /\ CancelMayGo
<1>1. UNCHANGED <<entry, rowsHad, minted, inbox, visit, toConvert>>
  BY DEF AccountAppears, LinkExpires, ChangeSetting, waitVars
<1>2. inbox \subseteq 1..minted BY DEF WaitInv, EntriesOK, WaitTypeOK
<1>3. /\ EntriesOK' /\ CancelMayGo /\ minted <= minted'
      /\ \A b \in Addresses \cup {NoEntry} : \A r : Known(r, b) => Known(r, b)'
  BY <1>1, <1>2, NothingStored
<1>4. toConvert' \in [Addresses -> EntryRow \cup {NoEntry}] /\ \A b \in Addresses : toConvert'[b] = toConvert[b]
  BY <1>1 DEF WaitInv
<1> QED BY <1>1, <1>3, <1>4, JobListStep

LEMMA AccountErasedStep ==
  ASSUME WaitInv, NEW a \in Addresses, AccountErased(a) PROVE WaitInv' /\ CancelMayGo
<1>1. entry' = [entry EXCEPT ![a] = NoEntry] /\ UNCHANGED <<rowsHad, minted, inbox, visit, toConvert>>
  BY DEF AccountErased
<1>2. /\ inbox \subseteq 1..minted /\ minted \in Links /\ minted <= minted
      /\ entry \in [Addresses -> EntryRow \cup {NoEntry}]
      /\ toConvert \in [Addresses -> EntryRow \cup {NoEntry}]
  BY WaitingListAssumption DEF WaitInv, EntriesOK, WaitTypeOK, Links
<1>3. PICK row \in EntryRow \cup {NoEntry} : row = NoEntry OBVIOUS
<1>4. EntriesOK' /\ \A b \in Addresses \cup {NoEntry} : \A r : Known(r, b) => Known(r, b)'
  BY <1>1, <1>2, <1>3, StoreStep
<1>5. CancelMayGo BY <1>1, <1>2 DEF CancelMayGo, Listed
<1> QED BY <1>1, <1>2, <1>4, <1>5, JobListStep

LEMMA WaitInvStep == ASSUME WaitInv, doubleOptIn \in BOOLEAN, [WaitNext]_waitVars PROVE WaitInv' /\ CancelMayGo
<1>1. CASE UNCHANGED waitVars BY <1>1, AroundSteps
<1>2. ASSUME NEW v \in Visits,
             \/ CreateEntry(v) \/ MintLink(v) \/ MailLink(v)
             \/ Cancel(v) \/ Convert(v) \/ Resend(v) \/ Destroy(v)
      PROVE  WaitInv' /\ CancelMayGo
  BY <1>2, CreateEntryStep, MintLinkStep, MailLinkStep, CancelStep, ConvertStep, ResendStep, DestroyStep
<1>3. ASSUME NEW v \in Visits, NEW a \in Addresses,
             Join(v, a) \/ \E step \in {"cancel", "convert", "resend", "delete"} : OpenEntry(v, a, step)
      PROVE  WaitInv' /\ CancelMayGo
  BY <1>3, ComeSteps
<1>4. ASSUME NEW a \in Addresses, NEW link \in inbox, Confirm(a, link) PROVE WaitInv' /\ CancelMayGo
  BY <1>4, ConfirmStep
<1>5. ASSUME NEW a \in Addresses, JobConverts(a) \/ AccountErased(a) PROVE WaitInv' /\ CancelMayGo
  BY <1>5, JobConvertsStep, AccountErasedStep
<1>6. CASE JobReads \/ JobDies BY <1>6, JobListSteps
<1>7. CASE \/ \E a \in Addresses : AccountAppears(a)
           \/ \E link \in 1..minted : LinkExpires(link)
           \/ ChangeSetting
  BY <1>7, AroundSteps
<1> QED BY <1>1, <1>2, <1>3, <1>4, <1>5, <1>6, <1>7 DEF WaitNext

LEMMA WaitInvInit == WaitInit => WaitInv
<1> SUFFICES ASSUME WaitInit PROVE WaitInv OBVIOUS
<1>1. 0 \in Links /\ 0 \in 0..MaxRows BY WaitingListAssumption DEF Links
<1>2. Listed = {} BY DEF WaitInit, Listed
<1>3. EntriesOK BY <1>1, <1>2 DEF WaitInit, EntriesOK, WaitTypeOK
<1>4. visit \in [Visits -> VisitRow] /\ \A v \in Visits : Visitor(visit[v])
  <2>1. \A v \in Visits : visit[v] = AtTheDoor BY DEF WaitInit
  <2>2. visit = [v \in Visits |-> AtTheDoor] BY DEF WaitInit
  <2> QED BY <2>1, <2>2, AtTheDoorIsThere
<1>5. /\ toConvert \in [Addresses -> EntryRow \cup {NoEntry}]
      /\ \A a \in Addresses : toConvert[a] = NoEntry
  BY DEF WaitInit
<1> QED BY <1>3, <1>4, <1>5 DEF WaitInv, Known

\* WaitingListSafe: columns of their kinds, rows that keep the rules they
\* joined under, and a cancellation that stands (waiting_list_service.ts).
THEOREM WaitingListHolds == WaitSpec => WaitingListSafe
<1>0. WaitSpec => [](WaitInv /\ doubleOptIn \in BOOLEAN)
  <2>1. WaitInit => WaitInv /\ doubleOptIn \in BOOLEAN BY WaitInvInit DEF WaitInit
  <2>2. doubleOptIn \in BOOLEAN /\ [WaitNext]_waitVars => (doubleOptIn \in BOOLEAN)'
    BY DEF WaitNext, waitVars, CreateEntry, MintLink, MailLink, Cancel, Convert, Resend, Destroy, Join,
           OpenEntry, Confirm, JobConverts, AccountAppears, AccountErased, JobReads, JobDies, LinkExpires,
           ChangeSetting
  <2> QED BY <2>1, <2>2, WaitInvStep, PTL DEF WaitSpec
<1>1. WaitInv => WaitTypeOK /\ RulesOfTheDayItJoined
  BY DEF WaitInv, EntriesOK, RulesOfTheDayItJoined, Rules
<1>2. WaitSpec => [][CancelMayGo]_waitVars
  BY <1>0, WaitInvStep, PTL DEF WaitSpec
<1>3. [CancelMayGo]_waitVars =>
        [\A a \in Listed :
           entry[a].status = "cancelled" =>
             \/ entry'[a] = NoEntry
             \/ entry'[a].status = "cancelled" /\ entry'[a].id = entry[a].id
             \/ \E loaded \in {visit[v].loaded : v \in {w \in Visits :
                                 visit[w].step = "convert" /\ visit[w].on = a}}
                              \cup {toConvert[a]} :
                  loaded # NoEntry /\ loaded.id = entry[a].id
                  /\ loaded.status \in {"pending", "confirmed"}]_waitVars
  BY DEF CancelMayGo
<1>4. WaitSpec => CancelStands BY <1>2, <1>3, PTL DEF CancelStands
<1> QED BY <1>0, <1>1, <1>4, PTL DEF WaitingListSafe

-----------------------------------------------------------------------------
(* The figures. A sum is how many units it is of, so what is summed part   *)
(* by part is summed, and a workspace that has paid is one first payment.  *)

\* A set of numbers has a least, and if it is bounded a greatest.
LEMMA Least ==
  ASSUME NEW S \in SUBSET Nat, S # {}
  PROVE  \E m \in S : \A n \in S : m <= n
<1> DEFINE Less == {ss \in Nat \X Nat : ss[1] < ss[2]}
<1>1. IsWellFoundedOn(Less, Nat)
  <2>1. OpToRel(<, Nat) = Less BY Zenon DEF OpToRel
  <2> QED BY <2>1, NatLessThanWellFounded
<1>2. PICK m \in S : \A n \in S : <<n, m>> \notin Less
  <2> HIDE DEF Less
  <2> QED BY <1>1, WFMin
<1>3. ASSUME NEW n \in S PROVE m <= n
  <2>1. m \in Nat /\ n \in Nat BY <1>2
  <2>2. n < m => <<n, m>> \in Less BY <2>1
  <2> HIDE DEF Less
  <2>3. ~(n < m) BY <1>2, <2>2
  <2> QED BY <2>1, <2>3
<1> QED BY <1>2, <1>3

LEMMA Greatest ==
  ASSUME NEW S \in SUBSET Nat, S # {}, NEW b \in Nat, \A x \in S : x <= b
  PROVE  \E m \in S : \A n \in S : n <= m
<1> DEFINE Bounds == {n \in Nat : \A x \in S : x <= n}
<1>1. PICK m \in Bounds : \A n \in Bounds : m <= n
  <2>1. b \in Bounds OBVIOUS
  <2>2. Bounds \in SUBSET Nat OBVIOUS
  <2> HIDE DEF Bounds
  <2> QED BY <2>1, <2>2, Least
<1>2. m \in Nat /\ \A x \in S : x \in Nat /\ x <= m OBVIOUS
<1>3. m \in S
  <2> SUFFICES ASSUME m \notin S PROVE FALSE OBVIOUS
  <2>1. \A x \in S : x <= m - 1 BY <1>2
  <2>2. m - 1 \in Nat
    <3>1. PICK x \in S : x \in Nat /\ x <= m - 1 BY <1>2, <2>1
    <3>2. m # 0 BY <1>2, <3>1
    <3> QED BY <1>2, <3>2
  <2>3. m - 1 \in Bounds BY <2>1, <2>2
  <2> QED BY <1>1, <1>2, <2>3
<1> QED BY <1>2, <1>3

\* What rounding down leaves.
LEMMA Quotient ==
  ASSUME NEW n \in Nat, NEW d \in Nat \ {0}
  PROVE  /\ n \div d \in Nat
         /\ d * (n \div d) <= n /\ n < d * (n \div d) + d
BY Z3

-----------------------------------------------------------------------------
(* Sums.                                                                   *)

Sum(c, R) == Total([k \in R |-> c[k]])
Units(f) == UNION {{x} \X (1..f[x]) : x \in DOMAIN f}

LEMMA UnitsAre ==
  ASSUME NEW f, NEW u
  PROVE  u \in Units(f) <=> \E x \in DOMAIN f : \E i \in 1..f[x] : u = <<x, i>>
BY DEF Units

\* They can be counted, and the sum is how many they are.
LEMMA UnitsFinite ==
  ASSUME NEW D, IsFiniteSet(D), NEW f, DOMAIN f = D, \A x \in D : f[x] \in Nat
  PROVE  IsFiniteSet(Units(f)) /\ Total(f) = Cardinality(Units(f)) /\ Total(f) \in Nat
<1> DEFINE part == [x \in D |-> {x} \X (1..f[x])]
           parts == {{x} \X (1..f[x]) : x \in D}
<1>1. part \in Surjection(D, parts) BY DEF Surjection
<1>2. IsFiniteSet(parts)
  <2> HIDE DEF part, parts
  <2> QED BY <1>1, FS_Surjection
<1>3. ASSUME NEW p \in parts PROVE IsFiniteSet(p)
  <2>1. PICK x \in D : p = {x} \X (1..f[x]) OBVIOUS
  <2>2. IsFiniteSet(1..f[x]) BY FS_Interval
  <2>3. IsFiniteSet({x}) BY FS_Singleton
  <2> QED BY <2>1, <2>2, <2>3, FS_Product
<1>4. IsFiniteSet(UNION parts)
  <2> HIDE DEF parts
  <2> QED BY <1>2, <1>3, FS_UNION
<1>5. Units(f) = UNION parts BY DEF Units
<1>6. Total(f) = Cardinality(Units(f)) BY DEF Total, Units
<1> QED BY <1>4, <1>5, <1>6, FS_CardinalityType

\* The sizes of sets that have nothing in common add up.
LEMMA PartsAddUp ==
  ASSUME NEW D, IsFiniteSet(D), NEW P, \A d \in D : IsFiniteSet(P[d]),
         \A c, d \in D : c # d => P[c] \cap P[d] = {},
         NEW f, DOMAIN f = D, \A d \in D : f[d] = Cardinality(P[d])
  PROVE  Total(f) = Cardinality(UNION {P[d] : d \in D})
<1> DEFINE U == UNION {P[d] : d \in D}
<1>1. \A d \in D : f[d] \in Nat /\ ExistsBijection(1..f[d], P[d]) BY FS_CardinalityType
<1>2. IsFiniteSet(Units(f)) /\ Total(f) = Cardinality(Units(f)) BY <1>1, UnitsFinite
<1>3. PICK g : g = [d \in D |-> CHOOSE h : h \in Bijection(1..f[d], P[d])] OBVIOUS
<1>4. ASSUME NEW d \in D PROVE g[d] \in Bijection(1..f[d], P[d])
  BY <1>1, <1>3 DEF ExistsBijection
<1>5. ASSUME NEW d \in D
      PROVE  /\ \A i \in 1..f[d] : g[d][i] \in P[d]
             /\ \A i, j \in 1..f[d] : g[d][i] = g[d][j] => i = j
             /\ \A e \in P[d] : \E i \in 1..f[d] : g[d][i] = e
  <2>1. g[d] \in [1..f[d] -> P[d]] BY <1>4 DEF Bijection, Injection
  <2>2. IsInjective(g[d]) BY <1>4 DEF Bijection, Injection
  <2>3. \A e \in P[d] : \E i \in 1..f[d] : g[d][i] = e BY <1>4 DEF Bijection, Surjection
  <2>4. DOMAIN g[d] = 1..f[d] BY <2>1
  <2> QED BY <2>1, <2>2, <2>3, <2>4 DEF IsInjective
<1>6. PICK F : F = [u \in Units(f) |-> g[u[1]][u[2]]] OBVIOUS
<1>7. ASSUME NEW u \in Units(f)
      PROVE  u[1] \in D /\ u[2] \in 1..f[u[1]] /\ u = <<u[1], u[2]>> /\ F[u] \in P[u[1]]
  <2>1. PICK d \in D : \E i \in 1..f[d] : u = <<d, i>> BY UnitsAre
  <2> QED BY <1>5, <1>6, <2>1
<1>8. F \in [Units(f) -> U] BY <1>6, <1>7
<1>9. ASSUME NEW u \in Units(f), NEW v \in Units(f), F[u] = F[v] PROVE u = v
  <2>1. u[1] = v[1] BY <1>7, <1>9
  <2>2. u[2] = v[2] BY <1>5, <1>6, <1>7, <1>9, <2>1
  <2> QED BY <1>7, <2>1, <2>2
<1>10. ASSUME NEW e \in U PROVE \E u \in Units(f) : F[u] = e
  <2>1. PICK d \in D : e \in P[d] OBVIOUS
  <2>2. PICK i \in 1..f[d] : g[d][i] = e BY <1>5, <2>1
  <2>3. <<d, i>> \in Units(f) BY <2>2, UnitsAre
  <2> QED BY <1>6, <2>2, <2>3
<1>11. F \in Bijection(Units(f), U) 
  <2> HIDE DEF U
  <2>1. DOMAIN F = Units(f) BY <1>6
  <2>2. IsInjective(F) BY <1>9, <2>1 DEF IsInjective
  <2>3. F \in Injection(Units(f), U) BY <1>8, <2>2 DEF Injection
  <2>4. F \in Surjection(Units(f), U) BY <1>8, <1>10 DEF Surjection
  <2> QED BY <2>3, <2>4 DEF Bijection
<1>12. ExistsBijection(Units(f), U) BY <1>11 DEF ExistsBijection
<1> QED
  <2> HIDE DEF U
  <2> SUFFICES Total(f) = Cardinality(U) BY DEF U
  <2> QED BY <1>2, <1>12, FS_Bijection

\* What is summed part by part is summed.
LEMMA SumsAddUp ==
  ASSUME NEW K, IsFiniteSet(K), NEW c \in [K -> Nat],
         NEW D, IsFiniteSet(D), NEW R \in [D -> SUBSET K],
         \A d, e \in D : d # e => R[d] \cap R[e] = {},
         NEW f, DOMAIN f = D, \A d \in D : f[d] = Sum(c, R[d]),
         NEW S, S = UNION {R[d] : d \in D}
  PROVE  Total(f) = Sum(c, S)
<1> DEFINE of(T) == [k \in T |-> c[k]]
<1>1. ASSUME NEW T \in SUBSET K
      PROVE  /\ IsFiniteSet(Units(of(T))) /\ Total(of(T)) = Cardinality(Units(of(T)))
             /\ \A u : u \in Units(of(T)) <=> \E k \in T : \E i \in 1..c[k] : u = <<k, i>>
  <2>1. IsFiniteSet(T) BY FS_Subset
  <2>2. DOMAIN of(T) = T /\ \A k \in T : of(T)[k] = c[k] /\ of(T)[k] \in Nat OBVIOUS
  <2>3. PICK h : h = of(T) OBVIOUS
  <2> HIDE DEF of
  <2>4. IsFiniteSet(Units(h)) /\ Total(h) = Cardinality(Units(h))
    BY <2>1, <2>2, <2>3, UnitsFinite
  <2>5. \A u : u \in Units(h) <=> \E k \in T : \E i \in 1..c[k] : u = <<k, i>>
    BY <2>2, <2>3, UnitsAre
  <2> QED BY <2>3, <2>4, <2>5
<1>2. PICK P : P = [d \in D |-> Units(of(R[d]))] OBVIOUS
<1>3. \A d \in D : IsFiniteSet(P[d]) /\ f[d] = Cardinality(P[d]) BY <1>1, <1>2 DEF Sum
<1>4. ASSUME NEW d \in D, NEW e \in D, d # e PROVE P[d] \cap P[e] = {}
  <2> SUFFICES ASSUME NEW u, u \in P[d], u \in P[e] PROVE FALSE OBVIOUS
  <2> HIDE DEF of
  <2>1. PICK k \in R[d] : \E i \in 1..c[k] : u = <<k, i>> BY <1>1, <1>2
  <2>2. PICK j \in R[e] : \E i \in 1..c[j] : u = <<j, i>> BY <1>1, <1>2
  <2>3. k = j BY <2>1, <2>2
  <2> QED BY <1>4, <2>1, <2>2, <2>3
<1>5. Total(f) = Cardinality(UNION {P[d] : d \in D}) BY <1>3, <1>4, PartsAddUp
<1>6. S \in SUBSET K OBVIOUS
<1>7. UNION {P[d] : d \in D} = Units(of(S))
  <2> HIDE DEF of
  <2>1. ASSUME NEW u, u \in UNION {P[d] : d \in D} PROVE u \in Units(of(S))
    <3>1. PICK d \in D : u \in P[d] BY <2>1
    <3>2. PICK k \in R[d] : \E i \in 1..c[k] : u = <<k, i>> BY <1>1, <1>2, <3>1
    <3> QED BY <1>1, <1>6, <3>2
  <2>2. ASSUME NEW u, u \in Units(of(S)) PROVE u \in UNION {P[d] : d \in D}
    <3>1. PICK k \in S : \E i \in 1..c[k] : u = <<k, i>> BY <1>1, <1>6, <2>2
    <3>2. PICK d \in D : k \in R[d] BY <3>1
    <3>3. u \in P[d] BY <1>1, <1>2, <3>1, <3>2
    <3> QED BY <3>3
  <2> QED BY <2>1, <2>2
<1> QED BY <1>1, <1>5, <1>6, <1>7 DEF Sum

\* A sum over two sets that have nothing in common.
LEMMA TwoSums ==
  ASSUME NEW K, IsFiniteSet(K), NEW c \in [K -> Nat],
         NEW S \in SUBSET K, NEW T \in SUBSET K, S \cap T = {}
  PROVE  Sum(c, S) \in Nat /\ Sum(c, T) \in Nat /\ Sum(c, S \cup T) = Sum(c, S) + Sum(c, T)
<1>1. PICK s, t, b : /\ s = [k \in S |-> c[k]] /\ t = [k \in T |-> c[k]]
                     /\ b = [k \in S \cup T |-> c[k]]
  OBVIOUS
<1>2. IsFiniteSet(S) /\ IsFiniteSet(T) /\ IsFiniteSet(S \cup T) BY FS_Subset, FS_Union
<1>3. /\ DOMAIN s = S /\ \A k \in S : s[k] = c[k] /\ s[k] \in Nat
      /\ DOMAIN t = T /\ \A k \in T : t[k] = c[k] /\ t[k] \in Nat
      /\ DOMAIN b = S \cup T /\ \A k \in S \cup T : b[k] = c[k] /\ b[k] \in Nat
  BY <1>1
<1>4. IsFiniteSet(Units(s)) /\ Total(s) = Cardinality(Units(s)) /\ Total(s) \in Nat
  BY <1>2, <1>3, UnitsFinite
<1>5. IsFiniteSet(Units(t)) /\ Total(t) = Cardinality(Units(t)) /\ Total(t) \in Nat
  BY <1>2, <1>3, UnitsFinite
<1>6. IsFiniteSet(Units(b)) /\ Total(b) = Cardinality(Units(b)) /\ Total(b) \in Nat
  BY <1>2, <1>3, UnitsFinite
<1>7. Units(b) = Units(s) \cup Units(t)
  <2>1. \A u : u \in Units(b) <=> u \in Units(s) \/ u \in Units(t)
    BY <1>3, UnitsAre
  <2> QED BY <2>1
<1>8. Units(s) \cap Units(t) = {}
  <2> SUFFICES ASSUME NEW u, u \in Units(s), u \in Units(t) PROVE FALSE OBVIOUS
  <2>1. PICK k \in S : \E i \in 1..s[k] : u = <<k, i>> BY <1>3, UnitsAre
  <2>2. PICK j \in T : \E i \in 1..t[j] : u = <<j, i>> BY <1>3, UnitsAre
  <2> QED BY <2>1, <2>2
<1>9. Total(b) = Total(s) + Total(t)
  <2>1. PICK n, m, o \in Nat :
          n = Cardinality(Units(s)) /\ m = Cardinality(Units(t)) /\ o = Cardinality(Units(b))
    BY <1>4, <1>5, <1>6
  <2>2. Cardinality(Units(s) \cup Units(t))
          = Cardinality(Units(s)) + Cardinality(Units(t)) - Cardinality(Units(s) \cap Units(t))
    BY <1>4, <1>5, FS_Union
  <2>3. Cardinality(Units(s) \cap Units(t)) = 0 BY <1>8, FS_EmptySet
  <2>4. o = n + m - 0 BY <1>7, <2>1, <2>2, <2>3
  <2> QED BY <1>4, <1>5, <1>6, <2>1, <2>4
<1> QED BY <1>1, <1>4, <1>5, <1>9 DEF Sum

-----------------------------------------------------------------------------
(* The axis.                                                               *)

Powers(f, n) == f \in [0..n -> Nat] /\ f[0] = 1 /\ \A i \in 1..n : f[i] = 10 * f[i - 1]

\* The powers of ten are there, up to any number and so for all of them.
LEMMA PowersAgree ==
  ASSUME NEW n \in Nat, NEW f, Powers(f, n), NEW m \in Nat, NEW g, Powers(g, m), n <= m
  PROVE  \A i \in 0..n : f[i] = g[i]
<1> DEFINE S == {i \in 0..n : f[i] # g[i]}
<1> SUFFICES ASSUME S # {} PROVE FALSE OBVIOUS
<1>1. PICK i \in S : \A j \in S : i <= j
  <2>1. S \in SUBSET Nat OBVIOUS
  <2> HIDE DEF S
  <2> QED BY <2>1, Least
<1>2. i \in Nat /\ i \in 0..n /\ f[i] # g[i] BY <1>1
<1>3. i # 0 BY <1>2 DEF Powers
<1>4. i - 1 \in 0..n /\ i \in 1..n /\ i \in 1..m BY <1>2, <1>3
<1>5. i - 1 \notin S BY <1>1, <1>2
<1>6. f[i - 1] = g[i - 1] BY <1>4, <1>5
<1>7. f[i] = 10 * f[i - 1] /\ g[i] = 10 * g[i - 1] BY <1>4 DEF Powers
<1> QED BY <1>2, <1>6, <1>7

LEMMA PowersExist ==
  ASSUME NEW n \in Nat
  PROVE  \E f : Powers(f, n)
<1> DEFINE S == {i \in Nat : ~\E f : Powers(f, i)}
<1> SUFFICES ASSUME S # {} PROVE FALSE OBVIOUS
<1>1. PICK i \in S : \A j \in S : i <= j
  <2>1. S \in SUBSET Nat OBVIOUS
  <2> HIDE DEF S
  <2> QED BY <2>1, Least
<1>2. i \in Nat /\ ~\E f : Powers(f, i) BY <1>1
<1>3. i # 0
  <2>1. Powers([j \in 0..0 |-> 1], 0) BY DEF Powers
  <2> QED BY <1>2, <2>1
<1>4. i - 1 \in Nat /\ i - 1 \notin S BY <1>1, <1>2, <1>3
<1>5. PICK f : Powers(f, i - 1) BY <1>4
<1>6. PICK g : g = [j \in 0..i |-> IF j = i THEN 10 * f[i - 1] ELSE f[j]] OBVIOUS
<1>7. f \in [0..(i - 1) -> Nat] /\ f[0] = 1 /\ \A j \in 1..(i - 1) : f[j] = 10 * f[j - 1]
  BY <1>5 DEF Powers
<1>8. f[i - 1] \in Nat BY <1>4, <1>7
<1>9. \A j \in 0..(i - 1) : g[j] = f[j] /\ g[j] \in Nat BY <1>2, <1>6, <1>7
<1>10. g[i] = 10 * f[i - 1] /\ g[i] \in Nat BY <1>2, <1>6, <1>8
<1>11. g \in [0..i -> Nat]
  <2>1. \A j \in 0..i : g[j] \in Nat
    <3> SUFFICES ASSUME NEW j \in 0..i PROVE g[j] \in Nat OBVIOUS
    <3>1. j = i \/ j \in 0..(i - 1) BY <1>2
    <3> QED BY <1>9, <1>10, <3>1
  <2> QED BY <1>6, <2>1
<1>12. g[0] = 1 BY <1>4, <1>7, <1>9
<1>13. ASSUME NEW j \in 1..i PROVE g[j] = 10 * g[j - 1]
  <2>1. CASE j = i
    <3>1. g[j - 1] = f[i - 1] BY <1>4, <1>9, <2>1
    <3> QED BY <1>10, <2>1, <3>1
  <2>2. CASE j # i
    <3>1. j \in 1..(i - 1) /\ j - 1 \in 0..(i - 1) /\ j \in 0..(i - 1) BY <1>2, <2>2
    <3> QED BY <1>7, <1>9, <3>1
  <2> QED BY <2>1, <2>2
<1>14. Powers(g, i) BY <1>11, <1>12, <1>13 DEF Powers
<1> QED BY <1>2, <1>14

LEMMA TenTo ==
  /\ tenTo \in [Nat -> Nat] /\ tenTo[0] = 1
  /\ \A n \in Nat : tenTo[n + 1] = 10 * tenTo[n]
<1> DEFINE To(n) == CHOOSE f : Powers(f, n)
<1>1. PICK F : F = [n \in Nat |-> To(n)[n]] OBVIOUS
<1>2. \A n \in Nat : Powers(To(n), n) BY PowersExist
<1> HIDE DEF To
<1>3. ASSUME NEW n \in Nat PROVE F[n] \in Nat BY <1>1, <1>2 DEF Powers
<1>4. F[0] = 1
  <2>1. To(0)[0] = 1 BY <1>2 DEF Powers
  <2> QED BY <1>1, <2>1
<1>5. ASSUME NEW n \in Nat PROVE F[n + 1] = 10 * F[n]
  <2>1. Powers(To(n), n) /\ Powers(To(n + 1), n + 1) BY <1>2
  <2>2. \A i \in 0..n : To(n)[i] = To(n + 1)[i] BY <2>1, PowersAgree
  <2>3. To(n)[n] = To(n + 1)[n] BY <2>2
  <2>4. n + 1 \in 1..(n + 1) /\ (n + 1) - 1 = n OBVIOUS
  <2>5. To(n + 1)[n + 1] = 10 * To(n + 1)[n] BY <2>1, <2>4 DEF Powers
  <2> QED BY <1>1, <2>3, <2>5
<1>6. F = [n \in Nat |-> IF n = 0 THEN 1 ELSE 10 * F[n - 1]]
  <2>1. ASSUME NEW n \in Nat PROVE F[n] = IF n = 0 THEN 1 ELSE 10 * F[n - 1]
    <3>1. CASE n = 0 BY <1>4, <3>1
    <3>2. CASE n # 0
      <4>1. n - 1 \in Nat /\ (n - 1) + 1 = n BY <3>2
      <4>2. F[(n - 1) + 1] = 10 * F[n - 1] BY <1>5, <4>1
      <4> QED BY <3>2, <4>1, <4>2
    <3> QED BY <3>1, <3>2
  <2> QED BY <1>1, <2>1
<1>7. tenTo = [n \in Nat |-> IF n = 0 THEN 1 ELSE 10 * tenTo[n - 1]]
  BY <1>6, Zenon DEF tenTo
<1>8. PICK T : T = tenTo OBVIOUS
<1>9. T = [n \in Nat |-> IF n = 0 THEN 1 ELSE 10 * T[n - 1]] BY <1>7, <1>8, Zenon
<1>10. T[0] = 1 BY <1>9
<1>11. ASSUME NEW n \in Nat PROVE T[n + 1] = 10 * T[n]
  <2>1. n + 1 \in Nat /\ n + 1 # 0 /\ (n + 1) - 1 = n OBVIOUS
  <2> QED BY <1>9, <2>1
<1>12. \A n \in Nat : T[n] \in Nat
  <2> DEFINE S == {n \in Nat : T[n] \notin Nat}
  <2> SUFFICES ASSUME S # {} PROVE FALSE OBVIOUS
  <2>1. PICK i \in S : \A j \in S : i <= j
    <3>1. S \in SUBSET Nat OBVIOUS
    <3> HIDE DEF S
    <3> QED BY <3>1, Least
  <2>2. i \in Nat /\ T[i] \notin Nat BY <2>1
  <2>3. i # 0 BY <1>10, <2>2
  <2>4. i - 1 \in Nat /\ (i - 1) + 1 = i BY <2>2, <2>3
  <2>5. i - 1 \notin S BY <2>1, <2>2
  <2>6. T[i - 1] \in Nat BY <2>4, <2>5
  <2>7. T[i] = 10 * T[i - 1] BY <1>11, <2>4
  <2> QED BY <2>2, <2>6, <2>7
<1>13. T \in [Nat -> Nat] BY <1>9, <1>12
<1> QED BY <1>8, <1>10, <1>11, <1>13

LEMMA TenToGrows ==
  /\ \A n \in Nat : n < tenTo[n] /\ tenTo[n] \in Nat
  /\ \A n, m \in Nat : n <= m => tenTo[n] <= tenTo[m]
<1>1. PICK T : T = tenTo OBVIOUS
<1>2. /\ \A n \in Nat : T[n] \in Nat
      /\ T[0] = 1 /\ \A n \in Nat : T[n + 1] = 10 * T[n]
  BY <1>1, TenTo
<1>3. ASSUME NEW n \in Nat PROVE n < T[n]
  <2> DEFINE S == {i \in Nat : ~(i < T[i])}
  <2> SUFFICES ASSUME S # {} PROVE FALSE OBVIOUS
  <2>1. PICK i \in S : \A j \in S : i <= j
    <3>1. S \in SUBSET Nat OBVIOUS
    <3> HIDE DEF S
    <3> QED BY <3>1, Least
  <2>2. i \in Nat /\ ~(i < T[i]) BY <2>1
  <2>3. i # 0 BY <1>2, <2>2
  <2>4. i - 1 \in Nat /\ (i - 1) + 1 = i BY <2>2, <2>3
  <2>5. i - 1 \notin S BY <2>1, <2>2
  <2>6. i - 1 < T[i - 1] /\ T[i - 1] \in Nat BY <1>2, <2>4, <2>5
  <2>7. PICK t \in Nat : t = T[i - 1] BY <2>6
  <2>8. T[i] = 10 * t /\ i - 1 < t BY <1>2, <2>4, <2>6, <2>7
  <2>9. i <= t /\ t < 10 * t BY <2>2, <2>4, <2>8
  <2> HIDE DEF S
  <2> QED BY <2>2, <2>8, <2>9
<1>4. ASSUME NEW n \in Nat, NEW m \in Nat, n <= m PROVE T[n] <= T[m]
  <2> DEFINE S == {i \in Nat : n <= i /\ ~(T[n] <= T[i])}
  <2> SUFFICES ASSUME S # {} PROVE FALSE BY <1>4
  <2>1. PICK i \in S : \A j \in S : i <= j
    <3>1. S \in SUBSET Nat OBVIOUS
    <3> HIDE DEF S
    <3> QED BY <3>1, Least
  <2>2. i \in Nat /\ n <= i /\ ~(T[n] <= T[i]) BY <2>1
  <2>3. i # n BY <1>2, <2>2
  <2>4. i - 1 \in Nat /\ (i - 1) + 1 = i /\ n <= i - 1 BY <2>2, <2>3
  <2>5. i - 1 \notin S BY <2>1, <2>2
  <2>6. T[n] <= T[i - 1] /\ T[i - 1] \in Nat /\ T[n] \in Nat BY <1>2, <2>4, <2>5
  <2>7. T[i] = 10 * T[i - 1] BY <1>2, <2>4
  <2> QED BY <2>2, <2>6, <2>7
<1> QED BY <1>1, <1>2, <1>3, <1>4

\* The power of ten below an amount.
LEMMA MagnitudeIs ==
  ASSUME NEW r \in Nat, r > 0
  PROVE  \E n \in Nat : /\ Magnitude(r) = tenTo[n] /\ tenTo[n] \in Nat /\ tenTo[n] > 0
                        /\ tenTo[n] <= r /\ r < 10 * tenTo[n]
<1>1. PICK T : T = tenTo OBVIOUS
<1>2. /\ \A n \in Nat : T[n] \in Nat /\ T[n + 1] = 10 * T[n] /\ n < T[n]
      /\ T[0] = 1
  BY <1>1, TenTo, TenToGrows
<1> DEFINE S == {n \in Nat : r < T[n + 1]}
<1>3. PICK n \in S : \A m \in S : n <= m
  <2>1. r + 1 \in Nat /\ r + 1 < T[r + 1] /\ T[r + 1] \in Nat BY <1>2
  <2>2. r \in S BY <2>1
  <2>3. S \in SUBSET Nat OBVIOUS
  <2> HIDE DEF S
  <2> QED BY <2>2, <2>3, Least
<1>4. n \in Nat /\ r < T[n + 1] BY <1>3
<1>5. n \in 0..r
  <2>1. r + 1 \in Nat /\ r + 1 < T[r + 1] /\ T[r + 1] \in Nat BY <1>2
  <2>2. r \in S BY <2>1
  <2> QED BY <1>3, <1>4, <2>2
<1>6. T[n] <= r
  <2>1. CASE n = 0 BY <1>2, <2>1
  <2>2. CASE n # 0
    <3>1. n - 1 \in Nat /\ (n - 1) + 1 = n BY <1>4, <2>2
    <3>2. n - 1 \notin S BY <1>3, <1>4
    <3>3. ~(r < T[n]) BY <3>1, <3>2
    <3> QED BY <1>2, <1>4, <3>3
  <2> QED BY <2>1, <2>2
<1> DEFINE k == CHOOSE i \in 0..r : T[i] <= r /\ r < T[i + 1]
<1>7. k \in 0..r /\ T[k] <= r /\ r < T[k + 1]
  <2>1. \E i \in 0..r : T[i] <= r /\ r < T[i + 1] BY <1>4, <1>5, <1>6
  <2> QED BY <2>1
<1>8. Magnitude(r) = T[k] BY <1>1 DEF Magnitude
<1> HIDE DEF k
<1>9. k \in Nat BY <1>7
<1>10. T[k] \in Nat /\ T[k] > 0 /\ T[k + 1] = 10 * T[k] BY <1>2, <1>9
<1> QED BY <1>1, <1>7, <1>8, <1>9, <1>10

\* The step of the axis: what it clears, and that it is the least that does.
LEMMA StepIs ==
  ASSUME NEW rough \in Nat, rough >= 10
  PROVE  \E p \in Nat, u \in Nat, c \in {2, 4, 5, 10, 20} :
           /\ u = tenTo[p] /\ u > 0 /\ StepFor(rough) = 5 * u * c
           /\ rough <= 5 * u * c /\ 10 * u <= rough /\ rough < 100 * u
           /\ \A d \in {2, 4, 5, 10, 20} : rough <= 5 * u * d => 5 * u * c <= 5 * u * d
<1>1. PICK n \in Nat : /\ Magnitude(rough) = tenTo[n] /\ tenTo[n] \in Nat /\ tenTo[n] > 0
                       /\ tenTo[n] <= rough /\ rough < 10 * tenTo[n]
  BY MagnitudeIs
<1>2. n # 0 BY <1>1, TenTo
<1>3. PICK p \in Nat : n = p + 1
  <2>1. n - 1 \in Nat /\ n = (n - 1) + 1 BY <1>2
  <2> QED BY <2>1
<1>4. PICK u \in Nat : u = tenTo[p] BY TenToGrows
<1>5. tenTo[n] = 10 * u BY <1>3, <1>4, TenTo
<1>6. u > 0 /\ 10 * u <= rough /\ rough < 100 * u BY <1>1, <1>5
<1>7. Magnitude(rough) \div 2 = 5 * u BY <1>1, <1>5, Z3
<1> DEFINE S == {halves \in {2, 4, 5, 10, 20} : rough <= halves * (5 * u)}
<1>8. Min(S) \in S /\ \A d \in S : Min(S) <= d
  <2>1. 20 \in S BY <1>6
  <2>2. S \in SUBSET Nat OBVIOUS
  <2>3. \E m \in S : \A d \in S : m <= d
    <3> HIDE DEF S
    <3> QED BY <2>1, <2>2, Least
  <2> HIDE DEF S
  <2> QED BY <2>3 DEF Min
<1>9. StepFor(rough) = (5 * u) * Min(S) BY <1>7 DEF StepFor
<1> HIDE DEF S
<1>10. PICK c : c = Min(S) OBVIOUS
<1>11. c \in {2, 4, 5, 10, 20} /\ rough <= c * (5 * u) BY <1>8, <1>10 DEF S
<1>12. \A d \in {2, 4, 5, 10, 20} : rough <= d * (5 * u) => c <= d BY <1>8, <1>10 DEF S
<1>13. StepFor(rough) = 5 * u * c BY <1>9, <1>10
<1>14. rough <= 5 * u * c BY <1>11
<1>15. ASSUME NEW d \in {2, 4, 5, 10, 20}, rough <= 5 * u * d PROVE 5 * u * c <= 5 * u * d
  <2>1. rough <= d * (5 * u) BY <1>15
  <2>2. c <= d BY <1>12, <2>1
  <2> QED BY <1>11, <2>2
<1> QED BY <1>4, <1>6, <1>11, <1>13, <1>14, <1>15

\* axisCeiling is no less than it must be, and no round axis that does is lower.
LEMMA AxisClears ==
  ASSUME NEW highest \in Nat
  PROVE  /\ axisCeiling(highest) \in Nat /\ highest <= axisCeiling(highest)
         /\ \A r \in 1..highest :
              Round(r) /\ CHART_RULES * r >= highest => axisCeiling(highest) <= CHART_RULES * r
<1>1. CASE highest = 0 BY <1>1 DEF axisCeiling
<1>2. CASE highest > 0
  <2>1. (100 * highest) \div CHART_RULES = 25 * highest BY Z3 DEF CHART_RULES
  <2>2. PICK rough \in Nat : rough = 25 * highest OBVIOUS
  <2>3. rough >= 10 BY <1>2, <2>2
  <2>4. PICK p \in Nat, u \in Nat, c \in {2, 4, 5, 10, 20} :
          /\ u = tenTo[p] /\ u > 0 /\ StepFor(rough) = 5 * u * c
          /\ rough <= 5 * u * c /\ 10 * u <= rough /\ rough < 100 * u
          /\ \A d \in {2, 4, 5, 10, 20} : rough <= 5 * u * d => 5 * u * c <= 5 * u * d
    BY <2>3, StepIs
  <2>5. PICK step \in Nat : step = 5 * u * c /\ step = StepFor(rough) BY <2>4
  <2>6. PICK q \in Nat : /\ q = (step + 99) \div 100
                         /\ 100 * q <= step + 99 /\ step + 99 < 100 * q + 100
    <3>1. step + 99 \in Nat /\ 100 \in Nat \ {0} OBVIOUS
    <3> QED BY <3>1, Quotient
  <2>7. axisCeiling(highest) = q * 4
    BY <1>2, <2>1, <2>2, <2>5, <2>6 DEF axisCeiling, CHART_RULES
  <2>8. highest <= q * 4 BY <2>2, <2>4, <2>5, <2>6
  <2>9. ASSUME NEW r \in 1..highest, Round(r), CHART_RULES * r >= highest
        PROVE  q * 4 <= CHART_RULES * r
    <3>1. r \in Nat /\ r > 0 /\ 4 * r >= highest BY <2>9 DEF CHART_RULES
    <3>2. PICK k \in Nat : /\ Magnitude(r) = tenTo[k] /\ tenTo[k] \in Nat /\ tenTo[k] > 0
                           /\ tenTo[k] <= r /\ r < 10 * tenTo[k]
      BY <3>1, MagnitudeIs
    <3>3. PICK t \in Nat : t = tenTo[k] BY <3>2
    <3>4. r \in {t, 2 * t, 5 * t} BY <2>9, <3>2, <3>3 DEF Round
    <3>5. tenTo[k + 1] = 10 * t /\ tenTo[k + 2] = 100 * t
      <4>1. k + 1 \in Nat /\ (k + 1) + 1 = k + 2 OBVIOUS
      <4> QED BY <3>3, <4>1, TenTo
    <3>6. 100 * r >= rough BY <2>2, <3>1
    <3>7. step <= 100 * r
      <4>1. CASE k + 2 <= p
        <5>1. 100 * t <= u
          <6>1. k + 2 \in Nat OBVIOUS
          <6>2. tenTo[k + 2] <= tenTo[p] BY <4>1, <6>1, TenToGrows
          <6> QED BY <2>4, <3>5, <6>2
        <5> QED BY <2>4, <3>4, <3>6, <5>1
      <4>2. CASE k + 2 = p + 1
        <5>1. k + 1 = p BY <4>2
        <5>2. 100 * t = 10 * u BY <2>4, <3>5, <5>1
        <5>3. 100 * r \in {5 * u * 2, 5 * u * 4, 5 * u * 10} BY <3>4, <5>2
        <5> QED BY <2>4, <2>5, <3>6, <5>3
      <4>3. CASE k + 2 >= p + 2
        <5>1. u <= t BY <2>4, <3>3, <4>3, TenToGrows
        <5>2. step <= 100 * u BY <2>4, <2>5
        <5> QED BY <3>4, <5>1, <5>2
      <4> QED BY <4>1, <4>2, <4>3
    <3>8. q <= r BY <2>6, <3>1, <3>7
    <3> QED BY <3>1, <3>8 DEF CHART_RULES
  <2> QED BY <2>7, <2>8, <2>9
<1> QED BY <1>1, <1>2

-----------------------------------------------------------------------------
(* The rows.                                                               *)

ChargeRow ==
  [shop : Shops, subscribed : BOOLEAN, code : CurrencyCodes, cents : Nat, refunded : Nat,
   disputed : BOOLEAN, at : Nat]
ShopRow == [createdAt : Nat \cup {Never}, deleted : BOOLEAN, plan : Catalogue]
SubRow ==
  [status : {"none", "active", "canceled"}, plan : Catalogue, canceledAt : Nat \cup {Never}]

FiguresInv ==
  /\ hour \in Nat /\ hour <= MaxHours
  /\ charges \in Seq(ChargeRow)
  /\ \A k \in DOMAIN charges : charges[k].refunded <= charges[k].cents /\ charges[k].at <= hour
  /\ shops \in [Shops -> ShopRow]
  /\ subs \in [Shops -> SubRow]

LEMMA FiguresInvInit == FiguresInit => FiguresInv
<1> SUFFICES ASSUME FiguresInit PROVE FiguresInv OBVIOUS
<1>1. hour \in Nat /\ hour <= MaxHours BY FiguresAssumption DEF FiguresInit
<1>2. charges \in Seq(ChargeRow) /\ DOMAIN charges = {}
  BY DEF FiguresInit
<1>3. shops \in [Shops -> ShopRow] BY FiguresAssumption DEF FiguresInit, ShopRow
<1>4. subs \in [Shops -> SubRow] BY FiguresAssumption DEF FiguresInit, SubRow, NoSub
<1> QED BY <1>1, <1>2, <1>3, <1>4 DEF FiguresInv

LEMMA FiguresInvStep == FiguresInv /\ [FiguresNext]_figureVars => FiguresInv'
<1> SUFFICES ASSUME FiguresInv, [FiguresNext]_figureVars PROVE FiguresInv' OBVIOUS
<1>1. /\ hour \in Nat /\ hour <= MaxHours
      /\ charges \in Seq(ChargeRow) /\ Len(charges) \in Nat /\ DOMAIN charges = 1..Len(charges)
      /\ \A k \in DOMAIN charges : /\ charges[k] \in ChargeRow
                                   /\ charges[k].refunded <= charges[k].cents
                                   /\ charges[k].at <= hour
      /\ shops \in [Shops -> ShopRow] /\ subs \in [Shops -> SubRow]
  BY DEF FiguresInv
<1>2. CASE PassHour
  <2>1. hour' \in Nat /\ hour' <= MaxHours /\ hour <= hour' /\ UNCHANGED <<charges, shops, subs>>
    BY <1>1, <1>2, FiguresAssumption DEF PassHour
  <2>2. \A k \in DOMAIN charges : charges[k].at <= hour'
    BY <1>1, <2>1 DEF ChargeRow
  <2> QED BY <1>1, <2>1, <2>2 DEF FiguresInv
<1>3. ASSUME NEW s \in Shops, OpenShop(s) PROVE FiguresInv'
  <2>1. shops' \in [Shops -> ShopRow] BY <1>1, <1>3 DEF OpenShop, ShopRow
  <2> QED BY <1>1, <1>3, <2>1 DEF OpenShop, FiguresInv
<1>4. ASSUME NEW s \in Shops, CloseShop(s) PROVE FiguresInv'
  <2>1. shops' \in [Shops -> ShopRow] BY <1>1, <1>4 DEF CloseShop, ShopRow
  <2> QED BY <1>1, <1>4, <2>1 DEF CloseShop, FiguresInv
<1>5. ASSUME NEW s \in Shops, EndSub(s) PROVE FiguresInv'
  <2>1. shops' \in [Shops -> ShopRow] BY <1>1, <1>5, FiguresAssumption DEF EndSub, ShopRow
  <2>2. subs' \in [Shops -> SubRow] BY <1>1, <1>5 DEF EndSub, SubRow
  <2> QED BY <1>1, <1>5, <2>1, <2>2 DEF EndSub, FiguresInv
<1>6. ASSUME NEW s \in Shops, NEW plan \in Catalogue \ {FreePlan}, BeginSub(s, plan)
      PROVE  FiguresInv'
  <2>1. shops' \in [Shops -> ShopRow] BY <1>1, <1>6 DEF BeginSub, ShopRow
  <2>2. [NoSub EXCEPT !.status = "active", !.plan = plan] \in SubRow
    BY FiguresAssumption DEF SubRow, NoSub
  <2>3. subs' \in [Shops -> SubRow] BY <1>1, <1>6, <2>2 DEF BeginSub
  <2> QED BY <1>1, <1>6, <2>1, <2>3 DEF BeginSub, FiguresInv
<1>7. ASSUME NEW s \in Shops, NEW code \in CurrencyCodes, NEW cents \in ChargeAmounts,
             TakeCharge(s, code, cents)
      PROVE  FiguresInv'
  <2>1. PICK row : row = [shop |-> s, subscribed |-> subs[s] # NoSub, code |-> code,
                          cents |-> cents, refunded |-> 0, disputed |-> FALSE, at |-> hour]
    OBVIOUS
  <2>2. row \in ChargeRow /\ row.refunded <= row.cents /\ row.at <= hour
    BY <1>1, <2>1, FiguresAssumption DEF ChargeRow
  <2>3. charges' = Append(charges, row) BY <1>7, <2>1 DEF TakeCharge
  <2>4. charges' \in Seq(ChargeRow) BY <1>1, <2>2, <2>3
  <2>5. ASSUME NEW k \in DOMAIN charges'
        PROVE  charges'[k].refunded <= charges'[k].cents /\ charges'[k].at <= hour
    <3>1. (k \in DOMAIN charges /\ charges'[k] = charges[k]) \/ charges'[k] = row
      BY <1>1, <2>2, <2>3
    <3> QED BY <1>1, <2>2, <3>1
  <2> QED BY <1>1, <1>7, <2>4, <2>5 DEF TakeCharge, FiguresInv
<1>8. ASSUME NEW k \in DOMAIN charges, Dispute(k) PROVE FiguresInv'
  <2>1. PICK row : row = [charges[k] EXCEPT !.disputed = TRUE] OBVIOUS
  <2>2. row \in ChargeRow /\ row.refunded <= row.cents /\ row.at <= hour
    BY <1>1, <2>1 DEF ChargeRow
  <2>3. charges' = [charges EXCEPT ![k] = row] BY <1>8, <2>1 DEF Dispute
  <2>4. charges' \in Seq(ChargeRow) BY <1>1, <2>2, <2>3
  <2>5. ASSUME NEW j \in DOMAIN charges'
        PROVE  charges'[j].refunded <= charges'[j].cents /\ charges'[j].at <= hour
    <3>1. j \in DOMAIN charges /\ (charges'[j] = charges[j] \/ charges'[j] = row)
      BY <1>1, <2>3
    <3> QED BY <1>1, <2>2, <3>1
  <2> QED BY <1>1, <1>8, <2>4, <2>5 DEF Dispute, FiguresInv
<1>9. ASSUME NEW k \in DOMAIN charges, NEW cents \in {1, charges[k].cents}, GiveBack(k, cents)
      PROVE  FiguresInv'
  <2>1. PICK row : row = [charges[k] EXCEPT !.refunded = cents] OBVIOUS
  <2>2. row \in ChargeRow /\ row.refunded <= row.cents /\ row.at <= hour
    <3>1. cents \in Nat BY <1>1 DEF ChargeRow
    <3>2. cents <= charges[k].cents BY <1>9 DEF GiveBack
    <3>3. row \in ChargeRow BY <1>1, <2>1, <3>1 DEF ChargeRow
    <3>4. row.refunded = cents /\ row.cents = charges[k].cents /\ row.at = charges[k].at
      BY <1>1, <2>1 DEF ChargeRow
    <3> QED BY <1>1, <3>2, <3>3, <3>4
  <2>3. charges' = [charges EXCEPT ![k] = row] BY <1>9, <2>1 DEF GiveBack
  <2>4. charges' \in Seq(ChargeRow) BY <1>1, <2>2, <2>3
  <2>5. ASSUME NEW j \in DOMAIN charges'
        PROVE  charges'[j].refunded <= charges'[j].cents /\ charges'[j].at <= hour
    <3>1. j \in DOMAIN charges /\ (charges'[j] = charges[j] \/ charges'[j] = row)
      BY <1>1, <2>3
    <3> QED BY <1>1, <2>2, <3>1
  <2> QED BY <1>1, <1>9, <2>4, <2>5 DEF GiveBack, FiguresInv
<1>10. CASE UNCHANGED figureVars BY <1>1, <1>10 DEF figureVars, FiguresInv
<1> QED BY <1>2, <1>3, <1>4, <1>5, <1>6, <1>7, <1>8, <1>9, <1>10 DEF FiguresNext

-----------------------------------------------------------------------------
(* What is made of them.                                                   *)

Cents == [k \in DOMAIN charges |-> charges[k].cents]
Refunded == [k \in DOMAIN charges |-> charges[k].refunded]
Nets == [k \in DOMAIN charges |-> netAmount(k)]

LEMMA RowsAre ==
  ASSUME FiguresInv
  PROVE  /\ IsFiniteSet(DOMAIN charges)
         /\ DOMAIN charges = 1..Len(charges) /\ Len(charges) \in Nat
         /\ hour \in Nat
         /\ \A k \in DOMAIN charges :
              /\ k \in Nat /\ charges[k].shop \in Shops
              /\ charges[k].cents \in Nat /\ charges[k].refunded \in Nat
              /\ netAmount(k) \in Nat
              /\ charges[k].at \in Nat /\ charges[k].at <= hour
              /\ charges[k].at # Never
<1>1. charges \in Seq(ChargeRow) BY DEF FiguresInv
<1>2. Len(charges) \in Nat /\ DOMAIN charges = 1..Len(charges) BY <1>1
<1>3. IsFiniteSet(DOMAIN charges) BY <1>2, FS_Interval
<1>4. ASSUME NEW k \in DOMAIN charges
      PROVE  /\ k \in Nat /\ charges[k].shop \in Shops
             /\ charges[k].cents \in Nat /\ charges[k].refunded \in Nat
             /\ netAmount(k) \in Nat
             /\ charges[k].at \in Nat /\ charges[k].at <= hour
             /\ charges[k].at # Never
  <2>1. charges[k] \in ChargeRow BY <1>1
  <2>2. /\ charges[k].shop \in Shops
        /\ charges[k].cents \in Nat /\ charges[k].refunded \in Nat /\ charges[k].at \in Nat
    BY <2>1 DEF ChargeRow
  <2>3. netAmount(k) \in Nat BY <2>2 DEF netAmount, FiguresInv
  <2> QED BY <1>2, <2>2, <2>3 DEF FiguresInv, Never
<1> QED BY <1>2, <1>3, <1>4 DEF FiguresInv

LEMMA SumsAre ==
  ASSUME FiguresInv
  PROVE  /\ {Cents, Refunded, Nets} \subseteq [DOMAIN charges -> Nat]
         /\ \A R \in SUBSET (DOMAIN charges) :
              /\ Gross(R) = Sum(Cents, R) /\ Refunds(R) = Sum(Refunded, R)
              /\ Net(R) = Sum(Nets, R)
<1>1. {Cents, Refunded, Nets} \subseteq [DOMAIN charges -> Nat]
  BY RowsAre DEF Cents, Refunded, Nets
<1>2. ASSUME NEW R \in SUBSET (DOMAIN charges)
      PROVE  /\ Gross(R) = Sum(Cents, R) /\ Refunds(R) = Sum(Refunded, R)
             /\ Net(R) = Sum(Nets, R)
  <2>1. [k \in R |-> charges[k].cents] = [k \in R |-> Cents[k]] BY DEF Cents
  <2>2. [k \in R |-> charges[k].refunded] = [k \in R |-> Refunded[k]] BY DEF Refunded
  <2>3. [k \in R |-> netAmount(k)] = [k \in R |-> Nets[k]] BY DEF Nets
  <2> QED BY <2>1, <2>2, <2>3 DEF Sum, Gross, Refunds, Net
<1> QED BY <1>1, <1>2

\* The sum over two sets of rows, and over a smaller one.
LEMMA SumOfTwo ==
  ASSUME FiguresInv, NEW c \in [DOMAIN charges -> Nat],
         NEW S \in SUBSET (DOMAIN charges), NEW T \in SUBSET (DOMAIN charges), S \cap T = {}
  PROVE  Sum(c, S) \in Nat /\ Sum(c, T) \in Nat /\ Sum(c, S \cup T) = Sum(c, S) + Sum(c, T)
<1>1. IsFiniteSet(DOMAIN charges) BY RowsAre
<1> QED BY <1>1, TwoSums

LEMMA SumOfLess ==
  ASSUME FiguresInv, NEW c \in [DOMAIN charges -> Nat],
         NEW S \in SUBSET (DOMAIN charges), NEW T \in SUBSET S
  PROVE  Sum(c, S) \in Nat /\ Sum(c, T) \in Nat /\ Sum(c, T) <= Sum(c, S)
<1>1. S \ T \in SUBSET (DOMAIN charges) /\ T \in SUBSET (DOMAIN charges)
      /\ T \cap (S \ T) = {} /\ T \cup (S \ T) = S
  OBVIOUS
<1>2. PICK V : V = S \ T OBVIOUS
<1>3. Sum(c, T) \in Nat /\ Sum(c, V) \in Nat /\ Sum(c, T \cup V) = Sum(c, T) + Sum(c, V)
  BY <1>1, <1>2, SumOfTwo
<1>4. Sum(c, S) = Sum(c, T) + Sum(c, V) BY <1>1, <1>2, <1>3
<1> QED BY <1>3, <1>4

\* The sum of the sums over sets of rows that have nothing in common.
LEMMA SumOfParts ==
  ASSUME FiguresInv, NEW c \in [DOMAIN charges -> Nat],
         NEW D, IsFiniteSet(D), NEW R \in [D -> SUBSET (DOMAIN charges)],
         \A d, e \in D : d # e => R[d] \cap R[e] = {},
         NEW f, DOMAIN f = D, \A d \in D : f[d] = Sum(c, R[d]),
         NEW S, S = UNION {R[d] : d \in D}
  PROVE  Total(f) = Sum(c, S)
<1>1. IsFiniteSet(DOMAIN charges) BY RowsAre
<1> QED BY <1>1, SumsAddUp

\* Time in days and months.
LEMMA LessByFactor ==
  ASSUME NEW d \in Nat \ {0}, NEW q \in Nat, NEW n \in Nat, d * q < d * n
  PROVE  q < n
<1> SUFFICES ASSUME ~(q < n) PROVE FALSE OBVIOUS
<1>1. PICK e \in Nat : q = n + e
  <2>1. q - n \in Nat /\ q = n + (q - n) OBVIOUS
  <2> QED BY <2>1
<1>2. d * q = d * n + d * e BY <1>1
<1>3. d * e \in Nat /\ d * n \in Nat OBVIOUS
<1> QED BY <1>2, <1>3

LEMMA QuotientGrows ==
  ASSUME NEW n \in Nat, NEW m \in Nat, NEW d \in Nat \ {0}, n <= m
  PROVE  n \div d \in Nat /\ m \div d \in Nat /\ n \div d <= m \div d
<1>1. PICK q \in Nat : q = n \div d /\ d * q <= n BY Quotient
<1>2. PICK p \in Nat : p = m \div d /\ m < d * p + d BY Quotient
<1>3. d * (p + 1) = d * p + d OBVIOUS
<1>4. PICK x \in Nat : x = d * q OBVIOUS
<1>5. PICK y \in Nat : y = d * (p + 1) OBVIOUS
<1>6. x < y BY <1>1, <1>2, <1>3, <1>4, <1>5
<1>7. q < p + 1 BY <1>4, <1>5, <1>6, LessByFactor
<1> QED BY <1>1, <1>2, <1>7

LEMMA RangesAre ==
  ASSUME NEW days \in RANGE_DAYS
  PROVE  /\ days \in Nat \ {0} /\ HoursPerDay \in Nat \ {0} /\ DaysPerFigure \in Nat \ {0}
         /\ days * HoursPerDay \in Nat
         /\ Since(days) = hour - days * HoursPerDay
         /\ Since(2 * days) = hour - 2 * (days * HoursPerDay)
<1>1. days \in Nat \ {0} /\ HoursPerDay \in Nat \ {0} /\ DaysPerFigure \in Nat \ {0}
  BY FiguresAssumption
<1>2. (2 * days) * HoursPerDay = 2 * (days * HoursPerDay) BY <1>1
<1> QED BY <1>1, <1>2 DEF Since

\* A charge of the window is of today or of one of the days before.
LEMMA DaysSince ==
  ASSUME FiguresInv, NEW days \in RANGE_DAYS, NEW k \in InWindow(days)
  PROVE  DayOf(hour) - DayOf(charges[k].at) \in 0..days
<1>1. /\ charges[k].at \in Nat /\ charges[k].at <= hour /\ hour \in Nat
      /\ charges[k].at >= Since(days)
  BY RowsAre DEF InWindow
<1>2. PICK at \in Nat : at = charges[k].at BY <1>1
<1>3. PICK H \in Nat \ {0} : H = HoursPerDay BY RangesAre
<1>4. days \in Nat /\ at >= hour - days * H BY <1>1, <1>2, <1>3, RangesAre
<1>5. PICK q \in Nat : q = DayOf(hour) /\ H * q <= hour BY <1>1, <1>3, Quotient DEF DayOf
<1>6. PICK p \in Nat : p = DayOf(at) /\ at < H * p + H BY <1>3, Quotient DEF DayOf
<1>7. p <= q BY <1>1, <1>2, <1>3, <1>5, <1>6, QuotientGrows DEF DayOf
<1>8. H * (p + 1 + days) = H * p + H + days * H BY <1>4
<1>9. PICK x \in Nat : x = H * q OBVIOUS
<1>10. PICK y \in Nat : y = H * (p + 1 + days) BY <1>4
<1>11. PICK z \in Nat : z = H * p OBVIOUS
<1>12. PICK w \in Nat : w = days * H BY <1>4
<1>13. x < y BY <1>1, <1>2, <1>4, <1>5, <1>6, <1>8, <1>9, <1>10, <1>11, <1>12
<1>14. q < p + 1 + days BY <1>4, <1>9, <1>10, <1>13, LessByFactor
<1> QED BY <1>2, <1>4, <1>5, <1>6, <1>7, <1>14

\* Each day back from today is in one bar.
LEMMA BarsSplit ==
  ASSUME NEW days \in RANGE_DAYS
  PROVE  /\ \E n \in Nat : DOMAIN DaysOfBars(days) = 1..n
         /\ \A b \in DOMAIN DaysOfBars(days) : DaysOfBars(days)[b] \subseteq 0..(days - 1)
         /\ \A b, c \in DOMAIN DaysOfBars(days) :
              b # c => DaysOfBars(days)[b] \cap DaysOfBars(days)[c] = {}
         /\ \A back \in 0..(days - 1) :
              \E b \in DOMAIN DaysOfBars(days) : back \in DaysOfBars(days)[b]
<1>1. days \in Nat \ {0} BY RangesAre
<1>2. PICK d \in Nat \ {0} : d = BarSize(days) BY FiguresAssumption DEF BarSize
<1>3. days + d - 1 \in Nat BY <1>1
<1>4. PICK n \in Nat : n = (days + d - 1) \div d /\ days + d - 1 < d * n + d
  BY <1>3, Quotient
<1>5. DaysOfBars(days) =
        [b \in 1..n |-> {back \in 0..(days - 1) : (days - 1 - back) \div d = b - 1}]
  BY <1>2, <1>4 DEF DaysOfBars
<1>6. ASSUME NEW b \in 1..n, NEW c \in 1..n, b # c
      PROVE  DaysOfBars(days)[b] \cap DaysOfBars(days)[c] = {}
  <2> SUFFICES ASSUME NEW back, back \in DaysOfBars(days)[b], back \in DaysOfBars(days)[c]
               PROVE  FALSE
    OBVIOUS
  <2>1. (days - 1 - back) \div d = b - 1 /\ (days - 1 - back) \div d = c - 1 BY <1>5
  <2>2. b - 1 = c - 1 BY <2>1
  <2> QED BY <1>6, <2>2
<1>7. ASSUME NEW back \in 0..(days - 1)
      PROVE  \E b \in 1..n : back \in DaysOfBars(days)[b]
  <2>1. PICK left \in Nat : left = days - 1 - back /\ left <= days - 1 BY <1>1
  <2>2. PICK q \in Nat : q = left \div d /\ d * q <= left BY Quotient
  <2>3. PICK x \in Nat : x = d * q OBVIOUS
  <2>4. PICK y \in Nat : y = d * n OBVIOUS
  <2>5. x < y BY <1>1, <1>4, <2>1, <2>2, <2>3, <2>4
  <2>6. q < n BY <2>3, <2>4, <2>5, LessByFactor
  <2>7. PICK b : b = q + 1 OBVIOUS
  <2>8. b \in 1..n /\ left \div d = b - 1 BY <2>2, <2>6, <2>7
  <2>9. (days - 1 - back) \div d = b - 1 BY <2>1, <2>8
  <2>10. back \in DaysOfBars(days)[b] BY <1>5, <2>8, <2>9
  <2> QED BY <2>8, <2>10
<1>8. \A b \in 1..n : DaysOfBars(days)[b] \subseteq 0..(days - 1) BY <1>5
<1>9. DOMAIN DaysOfBars(days) = 1..n BY <1>5
<1> QED BY <1>6, <1>7, <1>8, <1>9

\* The bars' sums are the window's, but for the part of a day.
BarRows(days, b) ==
  {k \in CurrentRows(days) : On(charges[k].at, DaysOfBars(days)[b])}
PartDay(days) == {k \in CurrentRows(days) : DayOf(charges[k].at) = DayOf(hour) - days}

LEMMA RowsOfBars ==
  ASSUME FiguresInv, NEW days \in RANGE_DAYS
  PROVE  /\ CurrentRows(days) \subseteq DOMAIN charges
         /\ \A b \in DOMAIN DaysOfBars(days) : BarRows(days, b) \subseteq CurrentRows(days)
         /\ \A b, c \in DOMAIN DaysOfBars(days) :
              b # c => BarRows(days, b) \cap BarRows(days, c) = {}
         /\ UNION {BarRows(days, b) : b \in DOMAIN DaysOfBars(days)}
              = CurrentRows(days) \ PartDay(days)
<1>1. CurrentRows(days) \subseteq InWindow(days) /\ CurrentRows(days) \subseteq DOMAIN charges
  BY DEF CurrentRows, OfCurrency, InWindow
<1>2. \A b \in DOMAIN DaysOfBars(days) : BarRows(days, b) \subseteq CurrentRows(days)
  BY DEF BarRows
<1>3. ASSUME NEW k \in CurrentRows(days)
      PROVE  /\ charges[k].at # Never
             /\ DayOf(hour) - DayOf(charges[k].at) \in 0..days
             /\ k \in PartDay(days) <=> DayOf(hour) - DayOf(charges[k].at) = days
  <2>1. DayOf(hour) - DayOf(charges[k].at) \in 0..days BY <1>1, DaysSince
  <2>2. charges[k].at # Never /\ charges[k].at \in Nat /\ hour \in Nat BY <1>1, RowsAre
  <2>3. DayOf(hour) \in Nat /\ DayOf(charges[k].at) \in Nat
    BY <2>2, RangesAre, Quotient DEF DayOf
  <2>4. days \in Nat BY RangesAre
  <2>5. k \in PartDay(days) <=> DayOf(charges[k].at) = DayOf(hour) - days BY DEF PartDay
  <2> QED BY <2>1, <2>2, <2>3, <2>4, <2>5
<1>4. ASSUME NEW b \in DOMAIN DaysOfBars(days), NEW c \in DOMAIN DaysOfBars(days), b # c
      PROVE  BarRows(days, b) \cap BarRows(days, c) = {}
  <2> SUFFICES ASSUME NEW k, k \in BarRows(days, b), k \in BarRows(days, c) PROVE FALSE
    OBVIOUS
  <2>1. DayOf(hour) - DayOf(charges[k].at) \in DaysOfBars(days)[b] \cap DaysOfBars(days)[c]
    BY DEF BarRows, On
  <2> QED BY <1>4, <2>1, BarsSplit
<1>5. ASSUME NEW k \in CurrentRows(days) \ PartDay(days)
      PROVE  \E b \in DOMAIN DaysOfBars(days) : k \in BarRows(days, b)
  <2>1. days \in Nat \ {0} BY RangesAre
  <2>2. DayOf(hour) - DayOf(charges[k].at) \in 0..(days - 1) BY <1>3, <2>1
  <2>3. PICK b \in DOMAIN DaysOfBars(days) :
          DayOf(hour) - DayOf(charges[k].at) \in DaysOfBars(days)[b]
    BY <2>2, BarsSplit
  <2>4. k \in BarRows(days, b) BY <1>3, <2>3 DEF BarRows, On
  <2> QED BY <2>4
<1>6. ASSUME NEW b \in DOMAIN DaysOfBars(days), NEW k \in BarRows(days, b)
      PROVE  k \in CurrentRows(days) \ PartDay(days)
  <2>1. k \in CurrentRows(days) /\ DayOf(hour) - DayOf(charges[k].at) \in DaysOfBars(days)[b]
    BY DEF BarRows, On
  <2>2. DayOf(hour) - DayOf(charges[k].at) \in 0..(days - 1) BY <2>1, BarsSplit
  <2>3. days \in Nat \ {0} BY RangesAre
  <2>4. DayOf(hour) - DayOf(charges[k].at) # days BY <2>2, <2>3
  <2> QED BY <1>3, <2>1, <2>4
<1>7. UNION {BarRows(days, b) : b \in DOMAIN DaysOfBars(days)}
        = CurrentRows(days) \ PartDay(days)
  BY <1>5, <1>6
<1> QED BY <1>1, <1>2, <1>4, <1>7

LEMMA BarsSum ==
  ASSUME FiguresInv, NEW days \in RANGE_DAYS, NEW c \in [DOMAIN charges -> Nat],
         NEW f, DOMAIN f = DOMAIN DaysOfBars(days),
         \A b \in DOMAIN DaysOfBars(days) : f[b] = Sum(c, BarRows(days, b))
  PROVE  Total(f) = Sum(c, CurrentRows(days)) - Sum(c, PartDay(days))
<1>1. PICK D : D = DOMAIN DaysOfBars(days) OBVIOUS
<1>2. IsFiniteSet(D) BY <1>1, BarsSplit, FS_Interval
<1>3. PICK R : R = [b \in D |-> BarRows(days, b)] OBVIOUS
<1>4. /\ \A b \in D : BarRows(days, b) \subseteq DOMAIN charges
      /\ \A b, e \in D : b # e => BarRows(days, b) \cap BarRows(days, e) = {}
      /\ UNION {BarRows(days, b) : b \in D} = CurrentRows(days) \ PartDay(days)
  BY <1>1, RowsOfBars
<1>5. R \in [D -> SUBSET (DOMAIN charges)] BY <1>3, <1>4
<1>6. \A b, e \in D : b # e => R[b] \cap R[e] = {} BY <1>3, <1>4
<1>7. UNION {R[b] : b \in D} = UNION {BarRows(days, b) : b \in D} BY <1>3
<1>8. PICK S : S = CurrentRows(days) \ PartDay(days) OBVIOUS
<1>9. S = UNION {R[b] : b \in D} BY <1>4, <1>7, <1>8
<1>10. DOMAIN f = D /\ \A b \in D : f[b] = Sum(c, R[b]) BY <1>1, <1>3
<1>11. Total(f) = Sum(c, S) BY <1>2, <1>5, <1>6, <1>9, <1>10, SumOfParts
<1>12. PICK T : T = PartDay(days) OBVIOUS
<1>13. /\ T \in SUBSET (DOMAIN charges) /\ S \in SUBSET (DOMAIN charges)
       /\ S \cap T = {} /\ S \cup T = CurrentRows(days)
  BY <1>8, <1>12, RowsOfBars DEF PartDay
<1>14. Sum(c, S) \in Nat /\ Sum(c, T) \in Nat /\ Sum(c, S \cup T) = Sum(c, S) + Sum(c, T)
  <2>1. S \in SUBSET (DOMAIN charges) /\ T \in SUBSET (DOMAIN charges) /\ S \cap T = {} BY <1>13
  <2> QED BY <2>1, SumOfTwo
<1>15. Sum(c, CurrentRows(days)) = Sum(c, S) + Sum(c, T) BY <1>13, <1>14
<1>16. PICK x, y \in Nat : x = Sum(c, S) /\ y = Sum(c, T) BY <1>14
<1>17. x = (x + y) - y OBVIOUS
<1> QED BY <1>11, <1>12, <1>15, <1>16, <1>17

LEMMA BarIs ==
  ASSUME FiguresInv, NEW days \in RANGE_DAYS, NEW b \in DOMAIN DaysOfBars(days)
  PROVE  /\ DOMAIN Bars(days) = DOMAIN DaysOfBars(days)
         /\ Bars(days)[b].gross = Sum(Cents, BarRows(days, b))
         /\ Bars(days)[b].refunded = Sum(Refunded, BarRows(days, b))
         /\ Bars(days)[b].cents = Sum(Nets, BarRows(days, b))
         /\ Bars(days)[b].registered
              = {s \in Shops : ~shops[s].deleted /\ On(shops[s].createdAt, DaysOfBars(days)[b])}
<1>1. DOMAIN Bars(days) = DOMAIN DaysOfBars(days)
      /\ Bars(days)[b] = Bar(CurrentRows(days), DaysOfBars(days)[b])
  BY DEF Bars
<1>2. BarRows(days, b) \in SUBSET (DOMAIN charges) BY RowsOfBars
<1>3. /\ Gross(BarRows(days, b)) = Sum(Cents, BarRows(days, b))
      /\ Refunds(BarRows(days, b)) = Sum(Refunded, BarRows(days, b))
      /\ Net(BarRows(days, b)) = Sum(Nets, BarRows(days, b))
  BY <1>2, SumsAre
<1>4. Bar(CurrentRows(days), DaysOfBars(days)[b]) =
        [gross |-> Gross(BarRows(days, b)), refunded |-> Refunds(BarRows(days, b)),
         cents |-> Net(BarRows(days, b)),
         registered |-> {s \in Shops : ~shops[s].deleted
                                       /\ On(shops[s].createdAt, DaysOfBars(days)[b])},
         cancelled |-> {s \in Shops : subs[s].status = "canceled"
                                      /\ On(subs[s].canceledAt, DaysOfBars(days)[b])}]
  BY DEF Bar, BarRows
<1> QED BY <1>1, <1>3, <1>4

\* The highest of numbers and nought.
LEMMA HighestIs ==
  ASSUME NEW S \in SUBSET Nat, NEW b \in Nat, \A x \in S : x <= b
  PROVE  /\ Max({0} \cup S) \in Nat /\ Max({0} \cup S) \in {0} \cup S
         /\ \A x \in S : x <= Max({0} \cup S)
<1>1. PICK T : T = {0} \cup S OBVIOUS
<1>2. T \in SUBSET Nat /\ T # {} /\ \A x \in T : x <= b BY <1>1
<1>3. \E m \in T : \A x \in T : m >= x BY <1>2, Greatest
<1>4. Max(T) \in T /\ \A x \in T : Max(T) >= x BY <1>3 DEF Max
<1> QED BY <1>1, <1>2, <1>4

LEMMA HeightIs ==
  ASSUME NEW cents \in Nat, NEW busiest \in Nat, cents <= busiest
  PROVE  HeightPercent(cents, busiest) \in 0..100
<1>1. CASE busiest = 0 \/ cents <= 0 BY <1>1 DEF HeightPercent
<1>2. CASE busiest > 0 /\ cents > 0
  <2>1. PICK n \in Nat : n = 2 * (100 * cents) + busiest /\ n <= 201 * busiest
    BY <1>2
  <2>2. PICK d \in Nat \ {0} : d = 2 * busiest BY <1>2
  <2>3. PICK q \in Nat : q = n \div d /\ d * q <= n BY Quotient
  <2>4. d * q < d * 101
    <3>1. PICK x \in Nat : x = d * q OBVIOUS
    <3>2. x <= 201 * busiest /\ d * 101 = 202 * busiest BY <2>1, <2>2, <2>3, <3>1
    <3> QED BY <1>2, <3>1, <3>2
  <2>5. q < 101 BY <2>4, LessByFactor
  <2>6. Rounded(100 * cents, busiest) = q BY <2>1, <2>2, <2>3 DEF Rounded
  <2>7. HeightPercent(cents, busiest) = Max({2, q}) BY <1>2, <2>6 DEF HeightPercent
  <2>8. \E m \in {2, q} : \A x \in {2, q} : m >= x
    <3>1. CASE q <= 2 BY <3>1
    <3>2. CASE ~(q <= 2) BY <3>2
    <3> QED BY <3>1, <3>2
  <2>9. Max({2, q}) \in {2, q} BY <2>8 DEF Max
  <2> QED BY <2>5, <2>7, <2>9
<1> QED BY <1>1, <1>2

\* The conjuncts of FiguresAgree, one by one.
LEMMA BarsAgree == FiguresInv => BarsAddUp
<1> SUFFICES ASSUME FiguresInv, NEW days \in RANGE_DAYS
             PROVE  LET rows == CurrentRows(days)
                        partDay == {k \in rows : DayOf(charges[k].at) = DayOf(hour) - days}
                        bars == Bars(days)
                        busiest == Max({0} \cup {bars[b].cents : b \in DOMAIN bars})
                    IN /\ Total([b \in DOMAIN bars |-> bars[b].gross])
                            = Gross(rows) - Gross(partDay)
                       /\ Total([b \in DOMAIN bars |-> bars[b].refunded])
                            = Refunds(rows) - Refunds(partDay)
                       /\ Total([b \in DOMAIN bars |-> bars[b].cents])
                            = Net(rows) - Net(partDay)
                       /\ \A b \in DOMAIN bars :
                            HeightPercent(bars[b].cents, busiest) \in 0..100
                       /\ \A b, c \in DOMAIN bars : b # c =>
                            bars[b].registered \cap bars[c].registered = {}
  BY DEF BarsAddUp
<1>1. PICK bars : bars = Bars(days) OBVIOUS
<1>2. PICK part : part = PartDay(days) OBVIOUS
<1>3. PICK rows : rows = CurrentRows(days) OBVIOUS
<1>4. part = {k \in rows : DayOf(charges[k].at) = DayOf(hour) - days}
  BY <1>2, <1>3 DEF PartDay
<1>5. rows \in SUBSET (DOMAIN charges) /\ part \in SUBSET (DOMAIN charges)
  BY <1>3, <1>4, RowsOfBars
<1>6. /\ Gross(rows) = Sum(Cents, rows) /\ Gross(part) = Sum(Cents, part)
      /\ Refunds(rows) = Sum(Refunded, rows) /\ Refunds(part) = Sum(Refunded, part)
      /\ Net(rows) = Sum(Nets, rows) /\ Net(part) = Sum(Nets, part)
      /\ Cents \in [DOMAIN charges -> Nat] /\ Refunded \in [DOMAIN charges -> Nat]
      /\ Nets \in [DOMAIN charges -> Nat]
  BY <1>5, SumsAre
<1>7. DOMAIN bars = DOMAIN DaysOfBars(days)
  BY <1>1, BarsSplit DEF Bars
<1>8. ASSUME NEW b \in DOMAIN bars
      PROVE  /\ bars[b].gross = Sum(Cents, BarRows(days, b))
             /\ bars[b].refunded = Sum(Refunded, BarRows(days, b))
             /\ bars[b].cents = Sum(Nets, BarRows(days, b))
             /\ bars[b].registered
                  = {s \in Shops : ~shops[s].deleted /\ On(shops[s].createdAt, DaysOfBars(days)[b])}
  BY <1>1, <1>7, BarIs
<1>9. Total([b \in DOMAIN bars |-> bars[b].gross]) = Gross(rows) - Gross(part)
  <2>1. PICK f : f = [b \in DOMAIN bars |-> bars[b].gross] OBVIOUS
  <2>2. DOMAIN f = DOMAIN DaysOfBars(days)
        /\ \A b \in DOMAIN DaysOfBars(days) : f[b] = Sum(Cents, BarRows(days, b))
    BY <1>7, <1>8, <2>1
  <2>3. Total(f) = Sum(Cents, CurrentRows(days)) - Sum(Cents, PartDay(days))
    BY <1>6, <2>2, BarsSum
  <2> QED BY <1>2, <1>3, <1>6, <2>1, <2>3
<1>10. Total([b \in DOMAIN bars |-> bars[b].refunded]) = Refunds(rows) - Refunds(part)
  <2>1. PICK f : f = [b \in DOMAIN bars |-> bars[b].refunded] OBVIOUS
  <2>2. DOMAIN f = DOMAIN DaysOfBars(days)
        /\ \A b \in DOMAIN DaysOfBars(days) : f[b] = Sum(Refunded, BarRows(days, b))
    BY <1>7, <1>8, <2>1
  <2>3. Total(f) = Sum(Refunded, CurrentRows(days)) - Sum(Refunded, PartDay(days))
    BY <1>6, <2>2, BarsSum
  <2> QED BY <1>2, <1>3, <1>6, <2>1, <2>3
<1>11. Total([b \in DOMAIN bars |-> bars[b].cents]) = Net(rows) - Net(part)
  <2>1. PICK f : f = [b \in DOMAIN bars |-> bars[b].cents] OBVIOUS
  <2>2. DOMAIN f = DOMAIN DaysOfBars(days)
        /\ \A b \in DOMAIN DaysOfBars(days) : f[b] = Sum(Nets, BarRows(days, b))
    BY <1>7, <1>8, <2>1
  <2>3. Total(f) = Sum(Nets, CurrentRows(days)) - Sum(Nets, PartDay(days))
    BY <1>6, <2>2, BarsSum
  <2> QED BY <1>2, <1>3, <1>6, <2>1, <2>3
<1> DEFINE made == {bars[b].cents : b \in DOMAIN bars}
<1>12. ASSUME NEW b \in DOMAIN bars
       PROVE  bars[b].cents \in Nat /\ bars[b].cents <= Net(rows)
  <2>1. BarRows(days, b) \in SUBSET rows BY <1>3, <1>7, RowsOfBars
  <2>2. Sum(Nets, BarRows(days, b)) \in Nat
        /\ Sum(Nets, BarRows(days, b)) <= Sum(Nets, rows)
    BY <1>5, <1>6, <2>1, SumOfLess
  <2> QED BY <1>6, <1>8, <2>2
<1>13. made \in SUBSET Nat /\ \A x \in made : x <= Net(rows) BY <1>12
<1>14. Net(rows) \in Nat BY <1>5, <1>6, SumOfLess
<1>15. Max({0} \cup made) \in Nat /\ \A x \in made : x <= Max({0} \cup made)
  <2> HIDE DEF made
  <2> QED BY <1>13, <1>14, HighestIs
<1>16. ASSUME NEW b \in DOMAIN bars
       PROVE  HeightPercent(bars[b].cents, Max({0} \cup made)) \in 0..100
  <2>1. bars[b].cents \in made OBVIOUS
  <2> HIDE DEF made
  <2>2. PICK top \in Nat : top = Max({0} \cup made) BY <1>15
  <2> QED BY <1>12, <1>15, <2>1, <2>2, HeightIs
<1>17. ASSUME NEW b \in DOMAIN bars, NEW c \in DOMAIN bars, b # c
       PROVE  bars[b].registered \cap bars[c].registered = {}
  <2>1. DaysOfBars(days)[b] \cap DaysOfBars(days)[c] = {} BY <1>7, <1>17, BarsSplit
  <2> QED BY <1>8, <2>1 DEF On
<1> QED BY <1>1, <1>3, <1>4, <1>9, <1>10, <1>11, <1>16, <1>17

LEMMA WindowsAgree == FiguresInv => ComparedLikeWithLike
<1> SUFFICES ASSUME FiguresInv, NEW days \in RANGE_DAYS
             PROVE  /\ Gross(CurrentRows(days)) + Gross(PreviousRows(days))
                         = Gross({k \in DOMAIN charges : charges[k].code = Currency(days)
                                          /\ hour - charges[k].at <= 2 * days * HoursPerDay})
                    /\ Total(NetByPlan(days)) = Net(CurrentRows(days))
  BY DEF ComparedLikeWithLike
<1>1. PICK now, before, all :
        /\ now = CurrentRows(days) /\ before = PreviousRows(days)
        /\ all = {k \in DOMAIN charges : charges[k].code = Currency(days)
                                         /\ hour - charges[k].at <= 2 * days * HoursPerDay}
  OBVIOUS
<1>2. /\ hour \in Nat /\ \A k \in DOMAIN charges : charges[k].at \in Nat /\ charges[k].shop \in Shops
  BY RowsAre
<1>3. PICK span \in Nat :
        /\ span = days * HoursPerDay /\ Since(days) = hour - span /\ Since(2 * days) = hour - 2 * span
        /\ 2 * days * HoursPerDay = 2 * span
  BY RangesAre
<1>4. now \in SUBSET (DOMAIN charges) /\ before \in SUBSET (DOMAIN charges)
  BY <1>1 DEF CurrentRows, PreviousRows, OfCurrency, InWindow, InPrevious
<1>5. \A k \in DOMAIN charges :
        /\ k \in now <=> charges[k].code = Currency(days) /\ charges[k].at >= hour - span
        /\ k \in before <=> /\ charges[k].code = Currency(days)
                            /\ charges[k].at >= hour - 2 * span /\ charges[k].at < hour - span
        /\ k \in all <=> charges[k].code = Currency(days) /\ hour - charges[k].at <= 2 * span
  BY <1>1, <1>3 DEF CurrentRows, PreviousRows, OfCurrency, InWindow, InPrevious
<1>6. now \cap before = {} BY <1>2, <1>4, <1>5
<1>7. now \cup before = all
  <2>1. \A k \in DOMAIN charges : k \in now \/ k \in before <=> k \in all BY <1>2, <1>5
  <2>2. all \in SUBSET (DOMAIN charges) BY <1>1
  <2> QED BY <1>4, <2>1, <2>2
<1>8. Gross(now) + Gross(before) = Gross(all)
  <2>1. /\ Gross(now) = Sum(Cents, now) /\ Gross(before) = Sum(Cents, before)
        /\ Gross(now \cup before) = Sum(Cents, now \cup before)
        /\ Cents \in [DOMAIN charges -> Nat]
    BY <1>4, SumsAre
  <2>2. Sum(Cents, now \cup before) = Sum(Cents, now) + Sum(Cents, before)
    BY <1>4, <1>6, <2>1, SumOfTwo
  <2> QED BY <1>7, <2>1, <2>2
<1>9. Total(NetByPlan(days)) = Net(now)
  <2>1. PICK R : R = [plan \in Catalogue |-> {k \in now : PlanBought(k) = plan}] OBVIOUS
  <2>2. R \in [Catalogue -> SUBSET (DOMAIN charges)] BY <1>4, <2>1
  <2>3. \A d, e \in Catalogue : d # e => R[d] \cap R[e] = {} BY <2>1
  <2>4. ASSUME NEW k \in now PROVE PlanBought(k) \in Catalogue
    <3>1. charges[k].shop \in Shops BY <1>2, <1>4
    <3>2. subs[charges[k].shop] \in SubRow /\ shops[charges[k].shop] \in ShopRow
      BY <3>1 DEF FiguresInv
    <3> QED BY <3>2 DEF PlanBought, SubRow, ShopRow
  <2>5. now = UNION {R[d] : d \in Catalogue}
    <3>1. ASSUME NEW k \in now PROVE k \in UNION {R[d] : d \in Catalogue}
      <4>1. k \in R[PlanBought(k)] BY <2>1, <2>4
      <4> QED BY <2>4, <4>1
    <3>2. \A d \in Catalogue : R[d] \subseteq now BY <2>1
    <3> QED BY <3>1, <3>2
  <2>6. PICK f : f = NetByPlan(days) OBVIOUS
  <2>7. Nets \in [DOMAIN charges -> Nat] BY SumsAre
  <2>8. DOMAIN f = Catalogue BY <2>6 DEF NetByPlan
  <2>9. ASSUME NEW d \in Catalogue PROVE f[d] = Sum(Nets, R[d])
    <3>1. f[d] = Net(R[d]) BY <1>1, <2>1, <2>6 DEF NetByPlan
    <3>2. R[d] \in SUBSET (DOMAIN charges) BY <2>2
    <3> QED BY <3>1, <3>2, SumsAre
  <2>10. IsFiniteSet(Catalogue) BY FiguresAssumption
  <2>11. Total(f) = Sum(Nets, now) BY <2>2, <2>3, <2>5, <2>7, <2>8, <2>9, <2>10, SumOfParts
  <2>12. Net(now) = Sum(Nets, now) BY <1>4, SumsAre
  <2> QED BY <2>6, <2>11, <2>12
<1> QED BY <1>1, <1>8, <1>9

LEMMA AxisAgrees == FiguresInv => AxisFits
<1> SUFFICES ASSUME FiguresInv PROVE AxisFits OBVIOUS
<1>1. ASSUME NEW days \in RANGE_DAYS PROVE Highest(Bars(days)) \in Nat
  <2>1. PICK bars : bars = Bars(days) OBVIOUS
  <2>2. PICK rows : rows = CurrentRows(days) OBVIOUS
  <2>3. DOMAIN bars = DOMAIN DaysOfBars(days) BY <2>1, BarsSplit DEF Bars
  <2>4. rows \in SUBSET (DOMAIN charges) BY <2>2, RowsOfBars
  <2>5. /\ Cents \in [DOMAIN charges -> Nat] /\ Refunded \in [DOMAIN charges -> Nat]
        /\ Nets \in [DOMAIN charges -> Nat]
    BY SumsAre
  <2>6. PICK x, y, z \in Nat :
          x = Sum(Cents, rows) /\ y = Sum(Refunded, rows) /\ z = Sum(Nets, rows)
    BY <2>4, <2>5, SumOfLess
  <2>7. ASSUME NEW b \in DOMAIN bars
        PROVE  /\ bars[b].gross \in Nat /\ bars[b].gross <= x
               /\ bars[b].refunded \in Nat /\ bars[b].refunded <= y
               /\ bars[b].cents \in Nat /\ bars[b].cents <= z
    <3>1. BarRows(days, b) \in SUBSET rows BY <2>2, <2>3, RowsOfBars
    <3>2. /\ Sum(Cents, BarRows(days, b)) \in Nat /\ Sum(Cents, BarRows(days, b)) <= x
          /\ Sum(Refunded, BarRows(days, b)) \in Nat /\ Sum(Refunded, BarRows(days, b)) <= y
          /\ Sum(Nets, BarRows(days, b)) \in Nat /\ Sum(Nets, BarRows(days, b)) <= z
      BY <2>4, <2>5, <2>6, <3>1, SumOfLess
    <3>3. /\ bars[b].gross = Sum(Cents, BarRows(days, b))
          /\ bars[b].refunded = Sum(Refunded, BarRows(days, b))
          /\ bars[b].cents = Sum(Nets, BarRows(days, b))
      BY <2>1, <2>3, BarIs
    <3> QED BY <3>2, <3>3
  <2> DEFINE drawn == UNION {{bars[b].gross, bars[b].refunded, bars[b].cents} : b \in DOMAIN bars}
  <2>8. ASSUME NEW n \in drawn PROVE n \in Nat /\ n <= x + y + z
    <3>1. PICK b \in DOMAIN bars : n \in {bars[b].gross, bars[b].refunded, bars[b].cents} OBVIOUS
    <3> QED BY <2>6, <2>7, <3>1
  <2>9. Highest(bars) = Max({0} \cup drawn) BY DEF Highest
  <2>10. x + y + z \in Nat OBVIOUS
  <2> HIDE DEF drawn
  <2>11. drawn \in SUBSET Nat BY <2>8
  <2>12. Max({0} \cup drawn) \in Nat BY <2>8, <2>10, <2>11, HighestIs
  <2> QED BY <2>1, <2>9, <2>12
<1>2. ASSUME NEW days \in RANGE_DAYS
      PROVE  LET highest == Highest(Bars(days))
                 top == axisCeiling(highest)
             IN /\ highest <= top
                /\ \A r \in 1..highest :
                     Round(r) /\ CHART_RULES * r >= highest => top <= CHART_RULES * r
  <2>1. PICK h \in Nat : h = Highest(Bars(days)) BY <1>1
  <2>2. /\ axisCeiling(h) \in Nat /\ h <= axisCeiling(h)
        /\ \A r \in 1..h : Round(r) /\ CHART_RULES * r >= h => axisCeiling(h) <= CHART_RULES * r
    BY AxisClears
  <2> QED BY <2>1, <2>2
<1> QED BY <1>2 DEF AxisFits

LEMMA CustomersAgree == FiguresInv => CustomersOnce
<1> SUFFICES ASSUME FiguresInv PROVE CustomersOnce OBVIOUS
<1>1. /\ IsFiniteSet(DOMAIN charges) /\ DOMAIN charges \subseteq Nat
      /\ \A k \in DOMAIN charges : /\ charges[k].at \in Nat /\ charges[k].at <= hour
                                   /\ charges[k].shop \in Shops
  BY RowsAre
<1>2. Succeeded \in SUBSET (DOMAIN charges) BY DEF Succeeded
<1> DEFINE months == 0..monthOf(MaxHours)
           paid(m) == {k \in Succeeded : monthOf(charges[k].at) = m}
<1>3. ASSUME NEW m
      PROVE  /\ IsFiniteSet(StartedPaying(m)) /\ StartedPaying(m) \subseteq Succeeded
             /\ Cardinality(StartedPaying(m)) + Cardinality(Renewals(m)) = Cardinality(paid(m))
  <2>1. PICK began, renewed : began = StartedPaying(m) /\ renewed = Renewals(m) OBVIOUS
  <2>2. began \in SUBSET (DOMAIN charges) /\ renewed \in SUBSET (DOMAIN charges)
    BY <1>2, <2>1 DEF StartedPaying, Renewals
  <2>3. IsFiniteSet(began) /\ IsFiniteSet(renewed) BY <1>1, <2>2, FS_Subset
  <2>4. began \cup renewed = paid(m) /\ began \cap renewed = {}
    BY <2>1 DEF StartedPaying, Renewals
  <2>5. Cardinality(began \cup renewed)
          = Cardinality(began) + Cardinality(renewed) - Cardinality(began \cap renewed)
    BY <2>3, FS_Union
  <2>6. Cardinality(began \cap renewed) = 0 BY <2>4, FS_EmptySet
  <2>7. PICK x, y \in Nat : x = Cardinality(began) /\ y = Cardinality(renewed)
    BY <2>3, FS_CardinalityType
  <2>8. Cardinality(paid(m)) = x + y - 0 BY <2>4, <2>5, <2>6, <2>7
  <2>9. Cardinality(paid(m)) = x + y BY <2>8
  <2> QED BY <2>1, <2>3, <2>7, <2>9 DEF StartedPaying
<1>4. ASSUME NEW k \in Succeeded PROVE monthOf(charges[k].at) \in months
  <2>1. /\ charges[k].at \in Nat /\ charges[k].at <= hour /\ hour \in Nat /\ hour <= MaxHours
    BY <1>1, <1>2 DEF FiguresInv
  <2>2. MaxHours \in Nat /\ HoursPerDay \in Nat \ {0} /\ DaysPerFigure \in Nat \ {0}
    BY FiguresAssumption
  <2>3. PICK at \in Nat : at = charges[k].at /\ at <= MaxHours BY <2>1, <2>2
  <2>4. DayOf(at) \in Nat /\ DayOf(MaxHours) \in Nat /\ DayOf(at) <= DayOf(MaxHours)
    BY <2>2, <2>3, QuotientGrows DEF DayOf
  <2>5. /\ monthOf(at) \in Nat /\ monthOf(MaxHours) \in Nat /\ monthOf(at) <= monthOf(MaxHours)
    BY <2>2, <2>4, QuotientGrows DEF monthOf
  <2> QED BY <2>3, <2>5
<1>5. ASSUME NEW k \in Succeeded
      PROVE  /\ FirstPayment(charges[k].shop) \in Succeeded
             /\ charges[FirstPayment(charges[k].shop)].shop = charges[k].shop
  <2>1. PICK S : S = {j \in Succeeded : charges[j].shop = charges[k].shop} OBVIOUS
  <2>2. S \in SUBSET Nat /\ k \in S BY <1>1, <1>2, <2>1
  <2>3. \E m \in S : \A j \in S : m <= j BY <2>2, Least
  <2>4. Min(S) \in S BY <2>3 DEF Min
  <2>5. FirstPayment(charges[k].shop) = Min(S) BY <2>1 DEF FirstPayment
  <2> QED BY <2>1, <2>4, <2>5
<1> DEFINE Firsts == {k \in Succeeded : k = FirstPayment(charges[k].shop)}
           Payers == {charges[k].shop : k \in Succeeded}
<1>6. Total([m \in months |-> Cardinality(StartedPaying(m))]) = Cardinality(Firsts)
  <2>1. PICK P : P = [m \in months |-> StartedPaying(m)] OBVIOUS
  <2>2. PICK f : f = [m \in months |-> Cardinality(StartedPaying(m))] OBVIOUS
  <2>3. IsFiniteSet(months)
    <3>1. MaxHours \in Nat /\ HoursPerDay \in Nat \ {0} /\ DaysPerFigure \in Nat \ {0}
      BY FiguresAssumption
    <3>2. DayOf(MaxHours) \in Nat BY <3>1, Quotient DEF DayOf
    <3>3. monthOf(MaxHours) \in Nat BY <3>1, <3>2, Quotient DEF monthOf
    <3> QED BY <3>3, FS_Interval
  <2>4. UNION {P[m] : m \in months} = Firsts
    <3>1. ASSUME NEW k \in Firsts PROVE \E m \in months : k \in P[m]
      <4>1. monthOf(charges[k].at) \in months BY <1>4
      <4>2. k \in StartedPaying(monthOf(charges[k].at)) BY DEF StartedPaying
      <4> QED BY <2>1, <4>1, <4>2
    <3>2. \A m \in months : P[m] \subseteq Firsts BY <2>1 DEF StartedPaying
    <3> QED BY <3>1, <3>2
  <2>5. \A m, n \in months : m # n => P[m] \cap P[n] = {} BY <2>1 DEF StartedPaying
  <2> HIDE DEF months, Firsts
  <2>6. /\ \A m \in months : IsFiniteSet(P[m])
        /\ DOMAIN f = months /\ \A m \in months : f[m] = Cardinality(P[m])
    BY <1>3, <2>1, <2>2
  <2>7. Total(f) = Cardinality(UNION {P[m] : m \in months}) BY <2>3, <2>5, <2>6, PartsAddUp
  <2> QED BY <2>2, <2>4, <2>7
<1>7. Cardinality(Firsts) = Cardinality(Payers)
  <2>1. PICK g : g = [k \in Firsts |-> charges[k].shop] OBVIOUS
  <2>2. g \in [Firsts -> Payers] BY <2>1
  <2>3. ASSUME NEW j \in Firsts, NEW k \in Firsts, g[j] = g[k] PROVE j = k BY <2>1, <2>3
  <2>4. ASSUME NEW s \in Payers PROVE \E k \in Firsts : g[k] = s
    <3>1. PICK k \in Succeeded : s = charges[k].shop OBVIOUS
    <3>2. PICK j : j = FirstPayment(s) OBVIOUS
    <3>3. j \in Succeeded /\ charges[j].shop = s BY <1>5, <3>1, <3>2
    <3>4. j \in Firsts BY <3>2, <3>3
    <3> QED BY <2>1, <3>3, <3>4
  <2>5. Firsts \in SUBSET (DOMAIN charges) BY <1>2
  <2> HIDE DEF Firsts, Payers
  <2>6. IsFiniteSet(Firsts) BY <1>1, <2>5, FS_Subset
  <2>7. IsInjective(g) BY <2>1, <2>3 DEF IsInjective
  <2>8. g \in Injection(Firsts, Payers) BY <2>2, <2>7 DEF Injection
  <2>9. g \in Surjection(Firsts, Payers) BY <2>2, <2>4 DEF Surjection
  <2>10. ExistsBijection(Firsts, Payers) BY <2>8, <2>9 DEF Bijection, ExistsBijection
  <2> QED BY <2>6, <2>10, FS_Bijection
<1> QED BY <1>3, <1>6, <1>7 DEF CustomersOnce

-----------------------------------------------------------------------------
\* FiguresHold: bars that add up to the headline, a window compared with as
\* long a one, an axis that clears what is drawn, and one beginning for each
\* workspace that has paid (metrics_service.ts).
THEOREM FiguresCorrect == FiguresSpec => [](FiguresAgree /\ FiguresHold)
<1>1. FiguresInit => FiguresInv BY FiguresInvInit
<1>2. FiguresInv /\ [FiguresNext]_figureVars => FiguresInv' BY FiguresInvStep
<1>3. FiguresInv => FiguresAgree /\ FiguresHold
  BY BarsAgree, WindowsAgree, AxisAgrees, CustomersAgree DEF FiguresAgree, FiguresHold
<1> QED BY <1>1, <1>2, <1>3, PTL DEF FiguresSpec
=============================================================================
