---------------------------- MODULE SupportProofs ----------------------------
(***************************************************************************)
(* What users are shown of each other's work: the tickets and what is told *)
(* of their messages, the pictures that may be opened once, the log of a   *)
(* deployment and the hot window of a conversation; for any number of      *)
(* tickets, requests, recipients, openings, pages and messages.            *)
(***************************************************************************)
EXTENDS Tickets, Media, Logs, MessageCache, WellFoundedInduction, FiniteSetTheorems,
        SequenceTheorems, TLAPS

-----------------------------------------------------------------------------
(* Tickets. *)

TicketType == [status : TicketStatus \cup {"none", "deleted"}, messages : Seq(TicketMessage),
               attached : Nat, files : Nat]

\* The requests that will store a file of a ticket, or may.
Pends(row) == row.at \in {"status", "quota", "store"}
Pending(d, t) == {k \in Desk : Pends(d[k]) /\ d[k].ticket = t}
Storing(d, t) == {k \in Desk : d[k].at = "store" /\ d[k].ticket = t}

Desks == Cardinality(Desk)
Pendings(d, t) == Cardinality(Pending(d, t))
Storings(d, t) == Cardinality(Storing(d, t))

\* What is told of a message is so, and what is so is told, unless requests overlapped.
MessagesHold(messages, alone) ==
    \A i \in DOMAIN messages : /\ (messages[i].told => messages[i].seen)
                               /\ (alone /\ messages[i].seen => messages[i].told)

\* Only a ticket that is deleted has files without rows, each stored by a request
\* that was under way then; and who stores a file found room for it.
RowHolds(row, pending, storing, alone) ==
    /\ Len(row.messages) <= MaxMessages /\ MessagesHold(row.messages, alone)
    /\ (row.status = "none" => row.messages = <<>> /\ row.attached = 0 /\ row.files = 0)
    /\ (row.status = "deleted" => /\ row.messages = <<>> /\ row.attached = 0
                                  /\ row.files + pending <= Desks)
    /\ (row.status \in TicketStatus => row.files = row.attached)
    /\ row.attached + storing < MaxTicketFiles + Desks
    /\ (alone => row.attached <= MaxTicketFiles /\ row.attached = row.files)

UnseenOf(row, party) ==
    {i \in DOMAIN row.messages : ~row.messages[i].seen /\ row.messages[i].author # party}

\* What a request has read of its ticket is still so, as long as it is alone; and what it
\* listed as unseen was written by the others, always.
DeskHolds(d, ts, alone) ==
    /\ (Pends(d) => d.ticket \in Ticket /\ ts[d.ticket].status # "none")
    /\ (d.at = "mark" =>
           /\ d.ticket \in Ticket
           /\ \/ ts[d.ticket].status = "deleted"
              \/ \A i \in d.unseen : /\ i \in DOMAIN ts[d.ticket].messages
                                     /\ ts[d.ticket].messages[i].author # d.party)
    /\ (alone /\ Pends(d) => ts[d.ticket].status \in TicketStatus)
    /\ (alone /\ d.at = "store" => ts[d.ticket].attached < MaxTicketFiles)
    /\ (alone /\ d.at = "mark" => /\ d.unseen = UnseenOf(ts[d.ticket], d.party)
                                 /\ d.unseen # {})

\* The tickets that are open, or that a request is about to take up by the status it
\* has read; and the requests that have counted and not yet opened.
Taking(d) == {k \in Desk : d[k].at = "status" /\ TakesUp(d[k].party, d[k].status)}
Opens(ts, d) == {t \in Ticket : ts[t].status \in TicketStatus \ Ended}
                    \cup {d[k].ticket : k \in Taking(d)}
Creating(d) == {k \in Desk : d[k].at = "create"}

OpensHold(ts, d) == Cardinality(Opens(ts, d)) + Cardinality(Creating(d)) < MaxOpen + Desks

TicketsHold(ts, d, alone) ==
    \A t \in Ticket : RowHolds(ts[t], Pendings(d, t), Storings(d, t), alone)

DesksHold(ts, d, alone) ==
    /\ \A k \in Desk : DeskHolds(d[k], ts, alone)
    /\ (alone => \A j, k \in Desk : d[j].at # "none" /\ d[k].at # "none" => j = k)

TicketsInv ==
    /\ ticket \in [Ticket -> TicketType] /\ desk \in [Desk -> DeskRow]
    /\ desks \in [calm : BOOLEAN, reopened : BOOLEAN]
    /\ TicketsHold(ticket, desk, desks.calm)
    /\ DesksHold(ticket, desk, desks.calm)
    /\ (~desks.reopened => OpensHold(ticket, desk))

\* The numbers.
LEMMA TicketsNumbers ==
    /\ MaxOpen \in Nat \ {0} /\ MaxTicketFiles \in Nat \ {0} /\ MaxMessages \in Nat \ {0}
    /\ Desks \in Nat /\ IsFiniteSet(Desk) /\ IsFiniteSet(Ticket)
<1>1. IsFiniteSet(Desk) /\ IsFiniteSet(Ticket)
  BY TicketsAssumption
<1> QED
  BY <1>1, FS_CardinalityType, TicketsAssumption DEF Desks

\* Requests are counted.
LEMMA DeskCounts ==
    ASSUME NEW S \in SUBSET Desk
    PROVE  IsFiniteSet(S) /\ Cardinality(S) \in Nat /\ Cardinality(S) <= Desks
BY TicketsNumbers, FS_Subset, FS_CardinalityType DEF Desks

\* Fewer requests.
LEMMA DeskFewer ==
    ASSUME NEW S \in SUBSET Desk, NEW R \in SUBSET S
    PROVE  Cardinality(R) <= Cardinality(S)
BY DeskCounts, FS_Subset

\* The requests of a ticket.
LEMMA PendingCounts ==
    ASSUME NEW d, NEW t
    PROVE  /\ Pendings(d, t) \in Nat /\ Storings(d, t) \in Nat
           /\ Pendings(d, t) <= Desks /\ Storings(d, t) <= Desks
BY DeskCounts DEF Pendings, Storings, Pending, Storing

\* The tickets that are open or about to be.
LEMMA OpensCounts ==
    ASSUME NEW ts, NEW d \in [Desk -> DeskRow]
    PROVE  /\ IsFiniteSet(Opens(ts, d)) /\ Cardinality(Opens(ts, d)) \in Nat
           /\ Cardinality(Creating(d)) \in Nat /\ IsFiniteSet(Creating(d))
<1>1. IsFiniteSet(Ticket \cup {NoTicket})
  BY TicketsNumbers, FS_AddElement
<1>2. Opens(ts, d) \subseteq Ticket \cup {NoTicket}
  BY DEF Opens, Taking, DeskRow
<1> QED
  BY <1>1, <1>2, FS_Subset, FS_CardinalityType, DeskCounts DEF Creating

\* Fewer of them.
LEMMA OpensFewer ==
    ASSUME NEW ts, NEW d \in [Desk -> DeskRow], NEW us, NEW e \in [Desk -> DeskRow],
           Opens(us, e) \subseteq Opens(ts, d), Creating(e) \subseteq Creating(d),
           OpensHold(ts, d)
    PROVE  OpensHold(us, e)
<1>1. /\ Cardinality(Opens(us, e)) <= Cardinality(Opens(ts, d))
      /\ Cardinality(Creating(e)) <= Cardinality(Creating(d))
  BY OpensCounts, FS_Subset
<1>2. /\ Cardinality(Opens(ts, d)) \in Nat /\ Cardinality(Creating(d)) \in Nat
      /\ Cardinality(Opens(us, e)) \in Nat /\ Cardinality(Creating(e)) \in Nat
  BY OpensCounts
<1> QED
  BY <1>1, <1>2, TicketsNumbers DEF OpensHold

\* A row, while fewer requests are under way on its ticket.
LEMMA RowKept ==
    ASSUME NEW row \in TicketType, NEW p \in Nat, NEW s \in Nat, NEW q \in Nat, NEW r \in Nat,
           NEW alone \in BOOLEAN, NEW still \in BOOLEAN, still => alone,
           RowHolds(row, p, s, alone), row.status = "deleted" => q <= p, r <= s
    PROVE  RowHolds(row, q, r, still)
<1>1. MessagesHold(row.messages, still)
  BY DEF RowHolds, MessagesHold
<1>2. row.attached \in Nat /\ row.files \in Nat
  BY DEF TicketType
<1>3. row.attached + r < MaxTicketFiles + Desks
  BY <1>2, TicketsNumbers DEF RowHolds
<1>4. row.status = "deleted" => row.files + q <= Desks
  BY <1>2, TicketsNumbers DEF RowHolds
<1> QED
  BY <1>1, <1>3, <1>4 DEF RowHolds

-----------------------------------------------------------------------------
(* A step of a request. *)

\* One request moves: who is under way on a ticket.
LEMMA OneDesk ==
    ASSUME NEW d \in [Desk -> DeskRow], NEW k \in Desk, NEW v \in DeskRow, NEW e,
           e = [d EXCEPT ![k] = v], NEW t
    PROVE  /\ e \in [Desk -> DeskRow]
           /\ (Pends(v) /\ v.ticket = t => Pends(d[k]) /\ d[k].ticket = t) => Pendings(e, t) <= Pendings(d, t)
           /\ (v.at = "store" /\ v.ticket = t => d[k].at = "store" /\ d[k].ticket = t)
                  => Storings(e, t) <= Storings(d, t)
           /\ (Pends(d[k]) /\ d[k].ticket = t /\ ~Pends(v)) => Pendings(e, t) + 1 <= Pendings(d, t)
           /\ (d[k].at = "store" /\ d[k].ticket = t /\ v.at # "store") => Storings(e, t) + 1 <= Storings(d, t)
<1>1. /\ e \in [Desk -> DeskRow] /\ e[k] = v
      /\ \A j \in Desk \ {k} : e[j] = d[j]
  OBVIOUS
<1>2. ASSUME Pends(v) /\ v.ticket = t => Pends(d[k]) /\ d[k].ticket = t
      PROVE  Pendings(e, t) <= Pendings(d, t)
  <2>1. Pending(e, t) \subseteq Pending(d, t) /\ Pending(d, t) \subseteq Desk
    BY <1>1, <1>2 DEF Pending
  <2> QED
    BY <2>1, DeskFewer DEF Pendings
<1>3. ASSUME v.at = "store" /\ v.ticket = t => d[k].at = "store" /\ d[k].ticket = t
      PROVE  Storings(e, t) <= Storings(d, t)
  <2>1. Storing(e, t) \subseteq Storing(d, t) /\ Storing(d, t) \subseteq Desk
    BY <1>1, <1>3 DEF Storing
  <2> QED
    BY <2>1, DeskFewer DEF Storings
<1>4. ASSUME Pends(d[k]), d[k].ticket = t, ~Pends(v)
      PROVE  Pendings(e, t) + 1 <= Pendings(d, t)
  <2>1. Pending(e, t) = Pending(d, t) \ {k} /\ k \in Pending(d, t) /\ Pending(d, t) \subseteq Desk
    BY <1>1, <1>4 DEF Pending
  <2>2. Cardinality(Pending(d, t) \ {k}) = Cardinality(Pending(d, t)) - 1
    BY <2>1, DeskCounts, FS_RemoveElement
  <2>3. Cardinality(Pending(d, t)) \in Nat
    BY <2>1, DeskCounts
  <2>4. Cardinality(Pending(e, t)) = Cardinality(Pending(d, t)) - 1
    BY <2>1, <2>2
  <2> QED
    BY <2>3, <2>4 DEF Pendings
<1>5. ASSUME d[k].at = "store", d[k].ticket = t, v.at # "store"
      PROVE  Storings(e, t) + 1 <= Storings(d, t)
  <2>1. Storing(e, t) = Storing(d, t) \ {k} /\ k \in Storing(d, t) /\ Storing(d, t) \subseteq Desk
    BY <1>1, <1>5 DEF Storing
  <2>2. Cardinality(Storing(d, t) \ {k}) = Cardinality(Storing(d, t)) - 1
    BY <2>1, DeskCounts, FS_RemoveElement
  <2>3. Cardinality(Storing(d, t)) \in Nat
    BY <2>1, DeskCounts
  <2>4. Cardinality(Storing(e, t)) = Cardinality(Storing(d, t)) - 1
    BY <2>1, <2>2
  <2> QED
    BY <2>3, <2>4 DEF Storings
<1> QED
  BY <1>1, <1>2, <1>3, <1>4, <1>5

\* The rows of tickets that a step does not concern.
LEMMA RowsStay ==
    ASSUME NEW ts \in [Ticket -> TicketType], NEW d, NEW e, NEW alone \in BOOLEAN, NEW still \in BOOLEAN,
           still => alone, TicketsHold(ts, d, alone), NEW t \in Ticket,
           Pendings(e, t) <= Pendings(d, t), Storings(e, t) <= Storings(d, t)
    PROVE  RowHolds(ts[t], Pendings(e, t), Storings(e, t), still)
<1>1. RowHolds(ts[t], Pendings(d, t), Storings(d, t), alone)
  BY DEF TicketsHold
<1> QED
  BY <1>1, RowKept, PendingCounts

\* The rows, of which one changes.
LEMMA RowsMove ==
    ASSUME NEW ts \in [Ticket -> TicketType], NEW us \in [Ticket -> TicketType],
           NEW d, NEW e, NEW alone \in BOOLEAN, NEW still \in BOOLEAN, still => alone,
           TicketsHold(ts, d, alone), NEW t \in Ticket,
           \A u \in Ticket \ {t} : /\ us[u] = ts[u]
                                   /\ Pendings(e, u) <= Pendings(d, u) /\ Storings(e, u) <= Storings(d, u),
           RowHolds(us[t], Pendings(e, t), Storings(e, t), still)
    PROVE  TicketsHold(us, e, still)
<1>1. ASSUME NEW u \in Ticket \ {t}
      PROVE  RowHolds(us[u], Pendings(e, u), Storings(e, u), still)
  BY RowsStay
<1> QED
  BY <1>1 DEF TicketsHold

\* How a ticket goes on: it is never unopened, nor undeleted, and its messages stay.
GoesOn(v, w) ==
    /\ (v.status # "none" => w.status # "none")
    /\ \/ w.status = "deleted"
       \/ /\ v.status # "deleted"
          /\ \A i \in DOMAIN v.messages : /\ i \in DOMAIN w.messages
                                          /\ w.messages[i].author = v.messages[i].author

\* A request that a step does not concern.
LEMMA DeskStays ==
    ASSUME NEW ts \in [Ticket -> TicketType], NEW us \in [Ticket -> TicketType], NEW v \in DeskRow,
           NEW alone \in BOOLEAN, NEW still \in BOOLEAN, DeskHolds(v, ts, alone),
           \A t \in Ticket : GoesOn(ts[t], us[t]), still => v.at = "none"
    PROVE  DeskHolds(v, us, still)
<1>1. Pends(v) => v.ticket \in Ticket /\ us[v.ticket].status # "none"
  BY DEF DeskHolds, GoesOn
<1>2. ASSUME v.at = "mark"
      PROVE  /\ v.ticket \in Ticket
             /\ \/ us[v.ticket].status = "deleted"
                \/ \A i \in v.unseen : /\ i \in DOMAIN us[v.ticket].messages
                                       /\ us[v.ticket].messages[i].author # v.party
  <2>1. GoesOn(ts[v.ticket], us[v.ticket]) /\ v.ticket \in Ticket
    BY <1>2 DEF DeskHolds
  <2> QED
    BY <1>2, <2>1 DEF DeskHolds, GoesOn
<1> QED
  BY <1>1, <1>2 DEF DeskHolds, Pends

\* The requests, of which one moves, with the others there only when they overlap.
LEMMA DesksMove ==
    ASSUME NEW ts \in [Ticket -> TicketType], NEW us \in [Ticket -> TicketType],
           NEW d \in [Desk -> DeskRow], NEW e \in [Desk -> DeskRow],
           NEW alone \in BOOLEAN, NEW still \in BOOLEAN,
           DesksHold(ts, d, alone), NEW k \in Desk,
           \A t \in Ticket : GoesOn(ts[t], us[t]),
           \A j \in Desk \ {k} : e[j] = d[j] /\ (still => d[j].at = "none"),
           DeskHolds(e[k], us, still)
    PROVE  DesksHold(us, e, still)
<1>1. ASSUME NEW j \in Desk \ {k}
      PROVE  DeskHolds(e[j], us, still)
  <2>1. DeskHolds(d[j], ts, alone) /\ d[j] \in DeskRow
    BY DEF DesksHold
  <2> QED
    BY <2>1, DeskStays
<1> QED
  BY <1>1 DEF DesksHold

\* The requests, when none moves, none of them there unless they overlap.
LEMMA DesksStay ==
    ASSUME NEW ts \in [Ticket -> TicketType], NEW us \in [Ticket -> TicketType],
           NEW d \in [Desk -> DeskRow], NEW alone \in BOOLEAN, NEW still \in BOOLEAN,
           DesksHold(ts, d, alone), \A t \in Ticket : GoesOn(ts[t], us[t]),
           \A j \in Desk : still => d[j].at = "none"
    PROVE  DesksHold(us, d, still)
<1>1. ASSUME NEW j \in Desk
      PROVE  DeskHolds(d[j], us, still)
  <2>1. DeskHolds(d[j], ts, alone) /\ d[j] \in DeskRow
    BY DEF DesksHold
  <2> QED
    BY <2>1, DeskStays
<1> QED
  BY <1>1 DEF DesksHold

\* Who has just counted: the tickets that are about to be taken up are no more than the
\* requests that take them up, which are not those that create.
LEMMA OpensCounted ==
    ASSUME NEW ts, NEW d \in [Desk -> DeskRow],
           Cardinality({t \in Ticket : ts[t].status \in TicketStatus \ Ended}) < MaxOpen
    PROVE  OpensHold(ts, d)
<1> DEFINE A == {t \in Ticket : ts[t].status \in TicketStatus \ Ended}
           B == {d[k].ticket : k \in Taking(d)}
           f == [k \in Taking(d) |-> d[k].ticket]
<1>1. /\ IsFiniteSet(Taking(d)) /\ IsFiniteSet(Creating(d))
      /\ Cardinality(Taking(d)) \in Nat /\ Cardinality(Creating(d)) \in Nat
  BY DeskCounts DEF Taking, Creating
<1>2. IsFiniteSet(B) /\ Cardinality(B) <= Cardinality(Taking(d)) /\ Cardinality(B) \in Nat
  <2>1. f \in Surjection(Taking(d), B)
    BY DEF Surjection
  <2> QED
    BY <2>1, <1>1, FS_Surjection, FS_CardinalityType
<1>3. IsFiniteSet(A) /\ Cardinality(A) \in Nat
  BY TicketsNumbers, FS_Subset, FS_CardinalityType
<1>4. /\ IsFiniteSet(A \cup B) /\ IsFiniteSet(A \cap B)
      /\ Cardinality(A \cup B) = Cardinality(A) + Cardinality(B) - Cardinality(A \cap B)
  BY <1>2, <1>3, FS_Union, FS_Intersection
<1>5. Cardinality(A \cap B) \in Nat
  BY <1>4, FS_CardinalityType
<1>6. Cardinality(Taking(d)) + Cardinality(Creating(d)) <= Desks
  <2>1. Taking(d) \cap Creating(d) = {} /\ Taking(d) \cup Creating(d) \in SUBSET Desk
    BY DEF Taking, Creating
  <2>2. /\ Cardinality(Taking(d) \cup Creating(d))
            = Cardinality(Taking(d)) + Cardinality(Creating(d)) - Cardinality({})
        /\ Cardinality({}) = 0
    BY <1>1, <2>1, FS_Union, FS_EmptySet
  <2>3. Cardinality(Taking(d) \cup Creating(d)) <= Desks
    BY <2>1, DeskCounts
  <2> QED
    BY <2>2, <2>3, <1>1
<1>7. Opens(ts, d) = A \cup B
  BY DEF Opens
<1>8. Cardinality(A) < MaxOpen
  OBVIOUS
<1>9. Cardinality(Opens(ts, d)) = Cardinality(A) + Cardinality(B) - Cardinality(A \cap B)
  BY <1>4, <1>7
<1> HIDE DEF A, B, f
<1> QED
  BY <1>1, <1>2, <1>3, <1>5, <1>6, <1>8, <1>9, TicketsNumbers DEF OpensHold

\* Who counted opens a ticket.
LEMMA OpensMore ==
    ASSUME NEW ts, NEW us, NEW d \in [Desk -> DeskRow], NEW e \in [Desk -> DeskRow],
           NEW k \in Desk, NEW t, d[k].at = "create",
           Opens(us, e) \subseteq Opens(ts, d) \cup {t}, Creating(e) \subseteq Creating(d) \ {k},
           OpensHold(ts, d)
    PROVE  OpensHold(us, e)
<1>1. /\ IsFiniteSet(Opens(ts, d)) /\ Cardinality(Opens(ts, d)) \in Nat
      /\ IsFiniteSet(Creating(d)) /\ Cardinality(Creating(d)) \in Nat
  BY OpensCounts
<1>2. Cardinality(Opens(us, e)) \in Nat /\ Cardinality(Creating(e)) \in Nat
  BY OpensCounts
<1>3. Cardinality(Opens(us, e)) <= Cardinality(Opens(ts, d)) + 1
  <2>1. /\ IsFiniteSet(Opens(ts, d) \cup {t})
        /\ Cardinality(Opens(ts, d) \cup {t}) <= Cardinality(Opens(ts, d)) + 1
    <3>1. /\ IsFiniteSet(Opens(ts, d) \cup {t})
          /\ Cardinality(Opens(ts, d) \cup {t})
                 = IF t \in Opens(ts, d) THEN Cardinality(Opens(ts, d)) ELSE Cardinality(Opens(ts, d)) + 1
      BY <1>1, FS_AddElement
    <3> QED
      BY <1>1, <3>1
  <2>2. /\ Cardinality(Opens(us, e)) <= Cardinality(Opens(ts, d) \cup {t})
        /\ Cardinality(Opens(ts, d) \cup {t}) \in Nat
    BY <2>1, FS_Subset, FS_CardinalityType
  <2> QED
    BY <2>1, <2>2, <1>1, <1>2
<1>4. Cardinality(Creating(e)) <= Cardinality(Creating(d)) - 1
  <2>1. k \in Creating(d)
    BY DEF Creating
  <2>2. /\ IsFiniteSet(Creating(d) \ {k})
        /\ Cardinality(Creating(d) \ {k}) = Cardinality(Creating(d)) - 1
    BY <2>1, <1>1, FS_RemoveElement
  <2>3. Cardinality(Creating(e)) <= Cardinality(Creating(d) \ {k})
    BY <2>2, FS_Subset
  <2> QED
    BY <2>2, <2>3
<1> QED
  BY <1>1, <1>2, <1>3, <1>4, TicketsNumbers DEF OpensHold

\* A request moves to something that neither takes up nor creates.
LEMMA OpensQuiet ==
    ASSUME NEW ts \in [Ticket -> TicketType], NEW us \in [Ticket -> TicketType],
           NEW d \in [Desk -> DeskRow], NEW k \in Desk, NEW v \in DeskRow, NEW e,
           e = [d EXCEPT ![k] = v], v.at \notin {"status", "create"},
           \A t \in Ticket : us[t].status \in TicketStatus \ Ended => t \in Opens(ts, d),
           OpensHold(ts, d)
    PROVE  OpensHold(us, e)
<1>1. /\ e \in [Desk -> DeskRow] /\ e[k] = v
      /\ \A j \in Desk \ {k} : e[j] = d[j]
  OBVIOUS
<1>2. Taking(e) \subseteq Taking(d) \ {k}
  BY <1>1 DEF Taking
<1>3. Opens(us, e) \subseteq Opens(ts, d)
  <2>1. {t \in Ticket : us[t].status \in TicketStatus \ Ended} \subseteq Opens(ts, d)
    OBVIOUS
  <2>2. \A j \in Taking(e) : e[j].ticket = d[j].ticket /\ j \in Taking(d)
    BY <1>1, <1>2 DEF Taking
  <2>3. {e[j].ticket : j \in Taking(e)} \subseteq {d[j].ticket : j \in Taking(d)}
    BY <2>2
  <2> QED
    BY <2>1, <2>3 DEF Opens
<1>4. Creating(e) \subseteq Creating(d)
  BY <1>1 DEF Creating
<1> QED
  BY <1>1, <1>3, <1>4, OpensFewer

\* A message is written, of which nobody has been told.
LEMMA MessageWritten ==
    ASSUME NEW messages \in Seq(TicketMessage), NEW party \in Party, NEW alone \in BOOLEAN,
           Len(messages) < MaxMessages, MessagesHold(messages, alone), NEW s,
           s = Append(messages, [author |-> party, seen |-> FALSE, told |-> FALSE])
    PROVE  /\ s \in Seq(TicketMessage) /\ Len(s) <= MaxMessages /\ MessagesHold(s, alone)
           /\ \A i \in DOMAIN messages : i \in DOMAIN s /\ s[i] = messages[i]
           /\ s # <<>>
<1> DEFINE m == [author |-> party, seen |-> FALSE, told |-> FALSE]
<1>1. m \in TicketMessage /\ ~m.seen /\ ~m.told
  BY DEF TicketMessage
<1> HIDE DEF m
<1>2. s = Append(messages, m)
  BY DEF m
<1>3. /\ s \in Seq(TicketMessage) /\ Len(s) = Len(messages) + 1 /\ Len(messages) \in Nat
      /\ s[Len(messages) + 1] = m
      /\ \A i \in 1 .. Len(messages) : s[i] = messages[i]
  BY <1>1, <1>2
<1>4. DOMAIN s = 1 .. Len(messages) + 1 /\ DOMAIN messages = 1 .. Len(messages)
  BY <1>3, LenProperties
<1>5. MessagesHold(s, alone)
  <2>1. ASSUME NEW i \in DOMAIN s
        PROVE  (s[i].told => s[i].seen) /\ (alone /\ s[i].seen => s[i].told)
    <3>1. CASE i \in DOMAIN messages
      BY <3>1, <1>3, <1>4 DEF MessagesHold
    <3>2. CASE i = Len(messages) + 1
      BY <3>2, <1>1, <1>3
    <3> QED
      BY <3>1, <3>2, <1>3, <1>4
  <2> QED
    BY <2>1 DEF MessagesHold
<1>6. s # <<>>
  BY <1>3
<1> QED
  BY <1>3, <1>4, <1>5, <1>6, TicketsNumbers

\* A ticket as it was goes on.
LEMMA AsItWas == ASSUME NEW v, NEW w, w = v PROVE GoesOn(v, w)
BY DEF GoesOn

\* Nothing has been opened yet.
LEMMA TicketsInits == TicketsInit => TicketsInv
<1> SUFFICES ASSUME TicketsInit PROVE TicketsInv
  OBVIOUS
<1>1. ticket \in [Ticket -> TicketType]
  BY EmptySeq DEF TicketsInit, TicketType
<1>2. desk \in [Desk -> DeskRow]
  BY DEF TicketsInit, DeskRow, NoDesk, Party
<1>3. desks = [calm |-> TRUE, reopened |-> FALSE]
  BY DEF TicketsInit
<1>4. \A t \in Ticket : ticket[t].status = "none" /\ ticket[t].messages = <<>>
                        /\ ticket[t].attached = 0 /\ ticket[t].files = 0
  BY DEF TicketsInit
<1>5. \A k \in Desk : desk[k].at = "none"
  BY DEF TicketsInit, NoDesk
<1>6. TicketsHold(ticket, desk, desks.calm)
  <2>1. ASSUME NEW t \in Ticket
        PROVE  RowHolds(ticket[t], Pendings(desk, t), Storings(desk, t), desks.calm)
    <3>1. Storing(desk, t) = {}
      BY <1>5 DEF Storing
    <3>2. Storings(desk, t) = 0
      BY <3>1, FS_EmptySet DEF Storings
    <3>3. MessagesHold(ticket[t].messages, desks.calm) /\ Len(ticket[t].messages) = 0
      BY <1>4, EmptySeq DEF MessagesHold
    <3> QED
      BY <3>2, <3>3, <1>4, TicketsNumbers DEF RowHolds, TicketStatus
  <2> QED
    BY <2>1 DEF TicketsHold
<1>7. DesksHold(ticket, desk, desks.calm)
  BY <1>5 DEF DesksHold, DeskHolds, Pends
<1>8. OpensHold(ticket, desk)
  <2>1. Opens(ticket, desk) = {} /\ Creating(desk) = {}
    BY <1>4, <1>5 DEF Opens, Taking, Creating, TicketStatus
  <2>2. Cardinality({}) = 0
    BY FS_EmptySet
  <2> QED
    BY <2>1, <2>2, TicketsNumbers DEF OpensHold
<1> QED
  BY <1>1, <1>2, <1>3, <1>6, <1>7, <1>8 DEF TicketsInv

\* Every request, and every step of one, leaves the tickets as they must be.
LEMMA TicketsSteps == TicketsInv /\ [TicketsNext]_ticketsVars => TicketsInv'
<1> SUFFICES ASSUME TicketsInv, [TicketsNext]_ticketsVars PROVE TicketsInv'
  OBVIOUS
<1> USE TicketsNumbers
<1>1. /\ ticket \in [Ticket -> TicketType] /\ desk \in [Desk -> DeskRow]
      /\ desks \in [calm : BOOLEAN, reopened : BOOLEAN]
      /\ desks.calm \in BOOLEAN /\ desks.reopened \in BOOLEAN
      /\ TicketsHold(ticket, desk, desks.calm) /\ DesksHold(ticket, desk, desks.calm)
      /\ (~desks.reopened => OpensHold(ticket, desk))
  BY DEF TicketsInv
<1>2. /\ \A t \in Ticket : RowHolds(ticket[t], Pendings(desk, t), Storings(desk, t), desks.calm)
      /\ \A k \in Desk : DeskHolds(desk[k], ticket, desks.calm)
  BY <1>1 DEF TicketsHold, DesksHold
<1>3. \A k, j \in Desk : desks.calm /\ desk[k].at # "none" /\ desk[j].at # "none" => j = k
  BY <1>1 DEF DesksHold
<1>4. NoDesk \in DeskRow /\ ~Pends(NoDesk) /\ NoDesk.at = "none"
  BY DEF NoDesk, DeskRow, Party, Pends
<1>5. \A k \in Desk : /\ Alone(k) => \A j \in Desk \ {k} : desk[j].at = "none"
                      /\ desks.calm /\ desk[k].at # "none" => \A j \in Desk \ {k} : desk[j].at = "none"
  BY <1>3 DEF Alone, Sits
<1>6. ASSUME NEW k \in Desk, CountOpen(k)
      PROVE  TicketsInv'
  <2> DEFINE v == [NoDesk EXCEPT !.at = "create"]
  <2>1. v \in DeskRow /\ ~Pends(v) /\ v.at = "create"
    BY DEF NoDesk, DeskRow, Party, Pends
  <2> HIDE DEF v
  <2>2. /\ ticket' = ticket /\ desk' = [desk EXCEPT ![k] = v] /\ desk[k].at = "none"
        /\ desks' = [desks EXCEPT !.calm = @ /\ Alone(k)] /\ Cardinality(StillOpen) < MaxOpen
    BY <1>6 DEF CountOpen, Sit, Overlap, Sits, MayOpen, v
  <2>3. /\ desks' \in [calm : BOOLEAN, reopened : BOOLEAN] /\ desks'.calm \in BOOLEAN
        /\ (desks'.calm => desks.calm /\ Alone(k))
    BY <1>1, <2>2
  <2>4. desk' \in [Desk -> DeskRow] /\ ticket' \in [Ticket -> TicketType]
    BY <1>1, <2>1, <2>2
  <2>5. TicketsHold(ticket', desk', desks'.calm)
    <3>1. \A t \in Ticket : Pendings(desk', t) <= Pendings(desk, t) /\ Storings(desk', t) <= Storings(desk, t)
      BY <1>1, <2>1, <2>2, OneDesk
    <3>2. \A t \in Ticket : RowHolds(ticket[t], Pendings(desk', t), Storings(desk', t), desks'.calm)
      BY <3>1, <1>1, <2>3, RowsStay
    <3> QED
      BY <3>2, <2>2 DEF TicketsHold
  <2>6. DesksHold(ticket', desk', desks'.calm)
    <3>1. \A t \in Ticket : GoesOn(ticket[t], ticket'[t])
      BY <2>2, AsItWas
    <3>2. DeskHolds(desk'[k], ticket', desks'.calm)
      BY <2>1, <2>2, <1>1 DEF DeskHolds
    <3>3. \A j \in Desk \ {k} : desk'[j] = desk[j] /\ (desks'.calm => desk[j].at = "none")
      BY <2>2, <2>3, <1>1, <1>5
    <3> QED
      BY <3>1, <3>2, <3>3, <1>1, <2>3, <2>4, DesksMove
  <2>7. OpensHold(ticket', desk')
    BY <2>2, <2>4, OpensCounted DEF StillOpen
  <2> QED
    BY <2>3, <2>4, <2>5, <2>6, <2>7 DEF TicketsInv
<1>7. ASSUME NEW k \in Desk, NEW t \in Ticket, OpenTicket(k, t)
      PROVE  TicketsInv'
  <2> DEFINE v == IF t \in Watched THEN [NoDesk EXCEPT !.at = "quota", !.ticket = t] ELSE NoDesk
             s == IF t \in Watched THEN Written(t, "user") ELSE ticket[t].messages
             w == [ticket[t] EXCEPT !.status = "open", !.messages = s]
  <2>1. /\ v \in DeskRow /\ (t \in Watched => v.at = "quota" /\ v.ticket = t)
        /\ (t \notin Watched => v = NoDesk) /\ v.at \in {"quota", "none"}
        /\ (Pends(v) => v.ticket = t)
    BY DEF NoDesk, DeskRow, Party, Pends
  <2>2. /\ ticket[t] \in TicketType /\ ticket[t].status = "none" /\ desk[k].at = "create"
        /\ ticket[t].messages = <<>> /\ ticket[t].attached = 0 /\ ticket[t].files = 0
    BY <1>1, <1>2, <1>7 DEF OpenTicket, RowHolds
  <2>a. \/ s = ticket[t].messages
        \/ \E party \in Party :
               s = Append(ticket[t].messages, [author |-> party, seen |-> FALSE, told |-> FALSE])
    BY DEF Written, Party
  <2> HIDE DEF s
  <2>3. s \in Seq(TicketMessage) /\ Len(s) <= MaxMessages /\ MessagesHold(s, desks.calm)
    <3>1. /\ ticket[t].messages \in Seq(TicketMessage) /\ Len(ticket[t].messages) < MaxMessages
          /\ MessagesHold(ticket[t].messages, desks.calm)
      BY <1>2, <2>2, EmptySeq DEF RowHolds, TicketType
    <3>2. CASE s = ticket[t].messages
      BY <3>1, <3>2
    <3>3. ASSUME NEW party \in Party,
                 s = Append(ticket[t].messages, [author |-> party, seen |-> FALSE, told |-> FALSE])
          PROVE  s \in Seq(TicketMessage) /\ Len(s) <= MaxMessages /\ MessagesHold(s, desks.calm)
      <4>0. desks.calm \in BOOLEAN
        BY <1>1
      <4>1. s \in Seq(TicketMessage)
        BY <3>1, <3>3, <4>0, MessageWritten
      <4>2. Len(s) <= MaxMessages
        BY <3>1, <3>3, <4>0, MessageWritten
      <4>3. MessagesHold(s, desks.calm)
        BY <3>1, <3>3, <4>0, MessageWritten
      <4> QED
        BY <4>1, <4>2, <4>3
    <3> QED
      BY <3>2, <3>3, <2>a
  <2>4. /\ w \in TicketType /\ w.status = "open" /\ w.messages = s /\ w.attached = 0 /\ w.files = 0
    BY <2>2, <2>3 DEF TicketType, TicketStatus
  <2>5. ticket' = [ticket EXCEPT ![t] = w] /\ desk' = [desk EXCEPT ![k] = v] /\ desks' = desks
    <3>1. ticket' = [ticket EXCEPT ![t].status = "open", ![t].messages = s]
      BY <1>7 DEF OpenTicket, s
    <3> QED
      BY <3>1, <1>1, <1>7 DEF OpenTicket, TicketType
  <2> HIDE DEF v, w
  <2>6. /\ desk' \in [Desk -> DeskRow] /\ ticket' \in [Ticket -> TicketType]
        /\ desks'.calm \in BOOLEAN /\ (desks'.calm => desks.calm)
    BY <1>1, <2>1, <2>4, <2>5
  <2>7. TicketsHold(ticket', desk', desks'.calm)
    <3>1. \A u \in Ticket \ {t} : /\ ticket'[u] = ticket[u]
                                  /\ Pendings(desk', u) <= Pendings(desk, u) /\ Storings(desk', u) <= Storings(desk, u)
      <4>1. ASSUME NEW u \in Ticket \ {t}
            PROVE  Pendings(desk', u) <= Pendings(desk, u) /\ Storings(desk', u) <= Storings(desk, u)
        <5>1. /\ ~(Pends(v) /\ v.ticket = u) /\ ~(v.at = "store" /\ v.ticket = u)
          BY <2>1
        <5> QED
          BY <5>1, <1>1, <2>1, <2>5, OneDesk
      <4> QED
        BY <4>1, <2>5, <1>1
    <3>2. RowHolds(ticket'[t], Pendings(desk', t), Storings(desk', t), desks'.calm)
      <4>1. ticket'[t] = w
        BY <2>5, <1>1
      <4>2. Storings(desk', t) \in Nat /\ Storings(desk', t) <= Desks
        BY PendingCounts
      <4>3. MessagesHold(s, desks'.calm)
        BY <2>3, <2>5
      <4> QED
        BY <4>1, <4>2, <4>3, <2>3, <2>4 DEF RowHolds
    <3> QED
      BY <3>1, <3>2, <1>1, <2>6, RowsMove
  <2>8. DesksHold(ticket', desk', desks'.calm)
    <3>1. \A u \in Ticket : GoesOn(ticket[u], ticket'[u])
      <4>1. GoesOn(ticket[t], w)
        BY <2>2, <2>4, EmptySeq DEF GoesOn
      <4> QED
        BY <4>1, <2>5, <1>1, AsItWas
    <3>2. DeskHolds(desk'[k], ticket', desks'.calm)
      BY <2>1, <2>4, <2>5, <1>1, <1>4 DEF DeskHolds, TicketStatus, Pends
    <3>3. \A j \in Desk \ {k} : desk'[j] = desk[j] /\ (desks'.calm => desk[j].at = "none")
      BY <2>2, <2>5, <1>1, <1>5
    <3> QED
      BY <3>1, <3>2, <3>3, <1>1, <2>6, DesksMove
  <2>9. ~desks'.reopened => OpensHold(ticket', desk')
    <3>1. Creating(desk') \subseteq Creating(desk) \ {k} /\ Taking(desk') \subseteq Taking(desk)
      BY <2>1, <2>5, <2>6, <1>1 DEF Creating, Taking
    <3>2. \A j \in Taking(desk') : desk'[j].ticket = desk[j].ticket
      BY <2>1, <2>5, <2>6, <1>1 DEF Taking
    <3>3. {desk'[j].ticket : j \in Taking(desk')} \subseteq {desk[j].ticket : j \in Taking(desk)}
      BY <3>1, <3>2
    <3>4. Opens(ticket', desk') \subseteq Opens(ticket, desk) \cup {t}
      BY <3>3, <2>5, <1>1 DEF Opens
    <3> QED
      BY <3>1, <3>4, <2>2, <2>5, <2>6, <1>1, OpensMore
  <2> QED
    BY <1>1, <2>5, <2>6, <2>7, <2>8, <2>9 DEF TicketsInv
<1>8. ASSUME NEW k \in Desk, NEW t \in Ticket, NEW party \in Party, Answer(k, t, party)
      PROVE  TicketsInv'
  <2> DEFINE v == [NoDesk EXCEPT !.at = "status", !.ticket = t, !.party = party, !.status = ticket[t].status]
             s == Written(t, party)
             w == [ticket[t] EXCEPT !.messages = s]
  <2>1. ticket[t] \in TicketType /\ ticket[t].status \in TicketStatus \ {"closed"}
    BY <1>1, <1>8 DEF Answer, There
  <2>2. /\ v \in DeskRow /\ v.at = "status" /\ v.ticket = t /\ v.party = party /\ v.status = ticket[t].status
    BY <2>1 DEF NoDesk, DeskRow, Party, TicketType
  <2> HIDE DEF v
  <2>3. /\ s \in Seq(TicketMessage) /\ Len(s) <= MaxMessages /\ MessagesHold(s, desks.calm)
        /\ \A i \in DOMAIN ticket[t].messages : i \in DOMAIN s /\ s[i] = ticket[t].messages[i]
    <3>1. /\ ticket[t].messages \in Seq(TicketMessage) /\ Len(ticket[t].messages) < MaxMessages
          /\ MessagesHold(ticket[t].messages, desks.calm)
      BY <1>2, <1>8, <2>1 DEF RowHolds, TicketType, Answer
    <3>2. s = Append(ticket[t].messages, [author |-> party, seen |-> FALSE, told |-> FALSE])
      BY DEF Written
    <3> HIDE DEF s
    <3>3. desks.calm \in BOOLEAN
      BY <1>1
    <3>4. s \in Seq(TicketMessage)
      BY <3>1, <3>2, <3>3, MessageWritten
    <3>5. Len(s) <= MaxMessages
      BY <3>1, <3>2, <3>3, MessageWritten
    <3>6. MessagesHold(s, desks.calm)
      BY <3>1, <3>2, <3>3, MessageWritten
    <3>7. \A i \in DOMAIN ticket[t].messages : i \in DOMAIN s /\ s[i] = ticket[t].messages[i]
      BY <3>1, <3>2, <3>3, MessageWritten
    <3> QED
      BY <3>4, <3>5, <3>6, <3>7
  <2>4. ticket' = [ticket EXCEPT ![t] = w]
    BY <1>1, <1>8 DEF Answer
  <2> HIDE DEF s
  <2>5. /\ w \in TicketType /\ w.status = ticket[t].status /\ w.messages = s
        /\ w.attached = ticket[t].attached /\ w.files = ticket[t].files
    BY <2>1, <2>3 DEF TicketType
  <2> HIDE DEF w
  <2>6. /\ desk' = [desk EXCEPT ![k] = v] /\ desk[k].at = "none"
        /\ desks' = [desks EXCEPT !.calm = @ /\ Alone(k)]
    BY <1>8 DEF Answer, Sit, Sits, Overlap, v
  <2>7. /\ desk' \in [Desk -> DeskRow] /\ ticket' \in [Ticket -> TicketType]
        /\ desks' \in [calm : BOOLEAN, reopened : BOOLEAN]
        /\ desks'.calm \in BOOLEAN /\ (desks'.calm => desks.calm /\ Alone(k))
        /\ desks'.reopened = desks.reopened
        /\ ticket'[t] = w /\ \A u \in Ticket \ {t} : ticket'[u] = ticket[u]
    BY <1>1, <2>2, <2>4, <2>5, <2>6
  <2>8. TicketsHold(ticket', desk', desks'.calm)
    <3>1. \A u \in Ticket \ {t} : /\ ticket'[u] = ticket[u]
                                  /\ Pendings(desk', u) <= Pendings(desk, u) /\ Storings(desk', u) <= Storings(desk, u)
      <4>1. ASSUME NEW u \in Ticket \ {t}
            PROVE  Pendings(desk', u) <= Pendings(desk, u) /\ Storings(desk', u) <= Storings(desk, u)
        BY <1>1, <2>2, <2>6, OneDesk
      <4> QED
        BY <4>1, <2>7
    <3>2. RowHolds(ticket'[t], Pendings(desk', t), Storings(desk', t), desks'.calm)
      <4>1. Storings(desk', t) <= Storings(desk, t)
        BY <1>1, <2>2, <2>6, OneDesk
      <4>2. ticket[t].attached + Storings(desk', t) < MaxTicketFiles + Desks
        BY <4>1, <1>2, <2>1, PendingCounts DEF RowHolds, TicketType
      <4>3. MessagesHold(s, desks'.calm)
        BY <2>3, <2>7 DEF MessagesHold
      <4>4. RowHolds(ticket[t], Pendings(desk, t), Storings(desk, t), desks.calm)
        BY <1>2
      <4>5. ticket[t].status # "none" /\ ticket[t].status # "deleted"
        BY <2>1 DEF TicketStatus
      <4> QED
        BY <4>2, <4>3, <4>4, <4>5, <2>1, <2>3, <2>5, <2>7 DEF RowHolds
    <3> QED
      BY <3>1, <3>2, <1>1, <2>7, RowsMove
  <2>9. DesksHold(ticket', desk', desks'.calm)
    <3>1. \A u \in Ticket : GoesOn(ticket[u], ticket'[u])
      <4>1. GoesOn(ticket[t], w)
        BY <2>1, <2>3, <2>5 DEF GoesOn, TicketStatus
      <4> QED
        BY <4>1, <2>7, AsItWas
    <3>2. DeskHolds(desk'[k], ticket', desks'.calm)
      BY <2>1, <2>2, <2>5, <2>6, <2>7, <1>1 DEF DeskHolds, TicketStatus, Pends
    <3>3. \A j \in Desk \ {k} : desk'[j] = desk[j] /\ (desks'.calm => desk[j].at = "none")
      BY <2>6, <2>7, <1>1, <1>5
    <3> QED
      BY <3>1, <3>2, <3>3, <1>1, <2>7, DesksMove
  <2>10. ~desks'.reopened => OpensHold(ticket', desk')
    <3>1. /\ desk'[k] = v /\ (\A j \in Desk \ {k} : desk'[j] = desk[j])
      BY <2>6, <1>1
    <3>2. Creating(desk') \subseteq Creating(desk)
      BY <3>1, <2>2 DEF Creating
    <3>3. \A j \in Taking(desk') : desk'[j].ticket \in Opens(ticket, desk)
      BY <3>1, <2>1, <2>2, <2>6 DEF Taking, Opens, TakesUp, TicketStatus, Ended
    <3>4. \A u \in Ticket : ticket'[u].status = ticket[u].status
      BY <2>5, <2>7
    <3>5. Opens(ticket', desk') \subseteq Opens(ticket, desk)
      BY <3>3, <3>4 DEF Opens
    <3> QED
      BY <3>2, <3>5, <2>7, <1>1, OpensFewer
  <2> QED
    BY <1>1, <2>7, <2>8, <2>9, <2>10 DEF TicketsInv
<1>9. ASSUME NEW k \in Desk, desk[k].at \in {"status", "quota"}, NEW v \in DeskRow,
             v = NoDesk \/ (v.at = "quota" /\ v.ticket = desk[k].ticket)
                        \/ (/\ v.at = "store" /\ v.ticket = desk[k].ticket
                            /\ ticket[desk[k].ticket].attached < MaxTicketFiles),
             desk' = [desk EXCEPT ![k] = v], desks' = desks,
             \/ ticket' = ticket
             \/ /\ ticket' = [ticket EXCEPT ![desk[k].ticket].status = "in_progress"]
                /\ k \in Taking(desk) /\ There(desk[k].ticket)
      PROVE  TicketsInv'
  <2> DEFINE t == desk[k].ticket
  <2>1. /\ t \in Ticket /\ ticket[t].status # "none" /\ ticket[t] \in TicketType
        /\ (desks.calm => ticket[t].status \in TicketStatus)
    BY <1>1, <1>2, <1>9 DEF DeskHolds, Pends
  <2>2. PICK w \in TicketType : /\ ticket' = [ticket EXCEPT ![t] = w]
                                /\ w.messages = ticket[t].messages
                                /\ w.attached = ticket[t].attached /\ w.files = ticket[t].files
                                /\ \/ w.status = ticket[t].status
                                   \/ /\ w.status = "in_progress" /\ k \in Taking(desk)
                                      /\ ticket[t].status \in TicketStatus
    <3>1. CASE ticket' = ticket
      <4>1. ticket' = [ticket EXCEPT ![t] = ticket[t]]
        BY <3>1, <2>1, <1>1
      <4> QED
        BY <4>1, <2>1
    <3>2. CASE ticket' # ticket
      <4> DEFINE w == [ticket[t] EXCEPT !.status = "in_progress"]
      <4>1. /\ w \in TicketType /\ w.messages = ticket[t].messages /\ w.status = "in_progress"
            /\ w.attached = ticket[t].attached /\ w.files = ticket[t].files
        BY <2>1 DEF TicketType, TicketStatus
      <4>2. ticket' = [ticket EXCEPT ![t] = w]
        BY <3>2, <1>9
      <4> QED
        BY <4>1, <4>2, <3>2, <1>9 DEF There
    <3> QED
      BY <3>1, <3>2
  <2> HIDE DEF t
  <2>3. /\ desk' \in [Desk -> DeskRow] /\ ticket' \in [Ticket -> TicketType]
        /\ desks' \in [calm : BOOLEAN, reopened : BOOLEAN]
        /\ desks'.calm \in BOOLEAN /\ desks'.calm = desks.calm
        /\ desks'.reopened = desks.reopened
        /\ ticket'[t] = w /\ (\A u \in Ticket \ {t} : ticket'[u] = ticket[u])
        /\ desk'[k] = v /\ (\A j \in Desk \ {k} : desk'[j] = desk[j])
    BY <1>1, <1>9, <2>1, <2>2
  <2>4. /\ Pends(desk[k]) /\ desk[k].ticket = t /\ (Pends(v) => v.ticket = t)
        /\ v.at \in {"none", "quota", "store"} /\ (v.at = "store" => v.ticket = t)
        /\ (v.at = "store" => ticket[t].attached < MaxTicketFiles)
    BY <1>9, <1>4 DEF Pends, t
  <2>5. TicketsHold(ticket', desk', desks'.calm)
    <3>1. \A u \in Ticket \ {t} : /\ ticket'[u] = ticket[u]
                                  /\ Pendings(desk', u) <= Pendings(desk, u) /\ Storings(desk', u) <= Storings(desk, u)
      <4>1. ASSUME NEW u \in Ticket \ {t}
            PROVE  Pendings(desk', u) <= Pendings(desk, u) /\ Storings(desk', u) <= Storings(desk, u)
        BY <1>1, <1>9, <2>4, OneDesk
      <4> QED
        BY <4>1, <2>3
    <3>2. RowHolds(ticket'[t], Pendings(desk', t), Storings(desk', t), desks'.calm)
      <4>1. Pendings(desk', t) <= Pendings(desk, t)
        BY <1>1, <1>9, <2>4, OneDesk
      <4>2. ticket[t].attached + Storings(desk', t) < MaxTicketFiles + Desks
        <5>1. CASE v.at = "store"
          BY <5>1, <2>1, <2>4, PendingCounts DEF TicketType
        <5>2. CASE v.at # "store"
          <6>1. Storings(desk', t) <= Storings(desk, t)
            BY <5>2, <1>1, <1>9, OneDesk
          <6> QED
            BY SMTT(30), <6>1, <1>2, <2>1, PendingCounts DEF RowHolds, TicketType
        <5> QED
          BY <5>1, <5>2
      <4>3. RowHolds(ticket[t], Pendings(desk, t), Storings(desk, t), desks.calm)
        BY <1>2, <2>1
      <4>4. w.status = "deleted" => w.files + Pendings(desk', t) <= Desks
        BY <4>1, <4>3, <2>1, <2>2, PendingCounts DEF RowHolds, TicketType
      <4>5. w.status = "in_progress" => w.status \in TicketStatus
        BY DEF TicketStatus
      <4> QED
        BY <4>2, <4>3, <4>4, <4>5, <2>1, <2>2, <2>3 DEF RowHolds
    <3> QED
      BY <3>1, <3>2, <1>1, <2>1, <2>3, RowsMove
  <2>6. DesksHold(ticket', desk', desks'.calm)
    <3>1. \A u \in Ticket : GoesOn(ticket[u], ticket'[u])
      <4>1. GoesOn(ticket[t], w)
        BY <2>2 DEF GoesOn, TicketStatus
      <4> QED
        BY <4>1, <2>3, AsItWas
    <3>2. DeskHolds(desk'[k], ticket', desks'.calm)
      <4>1. w.status # "none" /\ (desks.calm => w.status \in TicketStatus)
        BY <2>1, <2>2 DEF TicketStatus
      <4> QED
        BY <4>1, <2>1, <2>2, <2>3, <2>4, <1>4 DEF DeskHolds, Pends
    <3>3. \A j \in Desk \ {k} : desk'[j] = desk[j] /\ (desks'.calm => desk[j].at = "none")
      BY <2>3, <1>5, <1>9
    <3> QED
      BY <3>1, <3>2, <3>3, <1>1, <2>3, DesksMove
  <2>7. ~desks'.reopened => OpensHold(ticket', desk')
    <3>1. ASSUME NEW u \in Ticket, ticket'[u].status \in TicketStatus \ Ended
          PROVE  u \in Opens(ticket, desk)
      BY <3>1, <2>2, <2>3, <2>4 DEF Opens
    <3>2. v.at \notin {"status", "create"}
      BY <2>4
    <3> QED
      BY <3>1, <3>2, <1>1, <1>9, <2>3, OpensQuiet
  <2> QED
    BY <2>3, <2>5, <2>6, <2>7 DEF TicketsInv
<1>10. ASSUME NEW k \in Desk, TakeUp(k)
       PROVE  TicketsInv'
  <2>1. desk[k] \in DeskRow /\ desk[k].at = "status" /\ desks' = desks
    BY <1>1, <1>10 DEF TakeUp
  <2> DEFINE v == [desk[k] EXCEPT !.at = "quota"]
  <2>2. v \in DeskRow /\ v.at = "quota" /\ v.ticket = desk[k].ticket
    BY <2>1 DEF DeskRow
  <2>3. [desk EXCEPT ![k].at = "quota"] = [desk EXCEPT ![k] = v]
    BY <1>1
  <2>4. CASE desk' = [desk EXCEPT ![k] = NoDesk] /\ ticket' = ticket
    BY <2>1, <2>4, <1>4, <1>9
  <2>5. CASE desk' = [desk EXCEPT ![k] = v] /\ ticket' = ticket
    <3> HIDE DEF v
    <3> QED
      BY <2>1, <2>2, <2>5, <1>9
  <2>6. CASE /\ desk' = [desk EXCEPT ![k] = v] /\ TakesUp(desk[k].party, desk[k].status)
             /\ ticket' = [ticket EXCEPT ![desk[k].ticket].status = "in_progress"] /\ There(desk[k].ticket)
    <3> HIDE DEF v
    <3>1. k \in Taking(desk)
      BY <2>1, <2>6 DEF Taking
    <3> QED
      BY <3>1, <2>1, <2>2, <2>6, <1>9
  <2> QED
    BY <2>3, <2>4, <2>5, <2>6, <1>10 DEF TakeUp, DeskDone
<1>11. ASSUME NEW k \in Desk, NEW file \in BOOLEAN, CheckQuota(k, file)
       PROVE  TicketsInv'
  <2>1. desk[k] \in DeskRow /\ desk[k].at = "quota" /\ desks' = desks /\ ticket' = ticket
    BY <1>1, <1>11 DEF CheckQuota
  <2> DEFINE v == [desk[k] EXCEPT !.at = "store"]
  <2>2. v \in DeskRow /\ v.at = "store" /\ v.ticket = desk[k].ticket
    BY <2>1 DEF DeskRow
  <2>3. [desk EXCEPT ![k].at = "store"] = [desk EXCEPT ![k] = v]
    BY <1>1
  <2>4. CASE desk' = [desk EXCEPT ![k] = NoDesk]
    BY <2>1, <2>4, <1>4, <1>9
  <2>5. CASE desk' = [desk EXCEPT ![k] = v] /\ WithinQuota(desk[k].ticket)
    <3>1. desk[k].ticket \in Ticket
      BY <2>1, <1>2 DEF DeskHolds, Pends
    <3>2. ticket[desk[k].ticket].attached \in Nat
      BY <3>1, <1>1 DEF TicketType
    <3>3. ticket[desk[k].ticket].attached < MaxTicketFiles
      BY <3>2, <2>5 DEF WithinQuota
    <3> HIDE DEF v
    <3> QED
      BY <3>3, <2>1, <2>2, <2>5, <1>9
  <2> QED
    BY <2>3, <2>4, <2>5, <1>11 DEF CheckQuota, DeskDone
<1>12. ASSUME NEW k \in Desk, StoreFile(k)
       PROVE  TicketsInv'
  <2> DEFINE t == desk[k].ticket
  <2>1. /\ t \in Ticket /\ ticket[t].status # "none" /\ ticket[t] \in TicketType
        /\ (desks.calm => ticket[t].status \in TicketStatus)
        /\ (desks.calm => ticket[t].attached < MaxTicketFiles)
        /\ desk[k].at = "store" /\ desk[k].ticket = t
    BY <1>1, <1>2, <1>12 DEF DeskHolds, Pends, StoreFile
  <2>2. desk' = [desk EXCEPT ![k] = NoDesk] /\ desks' = desks
    BY <1>12 DEF StoreFile, DeskDone
  <2>a. ticket' = [ticket EXCEPT ![t].files = @ + 1, ![t].attached = IF There(t) THEN @ + 1 ELSE @]
    BY <1>12 DEF StoreFile
  <2> HIDE DEF t
  <2>3. PICK w \in TicketType : /\ ticket' = [ticket EXCEPT ![t] = w]
                                /\ w.messages = ticket[t].messages /\ w.status = ticket[t].status
                                /\ w.files = ticket[t].files + 1
                                /\ w.attached = IF ticket[t].status \in TicketStatus
                                                THEN ticket[t].attached + 1 ELSE ticket[t].attached
    <3> DEFINE a == IF There(t) THEN ticket[t].attached + 1 ELSE ticket[t].attached
               w == [ticket[t] EXCEPT !.files = ticket[t].files + 1, !.attached = a]
    <3>1. a \in Nat /\ ticket[t].files + 1 \in Nat
      BY <2>1 DEF TicketType
    <3>2. /\ a = IF ticket[t].status \in TicketStatus THEN ticket[t].attached + 1 ELSE ticket[t].attached
          /\ ticket' = [ticket EXCEPT ![t] = w]
      BY <2>1, <2>a, <1>1 DEF There, TicketType
    <3> HIDE DEF a
    <3>3. /\ w \in TicketType /\ w.messages = ticket[t].messages /\ w.status = ticket[t].status
          /\ w.files = ticket[t].files + 1 /\ w.attached = a
      BY <3>1, <2>1 DEF TicketType
    <3> QED
      BY <3>2, <3>3
  <2>4. /\ desk' \in [Desk -> DeskRow] /\ ticket' \in [Ticket -> TicketType]
        /\ desks'.calm \in BOOLEAN /\ desks'.calm = desks.calm
        /\ ticket'[t] = w /\ (\A u \in Ticket \ {t} : ticket'[u] = ticket[u])
        /\ desk'[k] = NoDesk /\ (\A j \in Desk \ {k} : desk'[j] = desk[j])
    BY <1>1, <1>4, <2>1, <2>2, <2>3
  <2>5. TicketsHold(ticket', desk', desks'.calm)
    <3>1. \A u \in Ticket \ {t} : /\ ticket'[u] = ticket[u]
                                  /\ Pendings(desk', u) <= Pendings(desk, u) /\ Storings(desk', u) <= Storings(desk, u)
      <4>1. ASSUME NEW u \in Ticket \ {t}
            PROVE  Pendings(desk', u) <= Pendings(desk, u) /\ Storings(desk', u) <= Storings(desk, u)
        BY <1>1, <1>4, <2>2, OneDesk
      <4> QED
        BY <4>1, <2>4
    <3>2. RowHolds(ticket'[t], Pendings(desk', t), Storings(desk', t), desks'.calm)
      <4>1. Pendings(desk', t) + 1 <= Pendings(desk, t) /\ Storings(desk', t) + 1 <= Storings(desk, t)
        BY <1>1, <1>4, <2>1, <2>2, OneDesk DEF Pends
      <4>2. RowHolds(ticket[t], Pendings(desk, t), Storings(desk, t), desks.calm)
        BY <1>2, <2>1
      <4>3. ticket[t].attached \in Nat /\ ticket[t].files \in Nat
        BY <2>1 DEF TicketType
      <4>4. w.attached + Storings(desk', t) < MaxTicketFiles + Desks
        BY SMTT(30), <4>1, <4>2, <4>3, <2>3, PendingCounts DEF RowHolds
      <4>5. w.status = "deleted" => w.files + Pendings(desk', t) <= Desks /\ w.attached = 0
        BY SMTT(30), <4>1, <4>2, <4>3, <2>3, PendingCounts DEF RowHolds, TicketStatus
      <4>6. w.status \in TicketStatus => w.files = w.attached
        BY <4>2, <4>3, <2>3 DEF RowHolds
      <4>7. desks.calm => w.attached <= MaxTicketFiles /\ w.attached = w.files
        BY <4>2, <4>3, <2>1, <2>3 DEF RowHolds
      <4> QED
        BY <4>2, <4>4, <4>5, <4>6, <4>7, <2>1, <2>3, <2>4 DEF RowHolds
    <3> QED
      BY <3>1, <3>2, <1>1, <2>1, <2>4, RowsMove
  <2>6. DesksHold(ticket', desk', desks'.calm)
    <3>1. \A u \in Ticket : GoesOn(ticket[u], ticket'[u])
      <4>1. GoesOn(ticket[t], w)
        BY <2>3 DEF GoesOn
      <4> QED
        BY <4>1, <2>4, AsItWas
    <3>2. DeskHolds(desk'[k], ticket', desks'.calm)
      BY <2>4, <1>4 DEF DeskHolds
    <3>3. \A j \in Desk \ {k} : desk'[j] = desk[j] /\ (desks'.calm => desk[j].at = "none")
      BY <2>1, <2>4, <1>5
    <3> QED
      BY <3>1, <3>2, <3>3, <1>1, <2>4, DesksMove
  <2>7. ~desks'.reopened => OpensHold(ticket', desk')
    <3>1. \A u \in Ticket : ticket'[u].status \in TicketStatus \ Ended => u \in Opens(ticket, desk)
      BY <2>3, <2>4 DEF Opens
    <3> QED
      BY <3>1, <1>1, <1>4, <2>2, <2>4, OpensQuiet
  <2> QED
    BY <1>1, <2>2, <2>4, <2>5, <2>6, <2>7 DEF TicketsInv
<1>13. ASSUME NEW k \in Desk, NEW t \in Ticket, NEW party \in Party, ListUnseen(k, t, party)
       PROVE  TicketsInv'
  <2> DEFINE v == [NoDesk EXCEPT !.at = "mark", !.ticket = t, !.party = party, !.unseen = Unseen(t, party)]
  <2>1. /\ ticket[t] \in TicketType /\ ticket[t].status \in TicketStatus
        /\ Unseen(t, party) = UnseenOf(ticket[t], party) /\ UnseenOf(ticket[t], party) # {}
    BY <1>1, <1>13 DEF ListUnseen, There, Unseen, UnseenOf, Messages
  <2>2. UnseenOf(ticket[t], party) \in SUBSET (1 .. MaxMessages)
    <3>1. /\ DOMAIN ticket[t].messages = 1 .. Len(ticket[t].messages)
          /\ Len(ticket[t].messages) <= MaxMessages /\ Len(ticket[t].messages) \in Nat
      BY <2>1, <1>2, LenProperties DEF TicketType, RowHolds
    <3> QED
      BY <3>1 DEF UnseenOf
  <2>3. /\ v \in DeskRow /\ v.at = "mark" /\ v.ticket = t /\ v.party = party
        /\ v.unseen = UnseenOf(ticket[t], party) /\ ~Pends(v)
    BY <2>1, <2>2 DEF NoDesk, DeskRow, Pends
  <2>4. /\ desk' = [desk EXCEPT ![k] = v] /\ desk[k].at = "none" /\ ticket' = ticket
        /\ desks' = [desks EXCEPT !.calm = @ /\ Alone(k)]
    BY <1>13 DEF ListUnseen, Sit, Sits, Overlap
  <2> HIDE DEF v
  <2>5. /\ desk' \in [Desk -> DeskRow] /\ ticket' \in [Ticket -> TicketType]
        /\ desks' \in [calm : BOOLEAN, reopened : BOOLEAN]
        /\ desks'.calm \in BOOLEAN /\ (desks'.calm => desks.calm /\ Alone(k))
        /\ desks'.reopened = desks.reopened
    BY <1>1, <2>3, <2>4
  <2>6. TicketsHold(ticket', desk', desks'.calm)
    <3>1. \A u \in Ticket : Pendings(desk', u) <= Pendings(desk, u) /\ Storings(desk', u) <= Storings(desk, u)
      BY <1>1, <2>3, <2>4, OneDesk
    <3>2. \A u \in Ticket : RowHolds(ticket[u], Pendings(desk', u), Storings(desk', u), desks'.calm)
      BY <3>1, <1>1, <2>5, RowsStay
    <3> QED
      BY <3>2, <2>4 DEF TicketsHold
  <2>7. DesksHold(ticket', desk', desks'.calm)
    <3>1. \A u \in Ticket : GoesOn(ticket[u], ticket'[u])
      BY <2>4, AsItWas
    <3>2. DeskHolds(desk'[k], ticket', desks'.calm)
      BY <2>1, <2>3, <2>4, <1>1 DEF DeskHolds, UnseenOf
    <3>3. \A j \in Desk \ {k} : desk'[j] = desk[j] /\ (desks'.calm => desk[j].at = "none")
      BY <2>4, <2>5, <1>1, <1>5
    <3> QED
      BY <3>1, <3>2, <3>3, <1>1, <2>5, DesksMove
  <2>8. ~desks'.reopened => OpensHold(ticket', desk')
    <3>1. \A u \in Ticket : ticket'[u].status \in TicketStatus \ Ended => u \in Opens(ticket, desk)
      BY <2>4 DEF Opens
    <3> QED
      BY <3>1, <1>1, <2>3, <2>4, <2>5, OpensQuiet
  <2> QED
    BY <2>5, <2>6, <2>7, <2>8 DEF TicketsInv
<1>14. ASSUME NEW k \in Desk, MarkSeen(k)
       PROVE  TicketsInv'
  <2> DEFINE t == desk[k].ticket
             old == ticket[t].messages
             marked == Marked(k)
             Mark(i) == [old[i] EXCEPT !.seen = @ \/ i \in marked,
                                       !.told = @ \/ (marked # {} /\ i \in desk[k].unseen)]
             new == [i \in DOMAIN old |-> Mark(i)]
  <2>1. /\ t \in Ticket /\ desk[k].at = "mark" /\ ticket[t] \in TicketType
        /\ old \in Seq(TicketMessage) /\ Len(old) \in Nat /\ DOMAIN old = 1 .. Len(old)
        /\ MessagesHold(old, desks.calm) /\ Len(old) <= MaxMessages
    <3>1. t \in Ticket /\ desk[k].at = "mark"
      BY <1>2, <1>14 DEF MarkSeen, DeskHolds
    <3>2. old \in Seq(TicketMessage) /\ MessagesHold(old, desks.calm) /\ Len(old) <= MaxMessages
      BY <3>1, <1>1, <1>2 DEF TicketType, RowHolds
    <3> QED
      BY <3>1, <3>2, <1>1, LenProperties
  <2>2. ticket' = [ticket EXCEPT ![t].messages = new]
    BY <1>14 DEF MarkSeen, Messages
  <2>3. desk' = [desk EXCEPT ![k] = NoDesk] /\ desks' = desks
    BY <1>14 DEF MarkSeen, DeskDone
  <2>4. marked = UnseenOf(ticket[t], desk[k].party)
    BY DEF Marked, Unseen, UnseenOf, Messages
  <2>5. \A i \in DOMAIN old : old[i] \in TicketMessage
    BY <2>1, ElementOfSeq
  <2>6. \A i \in DOMAIN old : /\ Mark(i) \in TicketMessage /\ Mark(i).author = old[i].author
                              /\ Mark(i).seen = (old[i].seen \/ i \in marked)
                              /\ Mark(i).told = (old[i].told \/ (marked # {} /\ i \in desk[k].unseen))
    BY <2>5 DEF TicketMessage
  <2>7. /\ new \in [1 .. Len(old) -> TicketMessage] /\ DOMAIN new = DOMAIN old
        /\ \A i \in DOMAIN old : new[i] = Mark(i)
    BY <2>1, <2>6
  <2> HIDE DEF new, Mark
  <2>8. new \in Seq(TicketMessage) /\ Len(new) = Len(old)
    <3>1. new \in Seq(TicketMessage)
      BY SMTT(30), <2>1, <2>7, SeqDef
    <3>2. DOMAIN new = 1 .. Len(new) /\ Len(new) \in Nat
      BY <3>1, LenProperties
    <3> QED
      BY <3>1, <3>2, <2>1, <2>7
  <2>9. \/ ticket[t].status = "deleted" /\ old = <<>>
        \/ \A i \in desk[k].unseen : i \in DOMAIN old /\ old[i].author # desk[k].party
    BY <2>1, <1>2 DEF DeskHolds, RowHolds
  <2>10. MessagesHold(new, desks.calm)
    <3>1. ASSUME NEW i \in DOMAIN new
          PROVE  /\ (new[i].told => new[i].seen)
                 /\ (desks.calm /\ new[i].seen => new[i].told)
      <4>1. i \in DOMAIN old /\ new[i] = Mark(i) /\ DOMAIN old # {}
        BY <2>7, <3>1
      <4>2. /\ new[i].seen <=> old[i].seen \/ i \in marked
            /\ new[i].told <=> old[i].told \/ (marked # {} /\ i \in desk[k].unseen)
        BY <4>1, <2>6
      <4>3. old # <<>>
        BY <4>1, <2>1, EmptySeq
      <4>4. i \in desk[k].unseen => old[i].seen \/ i \in marked
        BY <4>1, <4>3, <2>4, <2>9 DEF UnseenOf
      <4>5. desks.calm => marked = desk[k].unseen
        BY <2>1, <2>4, <1>2 DEF DeskHolds
      <4>6. /\ (old[i].told => old[i].seen)
            /\ (desks.calm /\ old[i].seen => old[i].told)
        BY <4>1, <2>1 DEF MessagesHold
      <4> HIDE DEF old, marked, t
      <4> QED
        BY <4>2, <4>4, <4>5, <4>6
    <3> QED
      BY <3>1 DEF MessagesHold
  <2> DEFINE w == [ticket[t] EXCEPT !.messages = new]
  <2>11. \A i \in DOMAIN old : new[i].author = old[i].author
    BY <2>6, <2>7
  <2>12. old = <<>> => new = <<>>
    BY <2>1, <2>8, EmptySeq
  <2>13. ticket' = [ticket EXCEPT ![t] = w]
    BY <2>2, <1>1
  <2> HIDE DEF marked
  <2>14. /\ w \in TicketType /\ w.status = ticket[t].status /\ w.messages = new
         /\ w.attached = ticket[t].attached /\ w.files = ticket[t].files
    BY <2>1, <2>8 DEF TicketType
  <2> HIDE DEF w, t
  <2>15. /\ desk' \in [Desk -> DeskRow] /\ ticket' \in [Ticket -> TicketType]
         /\ desks'.calm \in BOOLEAN /\ desks'.calm = desks.calm
         /\ ticket'[t] = w /\ (\A u \in Ticket \ {t} : ticket'[u] = ticket[u])
         /\ desk'[k] = NoDesk /\ (\A j \in Desk \ {k} : desk'[j] = desk[j])
    BY <1>1, <1>4, <2>1, <2>3, <2>13, <2>14
  <2>16. TicketsHold(ticket', desk', desks'.calm)
    <3>0. ASSUME NEW u \in Ticket
          PROVE  Pendings(desk', u) <= Pendings(desk, u) /\ Storings(desk', u) <= Storings(desk, u)
      BY <1>1, <1>4, <2>3, OneDesk
    <3>1. \A u \in Ticket \ {t} : /\ ticket'[u] = ticket[u]
                                  /\ Pendings(desk', u) <= Pendings(desk, u) /\ Storings(desk', u) <= Storings(desk, u)
      BY <3>0, <2>15
    <3>2. RowHolds(ticket'[t], Pendings(desk', t), Storings(desk', t), desks'.calm)
      <4>1. RowHolds(ticket[t], Pendings(desk', t), Storings(desk', t), desks.calm)
        BY <3>0, <2>1, <1>1, RowsStay
      <4> QED
        BY <4>1, <2>1, <2>8, <2>10, <2>12, <2>14, <2>15 DEF RowHolds
    <3> QED
      BY <3>1, <3>2, <1>1, <2>1, <2>15, RowsMove
  <2>17. DesksHold(ticket', desk', desks'.calm)
    <3>1. \A u \in Ticket : GoesOn(ticket[u], ticket'[u])
      <4>1. GoesOn(ticket[t], w)
        BY <2>7, <2>11, <2>14 DEF GoesOn
      <4> QED
        BY <4>1, <2>15, AsItWas
    <3>2. DeskHolds(desk'[k], ticket', desks'.calm)
      BY <2>15, <1>4 DEF DeskHolds
    <3>3. \A j \in Desk \ {k} : desk'[j] = desk[j] /\ (desks'.calm => desk[j].at = "none")
      BY <2>1, <2>15, <1>5
    <3> QED
      BY <3>1, <3>2, <3>3, <1>1, <2>15, DesksMove
  <2>18. ~desks'.reopened => OpensHold(ticket', desk')
    <3>1. \A u \in Ticket : ticket'[u].status \in TicketStatus \ Ended => u \in Opens(ticket, desk)
      BY <2>14, <2>15 DEF Opens
    <3> QED
      BY <3>1, <1>1, <1>4, <2>3, <2>15, OpensQuiet
  <2> QED
    BY <1>1, <2>3, <2>15, <2>16, <2>17, <2>18 DEF TicketsInv
<1>15. ASSUME NEW t \in Ticket, NEW w \in TicketType, There(t), ticket' = [ticket EXCEPT ![t] = w],
              \/ /\ w.messages = ticket[t].messages /\ w.attached = ticket[t].attached
                 /\ w.files = ticket[t].files /\ w.status \in TicketStatus
              \/ w.messages = <<>> /\ w.attached = 0 /\ w.files = 0 /\ w.status = "deleted",
              desk' = desk, desks' \in [calm : BOOLEAN, reopened : BOOLEAN],
              desks'.calm => desks.calm /\ \A k \in Desk : ~Sits(k),
              ~desks'.reopened => /\ ~desks.reopened
                                  /\ (w.status \in TicketStatus \ Ended => ticket[t].status \notin Ended)
       PROVE  TicketsInv'
  <2>1. ticket[t] \in TicketType /\ ticket[t].status \in TicketStatus
    BY <1>1, <1>15 DEF There
  <2>2. /\ ticket' \in [Ticket -> TicketType] /\ desks'.calm \in BOOLEAN
        /\ desk' \in [Desk -> DeskRow] /\ (desks'.calm => desks.calm)
        /\ ticket'[t] = w /\ (\A u \in Ticket \ {t} : ticket'[u] = ticket[u])
    BY <1>1, <1>15
  <2>3. TicketsHold(ticket', desk', desks'.calm)
    <3>1. \A u \in Ticket : /\ Pendings(desk', u) = Pendings(desk, u) /\ Storings(desk', u) = Storings(desk, u)
                            /\ Pendings(desk, u) \in Nat /\ Storings(desk, u) \in Nat
                            /\ Pendings(desk, u) <= Desks /\ Storings(desk, u) <= Desks
      BY <1>15, PendingCounts
    <3>2. RowHolds(ticket'[t], Pendings(desk', t), Storings(desk', t), desks'.calm)
      <4>1. RowHolds(ticket[t], Pendings(desk, t), Storings(desk, t), desks'.calm)
        BY <2>1, <2>2, <3>1, <1>1, RowsStay
      <4>2. CASE w.status = "deleted"
        <5>1. w.messages = <<>> /\ w.attached = 0 /\ w.files = 0
          BY <4>2, <1>15 DEF TicketStatus
        <5>2. MessagesHold(w.messages, desks'.calm) /\ Len(w.messages) = 0
          BY <5>1, EmptySeq DEF MessagesHold
        <5> QED
          BY <5>1, <5>2, <4>2, <3>1, <2>2 DEF RowHolds, TicketStatus
      <4>3. CASE w.status # "deleted"
        <5>1. /\ w.messages = ticket[t].messages /\ w.attached = ticket[t].attached
              /\ w.files = ticket[t].files /\ w.status \in TicketStatus
          BY <4>3, <1>15
        <5>2. w.status # "none"
          BY <5>1 DEF TicketStatus
        <5> QED
          BY <5>1, <5>2, <4>1, <4>3, <3>1, <2>1, <2>2 DEF RowHolds
      <4> QED
        BY <4>2, <4>3
    <3>3. \A u \in Ticket \ {t} : /\ ticket'[u] = ticket[u]
                                  /\ Pendings(desk', u) <= Pendings(desk, u) /\ Storings(desk', u) <= Storings(desk, u)
      BY <3>1, <2>2
    <3> QED
      BY <3>2, <3>3, <2>2, <1>1, RowsMove
  <2>4. DesksHold(ticket', desk', desks'.calm)
    <3>1. \A u \in Ticket : GoesOn(ticket[u], ticket'[u])
      <4>1. GoesOn(ticket[t], w)
        BY <1>15, <2>1 DEF GoesOn, TicketStatus
      <4> QED
        BY <4>1, <2>2, AsItWas
    <3>2. \A j \in Desk : desks'.calm => desk[j].at = "none"
      BY <1>15 DEF Sits
    <3>3. DesksHold(ticket', desk, desks'.calm)
      BY <3>1, <3>2, <2>2, <1>1, DesksStay
    <3> QED
      BY <3>3, <1>15
  <2>5. ~desks'.reopened => OpensHold(ticket', desk')
    <3> SUFFICES ASSUME ~desks'.reopened PROVE OpensHold(ticket', desk')
      OBVIOUS
    <3>1. Opens(ticket', desk) \subseteq Opens(ticket, desk)
      BY <1>15, <2>1, <2>2 DEF Opens
    <3>2. Creating(desk) \subseteq Creating(desk) /\ OpensHold(ticket, desk)
      BY <1>1, <1>15
    <3>3. OpensHold(ticket', desk)
      BY <3>1, <3>2, <1>1, OpensFewer
    <3> QED
      BY <3>3, <1>15
  <2> QED
    BY <1>15, <2>2, <2>3, <2>4, <2>5 DEF TicketsInv
<1>16. ASSUME NEW t \in Ticket, NEW status \in TicketStatus, There(t),
              ticket' = [ticket EXCEPT ![t].status = status], desk' = desk,
              desks' \in [calm : BOOLEAN, reopened : BOOLEAN],
              desks'.calm => desks.calm /\ \A k \in Desk : ~Sits(k),
              ~desks'.reopened => /\ ~desks.reopened
                                  /\ (status \in TicketStatus \ Ended => ticket[t].status \notin Ended)
       PROVE  TicketsInv'
  <2> DEFINE w == [ticket[t] EXCEPT !.status = status]
  <2>1. /\ w \in TicketType /\ w.messages = ticket[t].messages /\ w.attached = ticket[t].attached
        /\ w.files = ticket[t].files /\ w.status = status
    BY <1>1 DEF TicketType
  <2>2. ticket' = [ticket EXCEPT ![t] = w]
    BY <1>16
  <2> HIDE DEF w
  <2> QED
    BY <2>1, <2>2, <1>15, <1>16
<1>17. ASSUME NEW t \in Ticket, CloseTicket(t)
       PROVE  TicketsInv'
  <2>1. /\ There(t) /\ ticket' = [ticket EXCEPT ![t].status = "closed"] /\ desk' = desk
        /\ desks' = [desks EXCEPT !.calm = @ /\ \A k \in Desk : ~Sits(k)]
    BY <1>17 DEF CloseTicket, AtOnce, Overlap
  <2>2. /\ desks' \in [calm : BOOLEAN, reopened : BOOLEAN] /\ desks'.reopened = desks.reopened
        /\ (desks'.calm => desks.calm /\ \A k \in Desk : ~Sits(k))
    BY <2>1, <1>1
  <2>3. "closed" \in TicketStatus /\ "closed" \in Ended
    BY DEF TicketStatus, Ended
  <2> QED
    BY <2>1, <2>2, <2>3, <1>16
<1>18. ASSUME NEW t \in Ticket, NEW status \in TicketStatus, StaffStatus(t, status)
       PROVE  TicketsInv'
  <2>1. /\ There(t) /\ ticket' = [ticket EXCEPT ![t].status = status] /\ desk' = desk
        /\ desks' = [desks EXCEPT !.calm = @ /\ \A k \in Desk : ~Sits(k),
                                  !.reopened = @ \/ (ticket[t].status \in Ended /\ status \notin Ended)]
    BY <1>18 DEF StaffStatus
  <2>2. /\ desks' \in [calm : BOOLEAN, reopened : BOOLEAN]
        /\ desks'.reopened = (desks.reopened \/ (ticket[t].status \in Ended /\ status \notin Ended))
        /\ (desks'.calm => desks.calm /\ \A k \in Desk : ~Sits(k))
    BY <2>1, <1>1
  <2> QED
    BY <2>1, <2>2, <1>16
<1>19. ASSUME NEW t \in Ticket, DeleteTicket(t)
       PROVE  TicketsInv'
  <2> DEFINE w == [status |-> "deleted", messages |-> <<>>, attached |-> 0, files |-> 0]
  <2>1. /\ There(t) /\ ticket' = [ticket EXCEPT ![t] = w] /\ desk' = desk
        /\ desks' = [desks EXCEPT !.calm = @ /\ \A k \in Desk : ~Sits(k)]
    BY <1>19 DEF DeleteTicket, AtOnce, Overlap
  <2>2. /\ desks' \in [calm : BOOLEAN, reopened : BOOLEAN] /\ desks'.reopened = desks.reopened
        /\ (desks'.calm => desks.calm /\ \A k \in Desk : ~Sits(k))
    BY <2>1, <1>1
  <2>3. /\ w \in TicketType /\ w.messages = <<>> /\ w.attached = 0 /\ w.files = 0
        /\ w.status = "deleted" /\ w.status \notin TicketStatus
    BY EmptySeq DEF TicketType, TicketStatus
  <2> HIDE DEF w
  <2> QED
    BY <2>1, <2>2, <2>3, <1>15
<1>20. ASSUME NEW k \in Desk, DeskDies(k)
       PROVE  TicketsInv'
  <2>1. /\ desk' = [desk EXCEPT ![k] = NoDesk] /\ ticket' = ticket
        /\ desks' = [desks EXCEPT !.calm = @ /\ FALSE]
    BY <1>20 DEF DeskDies, DeskDone, Overlap
  <2>2. /\ desk' \in [Desk -> DeskRow] /\ desk'[k] = NoDesk /\ (\A j \in Desk \ {k} : desk'[j] = desk[j])
        /\ desks' \in [calm : BOOLEAN, reopened : BOOLEAN] /\ desks'.calm \in BOOLEAN
        /\ ~desks'.calm /\ desks'.reopened = desks.reopened /\ ticket' \in [Ticket -> TicketType]
    BY <1>1, <1>4, <2>1
  <2>3. TicketsHold(ticket', desk', desks'.calm)
    <3>1. \A u \in Ticket : Pendings(desk', u) <= Pendings(desk, u) /\ Storings(desk', u) <= Storings(desk, u)
      BY <1>1, <1>4, <2>1, OneDesk
    <3>2. \A u \in Ticket : RowHolds(ticket[u], Pendings(desk', u), Storings(desk', u), desks'.calm)
      BY <3>1, <1>1, <2>2, RowsStay
    <3> QED
      BY <3>2, <2>1 DEF TicketsHold
  <2>4. DesksHold(ticket', desk', desks'.calm)
    <3>1. \A u \in Ticket : GoesOn(ticket[u], ticket'[u])
      BY <2>1, AsItWas
    <3>2. DeskHolds(desk'[k], ticket', desks'.calm)
      BY <2>2, <1>4 DEF DeskHolds
    <3> QED
      BY <3>1, <3>2, <1>1, <2>2, DesksMove
  <2>5. ~desks'.reopened => OpensHold(ticket', desk')
    <3>1. \A u \in Ticket : ticket'[u].status \in TicketStatus \ Ended => u \in Opens(ticket, desk)
      BY <2>1 DEF Opens
    <3> QED
      BY <3>1, <1>1, <1>4, <2>1, <2>2, OpensQuiet
  <2> QED
    BY <2>2, <2>3, <2>4, <2>5 DEF TicketsInv
<1>21. CASE UNCHANGED ticketsVars
  <2>1. ticket' = ticket /\ desk' = desk /\ desks' = desks
    BY <1>21 DEF ticketsVars
  <2> QED
    BY <1>1, <2>1 DEF TicketsInv
<1> QED
  BY <1>6, <1>7, <1>8, <1>10, <1>11, <1>12, <1>13, <1>14, <1>17, <1>18, <1>19, <1>20, <1>21 DEF TicketsNext

\* The tickets are as they must be, always.
THEOREM TicketsInvariant == TicketsSpec => []TicketsInv
<1> QED
  BY TicketsInits, TicketsSteps, PTL DEF TicketsSpec

\* However many tickets and requests there are: no more tickets are open than may be, but
\* one for every other request that may be counting, until the staff reopen one; and the
\* attachments of each keep to its quota, but for one for every other request under way.
THEOREM TicketsKeepToLimits == TicketsSpec => []TicketLimits
<1>1. TicketsInv => TicketLimits
  <2> SUFFICES ASSUME TicketsInv PROVE TicketLimits
    OBVIOUS
  <2>1. ~desks.reopened => Cardinality(StillOpen) <= MaxOpen + Desks - 1
    <3> SUFFICES ASSUME ~desks.reopened PROVE Cardinality(StillOpen) <= MaxOpen + Desks - 1
      OBVIOUS
    <3>1. OpensHold(ticket, desk) /\ desk \in [Desk -> DeskRow]
      BY DEF TicketsInv
    <3>2. StillOpen \subseteq Opens(ticket, desk)
      BY DEF StillOpen, Opens
    <3>3. /\ IsFiniteSet(Opens(ticket, desk)) /\ Cardinality(Opens(ticket, desk)) \in Nat
          /\ Cardinality(Creating(desk)) \in Nat
      BY <3>1, OpensCounts
    <3>4. Cardinality(StillOpen) <= Cardinality(Opens(ticket, desk)) /\ Cardinality(StillOpen) \in Nat
      BY <3>2, <3>3, FS_Subset, FS_CardinalityType
    <3> QED
      BY <3>1, <3>3, <3>4, TicketsNumbers DEF OpensHold
  <2>2. ASSUME NEW t \in Ticket
        PROVE  ticket[t].attached <= MaxTicketFiles + (IF desks.calm THEN 0 ELSE Desks - 1)
    <3>1. RowHolds(ticket[t], Pendings(desk, t), Storings(desk, t), desks.calm)
      BY DEF TicketsInv, TicketsHold
    <3>2. ticket[t].attached \in Nat /\ Storings(desk, t) \in Nat
      BY PendingCounts DEF TicketsInv, TicketType
    <3> QED
      BY <3>1, <3>2, TicketsNumbers DEF RowHolds
  <2> QED
    BY <2>1, <2>2 DEF TicketLimits, Desks
<1> QED
  BY <1>1, TicketsInvariant, PTL

\* A message its readers were told is seen is seen, always, and while no requests overlap
\* the others are told of each that is.
THEOREM ReadersAreTold == TicketsSpec => []SeenTold
<1>1. TicketsInv => SeenTold
  BY DEF TicketsInv, TicketsHold, RowHolds, MessagesHold, SeenTold, Messages
<1> QED
  BY <1>1, TicketsInvariant, PTL

\* Every attachment has its file, whoever deletes the ticket meanwhile; and no file is
\* left without its row while no requests overlap.
THEOREM AttachmentsHaveFiles == TicketsSpec => []FilesAgree
<1>1. TicketsInv => FilesAgree
  <2> SUFFICES ASSUME TicketsInv, NEW t \in Ticket
               PROVE  /\ ticket[t].attached <= ticket[t].files
                      /\ (desks.calm => ticket[t].attached = ticket[t].files)
    BY DEF FilesAgree
  <2>1. /\ RowHolds(ticket[t], Pendings(desk, t), Storings(desk, t), desks.calm)
        /\ ticket[t] \in TicketType
    BY DEF TicketsInv, TicketsHold
  <2>2. ticket[t].attached \in Nat /\ ticket[t].files \in Nat
    BY <2>1 DEF TicketType
  <2>3. ticket[t].status \in TicketStatus \cup {"none", "deleted"}
    BY <2>1 DEF TicketType
  <2> QED
    BY <2>1, <2>2, <2>3 DEF RowHolds
<1> QED
  BY <1>1, TicketsInvariant, PTL

-----------------------------------------------------------------------------
(* The picture that each recipient may open once. *)

ViewerRow == [member : BOOLEAN, window : {"none", "open", "over"}, token : Tab \cup {NoTab}]

\* An idle request is for nobody in particular.
TabType == [at : {"idle", "checked", "granted", "given"}, user : Viewer \cup {IdleTab.user}]

MediaTyped ==
    /\ medium \in [row : {"none", "there", "purged", "gone"}, file : BOOLEAN]
    /\ viewer \in [Viewer -> ViewerRow] /\ tab \in [Tab -> TabType]
    /\ \A t \in Tab : tab[t].at # "idle" => tab[t].user \in Viewer
    /\ purger \in [at : {"idle", "members", "file", "row"}, members : SUBSET Viewer]
    /\ slip \in BOOLEAN /\ (eraser.at # "idle" => slip)

\* Who may have his window open, or soon.
OpensIt(v, vs, ts) == \/ vs[v].window = "open"
                     \/ \E t \in Tab : ts[t].user = v /\ ts[t].at \in {"checked", "granted"}

\* A recipient opens the picture in one request, before his window, and the cache
\* knows his link from when it is granted until the window is over.
TabsHold(vs, ts) ==
    /\ \A t, u \in Tab : /\ ts[t].at # "idle" /\ ts[u].at # "idle" /\ ts[t].user = ts[u].user
                         => t = u
    /\ \A t \in Tab : LET v == vs[ts[t].user] IN
           /\ (ts[t].at \in {"checked", "granted"} => v.window = "none")
           /\ (ts[t].at = "granted" => v.token = t)
           /\ (ts[t].at = "given" => v.window # "none")
           /\ (ts[t].at = "given" /\ v.window = "open" => v.token = t)

\* The purge knows of all who are members while it runs; once it goes for the file their
\* windows are over, and once the file or the row has gone no member opens it.
PurgeHolds(m, vs, ts, p) ==
    /\ (p.at # "idle" => {v \in Viewer : vs[v].member} \subseteq p.members)
    /\ (p.at \in {"file", "row"} => \A v \in p.members : vs[v].window = "over")
    /\ (p.at # "row" /\ m.row = "there" => m.file)
    /\ (p.at \in {"file", "row"} \/ m.row # "there" =>
           \A v \in Viewer : vs[v].member => ~OpensIt(v, vs, ts))

MediaInv ==
    /\ MediaTyped
    /\ (~slip => TabsHold(viewer, tab) /\ PurgeHolds(medium, viewer, tab, purger))

\* Nobody has opened anything.
LEMMA MediaInits == MediaInit => MediaInv
<1> SUFFICES ASSUME MediaInit PROVE MediaInv
  OBVIOUS
<1>1. /\ medium = [row |-> "none", file |-> FALSE] /\ slip = FALSE
      /\ viewer = [v \in Viewer |-> Unopened] /\ tab = [t \in Tab |-> IdleTab]
      /\ purger = IdlePurger /\ eraser = IdleEraser
  BY DEF MediaInit
<1>2. Unopened \in ViewerRow /\ Unopened.window = "none"
  BY DEF Unopened, ViewerRow
<1>3. IdleTab \in TabType /\ IdleTab.at = "idle"
  BY DEF IdleTab, TabType
<1>4. IdlePurger.at = "idle" /\ IdlePurger.members = {} /\ IdleEraser.at = "idle"
  BY DEF IdlePurger, IdleEraser
<1>5. IdlePurger \in [at : {"idle", "members", "file", "row"}, members : SUBSET Viewer]
  BY DEF IdlePurger
<1>6. viewer \in [Viewer -> ViewerRow] /\ tab \in [Tab -> TabType]
      /\ (\A v \in Viewer : viewer[v].window = "none") /\ (\A t \in Tab : tab[t].at = "idle")
  BY <1>1, <1>2, <1>3
<1>7. MediaTyped
  BY <1>1, <1>4, <1>5, <1>6 DEF MediaTyped
<1>8. TabsHold(viewer, tab)
  BY <1>6 DEF TabsHold
<1>9. PurgeHolds(medium, viewer, tab, purger)
  BY <1>1, <1>4, <1>6 DEF PurgeHolds, OpensIt
<1> QED
  BY <1>7, <1>8, <1>9 DEF MediaInv

\* A request moves on.
LEMMA TabMoves ==
    ASSUME NEW t \in Tab, NEW at \in {"idle", "checked", "granted", "given"},
           tab \in [Tab -> TabType], TabTo(t, at)
    PROVE  /\ tab' \in [Tab -> TabType] /\ tab'[t].at = at
           /\ (at # "idle" => tab'[t].user = tab[t].user)
           /\ \A u \in Tab \ {t} : tab'[u] = tab[u]
<1>1. IdleTab \in TabType /\ IdleTab.at = "idle"
  BY DEF IdleTab, TabType
<1>2. [tab[t] EXCEPT !.at = at] \in TabType
  BY DEF TabType
<1>3. /\ [tab[t] EXCEPT !.at = at].at = at
      /\ [tab[t] EXCEPT !.at = at].user = tab[t].user
  BY DEF TabType
<1> DEFINE row == IF at = "idle" THEN IdleTab ELSE [tab[t] EXCEPT !.at = at]
<1>4. tab' = [tab EXCEPT ![t] = row]
  BY DEF TabTo
<1>5. row \in TabType /\ row.at = at /\ (at # "idle" => row.user = tab[t].user)
  BY <1>1, <1>2, <1>3
<1> HIDE DEF row
<1> QED
  BY <1>4, <1>5

\* Who is opening it is who opens it.
LEMMA OpeningOpens == \A v : Opening(v) <=> OpensIt(v, viewer, tab)
BY DEF Opening, OpensIt

\* Every step of a request, of the purge and of a deletion.
LEMMA MediaSteps == MediaInv /\ [MediaNext]_mediaVars => MediaInv'
<1> SUFFICES ASSUME MediaInv, [MediaNext]_mediaVars PROVE MediaInv'
  OBVIOUS
<1> DEFINE Typed(m, vs, ts, p) ==
             /\ m \in [row : {"none", "there", "purged", "gone"}, file : BOOLEAN]
             /\ vs \in [Viewer -> ViewerRow] /\ ts \in [Tab -> TabType]
             /\ \A t \in Tab : ts[t].at # "idle" => ts[t].user \in Viewer
             /\ p \in [at : {"idle", "members", "file", "row"}, members : SUBSET Viewer]
<1>1. /\ Typed(medium, viewer, tab, purger) /\ slip \in BOOLEAN /\ (eraser.at # "idle" => slip)
      /\ (~slip => TabsHold(viewer, tab) /\ PurgeHolds(medium, viewer, tab, purger))
  BY DEF MediaInv, MediaTyped
<1>2. ASSUME Typed(medium', viewer', tab', purger'), slip' \in BOOLEAN, eraser'.at # "idle" => slip',
             slip => slip', ~slip' => TabsHold(viewer', tab') /\ PurgeHolds(medium', viewer', tab', purger')
      PROVE  MediaInv'
  BY <1>2 DEF MediaInv, MediaTyped
<1>3. CASE PostMedia
  <2>1. /\ medium' = [row |-> "there", file |-> TRUE] /\ medium.row = "none"
        /\ viewer' = viewer /\ tab' = tab /\ purger' = purger /\ eraser' = eraser /\ slip' = slip
    BY <1>3 DEF PostMedia
  <2>2. Typed(medium', viewer', tab', purger')
    BY <1>1, <2>1
  <2>3. PurgeHolds(medium, viewer, tab, purger) => PurgeHolds(medium', viewer', tab', purger')
    BY <2>1 DEF PurgeHolds
  <2> QED
    BY <1>1, <1>2, <2>1, <2>2, <2>3
<1>4. CASE ForwardMedia
  <2>1. /\ medium' = medium
        /\ viewer' = viewer /\ tab' = tab /\ purger' = purger /\ eraser' = eraser /\ slip' = slip
    BY <1>4 DEF ForwardMedia
  <2> QED
    BY <1>1, <1>2, <2>1
<1>5. ASSUME NEW v \in Viewer, LeaveChat(v)
      PROVE  MediaInv'
  <2>1. /\ viewer' = [viewer EXCEPT ![v].member = FALSE] /\ medium' = medium
        /\ tab' = tab /\ purger' = purger /\ eraser' = eraser /\ slip' = slip
    BY <1>5 DEF LeaveChat
  <2>2. /\ viewer' \in [Viewer -> ViewerRow]
        /\ \A u \in Viewer : /\ viewer'[u].window = viewer[u].window /\ viewer'[u].token = viewer[u].token
                             /\ (viewer'[u].member => viewer[u].member)
    <3> DEFINE w == [viewer[v] EXCEPT !.member = FALSE]
    <3>1. viewer' = [viewer EXCEPT ![v] = w]
      BY <2>1
    <3>2. /\ w \in ViewerRow /\ w.member = FALSE
          /\ w.window = viewer[v].window /\ w.token = viewer[v].token
      BY <1>1 DEF ViewerRow
    <3> HIDE DEF w
    <3> QED
      BY <3>1, <3>2, <1>1
  <2>3. Typed(medium', viewer', tab', purger')
    BY <1>1, <2>1, <2>2
  <2>4. ASSUME ~slip PROVE TabsHold(viewer', tab')
    <3>1. TabsHold(viewer, tab)
      BY <1>1, <2>4
    <3> QED
      BY <3>1, <1>1, <2>1, <2>2 DEF TabsHold
  <2>5. ASSUME ~slip PROVE PurgeHolds(medium', viewer', tab', purger')
    <3>1. PurgeHolds(medium, viewer, tab, purger)
      BY <1>1, <2>5
    <3> QED
      BY <3>1, <1>1, <2>1, <2>2 DEF PurgeHolds, OpensIt
  <2> QED
    BY <1>1, <1>2, <2>1, <2>3, <2>4, <2>5
<1>6. ASSUME NEW v \in Viewer, RejoinChat(v)
      PROVE  MediaInv'
  <2>1. /\ viewer' = [viewer EXCEPT ![v].member = TRUE] /\ medium' = medium
        /\ tab' = tab /\ purger' = purger /\ eraser' = eraser
        /\ slip' = (slip \/ purger.at # "idle" \/ OpensIt(v, viewer, tab))
    BY <1>6, OpeningOpens DEF RejoinChat
  <2>2. /\ viewer' \in [Viewer -> ViewerRow]
        /\ \A u \in Viewer : /\ viewer'[u].window = viewer[u].window /\ viewer'[u].token = viewer[u].token
                             /\ (u # v => viewer'[u].member = viewer[u].member)
    <3> DEFINE w == [viewer[v] EXCEPT !.member = TRUE]
    <3>1. viewer' = [viewer EXCEPT ![v] = w]
      BY <2>1
    <3>2. /\ w \in ViewerRow /\ w.member = TRUE
          /\ w.window = viewer[v].window /\ w.token = viewer[v].token
      BY <1>1 DEF ViewerRow
    <3> HIDE DEF w
    <3> QED
      BY <3>1, <3>2, <1>1
  <2>3. Typed(medium', viewer', tab', purger')
    BY <1>1, <2>1, <2>2
  <2>4. ASSUME ~slip PROVE TabsHold(viewer', tab')
    <3>1. TabsHold(viewer, tab)
      BY <1>1, <2>4
    <3> QED
      BY <3>1, <1>1, <2>1, <2>2 DEF TabsHold
  <2>5. ASSUME ~slip' PROVE PurgeHolds(medium', viewer', tab', purger')
    <3>1. PurgeHolds(medium, viewer, tab, purger) /\ purger.at = "idle" /\ ~OpensIt(v, viewer, tab)
      BY <1>1, <2>1, <2>5
    <3>2. \A u \in Viewer : OpensIt(u, viewer', tab') => OpensIt(u, viewer, tab)
      BY <2>1, <2>2 DEF OpensIt
    <3>3. /\ purger'.at = "idle" /\ (medium'.row = "there" => medium'.file)
          /\ (medium'.row # "there" => \A u \in Viewer : viewer[u].member => ~OpensIt(u, viewer, tab))
      BY <3>1, <2>1 DEF PurgeHolds
    <3>4. ASSUME medium'.row # "there", NEW u \in Viewer, viewer'[u].member
          PROVE  ~OpensIt(u, viewer', tab')
      BY <3>1, <3>2, <3>3, <3>4, <2>2
    <3> QED
      BY <3>3, <3>4 DEF PurgeHolds
  <2> QED
    BY <1>1, <1>2, <2>1, <2>3, <2>4, <2>5
<1>7. ASSUME NEW v \in Viewer, WindowEnds(v)
      PROVE  MediaInv'
  <2>1. /\ viewer' = [viewer EXCEPT ![v].window = "over"] /\ medium' = medium /\ viewer[v].window = "open"
        /\ tab' = tab /\ purger' = purger /\ eraser' = eraser /\ slip' = slip
    BY <1>7 DEF WindowEnds
  <2>2. /\ viewer' \in [Viewer -> ViewerRow] /\ viewer'[v].window = "over"
        /\ \A u \in Viewer : /\ viewer'[u].member = viewer[u].member /\ viewer'[u].token = viewer[u].token
                             /\ (u # v => viewer'[u].window = viewer[u].window)
    <3> DEFINE w == [viewer[v] EXCEPT !.window = "over"]
    <3>1. viewer' = [viewer EXCEPT ![v] = w]
      BY <2>1
    <3>2. /\ w \in ViewerRow /\ w.window = "over"
          /\ w.member = viewer[v].member /\ w.token = viewer[v].token
      BY <1>1 DEF ViewerRow
    <3> HIDE DEF w
    <3> QED
      BY <3>1, <3>2, <1>1
  <2>3. Typed(medium', viewer', tab', purger')
    BY <1>1, <2>1, <2>2
  <2>4. ASSUME ~slip PROVE TabsHold(viewer', tab')
    <3>1. TabsHold(viewer, tab)
      BY <1>1, <2>4
    <3> QED
      BY <3>1, <1>1, <2>1, <2>2 DEF TabsHold
  <2>5. ASSUME ~slip PROVE PurgeHolds(medium', viewer', tab', purger')
    <3>1. PurgeHolds(medium, viewer, tab, purger)
      BY <1>1, <2>5
    <3>2. \A u \in Viewer : OpensIt(u, viewer', tab') => OpensIt(u, viewer, tab)
      BY <2>1, <2>2 DEF OpensIt
    <3> QED
      BY <3>1, <3>2, <1>1, <2>1, <2>2 DEF PurgeHolds
  <2> QED
    BY <1>1, <1>2, <2>1, <2>3, <2>4, <2>5
<1>8. ASSUME NEW v \in Viewer, TokenEnds(v)
      PROVE  MediaInv'
  <2>1. /\ viewer' = [viewer EXCEPT ![v].token = NoTab] /\ medium' = medium /\ viewer[v].window # "open"
        /\ tab' = tab /\ purger' = purger /\ eraser' = eraser /\ slip' = slip
        /\ \A t \in Tab : tab[t].user = v => tab[t].at # "granted"
    BY <1>8 DEF TokenEnds
  <2>2. /\ viewer' \in [Viewer -> ViewerRow]
        /\ \A u \in Viewer : /\ viewer'[u].member = viewer[u].member /\ viewer'[u].window = viewer[u].window
                             /\ (u # v => viewer'[u].token = viewer[u].token)
    <3> DEFINE w == [viewer[v] EXCEPT !.token = NoTab]
    <3>1. viewer' = [viewer EXCEPT ![v] = w]
      BY <2>1
    <3>2. /\ w \in ViewerRow /\ w.token = NoTab
          /\ w.member = viewer[v].member /\ w.window = viewer[v].window
      BY <1>1 DEF ViewerRow
    <3> HIDE DEF w
    <3> QED
      BY <3>1, <3>2, <1>1
  <2>3. Typed(medium', viewer', tab', purger')
    BY <1>1, <2>1, <2>2
  <2>4. ASSUME ~slip PROVE TabsHold(viewer', tab')
    <3>1. TabsHold(viewer, tab)
      BY <1>1, <2>4
    <3> QED
      BY <3>1, <1>1, <2>1, <2>2 DEF TabsHold
  <2>5. ASSUME ~slip PROVE PurgeHolds(medium', viewer', tab', purger')
    <3>1. PurgeHolds(medium, viewer, tab, purger)
      BY <1>1, <2>5
    <3>2. \A u \in Viewer : OpensIt(u, viewer', tab') => OpensIt(u, viewer, tab)
      BY <2>1, <2>2 DEF OpensIt
    <3> QED
      BY <3>1, <3>2, <1>1, <2>1, <2>2 DEF PurgeHolds
  <2> QED
    BY <1>1, <1>2, <2>1, <2>3, <2>4, <2>5
<1>9. ASSUME NEW t \in Tab, NEW v \in Viewer, CheckOpen(t, v)
      PROVE  MediaInv'
  <2>1. /\ medium' = medium /\ purger' = purger /\ eraser' = eraser /\ viewer' = viewer
        /\ tab[t].at = "idle" /\ medium.row = "there" /\ viewer[v].member /\ viewer[v].window = "none"
        /\ slip' = (slip \/ OpensIt(v, viewer, tab))
    BY <1>9, OpeningOpens DEF CheckOpen, TabAt
  <2>2. /\ tab' \in [Tab -> TabType] /\ tab'[t].at = "checked" /\ tab'[t].user = v
        /\ \A u \in Tab \ {t} : tab'[u] = tab[u]
    <3> DEFINE w == [at |-> "checked", user |-> v]
    <3>1. tab' = [tab EXCEPT ![t] = w]
      BY <1>9 DEF CheckOpen
    <3>2. w \in TabType /\ w.at = "checked" /\ w.user = v
      BY DEF TabType
    <3> HIDE DEF w
    <3> QED
      BY <3>1, <3>2, <1>1
  <2>3. Typed(medium', viewer', tab', purger')
    BY <1>1, <2>1, <2>2
  <2>4. ASSUME ~slip' PROVE TabsHold(viewer', tab')
    <3>1. TabsHold(viewer, tab) /\ ~OpensIt(v, viewer, tab)
      BY <1>1, <2>1, <2>4
    <3>2. \A u \in Tab : tab[u].user = v => tab[u].at = "idle"
      BY <3>1, <1>1, <2>1 DEF TabsHold, OpensIt, TabType
    <3> QED
      BY <3>1, <3>2, <1>1, <2>1, <2>2 DEF TabsHold
  <2>5. ASSUME ~slip' PROVE PurgeHolds(medium', viewer', tab', purger')
    <3>1. PurgeHolds(medium, viewer, tab, purger)
      BY <1>1, <2>1, <2>5
    <3>2. purger.at \notin {"file", "row"}
      BY <3>1, <1>1, <2>1 DEF PurgeHolds
    <3> QED
      BY <3>1, <3>2, <2>1 DEF PurgeHolds
  <2> QED
    BY <1>1, <1>2, <2>1, <2>3, <2>4, <2>5
<1>10. ASSUME NEW t \in Tab, GrantToken(t)
       PROVE  MediaInv'
  <2> DEFINE v == tab[t].user
  <2>1. /\ medium' = medium /\ purger' = purger /\ eraser' = eraser
        /\ tab[t].at = "checked" /\ TabTo(t, "granted")
        /\ \/ viewer' = [viewer EXCEPT ![v].token = t] /\ slip' = slip
           \/ slip' = TRUE /\ viewer' = viewer
    BY <1>10 DEF GrantToken, TabAt
  <2>2. /\ tab' \in [Tab -> TabType] /\ tab'[t].at = "granted" /\ tab'[t].user = v
        /\ \A u \in Tab \ {t} : tab'[u] = tab[u]
    BY <1>1, <2>1, TabMoves
  <2>3. v \in Viewer
    BY <1>1, <2>1
  <2> HIDE DEF v
  <2>4. /\ viewer' \in [Viewer -> ViewerRow] /\ (~slip' => viewer'[v].token = t)
        /\ \A u \in Viewer : /\ viewer'[u].member = viewer[u].member /\ viewer'[u].window = viewer[u].window
                             /\ (u # v => viewer'[u].token = viewer[u].token)
    <3>1. CASE viewer' = [viewer EXCEPT ![v].token = t]
      <4> DEFINE w == [viewer[v] EXCEPT !.token = t]
      <4>1. viewer' = [viewer EXCEPT ![v] = w]
        BY <3>1
      <4>2. /\ w \in ViewerRow /\ w.token = t
            /\ w.member = viewer[v].member /\ w.window = viewer[v].window
        BY <1>1, <2>3 DEF ViewerRow
      <4> HIDE DEF w
      <4> QED
        BY <4>1, <4>2, <1>1, <2>3
    <3>2. CASE slip' /\ viewer' = viewer
      BY <3>2, <1>1
    <3> QED
      BY <3>1, <3>2, <2>1
  <2>5. Typed(medium', viewer', tab', purger')
    BY <1>1, <2>1, <2>2, <2>3, <2>4
  <2>6. ASSUME ~slip' PROVE TabsHold(viewer', tab')
    <3>1. TabsHold(viewer, tab)
      BY <1>1, <2>1, <2>6
    <3>2. \A u \in Tab : /\ tab'[u].user = tab[u].user /\ (u # t => tab'[u].at = tab[u].at)
                         /\ (tab[u].at # "idle" => tab[u].user \in Viewer)
                         /\ (tab[u].at # "idle" /\ tab[u].user = v => u = t)
      BY <3>1, <1>1, <2>1, <2>2 DEF TabsHold, v
    <3>3. viewer'[v].token = t /\ viewer[v].window = "none"
      BY <3>1, <2>1, <2>4, <2>6 DEF TabsHold, v
    <3> QED
      BY <3>1, <3>2, <3>3, <2>1, <2>2, <2>4 DEF TabsHold
  <2>7. ASSUME ~slip' PROVE PurgeHolds(medium', viewer', tab', purger')
    <3>1. PurgeHolds(medium, viewer, tab, purger)
      BY <1>1, <2>1, <2>7
    <3>2. \A u \in Viewer : OpensIt(u, viewer', tab') => OpensIt(u, viewer, tab)
      BY <2>1, <2>2, <2>4 DEF OpensIt, v
    <3> QED
      BY <3>1, <3>2, <1>1, <2>1, <2>4 DEF PurgeHolds
  <2>8. slip' \in BOOLEAN /\ (slip => slip') /\ (eraser'.at # "idle" => slip')
    <3>1. eraser' = eraser /\ (slip' = slip \/ slip' = TRUE)
      BY <1>10 DEF GrantToken, TabAt
    <3>2. slip \in BOOLEAN /\ (eraser.at # "idle" => slip)
      BY <1>1
    <3> HIDE DEF Typed
    <3> QED
      BY <3>1, <3>2
  <2> QED
    BY <1>2, <2>5, <2>6, <2>7, <2>8
<1>11. ASSUME NEW t \in Tab, CreateOpen(t)
       PROVE  MediaInv'
  <2> DEFINE v == tab[t].user
  <2>1. /\ medium' = medium /\ purger' = purger /\ eraser' = eraser /\ slip' = slip
        /\ tab[t].at = "granted"
        /\ \/ TabTo(t, "given") /\ viewer' = [viewer EXCEPT ![v].window = "open"]
           \/ TabTo(t, "idle") /\ viewer' = viewer
    BY <1>11 DEF CreateOpen, TabAt
  <2>2. v \in Viewer
    BY <1>1, <2>1
  <2>3. PICK at \in {"given", "idle"} :
            /\ TabTo(t, at)
            /\ (at = "given" => viewer' = [viewer EXCEPT ![v].window = "open"])
            /\ (at = "idle" => viewer' = viewer)
    BY <2>1
  <2>4. /\ tab' \in [Tab -> TabType] /\ tab'[t].at = at /\ (at = "given" => tab'[t].user = v)
        /\ \A u \in Tab \ {t} : tab'[u] = tab[u]
    BY <1>1, <2>3, TabMoves
  <2> HIDE DEF v
  <2>5. /\ viewer' \in [Viewer -> ViewerRow]
        /\ (at = "given" => viewer'[v].window = "open")
        /\ \A u \in Viewer : /\ viewer'[u].member = viewer[u].member /\ viewer'[u].token = viewer[u].token
                             /\ (u # v \/ at = "idle" => viewer'[u].window = viewer[u].window)
    <3>1. CASE at = "given"
      <4> DEFINE w == [viewer[v] EXCEPT !.window = "open"]
      <4>1. viewer' = [viewer EXCEPT ![v] = w]
        BY <3>1, <2>3
      <4>2. /\ w \in ViewerRow /\ w.window = "open"
            /\ w.member = viewer[v].member /\ w.token = viewer[v].token
        BY <1>1, <2>2 DEF ViewerRow
      <4> HIDE DEF w
      <4> QED
        BY <3>1, <4>1, <4>2, <1>1, <2>2
    <3>2. CASE at = "idle"
      BY <3>2, <2>3, <1>1
    <3> QED
      BY <3>1, <3>2
  <2>6. Typed(medium', viewer', tab', purger')
    BY <1>1, <2>1, <2>2, <2>4, <2>5
  <2>7. ASSUME ~slip' PROVE TabsHold(viewer', tab')
    <3>1. TabsHold(viewer, tab)
      BY <1>1, <2>1, <2>7
    <3>2. \A u \in Tab : /\ (u # t => tab'[u] = tab[u])
                         /\ (tab[u].at # "idle" => tab[u].user \in Viewer)
                         /\ (tab[u].at # "idle" /\ tab[u].user = v => u = t)
      BY <3>1, <1>1, <2>1, <2>4 DEF TabsHold, v
    <3>3. viewer[v].token = t
      BY <3>1, <2>1 DEF TabsHold, v
    <3>4. CASE at = "given"
      BY <3>1, <3>2, <3>3, <3>4, <2>1, <2>2, <2>4, <2>5 DEF TabsHold
    <3>5. CASE at = "idle"
      BY <3>1, <3>2, <3>5, <2>1, <2>2, <2>4, <2>5 DEF TabsHold
    <3> QED
      BY <3>4, <3>5
  <2>8. ASSUME ~slip' PROVE PurgeHolds(medium', viewer', tab', purger')
    <3>1. PurgeHolds(medium, viewer, tab, purger) /\ viewer[v].window = "none"
      BY <1>1, <2>1, <2>8 DEF TabsHold, v
    <3>2. \A u \in Viewer : OpensIt(u, viewer', tab') => OpensIt(u, viewer, tab)
      <4>1. OpensIt(v, viewer, tab)
        BY <2>1 DEF OpensIt, v
      <4>2. ASSUME NEW u \in Viewer, OpensIt(u, viewer', tab'), u # v
            PROVE  OpensIt(u, viewer, tab)
        BY <4>2, <2>4, <2>5 DEF OpensIt
      <4> QED
        BY <4>1, <4>2
    <3>3. purger.at \in {"file", "row"} => v \notin purger.members
      BY <3>1, <2>2 DEF PurgeHolds
    <3>4. \A u \in purger.members : u \in Viewer
      BY <1>1
    <3> QED
      BY <3>1, <3>2, <3>3, <3>4, <1>1, <2>1, <2>5 DEF PurgeHolds
  <2> QED
    BY <1>1, <1>2, <2>1, <2>6, <2>7, <2>8
<1>12. ASSUME NEW t \in Tab, TabDies(t)
       PROVE  MediaInv'
  <2>1. /\ medium' = medium /\ purger' = purger /\ eraser' = eraser /\ slip' = slip
        /\ viewer' = viewer /\ TabTo(t, "idle")
    BY <1>12 DEF TabDies, TabAt
  <2>2. /\ tab' \in [Tab -> TabType] /\ tab'[t].at = "idle"
        /\ \A u \in Tab \ {t} : tab'[u] = tab[u]
    BY <1>1, <2>1, TabMoves
  <2>3. Typed(medium', viewer', tab', purger')
    BY <1>1, <2>1, <2>2
  <2>4. ASSUME ~slip' PROVE TabsHold(viewer', tab')
    <3>1. TabsHold(viewer, tab)
      BY <1>1, <2>1, <2>4
    <3> QED
      BY <3>1, <2>1, <2>2 DEF TabsHold
  <2>5. ASSUME ~slip' PROVE PurgeHolds(medium', viewer', tab', purger')
    <3>1. PurgeHolds(medium, viewer, tab, purger)
      BY <1>1, <2>1, <2>5
    <3>2. \A u \in Viewer : OpensIt(u, viewer', tab') => OpensIt(u, viewer, tab)
      BY <2>1, <2>2 DEF OpensIt
    <3> QED
      BY <3>1, <3>2, <2>1 DEF PurgeHolds
  <2> QED
    BY <1>1, <1>2, <2>1, <2>3, <2>4, <2>5
<1>13. ASSUME NEW t \in Tab, Download(t)
       PROVE  MediaInv'
  <2> DEFINE v == tab[t].user
  <2>1. /\ medium' = medium /\ purger' = purger /\ eraser' = eraser /\ slip' = slip /\ tab' = tab
        /\ tab[t].at = "given" /\ viewer[v].window = "over"
        /\ viewer' = [viewer EXCEPT ![v].token = NoTab]
    BY <1>13 DEF Download, TabAt
  <2>2. v \in Viewer
    BY <1>1, <2>1
  <2> HIDE DEF v
  <2>3. /\ viewer' \in [Viewer -> ViewerRow]
        /\ \A u \in Viewer : /\ viewer'[u].member = viewer[u].member /\ viewer'[u].window = viewer[u].window
                             /\ (u # v => viewer'[u].token = viewer[u].token)
    <3> DEFINE w == [viewer[v] EXCEPT !.token = NoTab]
    <3>1. viewer' = [viewer EXCEPT ![v] = w]
      BY <2>1
    <3>2. /\ w \in ViewerRow /\ w.member = viewer[v].member /\ w.window = viewer[v].window
      BY <1>1, <2>2 DEF ViewerRow
    <3> HIDE DEF w
    <3> QED
      BY <3>1, <3>2, <1>1, <2>2
  <2>4. Typed(medium', viewer', tab', purger')
    BY <1>1, <2>1, <2>3
  <2>5. ASSUME ~slip PROVE TabsHold(viewer', tab')
    <3>1. TabsHold(viewer, tab)
      BY <1>1, <2>5
    <3>2. \A u \in Tab : /\ (tab[u].at # "idle" => tab[u].user \in Viewer)
                         /\ (tab[u].at # "idle" /\ tab[u].user = v => u = t)
      BY <3>1, <1>1, <2>1 DEF TabsHold, v
    <3> QED
      BY <3>1, <3>2, <1>1, <2>1, <2>3 DEF TabsHold
  <2>6. ASSUME ~slip PROVE PurgeHolds(medium', viewer', tab', purger')
    <3>1. PurgeHolds(medium, viewer, tab, purger)
      BY <1>1, <2>6
    <3>2. \A u \in Viewer : OpensIt(u, viewer', tab') => OpensIt(u, viewer, tab)
      BY <2>1, <2>3 DEF OpensIt
    <3> QED
      BY <3>1, <3>2, <1>1, <2>1, <2>3 DEF PurgeHolds
  <2> QED
    BY <1>1, <1>2, <2>1, <2>4, <2>5, <2>6
<1>14. CASE ReadRecipients
  <2> DEFINE p == [at |-> "members", members |-> {v \in Viewer : viewer[v].member}]
  <2>1. /\ medium' = medium /\ eraser' = eraser /\ slip' = slip /\ tab' = tab /\ viewer' = viewer
        /\ purger.at = "idle" /\ medium.row = "there" /\ purger' = p
    BY <1>14 DEF ReadRecipients, PurgerAt
  <2>2. /\ p \in [at : {"idle", "members", "file", "row"}, members : SUBSET Viewer]
        /\ p.at = "members" /\ p.members = {v \in Viewer : viewer[v].member}
    OBVIOUS
  <2> HIDE DEF p
  <2>3. Typed(medium', viewer', tab', purger')
    BY <1>1, <2>1, <2>2
  <2>4. ASSUME ~slip PROVE PurgeHolds(medium', viewer', tab', purger')
    <3>1. PurgeHolds(medium, viewer, tab, purger)
      BY <1>1, <2>4
    <3> QED
      BY <3>1, <2>1, <2>2 DEF PurgeHolds
  <2> QED
    BY <1>1, <1>2, <2>1, <2>3, <2>4
<1>15. ASSUME NEW at \in {"idle", "members", "file", "row"}, PurgerTo(at)
       PROVE  /\ purger' \in [at : {"idle", "members", "file", "row"}, members : SUBSET Viewer]
              /\ purger'.at = at /\ (at # "idle" => purger'.members = purger.members)
  <2> DEFINE p == [purger EXCEPT !.at = at]
  <2>1. /\ p \in [at : {"idle", "members", "file", "row"}, members : SUBSET Viewer]
        /\ p.at = at /\ p.members = purger.members
    BY <1>1
  <2>2. purger' = IF at = "idle" THEN IdlePurger ELSE p
    BY <1>15 DEF PurgerTo
  <2>3. /\ IdlePurger \in [at : {"idle", "members", "file", "row"}, members : SUBSET Viewer]
        /\ IdlePurger.at = "idle"
    BY DEF IdlePurger
  <2> HIDE DEF p
  <2> QED
    BY <2>1, <2>2, <2>3
<1>16. CASE ReadOpens
  <2>1. /\ medium' = medium /\ eraser' = eraser /\ slip' = slip /\ tab' = tab /\ viewer' = viewer
        /\ purger.at = "members"
        /\ PurgerTo(IF purger.members = {} \/ MayPurge(purger.members) THEN "file" ELSE "idle")
    BY <1>16 DEF ReadOpens, PurgerAt
  <2>2. PICK at \in {"file", "idle"} :
            PurgerTo(at) /\ (at = "file" => purger.members = {} \/ MayPurge(purger.members))
    BY <2>1
  <2>3. /\ purger' \in [at : {"idle", "members", "file", "row"}, members : SUBSET Viewer]
        /\ purger'.at = at /\ (at # "idle" => purger'.members = purger.members)
    BY <2>2, <1>15
  <2>4. Typed(medium', viewer', tab', purger')
    BY <1>1, <2>1, <2>3
  <2>5. ASSUME ~slip PROVE PurgeHolds(medium', viewer', tab', purger')
    <3>1. PurgeHolds(medium, viewer, tab, purger) /\ TabsHold(viewer, tab)
      BY <1>1, <2>5
    <3>2. CASE at = "idle"
      BY <3>1, <3>2, <2>1, <2>3 DEF PurgeHolds
    <3>3. CASE at = "file"
      <4>1. {u \in Viewer : viewer[u].member} \subseteq purger.members
        BY <3>1, <2>1 DEF PurgeHolds
      <4>2. \A u \in purger.members : u \in Viewer /\ viewer[u] \in ViewerRow
        BY <1>1
      <4>3. \A u \in purger.members : viewer[u].window = "over"
        BY <3>3, <2>2, <4>2 DEF MayPurge, ViewerRow
      <4>4. \A u \in Viewer : viewer[u].member => ~OpensIt(u, viewer, tab)
        BY <4>1, <4>3, <3>1 DEF OpensIt, TabsHold
      <4> QED
        BY <3>1, <3>3, <4>1, <4>3, <4>4, <2>1, <2>3 DEF PurgeHolds
    <3> QED
      BY <3>2, <3>3
  <2> QED
    BY <1>1, <1>2, <2>1, <2>4, <2>5
<1>17. CASE PurgeFile
  <2>1. /\ eraser' = eraser /\ slip' = slip /\ tab' = tab /\ viewer' = viewer
        /\ purger.at = "file" /\ PurgerTo("row")
    BY <1>17 DEF PurgeFile, PurgerAt
  <2>2. /\ medium' \in [row : {"none", "there", "purged", "gone"}, file : BOOLEAN]
        /\ medium'.row = medium.row
    BY <1>1, <1>17 DEF PurgeFile
  <2>3. /\ purger' \in [at : {"idle", "members", "file", "row"}, members : SUBSET Viewer]
        /\ purger'.at = "row" /\ purger'.members = purger.members
    BY <2>1, <1>15
  <2>4. Typed(medium', viewer', tab', purger')
    BY <1>1, <2>1, <2>2, <2>3
  <2>5. ASSUME ~slip PROVE PurgeHolds(medium', viewer', tab', purger')
    <3>1. PurgeHolds(medium, viewer, tab, purger)
      BY <1>1, <2>5
    <3> QED
      BY <3>1, <2>1, <2>2, <2>3 DEF PurgeHolds
  <2> QED
    BY <1>1, <1>2, <2>1, <2>4, <2>5
<1>18. CASE MarkPurged
  <2>1. /\ eraser' = eraser /\ slip' = slip /\ tab' = tab /\ viewer' = viewer
        /\ purger.at = "row" /\ PurgerTo("idle")
    BY <1>18 DEF MarkPurged, PurgerAt
  <2>2. /\ medium' \in [row : {"none", "there", "purged", "gone"}, file : BOOLEAN]
        /\ medium'.row # "there"
    BY <1>1, <1>18 DEF MarkPurged
  <2>3. /\ purger' \in [at : {"idle", "members", "file", "row"}, members : SUBSET Viewer]
        /\ purger'.at = "idle"
    BY <2>1, <1>15
  <2>4. Typed(medium', viewer', tab', purger')
    BY <1>1, <2>1, <2>2, <2>3
  <2>5. ASSUME ~slip PROVE PurgeHolds(medium', viewer', tab', purger')
    <3>1. PurgeHolds(medium, viewer, tab, purger)
      BY <1>1, <2>5
    <3> QED
      BY <3>1, <2>1, <2>2, <2>3 DEF PurgeHolds
  <2> QED
    BY <1>1, <1>2, <2>1, <2>4, <2>5
<1>19. CASE PurgerDies
  <2>1. /\ eraser' = eraser /\ slip' = (slip \/ purger.at = "row") /\ tab' = tab /\ viewer' = viewer
        /\ PurgerTo("idle") /\ medium' = medium
    BY <1>19 DEF PurgerDies
  <2>2. /\ purger' \in [at : {"idle", "members", "file", "row"}, members : SUBSET Viewer]
        /\ purger'.at = "idle"
    BY <2>1, <1>15
  <2>3. Typed(medium', viewer', tab', purger')
    BY <1>1, <2>1, <2>2
  <2>4. ASSUME ~slip' PROVE PurgeHolds(medium', viewer', tab', purger')
    <3>1. PurgeHolds(medium, viewer, tab, purger) /\ purger.at # "row"
      BY <1>1, <2>1, <2>4
    <3> QED
      BY <3>1, <2>1, <2>2 DEF PurgeHolds
  <2> QED
    BY <1>1, <1>2, <2>1, <2>3, <2>4
<1>20. ASSUME NEW of \in {"original", "copy"}, StartErasing(of)
       PROVE  MediaInv'
  <2>1. /\ medium' = medium /\ viewer' = viewer /\ tab' = tab /\ purger' = purger /\ slip' = TRUE
    BY <1>20 DEF StartErasing, EraserAt
  <2>2. Typed(medium', viewer', tab', purger')
    BY <1>1, <2>1
  <2> QED
    BY <1>2, <2>1, <2>2
<1>21. CASE EraseFile
  <2>1. /\ viewer' = viewer /\ tab' = tab /\ purger' = purger /\ slip' = slip /\ slip
    BY <1>1, <1>21 DEF EraseFile, EraserAt
  <2>2. medium' \in [row : {"none", "there", "purged", "gone"}, file : BOOLEAN]
    BY <1>1, <1>21 DEF EraseFile
  <2>3. Typed(medium', viewer', tab', purger')
    BY <1>1, <2>1, <2>2
  <2> QED
    BY <1>1, <1>2, <2>1, <2>3
<1>22. CASE EraseRow
  <2>1. /\ tab' = tab /\ purger' = purger /\ slip' = slip /\ slip
        /\ \/ medium' = medium /\ viewer' = viewer
           \/ /\ medium' = [medium EXCEPT !.row = "gone"]
              /\ viewer' = [v \in Viewer |-> [viewer[v] EXCEPT !.window = "none"]]
    BY <1>1, <1>22 DEF EraseRow, EraserAt
  <2>2. [medium EXCEPT !.row = "gone"] \in [row : {"none", "there", "purged", "gone"}, file : BOOLEAN]
    BY <1>1
  <2>3. [v \in Viewer |-> [viewer[v] EXCEPT !.window = "none"]] \in [Viewer -> ViewerRow]
    BY <1>1 DEF ViewerRow
  <2>4. Typed(medium', viewer', tab', purger')
    BY <1>1, <2>1, <2>2, <2>3
  <2> QED
    BY <1>1, <1>2, <2>1, <2>4
<1>23. CASE UNCHANGED mediaVars
  <2>1. /\ medium' = medium /\ viewer' = viewer /\ tab' = tab /\ purger' = purger
        /\ slip' = slip /\ eraser' = eraser
    BY <1>23 DEF mediaVars
  <2> QED
    BY <1>1, <1>2, <2>1
<1> QED
  BY <1>3, <1>4, <1>5, <1>6, <1>7, <1>8, <1>9, <1>10, <1>11, <1>12, <1>13, <1>14, <1>16, <1>17,
     <1>18, <1>19, <1>20, <1>21, <1>22, <1>23 DEF MediaNext

\* The picture and those who open it are as they must be, always.
THEOREM MediaInvariant == MediaSpec => []MediaInv
<1> QED
  BY MediaInits, MediaSteps, PTL DEF MediaSpec

\* However many recipients and requests there are: who has been given a link can load the
\* picture while his window is open, unless one of the slips that the model names happened.
THEOREM WindowsAreKept == MediaSpec => []ViewedOnce
<1>1. MediaInv => ViewedOnce
  <2> SUFFICES ASSUME MediaInv, ~slip, NEW t \in Tab, tab[t].at = "given",
                      viewer[tab[t].user].member, viewer[tab[t].user].window = "open"
               PROVE  viewer[tab[t].user].token = t /\ medium = [row |-> "there", file |-> TRUE]
    BY DEF ViewedOnce
  <2>1. /\ TabsHold(viewer, tab) /\ PurgeHolds(medium, viewer, tab, purger) /\ MediaTyped
        /\ tab[t].user \in Viewer
    BY DEF MediaInv, MediaTyped
  <2>2. OpensIt(tab[t].user, viewer, tab)
    BY DEF OpensIt
  <2>3. medium.row = "there" /\ purger.at \notin {"file", "row"}
    BY <2>1, <2>2 DEF PurgeHolds
  <2>4. medium.file /\ medium.file \in BOOLEAN
    BY <2>1, <2>3 DEF PurgeHolds, MediaTyped
  <2>5. medium = [row |-> "there", file |-> TRUE]
    BY <2>1, <2>3, <2>4 DEF MediaTyped
  <2> QED
    BY <2>1, <2>5 DEF TabsHold
<1> QED
  BY <1>1, MediaInvariant, PTL

-----------------------------------------------------------------------------
(* The log of a deployment. *)

\* A set of natural numbers has a least one.
LEMMA SmallestIs ==
    ASSUME NEW S \in SUBSET Nat, S # {}
    PROVE  \E x \in S : \A y \in S : x <= y
<1> DEFINE R == {ss \in Nat \X Nat : ss[1] < ss[2]}
<1>1. IsWellFoundedOn(R, Nat)
  BY NatLessThanWellFounded DEF OpToRel
<1>2. \A x, y \in Nat : <<y, x>> \notin R => x <= y
  OBVIOUS
<1>3. \E x \in S : \A y \in S : <<y, x>> \notin R
  <2> HIDE DEF R
  <2> QED
    BY <1>1, WFMin
<1> QED
  BY <1>2, <1>3

\* What Min is of such a set.
LEMMA MinIs ==
    ASSUME NEW S \in SUBSET Nat, S # {}
    PROVE  Min(S) \in S /\ \A y \in S : Min(S) <= y
BY SmallestIs DEF Min

\* What Max is of one that is bounded.
LEMMA MaxIs ==
    ASSUME NEW n \in Nat, NEW S \in SUBSET (0 .. n), S # {}
    PROVE  Max(S) \in S /\ \A y \in S : y <= Max(S)
<1> DEFINE T == {n - x : x \in S}
<1>1. T \in SUBSET Nat /\ T # {}
  <2>1. \A x \in S : n - x \in Nat
    OBVIOUS
  <2>2. \E x \in S : n - x \in T
    OBVIOUS
  <2> QED
    BY <2>1, <2>2
<1>2. PICK z \in T : \A y \in T : z <= y
  <2> HIDE DEF T
  <2> QED
    BY <1>1, SmallestIs
<1>3. PICK x \in S : z = n - x
  OBVIOUS
<1>4. ASSUME NEW y \in S PROVE x >= y
  <2>1. n - y \in T
    OBVIOUS
  <2>2. n - x <= n - y
    BY <1>2, <1>3, <2>1
  <2>3. x \in Nat /\ y \in Nat
    OBVIOUS
  <2> QED
    BY <2>2, <2>3
<1>5. \E w \in S : \A y \in S : w >= y
  BY <1>4
<1>6. Max(S) \in S /\ \A y \in S : Max(S) >= y
  BY <1>5 DEF Max
<1> QED
  BY <1>6

\* The stamps of an answer.
LEMMA StampsAre ==
    ASSUME NEW p \in SUBSET Entry, p # {}
    PROVE  /\ Min(Stamps(p)) \in Stamp /\ Max(Stamps(p)) \in Stamp
           /\ \E f \in p : f.at = Min(Stamps(p))
           /\ \E f \in p : f.at = Max(Stamps(p))
           /\ \A e \in p : Min(Stamps(p)) <= e.at /\ e.at <= Max(Stamps(p))
<1>1. /\ Stamps(p) \in SUBSET Stamp /\ Stamps(p) # {}
      /\ \A e \in p : e.at \in Stamps(p)
      /\ \A x \in Stamps(p) : \E f \in p : f.at = x
  BY DEF Stamps, Entry
<1>2. MaxClock \in Nat /\ Stamps(p) \in SUBSET Nat /\ Stamps(p) \in SUBSET (0 .. MaxClock)
  BY <1>1, LogsAssumption DEF Stamp
<1>3. Min(Stamps(p)) \in Stamps(p) /\ \A y \in Stamps(p) : Min(Stamps(p)) <= y
  BY <1>1, <1>2, MinIs
<1>4. Max(Stamps(p)) \in Stamps(p) /\ \A y \in Stamps(p) : y <= Max(Stamps(p))
  BY <1>1, <1>2, MaxIs
<1> QED
  BY <1>1, <1>3, <1>4

\* An answer is some of what was found, and not nothing.
LEMMA AnswersAre ==
    ASSUME NEW found \in SUBSET Entry, IsFiniteSet(found), found # {}, NEW p \in Answers(found)
    PROVE  p \in SUBSET found /\ p # {}
<1>1. Cardinality(found) \in Nat /\ Cardinality(found) # 0 /\ PageLimit \in Nat \ {0}
  BY FS_CardinalityType, FS_EmptySet, LogsAssumption
<1>2. Min({PageLimit, Cardinality(found)}) \in {PageLimit, Cardinality(found)}
  BY <1>1, MinIs
<1>3. p \in SUBSET found /\ Cardinality(p) = Min({PageLimit, Cardinality(found)})
  BY DEF Answers, kSubset
<1> QED
  BY <1>1, <1>2, <1>3, FS_EmptySet

ClientRow == [open : BOOLEAN, lo : Stamp, hi : Stamp, has : SUBSET Entry, late : SUBSET Entry]

\* What a page lacks between its oldest and its newest entry shares a stamp with another.
PageHolds(p, ls) ==
    p.open => \A e \in ls \ (p.has \cup p.late) :
                  p.lo <= e.at /\ e.at <= p.hi => \E f \in ls \ {e} : f.at = e.at

LogsInv ==
    /\ clock \in Stamp /\ logs \in SUBSET Entry /\ IsFiniteSet(logs)
    /\ source \in [Source -> [left : 0 .. 2, at : Stamp]]
    /\ client \in [Client -> ClientRow]
    /\ \A c \in Client : PageHolds(client[c], logs)

\* There is nothing to show.
LEMMA LogsInits == LogsInit => LogsInv
<1> SUFFICES ASSUME LogsInit PROVE LogsInv
  OBVIOUS
<1>1. 1 \in Stamp
  BY LogsAssumption DEF Stamp
<1>2. NoPageYet \in ClientRow /\ ~NoPageYet.open
  BY <1>1 DEF NoPageYet, ClientRow
<1>3. IsFiniteSet({})
  BY FS_EmptySet
<1> QED
  BY <1>1, <1>2, <1>3 DEF LogsInit, LogsInv, PageHolds

\* An entry is written, stored or lost, and a page scrolls back or polls.
LEMMA LogsSteps == LogsInv /\ [LogsNext]_logsVars => LogsInv'
<1> SUFFICES ASSUME LogsInv, [LogsNext]_logsVars PROVE LogsInv'
  OBVIOUS
<1>1. /\ clock \in Stamp /\ logs \in SUBSET Entry /\ IsFiniteSet(logs)
      /\ source \in [Source -> [left : 0 .. 2, at : Stamp]]
      /\ client \in [Client -> ClientRow]
      /\ \A c \in Client : PageHolds(client[c], logs)
  BY DEF LogsInv
<1>2. CASE Tick
  <2>1. clock' \in Stamp
    BY <1>1, <1>2, LogsAssumption DEF Tick, Stamp
  <2>2. UNCHANGED <<logs, source, client>>
    BY <1>2 DEF Tick
  <2> QED
    BY <1>1, <2>1, <2>2 DEF LogsInv
<1>3. ASSUME NEW s \in Source, NEW entries \in {1, 2}, Records(s, entries)
      PROVE  LogsInv'
  <2>1. source' = [source EXCEPT ![s] = [left |-> entries, at |-> clock]] /\ UNCHANGED <<clock, logs, client>>
    BY <1>3 DEF Records
  <2>2. [left |-> entries, at |-> clock] \in [left : 0 .. 2, at : Stamp]
    BY <1>1
  <2>3. source' \in [Source -> [left : 0 .. 2, at : Stamp]]
    BY <1>1, <2>1, <2>2
  <2> QED
    BY <1>1, <2>1, <2>3 DEF LogsInv
<1>4. ASSUME NEW s \in Source, source[s].left > 0, AfterEntry(s)
      PROVE  source' \in [Source -> [left : 0 .. 2, at : Stamp]]
  <2> DEFINE w == [source[s] EXCEPT !.left = source[s].left - 1, !.at = clock]
  <2>1. source[s].left - 1 \in 0 .. 2
    BY <1>1, <1>4
  <2>2. source' = [source EXCEPT ![s] = [left |-> source[s].left - 1, at |-> clock]]
    BY <1>4 DEF AfterEntry
  <2>3. [left |-> source[s].left - 1, at |-> clock] \in [left : 0 .. 2, at : Stamp]
    BY <1>1, <2>1
  <2> QED
    BY <1>1, <2>2, <2>3
<1>5. ASSUME NEW s \in Source, StoreEntry(s)
      PROVE  LogsInv'
  <2> DEFINE e == [id |-> Cardinality(logs) + 1, at |-> source[s].at]
  <2>1. /\ source[s].left > 0 /\ Cardinality(logs) < MaxLogs /\ logs' = logs \cup {e} /\ clock' = clock
        /\ client' = [c \in Client |-> IF c \in Overtakes(e)
                                       THEN [client[c] EXCEPT !.late = @ \cup {e}] ELSE client[c]]
        /\ AfterEntry(s)
    BY <1>5 DEF StoreEntry
  <2>2. e \in Entry /\ e.at \in Nat
    <3>1. Cardinality(logs) \in Nat /\ MaxLogs \in Nat
      BY <1>1, FS_CardinalityType, LogsAssumption
    <3>2. Cardinality(logs) + 1 \in 1 .. MaxLogs
      BY <2>1, <3>1
    <3>3. source[s].at \in Stamp /\ Stamp \subseteq Nat
      BY <1>1, LogsAssumption DEF Stamp
    <3> QED
      BY <3>2, <3>3 DEF Entry
  <2> HIDE DEF e
  <2>3. logs' \in SUBSET Entry /\ IsFiniteSet(logs')
    BY <1>1, <2>1, <2>2, FS_AddElement
  <2>4. source' \in [Source -> [left : 0 .. 2, at : Stamp]]
    BY <1>4, <2>1
  <2>5. ASSUME NEW c \in Client
        PROVE  /\ client'[c] \in ClientRow
               /\ client'[c].open = client[c].open /\ client'[c].lo = client[c].lo
               /\ client'[c].hi = client[c].hi /\ client'[c].has = client[c].has
               /\ client'[c].late = IF client[c].open /\ e.at <= client[c].hi
                                    THEN client[c].late \cup {e} ELSE client[c].late
    <3>1. client[c] \in ClientRow
      BY <1>1
    <3>2. client'[c] = IF client[c].open /\ e.at <= client[c].hi
                       THEN [client[c] EXCEPT !.late = client[c].late \cup {e}] ELSE client[c]
      BY <2>1 DEF Overtakes
    <3> QED
      BY <3>1, <3>2, <2>2 DEF ClientRow
  <2>6. client' \in [Client -> ClientRow]
    <3>1. client' = [c \in Client |-> client'[c]]
      BY <2>1
    <3> QED
      BY <3>1, <2>5
  <2>7. ASSUME NEW c \in Client PROVE PageHolds(client'[c], logs')
    <3> SUFFICES ASSUME client'[c].open, NEW f \in logs' \ (client'[c].has \cup client'[c].late),
                        client'[c].lo <= f.at, f.at <= client'[c].hi
                 PROVE  \E g \in logs' \ {f} : g.at = f.at
      BY DEF PageHolds
    <3>1. f # e
      BY <2>5
    <3>2. f \in logs \ (client[c].has \cup client[c].late)
      BY <3>1, <2>1, <2>5
    <3>3. \E g \in logs \ {f} : g.at = f.at
      BY <3>2, <2>5, <1>1 DEF PageHolds
    <3> QED
      BY <3>3, <2>1
  <2> QED
    BY <1>1, <2>1, <2>3, <2>4, <2>6, <2>7 DEF LogsInv
<1>6. ASSUME NEW s \in Source, LoseEntry(s)
      PROVE  LogsInv'
  <2>1. UNCHANGED <<clock, logs, client>>
    BY <1>6 DEF LoseEntry
  <2>2. source' \in [Source -> [left : 0 .. 2, at : Stamp]]
    BY <1>4, <1>6 DEF LoseEntry
  <2> QED
    BY <1>1, <2>1, <2>2 DEF LogsInv
<1>7. ASSUME NEW c \in Client, NEW w \in ClientRow, client' = [client EXCEPT ![c] = w],
             PageHolds(w, logs), UNCHANGED <<clock, logs, source>>
      PROVE  LogsInv'
  <2>1. client' \in [Client -> ClientRow] /\ \A d \in Client : PageHolds(client'[d], logs)
    BY <1>1, <1>7
  <2> QED
    BY <1>1, <1>7, <2>1 DEF LogsInv
<1>8. ASSUME NEW c \in Client, OpenLog(c)
      PROVE  LogsInv'
  <2>1. PICK p \in Latest(logs) :
            client' = [client EXCEPT ![c] = [open |-> TRUE, lo |-> Min(Stamps(p)),
                                             hi |-> Max(Stamps(p)), has |-> p, late |-> {}]]
    BY <1>8 DEF OpenLog
  <2>2. /\ p \in SUBSET logs /\ p # {} /\ \A e \in p, f \in logs \ p : e.at >= f.at
    BY <1>1, <1>8, AnswersAre DEF Latest, OpenLog
  <2> DEFINE w == [open |-> TRUE, lo |-> Min(Stamps(p)), hi |-> Max(Stamps(p)), has |-> p, late |-> {}]
  <2>3. p \in SUBSET Entry
    BY <1>1, <2>2
  <2>4. w \in ClientRow
    BY <2>2, <2>3, StampsAre DEF ClientRow
  <2>5. PageHolds(w, logs)
    <3> SUFFICES ASSUME NEW e \in logs \ p, Min(Stamps(p)) <= e.at
                 PROVE  \E f \in logs \ {e} : f.at = e.at
      BY DEF PageHolds
    <3>1. PICK f \in p : f.at = Min(Stamps(p))
      BY <2>2, <2>3, StampsAre
    <3>2. f.at >= e.at
      BY <2>2
    <3>3. f.at \in Nat /\ e.at \in Nat
      BY <1>1, <2>3, LogsAssumption DEF Entry, Stamp
    <3>4. f.at = e.at
      BY <3>1, <3>2, <3>3
    <3> QED
      BY <3>4, <2>2
  <2> QED
    BY <1>7, <1>8, <2>1, <2>4, <2>5 DEF OpenLog
<1>9. ASSUME NEW c \in Client, ScrollBack(c)
      PROVE  LogsInv'
  <2> DEFINE found == {e \in logs : e.at < client[c].lo}
  <2>1. client[c].open /\ found # {}
    BY <1>9 DEF ScrollBack
  <2>2. PICK p \in Latest(found) :
            client' = [client EXCEPT ![c].lo = Min(Stamps(p)), ![c].has = @ \cup p]
    BY <1>9 DEF ScrollBack, Older
  <2>3. found \in SUBSET Entry /\ IsFiniteSet(found)
    BY <1>1, FS_Subset
  <2>4. /\ p \in SUBSET found /\ p # {} /\ \A e \in p, f \in found \ p : e.at >= f.at
    <3> HIDE DEF found
    <3> QED
      BY <2>1, <2>3, AnswersAre DEF Latest
  <2>5. p \in SUBSET Entry
    BY <2>3, <2>4
  <2> DEFINE low == Min(Stamps(p))
  <2>6. low \in Stamp /\ \E f \in p : f.at = low
    BY <2>4, <2>5, StampsAre
  <2> HIDE DEF low
  <2> DEFINE w == [client[c] EXCEPT !.lo = low, !.has = client[c].has \cup p]
  <2>7. client' = [client EXCEPT ![c] = w]
    BY <2>2, <1>1 DEF low
  <2>8. /\ w \in ClientRow /\ w.open = client[c].open /\ w.lo = low /\ w.hi = client[c].hi
        /\ w.has = client[c].has \cup p /\ w.late = client[c].late
    BY <1>1, <2>5, <2>6 DEF ClientRow
  <2> HIDE DEF w
  <2>9. PageHolds(w, logs)
    <3> SUFFICES ASSUME NEW e \in logs \ (w.has \cup w.late), w.lo <= e.at, e.at <= w.hi
                 PROVE  \E f \in logs \ {e} : f.at = e.at
      BY DEF PageHolds
    <3>1. CASE client[c].lo <= e.at
      BY <3>1, <2>1, <2>8, <1>1 DEF PageHolds
    <3>2. CASE ~(client[c].lo <= e.at)
      <4>1. e.at \in Nat /\ client[c].lo \in Nat
        BY <1>1, LogsAssumption DEF Entry, Stamp, ClientRow
      <4>2. e \in found \ p
        BY <3>2, <4>1, <2>8
      <4>3. PICK f \in p : f.at = low
        BY <2>6
      <4>4. f.at >= e.at /\ f.at \in Nat /\ f \in logs /\ f # e
        BY <4>2, <2>4, <2>5, LogsAssumption DEF Entry, Stamp
      <4> QED
        BY <4>1, <4>3, <4>4, <2>8
    <3> QED
      BY <3>1, <3>2
  <2> QED
    BY <1>7, <1>9, <2>7, <2>8, <2>9 DEF ScrollBack
<1>10. ASSUME NEW c \in Client, PollForward(c)
       PROVE  LogsInv'
  <2> DEFINE found == {e \in logs : e.at > client[c].hi}
  <2>1. client[c].open /\ found # {}
    BY <1>10 DEF PollForward
  <2>2. PICK p \in Earliest(found) :
            client' = [client EXCEPT ![c].hi = Max(Stamps(p)), ![c].has = @ \cup p]
    BY <1>10 DEF PollForward
  <2>3. found \in SUBSET Entry /\ IsFiniteSet(found)
    BY <1>1, FS_Subset
  <2>4. /\ p \in SUBSET found /\ p # {} /\ \A e \in p, f \in found \ p : e.at <= f.at
    <3> HIDE DEF found
    <3> QED
      BY <2>1, <2>3, AnswersAre DEF Earliest
  <2>5. p \in SUBSET Entry
    BY <2>3, <2>4
  <2> DEFINE high == Max(Stamps(p))
  <2>6. high \in Stamp /\ \E f \in p : f.at = high
    BY <2>4, <2>5, StampsAre
  <2> HIDE DEF high
  <2> DEFINE w == [client[c] EXCEPT !.hi = high, !.has = client[c].has \cup p]
  <2>7. client' = [client EXCEPT ![c] = w]
    BY <2>2, <1>1 DEF high
  <2>8. /\ w \in ClientRow /\ w.open = client[c].open /\ w.hi = high /\ w.lo = client[c].lo
        /\ w.has = client[c].has \cup p /\ w.late = client[c].late
    BY <1>1, <2>5, <2>6 DEF ClientRow
  <2> HIDE DEF w
  <2>9. PageHolds(w, logs)
    <3> SUFFICES ASSUME NEW e \in logs \ (w.has \cup w.late), w.lo <= e.at, e.at <= w.hi
                 PROVE  \E f \in logs \ {e} : f.at = e.at
      BY DEF PageHolds
    <3>1. CASE e.at <= client[c].hi
      BY <3>1, <2>1, <2>8, <1>1 DEF PageHolds
    <3>2. CASE ~(e.at <= client[c].hi)
      <4>1. e.at \in Nat /\ client[c].hi \in Nat
        BY <1>1, LogsAssumption DEF Entry, Stamp, ClientRow
      <4>2. e \in found \ p
        BY <3>2, <4>1, <2>8
      <4>3. PICK f \in p : f.at = high
        BY <2>6
      <4>4. f.at <= e.at /\ f.at \in Nat /\ f \in logs /\ f # e
        BY <4>2, <2>4, <2>5, LogsAssumption DEF Entry, Stamp
      <4> QED
        BY <4>1, <4>3, <4>4, <2>8
    <3> QED
      BY <3>1, <3>2
  <2> QED
    BY <1>7, <1>10, <2>7, <2>8, <2>9 DEF PollForward
<1>11. ASSUME NEW c \in Client, CloseLog(c)
       PROVE  LogsInv'
  <2>1. 1 \in Stamp
    BY LogsAssumption DEF Stamp
  <2>2. NoPageYet \in ClientRow /\ PageHolds(NoPageYet, logs)
    BY <2>1 DEF NoPageYet, ClientRow, PageHolds
  <2> QED
    BY <1>7, <1>11, <2>2 DEF CloseLog
<1>12. CASE UNCHANGED logsVars
  BY <1>1, <1>12 DEF logsVars, LogsInv
<1> QED
  BY <1>2, <1>3, <1>5, <1>6, <1>8, <1>9, <1>10, <1>11, <1>12
     DEF LogsNext, RecordEvent, CaptureLogs, RecordVerdict

\* The log and its pages are as they must be, always.
THEOREM LogsInvariant == LogsSpec => []LogsInv
<1> QED
  BY LogsInits, LogsSteps, PTL DEF LogsSpec

\* However many processes write, and however long the answers are: a page that scrolls
\* and polls leaves no hole, but for stamps that entries share and entries that come late.
THEOREM PagesAreComplete == LogsSpec => []LogComplete
<1>1. LogsInv => LogComplete
  BY DEF LogsInv, PageHolds, LogComplete
<1> QED
  BY <1>1, LogsInvariant, PTL

-----------------------------------------------------------------------------
(* The window of a conversation. *)

\* part holds what comes after any of it in set.
Suffix(part, set) == part \subseteq set /\ \A m \in part, k \in set : k > m => k \in part

MessagesIn(ms, states) == {m \in Id : ms[m].state \in states}

\* The window without m is the end of the conversation without m, and the payloads
\* but that of m are as the rows.
EndsWell(w, ms, m) ==
    /\ Suffix(w.ids \ {m}, MessagesIn(ms, {"live"}) \ {m})
    /\ \A k \in w.ids \ {m} : w.payload[k] \in {Absent, ms[k].body}

WindowHolds(w, ms) ==
    /\ Suffix(w.ids, MessagesIn(ms, {"live"}))
    /\ \A k \in w.ids : w.payload[k] \in {Absent, ms[k].body}

Bounded(w) == w.ids # {} => w.meta = Bounds(w.ids)

\* What work under way has read is as the rows, and what it has not yet brought up to
\* date is its own message, which is new, changed or deleted.
AddHolds(d, w, ms) ==
    /\ ms[d.id].state = "live"
    /\ \/ /\ d.pc \in {"read", "write"} /\ EndsWell(w, ms, d.id)
          /\ d.id \notin w.ids /\ \A k \in MessagesIn(ms, {"live"}) : k <= d.id
          /\ (d.pc = "write" => d.rows[d.id] = ms[d.id].body)
       \/ d.pc = "bounds" /\ WindowHolds(w, ms)
       \/ /\ d.pc = "meta" /\ WindowHolds(w, ms)
          /\ (w.ids # {} => d.meta = Bounds(w.ids))

UpdateHolds(d, w, ms) ==
    /\ ms[d.id].state = "live" /\ d.pc \in {"read", "write"}
    /\ Suffix(w.ids, MessagesIn(ms, {"live"})) /\ EndsWell(w, ms, d.id) /\ Bounded(w)
    /\ (d.pc = "write" => d.rows[d.id] = ms[d.id].body)

DeleteHolds(d, w, ms) ==
    /\ ms[d.id].state = "deleted"
    /\ \/ d.pc = "read" /\ EndsWell(w, ms, d.id)
       \/ d.pc = "bounds" /\ WindowHolds(w, ms)
       \/ /\ d.pc = "meta" /\ WindowHolds(w, ms)
          /\ (w.ids # {} => d.meta = Bounds(w.ids))

\* Newest rows, as they are.
Fresh(rows, ms) ==
    LET held == {m \in Id : rows[m] # Absent} IN
    /\ Suffix(held, MessagesIn(ms, {"live"}))
    /\ \A m \in held : rows[m] = ms[m].body

RefillHolds(d, w, ms) ==
    /\ WindowHolds(w, ms) /\ Bounded(w)
    /\ (d.pc = "write" => Fresh(d.rows, ms))
    /\ d.pc \in {"read", "write"}

JobHolds(d, w, ms) ==
    /\ (d.kind = "add" => AddHolds(d, w, ms))
    /\ (d.kind = "update" => UpdateHolds(d, w, ms))
    /\ (d.kind = "delete" => DeleteHolds(d, w, ms))
    /\ (d.kind = "clear" => MessagesIn(ms, {"live"}) = {} /\ d.pc = "read")
    /\ (d.kind = "seed" => RefillHolds(d, w, ms) /\ d.pc = "write")
    /\ (d.kind = "rebuild" => RefillHolds(d, w, ms))

\* While no work overlaps: there is one job at a time and nothing is held, and the
\* window is the end of the conversation but for what that job has still to do.
CalmHolds(jb, w, ms) ==
    /\ \A j, k \in Job : jb[j].kind # "none" /\ jb[k].kind # "none" => j = k
    /\ MessagesIn(ms, {"held"}) = {}
    /\ \A j \in Job : JobHolds(jb[j], w, ms)
    /\ ((\A j \in Job : jb[j].kind = "none") => WindowHolds(w, ms) /\ Bounded(w))

\* Ids are given in order, and a request without cache work is at no step of it.
Numbered(ms) == \A m \in Id : ms[m].state # "none" => \A k \in 1 .. m - 1 : ms[k].state # "none"
Settled(jb) == \A j \in Job : jb[j].kind = "none" => jb[j].pc = "read"

CacheInv ==
    /\ MessageCacheTypeOK /\ Numbered(message) /\ Settled(job)
    /\ (calm => CalmHolds(job, window, message))

-----------------------------------------------------------------------------

\* How many ids a set has.
LEMMA IdsCount ==
    ASSUME NEW S \in SUBSET Id, NEW T \in SUBSET S
    PROVE  /\ IsFiniteSet(S) /\ IsFiniteSet(T)
           /\ Cardinality(S) \in Nat /\ Cardinality(T) \in Nat /\ Cardinality(T) <= Cardinality(S)
           /\ (Cardinality(S) = Cardinality(T) => S = T)
<1>1. IsFiniteSet(Id)
  BY FS_Interval, MessageCacheAssumption DEF Id
<1>2. IsFiniteSet(S)
  BY <1>1, FS_Subset
<1> QED
  BY <1>2, FS_Subset, FS_CardinalityType

\* The n greatest ids are an end of the set, and no more than n.
LEMMA NewestEnds ==
    ASSUME NEW S \in SUBSET Id, NEW n \in Nat
    PROVE  Suffix(Newest(n, S), S)
<1> DEFINE Above(m) == {k \in S : k > m}
<1>1. Id \subseteq Nat /\ S \subseteq Id
  BY DEF Id
<1>2. ASSUME NEW m \in Newest(n, S), NEW k \in S, k > m
      PROVE  k \in Newest(n, S)
  <2>1. m \in S /\ Cardinality(Above(m)) < n
    BY DEF Newest
  <2>2. /\ \A x \in S : x > k => x > m
        /\ S \subseteq Id
    BY <1>1, <1>2, <2>1
  <2>3. Above(k) \subseteq Above(m)
    BY <2>2
  <2>4. Above(m) \subseteq Id
    BY <2>2
  <2>5. /\ Cardinality(Above(k)) \in Nat /\ Cardinality(Above(m)) \in Nat
        /\ Cardinality(Above(k)) <= Cardinality(Above(m))
    <3> HIDE DEF Above
    <3> QED
      BY <2>3, <2>4, IdsCount
  <2>6. Cardinality(Above(k)) < n
    <3> HIDE DEF Above
    <3> QED
      BY <2>1, <2>5
  <2> QED
    BY <2>6 DEF Newest
<1> QED
  BY <1>2 DEF Suffix, Newest

\* The n least are a beginning.
LEMMA OldestBegins ==
    ASSUME NEW S \in SUBSET Id, NEW n \in Nat, NEW m \in Oldest(n, S), NEW k \in S, k < m
    PROVE  k \in Oldest(n, S)
<1> DEFINE Below(x) == {y \in S : y < x}
<1>1. Id \subseteq Nat /\ S \subseteq Id
  BY DEF Id
<1>2. m \in S /\ Cardinality(Below(m)) < n
  BY DEF Oldest
<1>3. /\ \A x \in S : x < k => x < m
      /\ S \subseteq Id
  BY <1>1, <1>2
<1>4. Below(k) \subseteq Below(m)
  BY <1>3
<1>5. Below(m) \subseteq Id
  BY <1>3
<1>6. /\ Cardinality(Below(k)) \in Nat /\ Cardinality(Below(m)) \in Nat
      /\ Cardinality(Below(k)) <= Cardinality(Below(m))
  <2> HIDE DEF Below
  <2> QED
    BY <1>4, <1>5, IdsCount
<1>7. Cardinality(Below(k)) < n
  <2> HIDE DEF Below
  <2> QED
    BY <1>2, <1>6
<1> QED
  BY <1>7 DEF Oldest

\* They are no more than n.
LEMMA NewestFew ==
    ASSUME NEW S \in SUBSET Id, NEW n \in Nat
    PROVE  Cardinality(Newest(n, S)) <= n
<1> DEFINE P == Newest(n, S)
<1>1. S \subseteq Id /\ Id \subseteq Nat
  BY DEF Id
<1>2. P \subseteq S
  BY DEF Newest
<1>3. P \subseteq Id /\ P \subseteq Nat
  <2> HIDE DEF P
  <2> QED
    BY <1>1, <1>2
<1>4. CASE P = {}
  BY <1>4, FS_EmptySet
<1>5. CASE P # {}
  <2> DEFINE x == Min(P)
             Above == {k \in S : k > x}
  <2>1. x \in P /\ \A y \in P : x <= y
    <3> HIDE DEF P
    <3> QED
      BY <1>5, <1>3, MinIs
  <2>2. Cardinality(Above) < n
    BY <2>1 DEF Newest
  <2>3. P \ {x} \subseteq Above
    <3>1. \A y \in P \ {x} : y \in S /\ y > x
      <4> HIDE DEF P, x
      <4> QED
        BY <1>2, <1>3, <2>1
    <3> QED
      BY <3>1
  <2>4. Above \subseteq Id
    BY <1>1
  <2> HIDE DEF P, x, Above
  <2>5. IsFiniteSet(P) /\ Cardinality(P) \in Nat
    BY <1>3, IdsCount
  <2>6. /\ Cardinality(P \ {x}) \in Nat /\ Cardinality(Above) \in Nat
        /\ Cardinality(P \ {x}) <= Cardinality(Above)
    BY <2>3, <2>4, IdsCount
  <2>7. Cardinality(P \ {x}) = Cardinality(P) - 1
    BY <2>1, <2>5, FS_RemoveElement
  <2>8. Cardinality(P) <= n
    BY <2>2, <2>5, <2>6, <2>7
  <2> QED
    BY <2>8 DEF P
<1> QED
  BY <1>4, <1>5

\* An end of a set is its newest ids, as many as it has.
LEMMA EndIsNewest ==
    ASSUME NEW S \in SUBSET Id, NEW P, Suffix(P, S)
    PROVE  P = Newest(Cardinality(P), S)
<1> DEFINE Above(m) == {k \in S : k > m}
<1>1. /\ P \subseteq S /\ P \subseteq Id /\ S \subseteq Id /\ Id \subseteq Nat
      /\ \A m \in P, k \in S : k > m => k \in P
  BY DEF Suffix, Id
<1>2. IsFiniteSet(P) /\ Cardinality(P) \in Nat
  BY <1>1, IdsCount
<1>3. ASSUME NEW m \in P PROVE Cardinality(Above(m)) < Cardinality(P)
  <2>1. \A k \in S : k > m => k \in P \ {m}
    BY <1>1
  <2>2. Above(m) \subseteq P \ {m}
    BY <2>1
  <2>3. P \ {m} \subseteq Id
    BY <1>1
  <2>4. /\ Cardinality(Above(m)) \in Nat /\ Cardinality(P \ {m}) \in Nat
        /\ Cardinality(Above(m)) <= Cardinality(P \ {m})
    <3> HIDE DEF Above
    <3> QED
      BY <2>2, <2>3, IdsCount
  <2>5. Cardinality(P \ {m}) = Cardinality(P) - 1
    BY <1>2, FS_RemoveElement
  <2> HIDE DEF Above
  <2> QED
    BY <1>2, <2>4, <2>5
<1>4. ASSUME NEW m \in S, m \notin P PROVE ~(Cardinality(Above(m)) < Cardinality(P))
  <2>1. \A p \in P : p \in S /\ p > m
    BY <1>1, <1>4
  <2>2. P \subseteq Above(m)
    BY <2>1
  <2>3. Above(m) \subseteq Id
    BY <1>1
  <2>4. Cardinality(Above(m)) \in Nat /\ Cardinality(P) <= Cardinality(Above(m))
    <3> HIDE DEF Above
    <3> QED
      BY <2>2, <2>3, IdsCount
  <2> HIDE DEF Above
  <2> QED
    BY <1>2, <2>4
<1> QED
  BY <1>1, <1>3, <1>4 DEF Newest

\* An end of an end is an end.
LEMMA EndOfEnd ==
    ASSUME NEW S, NEW Q, NEW P, Suffix(P, Q), Suffix(Q, S)
    PROVE  Suffix(P, S)
BY DEF Suffix

\* The bounds of a window.
LEMMA BoundsAre ==
    ASSUME NEW S \in SUBSET Id
    PROVE  /\ Bounds(S) \in Meta
           /\ (S # {} => /\ Bounds(S) = [min |-> Min(S), max |-> Max(S)]
                         /\ Bounds(S) # NoMeta
                         /\ Min(S) \in S /\ Max(S) \in S
                         /\ \A y \in S : Min(S) <= y /\ y <= Max(S))
<1>1. MaxId \in Nat /\ S \in SUBSET Nat /\ S \in SUBSET (0 .. MaxId)
  BY MessageCacheAssumption DEF Id
<1>2. CASE S = {}
  BY <1>1, <1>2 DEF Bounds, NoMeta, Meta
<1>3. CASE S # {}
  <2>1. Min(S) \in S /\ \A y \in S : Min(S) <= y
    BY <1>1, <1>3, MinIs
  <2>2. Max(S) \in S /\ \A y \in S : y <= Max(S)
    BY <1>1, <1>3, MaxIs
  <2>3. Bounds(S) = [min |-> Min(S), max |-> Max(S)]
    BY <1>3 DEF Bounds
  <2>4. Min(S) \in 1 .. MaxId /\ Max(S) \in 0 .. MaxId
    BY <1>1, <2>1, <2>2 DEF Id
  <2>5. Bounds(S) # NoMeta
    BY <2>3, <2>4 DEF NoMeta
  <2>6. Bounds(S) \in Meta
    BY <2>3, <2>4 DEF Meta
  <2> QED
    BY <2>1, <2>2, <2>3, <2>5, <2>6
<1> QED
  BY <1>2, <1>3

-----------------------------------------------------------------------------

\* A step of one request's work is to another step of it, or to none.
LEMMA JobMoves ==
    ASSUME NEW jb \in [Job -> JobRow], Settled(jb), NEW j \in Job, NEW d \in JobRow,
           d.kind = "none" => d.pc = "read", NEW jb2, jb2 = [jb EXCEPT ![j] = d]
    PROVE  /\ jb2 \in [Job -> JobRow] /\ Settled(jb2)
           /\ jb2[j] = d /\ \A k \in Job : k # j => jb2[k] = jb[k]
BY DEF Settled

\* No work is to be done for a request that has none.
LEMMA NoneHolds ==
    ASSUME NEW d, d.kind = "none", NEW w, NEW ms
    PROVE  JobHolds(d, w, ms)
BY DEF JobHolds

\* What is left right when one request at most has work.
LEMMA OneJob ==
    ASSUME NEW jb \in [Job -> JobRow], NEW j \in Job, NEW d, NEW jb2 \in [Job -> JobRow],
           jb2[j] = d, \A k \in Job : k # j => jb2[k] = jb[k],
           \A k \in Job : k # j => jb[k].kind = "none", NEW w, NEW ms,
           MessagesIn(ms, {"held"}) = {}, JobHolds(d, w, ms),
           d.kind = "none" => WindowHolds(w, ms) /\ Bounded(w)
    PROVE  CalmHolds(jb2, w, ms)
<1>1. \A k \in Job : k # j => jb2[k].kind = "none"
  OBVIOUS
<1>2. \A k \in Job : JobHolds(jb2[k], w, ms)
  BY <1>1, NoneHolds
<1> QED
  BY <1>1, <1>2 DEF CalmHolds

\* While no work overlaps and there is none, the window is right.
LEMMA CalmIdle ==
    ASSUME CacheInv, calm, Working = {}
    PROVE  /\ \A k \in Job : job[k].kind = "none"
           /\ MessagesIn(message, {"held"}) = {}
           /\ WindowHolds(window, message) /\ Bounded(window)
<1>1. \A k \in Job : job[k].kind = "none"
  BY DEF Working
<1> QED
  BY <1>1 DEF CacheInv, CalmHolds

\* While no work overlaps, a request that has some has all there is.
LEMMA CalmBusy ==
    ASSUME CacheInv, calm, NEW j \in Job, job[j].kind # "none"
    PROVE  /\ \A k \in Job : k # j => job[k].kind = "none"
           /\ MessagesIn(message, {"held"}) = {}
           /\ JobHolds(job[j], window, message)
BY DEF CacheInv, CalmHolds

\* What the invariant says at all times.
LEMMA CacheTyped ==
    ASSUME CacheInv
    PROVE  /\ message \in [Id -> MessageRow] /\ window \in WindowRow
           /\ job \in [Job -> JobRow] /\ calm \in BOOLEAN
           /\ Cardinality(window.ids) <= CacheSize
           /\ Numbered(message) /\ Settled(job)
BY DEF CacheInv, MessageCacheTypeOK

\* A row changes.
LEMMA RowChanges ==
    ASSUME NEW ms \in [Id -> MessageRow], NEW m \in Id, NEW row \in MessageRow, NEW ms2,
           ms2 = [ms EXCEPT ![m] = row]
    PROVE  /\ ms2 \in [Id -> MessageRow] /\ ms2[m] = row
           /\ \A k \in Id : k # m => ms2[k] = ms[k]
OBVIOUS

\* A row that is written, or changes, is no gap in the ids.
LEMMA StaysNumbered ==
    ASSUME NEW ms \in [Id -> MessageRow], NEW m \in Id, NEW row \in MessageRow,
           row.state # "none", \A k \in 1 .. m - 1 : ms[k].state # "none", Numbered(ms)
    PROVE  Numbered([ms EXCEPT ![m] = row])
<1>1. \A k \in Id : 1 .. k - 1 \subseteq Id
  BY MessageCacheAssumption DEF Id
<1> QED
  BY <1>1 DEF Numbered

\* After one row changed the window ends well but for it.
LEMMA EndsWellBut ==
    ASSUME NEW w, NEW ms, NEW ms2, NEW m \in Id, WindowHolds(w, ms), w.ids \subseteq Id,
           \A k \in Id : k # m => ms2[k] = ms[k]
    PROVE  EndsWell(w, ms2, m)
<1>1. MessagesIn(ms2, {"live"}) \ {m} = MessagesIn(ms, {"live"}) \ {m}
  BY DEF MessagesIn
<1>2. Suffix(w.ids \ {m}, MessagesIn(ms, {"live"}) \ {m})
  BY DEF WindowHolds, Suffix
<1>3. \A k \in w.ids \ {m} : w.payload[k] \in {Absent, ms2[k].body}
  BY DEF WindowHolds
<1> QED
  BY <1>1, <1>2, <1>3 DEF EndsWell

\* What rows are read as.
LEMMA BodiesAre ==
    ASSUME message \in [Id -> MessageRow], NEW S \in SUBSET Id
    PROVE  /\ Bodies(S) \in [Id -> Absent .. Blank]
           /\ \A m \in S : Bodies(S)[m] = message[m].body
           /\ {m \in Id : Bodies(S)[m] # Absent} = S
<1>1. \A m \in Id : message[m].body \in 0 .. Blank
  BY DEF MessageRow
<1>2. \A m \in Id : Bodies(S)[m] = IF m \in S THEN message[m].body ELSE Absent
  BY DEF Bodies
<1>3. \A m \in Id : message[m].body # Absent /\ message[m].body \in Absent .. Blank
                    /\ Absent \in Absent .. Blank
  BY <1>1, MessageCacheAssumption DEF Absent, Blank
<1>4. Bodies(S) \in [Id -> Absent .. Blank]
  BY <1>3 DEF Bodies
<1>5. S \subseteq Id
  OBVIOUS
<1>6. {m \in Id : Bodies(S)[m] # Absent} = S
  BY <1>2, <1>3, <1>5
<1> QED
  BY <1>2, <1>4, <1>5, <1>6

\* The newest live rows are fresh.
LEMMA NewestFresh ==
    ASSUME message \in [Id -> MessageRow], NEW n \in Nat
    PROVE  /\ Bodies(Newest(n, Live)) \in [Id -> Absent .. Blank]
           /\ Fresh(Bodies(Newest(n, Live)), message)
<1> DEFINE S == Newest(n, Live)
<1>1. Live = MessagesIn(message, {"live"}) /\ Live \subseteq Id
  BY DEF Live, InState, MessagesIn
<1>2. Suffix(S, Live) /\ S \subseteq Id
  BY <1>1, NewestEnds DEF Suffix
<1> HIDE DEF S
<1>3. /\ Bodies(S) \in [Id -> Absent .. Blank]
      /\ \A m \in S : Bodies(S)[m] = message[m].body
      /\ {m \in Id : Bodies(S)[m] # Absent} = S
  BY <1>2, BodiesAre
<1>4. Fresh(Bodies(S), message)
  BY <1>1, <1>2, <1>3 DEF Fresh
<1> QED
  BY <1>3, <1>4 DEF S

\* A window that is given rows is a window, no larger than it may be.
LEMMA CachedTyped ==
    ASSUME window \in WindowRow, Cardinality(window.ids) <= CacheSize,
           NEW rows \in [Id -> Absent .. Blank]
    PROVE  Cached(rows) \in WindowRow /\ Cardinality(Cached(rows).ids) <= CacheSize
<1> DEFINE held == {m \in Id : rows[m] # Absent}
           ids == Newest(CacheSize, held)
           payload == [m \in Id |-> CASE m \in ids -> rows[m]
                                      [] m \in window.ids \ ids -> Absent
                                      [] OTHER -> window.payload[m]]
<1>1. held \subseteq Id /\ CacheSize \in Nat
  BY MessageCacheAssumption
<1>2. ids \subseteq held
  BY DEF Newest
<1>3. Cardinality(ids) <= CacheSize
  <2> HIDE DEF held
  <2> QED
    BY <1>1, NewestFew
<1>4. payload \in [Id -> Absent .. Blank]
  <2>1. Absent \in Absent .. Blank
    BY MessageCacheAssumption DEF Absent, Blank
  <2>2. window.payload \in [Id -> Absent .. Blank]
    BY DEF WindowRow
  <2> HIDE DEF ids
  <2> QED
    BY <2>1, <2>2
<1>5. Bounds(ids) \in Meta
  <2> HIDE DEF ids, held
  <2> QED
    BY <1>1, <1>2, BoundsAre
<1>6. Cached(rows) = IF ids = {} THEN window
                     ELSE [ids |-> ids, meta |-> Bounds(ids), payload |-> payload]
  BY DEF Cached
<1> HIDE DEF ids, held, payload
<1>7. ids \subseteq Id
  BY <1>1, <1>2
<1> QED
  BY <1>3, <1>4, <1>5, <1>6, <1>7 DEF WindowRow

\* A window that is given fresh rows is right.
LEMMA CachedHolds ==
    ASSUME NEW rows, NEW ms, WindowHolds(window, ms), Bounded(window), Fresh(rows, ms)
    PROVE  WindowHolds(Cached(rows), ms) /\ Bounded(Cached(rows))
<1> DEFINE held == {m \in Id : rows[m] # Absent}
           ids == Newest(CacheSize, held)
           payload == [m \in Id |-> CASE m \in ids -> rows[m]
                                      [] m \in window.ids \ ids -> Absent
                                      [] OTHER -> window.payload[m]]
<1>1. held \subseteq Id /\ CacheSize \in Nat
  BY MessageCacheAssumption
<1>2. Suffix(held, MessagesIn(ms, {"live"})) /\ \A m \in held : rows[m] = ms[m].body
  BY DEF Fresh
<1>3. Suffix(ids, held)
  <2> HIDE DEF held
  <2> QED
    BY <1>1, NewestEnds
<1>4. \A m \in ids : payload[m] = rows[m]
  <2>1. ids \subseteq Id
    BY <1>1, <1>3 DEF Suffix
  <2> HIDE DEF ids
  <2> QED
    BY <2>1
<1>5. Cached(rows) = IF ids = {} THEN window
                     ELSE [ids |-> ids, meta |-> Bounds(ids), payload |-> payload]
  BY DEF Cached
<1> HIDE DEF ids, held, payload
<1>6. ids \subseteq held /\ Suffix(ids, MessagesIn(ms, {"live"}))
  BY <1>2, <1>3, EndOfEnd DEF Suffix
<1>7. \A m \in ids : payload[m] \in {Absent, ms[m].body}
  BY <1>2, <1>4, <1>6
<1>8. CASE ids = {}
  BY <1>5, <1>8
<1>9. CASE ids # {}
  <2> DEFINE w == [ids |-> ids, meta |-> Bounds(ids), payload |-> payload]
  <2>1. Cached(rows) = w /\ w.ids = ids /\ w.meta = Bounds(ids) /\ w.payload = payload
    BY <1>5, <1>9
  <2> HIDE DEF w
  <2> QED
    BY <1>6, <1>7, <2>1 DEF WindowHolds, Bounded
<1> QED
  BY <1>8, <1>9

\* Work under way goes on over a window that has lost payloads.
LEMMA PayloadExpires ==
    ASSUME NEW d, NEW w, NEW ms, NEW w2, w2.ids = w.ids, w2.meta = w.meta,
           \A k \in w.ids : w2.payload[k] \in {Absent, w.payload[k]}
    PROVE  /\ JobHolds(d, w, ms) => JobHolds(d, w2, ms)
           /\ WindowHolds(w, ms) => WindowHolds(w2, ms)
           /\ Bounded(w) => Bounded(w2)
<1>1. WindowHolds(w, ms) => WindowHolds(w2, ms)
  BY DEF WindowHolds
<1>2. Bounded(w) => Bounded(w2)
  BY DEF Bounded
<1>3. EndsWell(w, ms, d.id) => EndsWell(w2, ms, d.id)
  BY DEF EndsWell
<1>4. AddHolds(d, w, ms) => AddHolds(d, w2, ms)
  BY <1>1, <1>3 DEF AddHolds
<1>5. UpdateHolds(d, w, ms) => UpdateHolds(d, w2, ms)
  BY <1>2, <1>3 DEF UpdateHolds
<1>6. DeleteHolds(d, w, ms) => DeleteHolds(d, w2, ms)
  BY <1>1, <1>3 DEF DeleteHolds
<1>7. RefillHolds(d, w, ms) => RefillHolds(d, w2, ms)
  BY <1>1, <1>2 DEF RefillHolds
<1>8. JobHolds(d, w, ms) => JobHolds(d, w2, ms)
  BY <1>4, <1>5, <1>6, <1>7 DEF JobHolds
<1> QED
  BY <1>1, <1>2, <1>8

\* Or over one that is gone.
LEMMA WindowGone ==
    ASSUME NEW d, NEW w, NEW ms, NEW w2, w2.ids = {}
    PROVE  /\ JobHolds(d, w, ms) => JobHolds(d, w2, ms)
           /\ WindowHolds(w2, ms) /\ Bounded(w2)
<1>1. WindowHolds(w2, ms) /\ Suffix(w2.ids, MessagesIn(ms, {"live"}))
  BY DEF WindowHolds, Suffix
<1>2. Bounded(w2)
  BY DEF Bounded
<1>3. EndsWell(w2, ms, d.id)
  BY DEF EndsWell, Suffix
<1>4. AddHolds(d, w, ms) => AddHolds(d, w2, ms)
  BY <1>1, <1>3 DEF AddHolds
<1>5. UpdateHolds(d, w, ms) => UpdateHolds(d, w2, ms)
  BY <1>1, <1>2, <1>3 DEF UpdateHolds
<1>6. DeleteHolds(d, w, ms) => DeleteHolds(d, w2, ms)
  BY <1>1, <1>3 DEF DeleteHolds
<1>7. RefillHolds(d, w, ms) => RefillHolds(d, w2, ms)
  BY <1>1, <1>2 DEF RefillHolds
<1>8. JobHolds(d, w, ms) => JobHolds(d, w2, ms)
  BY <1>4, <1>5, <1>6, <1>7 DEF JobHolds
<1> QED
  BY <1>1, <1>2, <1>8

\* A request commits, and its cache work starts.
LEMMA RequestStarts ==
    ASSUME CacheInv, NEW j \in Job, NEW d \in JobRow, d.kind # "none",
           job' = [job EXCEPT ![j] = d], calm' = (calm /\ Working = {}), window' = window,
           message' \in [Id -> MessageRow], Numbered(message'),
           /\ calm /\ MessagesIn(message, {"held"}) = {}
           /\ WindowHolds(window, message) /\ Bounded(window)
           => JobHolds(d, window, message') /\ MessagesIn(message', {"held"}) = {}
    PROVE  CacheInv'
<1>1. /\ message \in [Id -> MessageRow] /\ window \in WindowRow
      /\ job \in [Job -> JobRow] /\ calm \in BOOLEAN
      /\ Cardinality(window.ids) <= CacheSize
      /\ Numbered(message) /\ Settled(job)
  BY CacheTyped
<1>2. /\ job' \in [Job -> JobRow] /\ Settled(job')
      /\ job'[j] = d /\ \A k \in Job : k # j => job'[k] = job[k]
  BY <1>1, JobMoves
<1>3. ASSUME calm' PROVE CalmHolds(job', window', message')
  <2>1. calm /\ Working = {}
    BY <1>3
  <2>2. /\ \A k \in Job : job[k].kind = "none"
        /\ MessagesIn(message, {"held"}) = {}
        /\ WindowHolds(window, message) /\ Bounded(window)
    BY <2>1, CalmIdle
  <2>3. JobHolds(d, window', message') /\ MessagesIn(message', {"held"}) = {}
    BY <2>1, <2>2
  <2> QED
    BY <1>1, <1>2, <2>2, <2>3, OneJob
<1>4. calm' \in BOOLEAN
  BY <1>1
<1> QED
  BY <1>1, <1>2, <1>3, <1>4 DEF CacheInv, MessageCacheTypeOK

\* A request without cache work.
LEMMA NoJobIs == NoJob \in JobRow /\ NoJob.kind = "none" /\ NoJob.pc = "read"
<1>1. /\ Absent \in Absent .. Blank /\ NoMeta \in Meta
  BY MessageCacheAssumption DEF Absent, Blank, NoMeta, Meta
<1>2. 1 \in Id
  BY MessageCacheAssumption DEF Id
<1> QED
  BY <1>1, <1>2 DEF NoJob, JobRow, Nothing

\* The work of a request that starts.
LEMMA NewJobs ==
    ASSUME NEW m \in Id
    PROVE  \A kind \in {"add", "update", "delete", "clear", "rebuild"} :
              LET d == [NoJob EXCEPT !.kind = kind, !.id = m] IN
              d \in JobRow /\ d.kind = kind /\ d.id = m /\ d.pc = "read"
BY NoJobIs DEF JobRow

\* A message that is posted is the newest, and its request will add it.
LEMMA PostKeeps ==
    ASSUME CacheInv, NEW j \in Job, NEW m \in Id, PostMessage(j, m)
    PROVE  CacheInv'
<1> DEFINE row == [message[m] EXCEPT !.state = "live"]
           d == [NoJob EXCEPT !.kind = "add", !.id = m]
<1>1. /\ message \in [Id -> MessageRow] /\ window \in WindowRow /\ Numbered(message)
  BY CacheTyped
<1>2. /\ message[m].state = "none" /\ \A k \in 1 .. m - 1 : message[k].state # "none"
      /\ message' = [message EXCEPT ![m] = row]
      /\ job' = [job EXCEPT ![j] = d] /\ calm' = (calm /\ Working = {}) /\ window' = window
  BY DEF PostMessage, Enqueue
<1>3. row \in MessageRow /\ row.state = "live" /\ row.body = message[m].body
  BY <1>1 DEF MessageRow
<1>4. d \in JobRow /\ d.kind = "add" /\ d.id = m /\ d.pc = "read"
  BY ZenonT(30), NewJobs
<1> HIDE DEF row, d
<1>5. /\ message' \in [Id -> MessageRow] /\ message'[m] = row
      /\ \A k \in Id : k # m => message'[k] = message[k]
  <2>1. message' = [message EXCEPT ![m] = row]
    BY <1>2
  <2> QED
    BY <1>1, <1>3, <2>1, RowChanges
<1>6. Numbered(message')
  BY <1>1, <1>2, <1>3, StaysNumbered
<1>7. ASSUME MessagesIn(message, {"held"}) = {}, WindowHolds(window, message)
      PROVE  JobHolds(d, window, message') /\ MessagesIn(message', {"held"}) = {}
  <2>1. MessagesIn(message', {"held"}) = {}
    BY <1>3, <1>5, <1>7 DEF MessagesIn
  <2>2. EndsWell(window, message', m)
    <3>1. window.ids \subseteq Id
      BY <1>1 DEF WindowRow
    <3> QED
      BY <1>5, <1>7, <3>1, EndsWellBut
  <2>3. m \notin window.ids
    BY <1>2, <1>7 DEF WindowHolds, Suffix, MessagesIn
  <2>4. \A k \in MessagesIn(message', {"live"}) : k <= m
    <3>1. SUFFICES ASSUME NEW k \in MessagesIn(message', {"live"}), k # m PROVE k <= m
      BY DEF MessagesIn, Id
    <3>2. k \in Id /\ message[k].state # "none"
      BY <1>5, <3>1 DEF MessagesIn
    <3>3. m \notin 1 .. k - 1
      BY <1>1, <1>2, <3>2 DEF Numbered
    <3> QED
      BY <3>2, <3>3, MessageCacheAssumption DEF Id
  <2>5. AddHolds(d, window, message')
    BY <1>3, <1>4, <1>5, <2>2, <2>3, <2>4 DEF AddHolds
  <2> QED
    BY <1>4, <2>1, <2>5 DEF JobHolds
<1> QED
  BY <1>2, <1>4, <1>5, <1>6, <1>7, RequestStarts

\* A scheduled message may come into the conversation in the middle of it.
LEMMA ScheduleKeeps ==
    ASSUME CacheInv, NEW m \in Id, ScheduleMessage(m)
    PROVE  CacheInv'
<1> DEFINE row == [message[m] EXCEPT !.state = "held"]
<1>1. /\ message \in [Id -> MessageRow] /\ Numbered(message)
  BY CacheTyped
<1>2. /\ \A k \in 1 .. m - 1 : message[k].state # "none"
      /\ message' = [message EXCEPT ![m] = row]
      /\ calm' = FALSE /\ window' = window /\ job' = job
  BY DEF ScheduleMessage
<1>3. row \in MessageRow /\ row.state = "held"
  BY <1>1 DEF MessageRow
<1> HIDE DEF row
<1>4. message' \in [Id -> MessageRow]
  BY <1>1, <1>2, <1>3, RowChanges
<1>5. Numbered(message')
  BY <1>1, <1>2, <1>3, StaysNumbered
<1> QED
  BY <1>2, <1>4, <1>5 DEF CacheInv, MessageCacheTypeOK

\* What is private until it is due is no part of a calm conversation.
LEMMA DeliverKeeps ==
    ASSUME CacheInv, NEW j \in Job, NEW m \in Id, DeliverMessage(j, m)
    PROVE  CacheInv'
<1> DEFINE row == [message[m] EXCEPT !.state = "live"]
           d == [NoJob EXCEPT !.kind = "add", !.id = m]
<1>1. /\ message \in [Id -> MessageRow] /\ Numbered(message)
  BY CacheTyped
<1>2. /\ message[m].state = "held" /\ message' = [message EXCEPT ![m] = row]
      /\ job' = [job EXCEPT ![j] = d] /\ calm' = (calm /\ Working = {}) /\ window' = window
  BY DEF DeliverMessage, Enqueue
<1>3. row \in MessageRow /\ row.state = "live"
  BY <1>1 DEF MessageRow
<1>4. d \in JobRow /\ d.kind = "add"
  BY ZenonT(30), NewJobs
<1> HIDE DEF row, d
<1>5. message' \in [Id -> MessageRow]
  BY <1>1, <1>2, <1>3, RowChanges
<1>6. Numbered(message')
  BY <1>1, <1>2, <1>3, StaysNumbered DEF Numbered
<1>7. m \in MessagesIn(message, {"held"})
  BY <1>2 DEF MessagesIn
<1> QED
  BY <1>2, <1>4, <1>5, <1>6, <1>7, RequestStarts

\* It may also be taken back.
LEMMA CancelKeeps ==
    ASSUME CacheInv, NEW m \in Id, CancelMessage(m)
    PROVE  CacheInv'
<1> DEFINE row == [state |-> "deleted", body |-> Blank]
<1>1. /\ message \in [Id -> MessageRow] /\ Numbered(message)
  BY CacheTyped
<1>2. /\ message[m].state = "held" /\ message' = [message EXCEPT ![m] = row]
      /\ calm' = calm /\ window' = window /\ job' = job
  BY DEF CancelMessage
<1>3. row \in MessageRow /\ row.state = "deleted"
  BY MessageCacheAssumption DEF MessageRow, Blank
<1> HIDE DEF row
<1>4. message' \in [Id -> MessageRow]
  BY <1>1, <1>2, <1>3, RowChanges
<1>5. Numbered(message')
  BY <1>1, <1>2, <1>3, StaysNumbered DEF Numbered
<1>6. m \in MessagesIn(message, {"held"})
  BY <1>2 DEF MessagesIn
<1>7. ~calm
  BY <1>6 DEF CacheInv, CalmHolds
<1> QED
  BY <1>2, <1>4, <1>5, <1>7 DEF CacheInv, MessageCacheTypeOK

\* A changed message stays where it is, and its request will bring its payload up to date.
LEMMA EditKeeps ==
    ASSUME CacheInv, NEW j \in Job, NEW m \in Id, EditMessage(j, m)
    PROVE  CacheInv'
<1> DEFINE row == [message[m] EXCEPT !.body = @ + 1]
           d == [NoJob EXCEPT !.kind = "update", !.id = m]
<1>1. /\ message \in [Id -> MessageRow] /\ window \in WindowRow /\ Numbered(message)
  BY CacheTyped
<1>2. /\ message[m].state = "live" /\ message[m].body < MaxEdits
      /\ message' = [message EXCEPT ![m] = row]
      /\ job' = [job EXCEPT ![j] = d] /\ calm' = (calm /\ Working = {}) /\ window' = window
  BY DEF EditMessage, Enqueue
<1>3. row \in MessageRow /\ row.state = "live"
  BY <1>1, <1>2, MessageCacheAssumption DEF MessageRow, Blank
<1>4. d \in JobRow /\ d.kind = "update" /\ d.id = m /\ d.pc = "read"
  BY ZenonT(30), NewJobs
<1> HIDE DEF row, d
<1>5. /\ message' \in [Id -> MessageRow] /\ message'[m] = row
      /\ \A k \in Id : k # m => message'[k] = message[k]
  <2>1. message' = [message EXCEPT ![m] = row]
    BY <1>2
  <2> QED
    BY <1>1, <1>3, <2>1, RowChanges
<1>6. Numbered(message')
  BY <1>1, <1>2, <1>3, StaysNumbered DEF Numbered
<1>7. ASSUME MessagesIn(message, {"held"}) = {}, WindowHolds(window, message), Bounded(window)
      PROVE  JobHolds(d, window, message') /\ MessagesIn(message', {"held"}) = {}
  <2>1. MessagesIn(message', {"held"}) = {}
    BY <1>3, <1>5, <1>7 DEF MessagesIn
  <2>2. EndsWell(window, message', m)
    <3>1. window.ids \subseteq Id
      BY <1>1 DEF WindowRow
    <3> QED
      BY <1>5, <1>7, <3>1, EndsWellBut
  <2>3. MessagesIn(message', {"live"}) = MessagesIn(message, {"live"})
    BY <1>2, <1>3, <1>5 DEF MessagesIn
  <2>4. Suffix(window.ids, MessagesIn(message', {"live"}))
    BY <1>7, <2>3 DEF WindowHolds
  <2>5. UpdateHolds(d, window, message')
    BY <1>3, <1>4, <1>5, <1>7, <2>2, <2>4 DEF UpdateHolds
  <2> QED
    BY <1>4, <2>1, <2>5 DEF JobHolds
<1> QED
  BY <1>2, <1>4, <1>5, <1>6, <1>7, RequestStarts

\* A deleted message is no end of the conversation, and its request will take it out.
LEMMA DeleteKeeps ==
    ASSUME CacheInv, NEW j \in Job, NEW m \in Id, DeleteMessage(j, m)
    PROVE  CacheInv'
<1> DEFINE row == [state |-> "deleted", body |-> Blank]
           d == [NoJob EXCEPT !.kind = "delete", !.id = m]
<1>1. /\ message \in [Id -> MessageRow] /\ window \in WindowRow /\ Numbered(message)
  BY CacheTyped
<1>2. /\ message[m].state # "none" /\ message' = [message EXCEPT ![m] = row]
      /\ job' = [job EXCEPT ![j] = d] /\ calm' = (calm /\ Working = {}) /\ window' = window
  BY DEF DeleteMessage, Enqueue
<1>3. row \in MessageRow /\ row.state = "deleted"
  BY MessageCacheAssumption DEF MessageRow, Blank
<1>4. d \in JobRow /\ d.kind = "delete" /\ d.id = m /\ d.pc = "read"
  BY NewJobs
<1> HIDE DEF row, d
<1>5. /\ message' \in [Id -> MessageRow] /\ message'[m] = row
      /\ \A k \in Id : k # m => message'[k] = message[k]
  <2>1. message' = [message EXCEPT ![m] = row]
    BY <1>2
  <2> QED
    BY <1>1, <1>3, <2>1, RowChanges
<1>6. Numbered(message')
  BY <1>1, <1>2, <1>3, StaysNumbered DEF Numbered
<1>7. ASSUME MessagesIn(message, {"held"}) = {}, WindowHolds(window, message)
      PROVE  JobHolds(d, window, message') /\ MessagesIn(message', {"held"}) = {}
  <2>1. MessagesIn(message', {"held"}) = {}
    BY <1>3, <1>5, <1>7 DEF MessagesIn
  <2>2. EndsWell(window, message', m)
    <3>1. window.ids \subseteq Id
      BY <1>1 DEF WindowRow
    <3> QED
      BY <1>5, <1>7, <3>1, EndsWellBut
  <2>3. DeleteHolds(d, window, message')
    BY <1>3, <1>4, <1>5, <2>2 DEF DeleteHolds
  <2> QED
    BY <1>4, <2>1, <2>3 DEF JobHolds
<1> QED
  BY <1>2, <1>4, <1>5, <1>6, <1>7, RequestStarts

\* A cleared conversation has nothing live, and its request will empty the window.
LEMMA ClearKeeps ==
    ASSUME CacheInv, NEW j \in Job, ClearHistory(j)
    PROVE  CacheInv'
<1> DEFINE gone == [state |-> "gone", body |-> Blank]
           d == [NoJob EXCEPT !.kind = "clear", !.id = 1]
<1>1. message \in [Id -> MessageRow] /\ Numbered(message) /\ 1 \in Id
  BY CacheTyped, MessageCacheAssumption DEF Id
<1>2. /\ message' = [m \in Id |-> IF message[m].state = "none" THEN message[m] ELSE gone]
      /\ job' = [job EXCEPT ![j] = d] /\ calm' = (calm /\ Working = {}) /\ window' = window
  BY DEF ClearHistory, Enqueue
<1>3. gone \in MessageRow /\ gone.state = "gone"
  BY MessageCacheAssumption DEF MessageRow, Blank
<1>4. d \in JobRow /\ d.kind = "clear" /\ d.id = 1 /\ d.pc = "read"
  BY <1>1, NewJobs
<1> HIDE DEF gone, d
<1>5. /\ message' \in [Id -> MessageRow]
      /\ \A m \in Id : IF message[m].state = "none" THEN message'[m].state = "none"
                       ELSE message'[m].state = "gone"
  BY <1>1, <1>2, <1>3
<1>6. Numbered(message')
  <2>1. \A m \in Id : 1 .. m - 1 \subseteq Id
    BY MessageCacheAssumption DEF Id
  <2> QED
    BY <1>1, <1>5, <2>1 DEF Numbered
<1>7. MessagesIn(message', {"held"}) = {} /\ MessagesIn(message', {"live"}) = {}
  BY <1>5 DEF MessagesIn
<1>8. JobHolds(d, window, message')
  BY <1>4, <1>7 DEF JobHolds
<1> QED
  BY <1>2, <1>4, <1>5, <1>6, <1>7, <1>8, RequestStarts

\* A request that misses reads the newest rows, to seed the window with them.
LEMMA ReadLatestKeeps ==
    ASSUME CacheInv, NEW j \in Job, NEW sender \in BOOLEAN, ReadLatest(j, sender)
    PROVE  CacheInv'
<1> DEFINE seen == Live \cup IF sender THEN InState({"held"}) ELSE {}
           page == Newest(PageSize, seen)
           d == [NoJob EXCEPT !.kind = "seed", !.pc = "write", !.rows = Bodies(page)]
<1>1. message \in [Id -> MessageRow] /\ Numbered(message)
  BY CacheTyped
<1>2. /\ job' = [job EXCEPT ![j] = d] /\ calm' = (calm /\ Working = {})
      /\ window' = window /\ message' = message
  BY DEF ReadLatest
<1>3. page \subseteq Id
  BY DEF Newest, Live, InState
<1>4. Bodies(page) \in [Id -> Absent .. Blank]
  <2> HIDE DEF page
  <2> QED
    BY <1>1, <1>3, BodiesAre
<1>5. d \in JobRow /\ d.kind = "seed" /\ d.pc = "write" /\ d.rows = Bodies(page)
  <2>1. NoJob \in JobRow
    BY NoJobIs
  <2> HIDE DEF page
  <2> QED
    BY <1>4, <2>1 DEF JobRow
<1>6. ASSUME MessagesIn(message, {"held"}) = {}, WindowHolds(window, message), Bounded(window)
      PROVE  JobHolds(d, window, message')
  <2>1. page = Newest(PageSize, Live)
    <3>1. seen = Live
      BY <1>6 DEF InState, MessagesIn
    <3> QED
      BY <3>1
  <2>2. Fresh(Bodies(page), message)
    BY <1>1, <2>1, NewestFresh, MessageCacheAssumption
  <2> HIDE DEF d, page
  <2>3. RefillHolds(d, window, message')
    BY <1>2, <1>5, <1>6, <2>2 DEF RefillHolds
  <2> QED
    BY <1>5, <2>3 DEF JobHolds
<1> HIDE DEF d
<1> QED
  BY <1>1, <1>2, <1>5, <1>6, RequestStarts

\* A request that misses an empty window will have it rebuilt.
LEMMA ReadOlderKeeps ==
    ASSUME CacheInv, NEW j \in Job, ReadOlder(j)
    PROVE  CacheInv'
<1> DEFINE d == [NoJob EXCEPT !.kind = "rebuild"]
<1>1. message \in [Id -> MessageRow] /\ Numbered(message)
  BY CacheTyped
<1>2. /\ job' = [job EXCEPT ![j] = d] /\ calm' = (calm /\ Working = {})
      /\ window' = window /\ message' = message
  BY DEF ReadOlder
<1>3. d \in JobRow /\ d.kind = "rebuild" /\ d.pc = "read"
  <2>1. NoJob \in JobRow /\ NoJob.pc = "read"
    BY NoJobIs
  <2> QED
    BY <2>1 DEF JobRow
<1> HIDE DEF d
<1>4. ASSUME WindowHolds(window, message), Bounded(window)
      PROVE  JobHolds(d, window, message')
  BY <1>2, <1>3, <1>4 DEF JobHolds, RefillHolds
<1> QED
  BY <1>1, <1>2, <1>3, <1>4, RequestStarts

-----------------------------------------------------------------------------

\* A request's work goes on, or ends.
LEMMA WorkGoesOn ==
    ASSUME CacheInv, NEW j \in Job, job[j].kind # "none", NEW d \in JobRow,
           d.kind = "none" => d.pc = "read", job' = [job EXCEPT ![j] = d], message' = message,
           window' \in WindowRow, Cardinality(window'.ids) <= CacheSize, calm' = calm,
           JobHolds(job[j], window, message)
           => /\ JobHolds(d, window', message)
              /\ (d.kind = "none" => WindowHolds(window', message) /\ Bounded(window'))
    PROVE  CacheInv'
<1>1. /\ message \in [Id -> MessageRow] /\ job \in [Job -> JobRow] /\ calm \in BOOLEAN
      /\ Numbered(message) /\ Settled(job)
  BY CacheTyped
<1>2. /\ job' \in [Job -> JobRow] /\ Settled(job')
      /\ job'[j] = d /\ \A k \in Job : k # j => job'[k] = job[k]
  BY <1>1, JobMoves
<1>3. ASSUME calm PROVE CalmHolds(job', window', message')
  <2>1. /\ \A k \in Job : k # j => job[k].kind = "none"
        /\ MessagesIn(message, {"held"}) = {}
        /\ JobHolds(job[j], window, message)
    BY <1>3, CalmBusy
  <2> QED
    BY <1>1, <1>2, <2>1, OneJob
<1> QED
  BY <1>1, <1>2, <1>3 DEF CacheInv, MessageCacheTypeOK

\* An add or an update reads its row as it is, for nobody changes it meanwhile.
LEMMA FetchKeeps ==
    ASSUME CacheInv, NEW j \in Job, FetchMessage(j)
    PROVE  CacheInv'
<1> DEFINE c == job[j]
           d == [c EXCEPT !.pc = "write", !.rows = Fetched(j)]
<1>1. /\ message \in [Id -> MessageRow] /\ window \in WindowRow /\ c \in JobRow
      /\ Cardinality(window.ids) <= CacheSize
  BY CacheTyped
<1>2. /\ c.kind \in {"add", "update"} /\ c.pc = "read"
      /\ window' = window /\ message' = message /\ calm' = calm
  BY DEF FetchMessage
<1>3. \/ /\ Fetched(j) = Nothing \/ (c.kind = "update" /\ c.id \notin window.ids)
         /\ job' = [job EXCEPT ![j] = NoJob]
      \/ job' = [job EXCEPT ![j] = d]
  BY DEF FetchMessage, Done
<1>4. /\ Fetched(j) \in [Id -> Absent .. Blank]
      /\ (message[c.id].state = "live" => Fetched(j)[c.id] = message[c.id].body)
  <2> DEFINE S == {c.id} \ InState({"gone"})
  <2>1. c.id \in Id
    BY <1>1 DEF JobRow
  <2>2. S \subseteq Id
    BY <2>1
  <2>3. message[c.id].state = "live" => c.id \in S
    BY DEF InState
  <2>4. Fetched(j) = Bodies(S)
    BY DEF Fetched
  <2> HIDE DEF S, c
  <2> QED
    BY <1>1, <2>2, <2>3, <2>4, BodiesAre
<1>5. /\ d \in JobRow /\ d.kind = c.kind /\ d.id = c.id /\ d.pc = "write" /\ d.rows = Fetched(j)
  BY <1>1, <1>4 DEF JobRow
<1>6. NoJob \in JobRow /\ NoJob.kind = "none" /\ NoJob.pc = "read"
  BY NoJobIs
<1> HIDE DEF d
<1>7. c.kind # "none"
  BY <1>2
<1>8. CASE job' = [job EXCEPT ![j] = d]
  <2>1. ASSUME JobHolds(c, window, message) PROVE JobHolds(d, window, message)
    <3>1. CASE c.kind = "add"
      <4>1. AddHolds(c, window, message)
        BY <2>1, <3>1 DEF JobHolds
      <4>2. AddHolds(d, window, message)
        BY <1>2, <1>4, <1>5, <4>1 DEF AddHolds
      <4> QED
        BY <1>5, <3>1, <4>2 DEF JobHolds
    <3>2. CASE c.kind = "update"
      <4>1. UpdateHolds(c, window, message)
        BY <2>1, <3>2 DEF JobHolds
      <4>2. UpdateHolds(d, window, message)
        BY <1>2, <1>4, <1>5, <4>1 DEF UpdateHolds
      <4> QED
        BY <1>5, <3>2, <4>2 DEF JobHolds
    <3> QED
      BY <1>2, <3>1, <3>2
  <2> QED
    BY <1>1, <1>2, <1>5, <1>7, <1>8, <2>1, WorkGoesOn
<1>9. CASE /\ Fetched(j) = Nothing \/ (c.kind = "update" /\ c.id \notin window.ids)
           /\ job' = [job EXCEPT ![j] = NoJob]
  <2>1. ASSUME JobHolds(c, window, message)
        PROVE  WindowHolds(window, message) /\ Bounded(window)
    <3>1. c.id \in Id /\ message[c.id].state = "live"
      BY <1>1, <1>2, <2>1 DEF JobHolds, AddHolds, UpdateHolds, JobRow
    <3>2. Fetched(j) # Nothing
      <4>1. message[c.id].body # Absent
        BY <1>1, <3>1 DEF MessageRow, Absent
      <4> QED
        BY <1>4, <3>1, <4>1 DEF Nothing
    <3>3. c.id \notin window.ids /\ UpdateHolds(c, window, message)
      BY <1>9, <2>1, <3>2 DEF JobHolds
    <3>4. /\ Suffix(window.ids, MessagesIn(message, {"live"})) /\ Bounded(window)
          /\ \A k \in window.ids \ {c.id} : window.payload[k] \in {Absent, message[k].body}
      BY <3>3 DEF UpdateHolds, EndsWell
    <3> QED
      BY <3>3, <3>4 DEF WindowHolds
  <2>2. JobHolds(NoJob, window, message)
    BY <1>6, NoneHolds
  <2> QED
    BY <1>1, <1>2, <1>6, <1>7, <1>9, <2>1, <2>2, WorkGoesOn
<1> QED
  BY <1>3, <1>8, <1>9

\* The newest message joins the end of the conversation, and the window stays an end of it.
LEMMA AddKeeps ==
    ASSUME CacheInv, NEW j \in Job, AddMessage(j)
    PROVE  CacheInv'
<1> DEFINE c == job[j]
           m == c.id
           joined == window.ids \cup {m}
           ids == Newest(CacheSize, joined)
           payload == [k \in Id |-> CASE k = m -> c.rows[m]
                                      [] k \in window.ids \ ids -> Absent
                                      [] OTHER -> window.payload[k]]
           w == [window EXCEPT !.ids = ids, !.payload = payload]
           d == [c EXCEPT !.pc = "bounds"]
<1>1. /\ message \in [Id -> MessageRow] /\ window \in WindowRow /\ c \in JobRow
      /\ job \in [Job -> JobRow]
  BY CacheTyped
<1>2. /\ c.kind = "add" /\ c.pc = "write" /\ window' = w
      /\ job' = [job EXCEPT ![j] = d] /\ message' = message /\ calm' = calm
  BY <1>1 DEF AddMessage, Goto, Trimmed
<1>3. /\ d \in JobRow /\ d.kind = "add" /\ d.id = m /\ d.pc = "bounds"
  BY <1>1, <1>2 DEF JobRow
<1>4. m \in Id /\ c.rows \in [Id -> Absent .. Blank] /\ joined \subseteq Id /\ CacheSize \in Nat
  BY <1>1, MessageCacheAssumption DEF JobRow, WindowRow
<1>5. ids \subseteq joined
  BY DEF Newest
<1>6. Suffix(ids, joined) /\ Cardinality(ids) <= CacheSize
  <2> HIDE DEF joined
  <2> QED
    BY <1>4, NewestEnds, NewestFew
<1>7. payload \in [Id -> Absent .. Blank]
  <2>1. Absent \in Absent .. Blank
    BY MessageCacheAssumption DEF Absent, Blank
  <2>2. window.payload \in [Id -> Absent .. Blank]
    BY <1>1 DEF WindowRow
  <2> HIDE DEF ids, c
  <2> QED
    BY <1>4, <2>1, <2>2
<1>8. /\ \A k \in ids : payload[k] = IF k = m THEN c.rows[m] ELSE window.payload[k]
  <2>1. ids \subseteq Id
    BY <1>4, <1>5
  <2> HIDE DEF ids, c
  <2> QED
    BY <2>1
<1> HIDE DEF payload, ids
<1>9. /\ w \in WindowRow /\ w.ids = ids /\ w.payload = payload
  <2>1. ids \subseteq Id
    BY <1>4, <1>5
  <2> HIDE DEF joined, c
  <2> QED
    BY <1>1, <1>7, <2>1 DEF WindowRow
<1> HIDE DEF w, d, m
<1>10. ASSUME JobHolds(c, window, message) PROVE JobHolds(d, w, message)
  <2>1. /\ message[m].state = "live" /\ EndsWell(window, message, m) /\ m \notin window.ids
        /\ \A k \in MessagesIn(message, {"live"}) : k <= m
        /\ c.rows[m] = message[m].body
    BY <1>2, <1>10 DEF JobHolds, AddHolds, m
  <2>2. Suffix(joined, MessagesIn(message, {"live"}))
    <3>1. Suffix(window.ids, MessagesIn(message, {"live"}) \ {m})
      BY <2>1 DEF EndsWell
    <3>2. m \in MessagesIn(message, {"live"})
      BY <1>4, <2>1 DEF MessagesIn
    <3>3. joined \subseteq MessagesIn(message, {"live"})
      BY <3>1, <3>2 DEF Suffix
    <3>4. ASSUME NEW x \in joined, NEW k \in MessagesIn(message, {"live"}), k > x PROVE k \in joined
      <4>1. CASE k = m
        BY <4>1
      <4>2. CASE k # m
        <5>1. x # m
          <6>1. k \in Nat /\ m \in Nat /\ k <= m
            BY <1>4, <2>1, <3>4 DEF MessagesIn, Id
          <6> QED
            BY <3>4, <6>1
        <5>2. x \in window.ids
          BY <5>1
        <5> QED
          BY <3>1, <3>4, <4>2, <5>2 DEF Suffix
      <4> QED
        BY <4>1, <4>2
    <3> QED
      BY <3>3, <3>4 DEF Suffix
  <2>3. Suffix(w.ids, MessagesIn(message, {"live"}))
    <3> HIDE DEF joined
    <3> QED
      BY <1>6, <1>9, <2>2, EndOfEnd
  <2>4. \A k \in w.ids : w.payload[k] \in {Absent, message[k].body}
    <3>1. \A k \in window.ids : window.payload[k] \in {Absent, message[k].body}
      BY <2>1 DEF EndsWell
    <3> QED
      BY <1>5, <1>8, <1>9, <2>1, <3>1
  <2>5. AddHolds(d, w, message)
    BY <1>3, <2>1, <2>3, <2>4 DEF AddHolds, WindowHolds
  <2> QED
    BY <1>3, <2>5 DEF JobHolds
<1>11. /\ window' \in WindowRow /\ Cardinality(window'.ids) <= CacheSize
  BY <1>2, <1>6, <1>9
<1> QED
  BY <1>2, <1>3, <1>10, <1>11, WorkGoesOn

\* The payload that was behind is as its row again.
LEMMA UpdateKeeps ==
    ASSUME CacheInv, NEW j \in Job, UpdateMessage(j)
    PROVE  CacheInv'
<1> DEFINE c == job[j]
           m == c.id
           payload == [window.payload EXCEPT ![m] = c.rows[m]]
           w == [window EXCEPT !.payload = payload]
<1>1. /\ message \in [Id -> MessageRow] /\ window \in WindowRow /\ c \in JobRow
      /\ Cardinality(window.ids) <= CacheSize
  BY CacheTyped
<1>2. /\ c.kind = "update" /\ c.pc = "write" /\ window' = w
      /\ job' = [job EXCEPT ![j] = NoJob] /\ message' = message /\ calm' = calm
  BY <1>1 DEF UpdateMessage, Done
<1>3. /\ m \in Id /\ c.rows \in [Id -> Absent .. Blank]
      /\ window.payload \in [Id -> Absent .. Blank] /\ window.ids \subseteq Id
  BY <1>1 DEF JobRow, WindowRow
<1>4. /\ payload \in [Id -> Absent .. Blank] /\ payload[m] = c.rows[m]
      /\ \A k \in Id : k # m => payload[k] = window.payload[k]
  BY <1>3
<1> HIDE DEF payload
<1>5. w \in WindowRow /\ w.ids = window.ids /\ w.meta = window.meta /\ w.payload = payload
  BY <1>1, <1>4 DEF WindowRow
<1> HIDE DEF w
<1>6. NoJob \in JobRow /\ NoJob.kind = "none" /\ NoJob.pc = "read"
  BY NoJobIs
<1>7. ASSUME JobHolds(c, window, message)
      PROVE  WindowHolds(w, message) /\ Bounded(w)
  <2>1. /\ Suffix(window.ids, MessagesIn(message, {"live"})) /\ Bounded(window)
        /\ \A k \in window.ids \ {m} : window.payload[k] \in {Absent, message[k].body}
        /\ c.rows[m] = message[m].body
    BY <1>2, <1>7 DEF JobHolds, UpdateHolds, EndsWell
  <2>2. \A k \in w.ids : w.payload[k] \in {Absent, message[k].body}
    BY <1>3, <1>4, <1>5, <2>1
  <2> QED
    BY <1>5, <2>1, <2>2 DEF WindowHolds, Bounded
<1>8. JobHolds(NoJob, w, message)
  BY <1>6, NoneHolds
<1> QED
  BY <1>1, <1>2, <1>5, <1>6, <1>7, <1>8, WorkGoesOn

\* The message that was deleted is in the window no more.
LEMMA RemoveKeeps ==
    ASSUME CacheInv, NEW j \in Job, RemoveMessage(j)
    PROVE  CacheInv'
<1> DEFINE c == job[j]
           m == c.id
           payload == [window.payload EXCEPT ![m] = Absent]
           w == [window EXCEPT !.ids = window.ids \ {m}, !.payload = payload]
           d == [c EXCEPT !.pc = "bounds"]
<1>1. /\ message \in [Id -> MessageRow] /\ window \in WindowRow /\ c \in JobRow
      /\ job \in [Job -> JobRow] /\ Cardinality(window.ids) <= CacheSize
  BY CacheTyped
<1>2. /\ c.kind = "delete" /\ c.pc = "read" /\ window' = w
      /\ job' = [job EXCEPT ![j] = d] /\ message' = message /\ calm' = calm
  BY <1>1 DEF RemoveMessage, Goto
<1>3. /\ m \in Id /\ window.payload \in [Id -> Absent .. Blank] /\ window.ids \subseteq Id
      /\ Absent \in Absent .. Blank
  BY <1>1, MessageCacheAssumption DEF JobRow, WindowRow, Absent, Blank
<1>4. /\ payload \in [Id -> Absent .. Blank]
      /\ \A k \in Id : k # m => payload[k] = window.payload[k]
  BY <1>3
<1> HIDE DEF payload
<1>5. /\ w \in WindowRow /\ w.ids = window.ids \ {m} /\ w.payload = payload
  BY <1>1, <1>3, <1>4 DEF WindowRow
<1>6. /\ d \in JobRow /\ d.kind = "delete" /\ d.id = m /\ d.pc = "bounds"
  BY <1>1, <1>2 DEF JobRow
<1>7. Cardinality(w.ids) <= CacheSize
  <2>1. /\ Cardinality(window.ids) \in Nat /\ Cardinality(window.ids \ {m}) \in Nat
        /\ Cardinality(window.ids \ {m}) <= Cardinality(window.ids)
    <3>1. window.ids \ {m} \subseteq window.ids
      OBVIOUS
    <3> HIDE DEF m
    <3> QED
      BY <1>3, <3>1, IdsCount
  <2> QED
    BY <1>1, <1>5, <2>1, MessageCacheAssumption
<1> HIDE DEF w, d
<1>8. ASSUME JobHolds(c, window, message) PROVE JobHolds(d, w, message)
  <2>1. /\ message[m].state = "deleted"
        /\ Suffix(window.ids \ {m}, MessagesIn(message, {"live"}) \ {m})
        /\ \A k \in window.ids \ {m} : window.payload[k] \in {Absent, message[k].body}
    BY <1>2, <1>8 DEF JobHolds, DeleteHolds, EndsWell
  <2>2. MessagesIn(message, {"live"}) \ {m} = MessagesIn(message, {"live"})
    BY <2>1 DEF MessagesIn
  <2>3. \A k \in w.ids : w.payload[k] \in {Absent, message[k].body}
    BY <1>3, <1>4, <1>5, <2>1
  <2>4. WindowHolds(w, message)
    BY <1>5, <2>1, <2>2, <2>3 DEF WindowHolds
  <2>5. DeleteHolds(d, w, message)
    BY <1>6, <2>1, <2>4 DEF DeleteHolds
  <2> QED
    BY <1>6, <2>5 DEF JobHolds
<1> QED
  BY <1>2, <1>5, <1>6, <1>7, <1>8, WorkGoesOn

\* Only an add and a delete come to the bounds.
LEMMA AtBounds ==
    ASSUME NEW d, d.kind # "none", d.pc \in {"bounds", "meta"}, d \in JobRow,
           NEW w, NEW ms, JobHolds(d, w, ms)
    PROVE  /\ d.kind \in {"add", "delete"} /\ WindowHolds(w, ms)
           /\ (d.kind = "add" => ms[d.id].state = "live")
           /\ (d.kind = "delete" => ms[d.id].state = "deleted")
           /\ (d.pc = "meta" /\ w.ids # {} => d.meta = Bounds(w.ids))
BY DEF JobHolds, JobRow, AddHolds, UpdateHolds, DeleteHolds, RefillHolds

\* The bounds that are read are those of the window.
LEMMA ReadBoundsKeeps ==
    ASSUME CacheInv, NEW j \in Job, ReadBounds(j)
    PROVE  CacheInv'
<1> DEFINE c == job[j]
           d == [c EXCEPT !.pc = "meta", !.meta = Bounds(window.ids)]
<1>1. /\ message \in [Id -> MessageRow] /\ window \in WindowRow /\ c \in JobRow
      /\ Cardinality(window.ids) <= CacheSize /\ Settled(job)
  BY CacheTyped
<1>2. /\ c.pc = "bounds" /\ window' = window /\ message' = message /\ calm' = calm
      /\ job' = [job EXCEPT ![j] = d]
  BY DEF ReadBounds
<1>3. c.kind # "none"
  BY <1>1, <1>2 DEF Settled
<1>4. Bounds(window.ids) \in Meta
  <2>1. window.ids \subseteq Id
    BY <1>1 DEF WindowRow
  <2> QED
    BY <2>1, BoundsAre
<1>5. /\ d \in JobRow /\ d.kind = c.kind /\ d.id = c.id /\ d.pc = "meta"
      /\ d.meta = Bounds(window.ids)
  BY <1>1, <1>4 DEF JobRow
<1> HIDE DEF d
<1>6. ASSUME JobHolds(c, window, message) PROVE JobHolds(d, window, message)
  <2>1. /\ c.kind \in {"add", "delete"} /\ WindowHolds(window, message)
        /\ (c.kind = "add" => message[c.id].state = "live")
        /\ (c.kind = "delete" => message[c.id].state = "deleted")
    BY <1>1, <1>2, <1>3, <1>6, AtBounds
  <2>2. c.kind = "add" => AddHolds(d, window, message)
    BY <1>5, <2>1 DEF AddHolds
  <2>3. c.kind = "delete" => DeleteHolds(d, window, message)
    BY <1>5, <2>1 DEF DeleteHolds
  <2> QED
    BY <1>5, <2>1, <2>2, <2>3 DEF JobHolds
<1> QED
  BY <1>1, <1>2, <1>3, <1>5, <1>6, WorkGoesOn

\* They still are when they are written, unless the window is empty.
LEMMA WriteBoundsKeeps ==
    ASSUME CacheInv, NEW j \in Job, WriteBounds(j)
    PROVE  CacheInv'
<1> DEFINE c == job[j]
           w == [window EXCEPT !.meta = c.meta]
<1>1. /\ message \in [Id -> MessageRow] /\ window \in WindowRow /\ c \in JobRow
      /\ Cardinality(window.ids) <= CacheSize /\ Settled(job)
  BY CacheTyped
<1>2. /\ c.pc = "meta" /\ window' = w /\ message' = message /\ calm' = calm
      /\ job' = [job EXCEPT ![j] = NoJob]
  BY DEF WriteBounds, Done
<1>3. c.kind # "none"
  BY <1>1, <1>2 DEF Settled
<1>4. w \in WindowRow /\ w.ids = window.ids /\ w.payload = window.payload /\ w.meta = c.meta
  BY <1>1 DEF WindowRow, JobRow
<1> HIDE DEF w
<1>5. NoJob \in JobRow /\ NoJob.kind = "none" /\ NoJob.pc = "read"
  BY NoJobIs
<1>6. ASSUME JobHolds(c, window, message)
      PROVE  WindowHolds(w, message) /\ Bounded(w)
  <2>1. /\ WindowHolds(window, message)
        /\ (window.ids # {} => c.meta = Bounds(window.ids))
    BY <1>1, <1>2, <1>3, <1>6, AtBounds
  <2> QED
    BY <1>4, <2>1 DEF WindowHolds, Bounded
<1>7. JobHolds(NoJob, w, message)
  BY <1>5, NoneHolds
<1> QED
  BY <1>1, <1>2, <1>3, <1>4, <1>5, <1>6, <1>7, WorkGoesOn

\* To empty the window is right whatever it was, once no other work is under way.
LEMMA ClearWindowKeeps ==
    ASSUME CacheInv, NEW j \in Job, ClearWindow(j)
    PROVE  CacheInv'
<1> DEFINE payload == [m \in Id |-> IF m \in window.ids THEN Absent ELSE window.payload[m]]
           w == [EmptyWindow EXCEPT !.payload = payload]
<1>1. /\ message \in [Id -> MessageRow] /\ window \in WindowRow /\ calm \in BOOLEAN
      /\ job \in [Job -> JobRow] /\ Numbered(message) /\ Settled(job)
  BY CacheTyped
<1>2. /\ job[j].kind = "clear" /\ window' = w /\ message' = message
      /\ calm' = (calm \/ LoneWork({j})) /\ job' = [job EXCEPT ![j] = NoJob]
  BY DEF ClearWindow, Done
<1>3. payload \in [Id -> Absent .. Blank]
  BY <1>1, MessageCacheAssumption DEF WindowRow, Absent, Blank
<1> HIDE DEF payload
<1>4. w \in WindowRow /\ w.ids = {}
  BY <1>3, MessageCacheAssumption DEF EmptyWindow, WindowRow, NoMeta, Meta
<1> HIDE DEF w
<1>5. Cardinality(w.ids) <= CacheSize
  BY <1>4, FS_EmptySet, MessageCacheAssumption
<1>6. NoJob \in JobRow /\ NoJob.kind = "none" /\ NoJob.pc = "read"
  BY NoJobIs
<1>7. /\ job' \in [Job -> JobRow] /\ Settled(job')
      /\ job'[j] = NoJob /\ \A k \in Job : k # j => job'[k] = job[k]
  <2>1. job' = [job EXCEPT ![j] = NoJob]
    BY <1>2
  <2> QED
    BY <1>1, <1>6, <2>1, JobMoves
<1>8. ASSUME calm' PROVE CalmHolds(job', window', message')
  <2>1. (\A k \in Job : k # j => job[k].kind = "none") /\ MessagesIn(message, {"held"}) = {}
    <3>1. CASE calm
      BY <1>2, <3>1, CalmBusy
    <3>2. CASE LoneWork({j})
      BY <3>2 DEF LoneWork, Working, InState, MessagesIn
    <3> QED
      BY <1>2, <1>8, <3>1, <3>2
  <2>2. JobHolds(NoJob, w, message)
    BY <1>6, NoneHolds
  <2>3. WindowHolds(w, message) /\ Bounded(w)
    BY <1>4, WindowGone
  <2>4. window' = w /\ message' = message
    BY <1>2
  <2> QED
    BY <1>1, <1>7, <2>1, <2>2, <2>3, <2>4, OneJob
<1>9. calm' \in BOOLEAN
  BY <1>1, <1>2 DEF LoneWork
<1> QED
  BY <1>1, <1>2, <1>4, <1>5, <1>7, <1>8, <1>9 DEF CacheInv, MessageCacheTypeOK

\* Rows that are still the newest, as they are, become the window.
LEMMA SeedKeeps ==
    ASSUME CacheInv, NEW j \in Job, SeedWindow(j)
    PROVE  CacheInv'
<1> DEFINE c == job[j]
           again == [NoJob EXCEPT !.kind = "rebuild"]
<1>1. /\ message \in [Id -> MessageRow] /\ window \in WindowRow /\ c \in JobRow
      /\ Cardinality(window.ids) <= CacheSize
  BY CacheTyped
<1>2. /\ c.kind = "seed" /\ window' = Cached(c.rows)
      /\ message' = message /\ calm' = calm
      /\ job' = [job EXCEPT ![j] = NoJob] \/ job' = [job EXCEPT ![j] = again]
  BY DEF SeedWindow, Done
<1>3. NoJob \in JobRow /\ NoJob.kind = "none" /\ NoJob.pc = "read"
  BY NoJobIs
<1>4. again \in JobRow /\ again.kind = "rebuild" /\ again.pc = "read"
  BY <1>3 DEF JobRow
<1> HIDE DEF again
<1>5. c.rows \in [Id -> Absent .. Blank]
  BY <1>1 DEF JobRow
<1>6. Cached(c.rows) \in WindowRow /\ Cardinality(Cached(c.rows).ids) <= CacheSize
  BY <1>1, <1>5, CachedTyped
<1>7. ASSUME JobHolds(c, window, message)
      PROVE  /\ WindowHolds(Cached(c.rows), message) /\ Bounded(Cached(c.rows))
             /\ JobHolds(NoJob, Cached(c.rows), message)
             /\ JobHolds(again, Cached(c.rows), message)
  <2>1. WindowHolds(window, message) /\ Bounded(window) /\ Fresh(c.rows, message)
    BY <1>2, <1>7 DEF JobHolds, RefillHolds
  <2>2. WindowHolds(Cached(c.rows), message) /\ Bounded(Cached(c.rows))
    BY <2>1, CachedHolds
  <2>3. JobHolds(again, Cached(c.rows), message)
    BY <1>4, <2>2 DEF JobHolds, RefillHolds
  <2>4. JobHolds(NoJob, Cached(c.rows), message)
    BY <1>3, NoneHolds
  <2> QED
    BY <2>2, <2>3, <2>4
<1>8. CASE job' = [job EXCEPT ![j] = NoJob]
  BY <1>2, <1>3, <1>6, <1>7, <1>8, WorkGoesOn
<1>9. CASE job' = [job EXCEPT ![j] = again]
  BY <1>2, <1>4, <1>6, <1>7, <1>9, WorkGoesOn
<1> QED
  BY <1>2, <1>8, <1>9

\* A rebuild reads the newest rows, and they are still so when they become the window.
LEMMA RebuildKeeps ==
    ASSUME CacheInv, NEW j \in Job, RebuildWindow(j)
    PROVE  CacheInv'
<1> DEFINE c == job[j]
           d == [c EXCEPT !.pc = "write", !.rows = Bodies(Rebuilds)]
<1>1. /\ message \in [Id -> MessageRow] /\ window \in WindowRow /\ c \in JobRow
      /\ Cardinality(window.ids) <= CacheSize
  BY CacheTyped
<1>2. /\ c.kind = "rebuild" /\ message' = message /\ calm' = calm
      /\ \/ job' = [job EXCEPT ![j] = d] /\ window' = window
         \/ job' = [job EXCEPT ![j] = NoJob] /\ window' = Cached(c.rows) /\ c.pc = "write"
  BY DEF RebuildWindow, Done
<1>3. NoJob \in JobRow /\ NoJob.kind = "none" /\ NoJob.pc = "read"
  BY NoJobIs
<1>4. Bodies(Rebuilds) \in [Id -> Absent .. Blank] /\ Fresh(Bodies(Rebuilds), message)
  BY <1>1, NewestFresh, MessageCacheAssumption DEF Rebuilds
<1>5. d \in JobRow /\ d.kind = "rebuild" /\ d.pc = "write" /\ d.rows = Bodies(Rebuilds)
  BY <1>1, <1>2, <1>4 DEF JobRow
<1> HIDE DEF d
<1>6. CASE job' = [job EXCEPT ![j] = d] /\ window' = window
  <2>1. ASSUME JobHolds(c, window, message) PROVE JobHolds(d, window, message)
    <3>1. RefillHolds(c, window, message)
      BY <1>2, <2>1 DEF JobHolds
    <3>2. RefillHolds(d, window, message)
      BY <1>4, <1>5, <3>1 DEF RefillHolds
    <3> QED
      BY <1>5, <3>2 DEF JobHolds
  <2> QED
    BY <1>1, <1>2, <1>5, <1>6, <2>1, WorkGoesOn
<1>7. CASE job' = [job EXCEPT ![j] = NoJob] /\ window' = Cached(c.rows) /\ c.pc = "write"
  <2>1. c.rows \in [Id -> Absent .. Blank]
    BY <1>1 DEF JobRow
  <2>2. Cached(c.rows) \in WindowRow /\ Cardinality(Cached(c.rows).ids) <= CacheSize
    BY <1>1, <2>1, CachedTyped
  <2>3. ASSUME JobHolds(c, window, message)
        PROVE  /\ WindowHolds(Cached(c.rows), message) /\ Bounded(Cached(c.rows))
               /\ JobHolds(NoJob, Cached(c.rows), message)
    <3>1. WindowHolds(window, message) /\ Bounded(window) /\ Fresh(c.rows, message)
      BY <1>2, <1>7, <2>3 DEF JobHolds, RefillHolds
    <3>2. WindowHolds(Cached(c.rows), message) /\ Bounded(Cached(c.rows))
      BY <3>1, CachedHolds
    <3> QED
      BY <1>3, <3>2, NoneHolds
  <2> QED
    BY <1>2, <1>3, <1>7, <2>2, <2>3, WorkGoesOn
<1> QED
  BY <1>2, <1>6, <1>7

\* Work that is lost leaves the window behind: it is calm no more.
LEMMA LoseKeeps ==
    ASSUME CacheInv, NEW j \in Job, LoseJob(j)
    PROVE  CacheInv'
<1>1. job \in [Job -> JobRow] /\ Settled(job)
  BY CacheTyped
<1>2. NoJob \in JobRow /\ NoJob.kind = "none" /\ NoJob.pc = "read"
  BY NoJobIs
<1>3. job' = [job EXCEPT ![j] = NoJob]
  BY DEF LoseJob, Done
<1>4. job' \in [Job -> JobRow] /\ Settled(job')
  BY <1>1, <1>2, <1>3, JobMoves
<1>5. calm' = FALSE /\ message' = message /\ window' = window
  BY DEF LoseJob
<1> QED
  BY <1>4, <1>5 DEF CacheInv, MessageCacheTypeOK

\* The window may expire under the work of the one request.
LEMMA ExpireKeeps ==
    ASSUME CacheInv, ExpireWindow
    PROVE  CacheInv'
<1>1. /\ message \in [Id -> MessageRow] /\ job \in [Job -> JobRow] /\ calm \in BOOLEAN
      /\ Numbered(message) /\ Settled(job)
  BY CacheTyped
<1>2. /\ window' = EmptyWindow /\ calm' = (calm \/ LoneWork({}))
      /\ message' = message /\ job' = job
  BY DEF ExpireWindow
<1>3. EmptyWindow \in WindowRow /\ EmptyWindow.ids = {}
  BY MessageCacheAssumption DEF EmptyWindow, WindowRow, NoMeta, Meta, Nothing, Absent, Blank
<1>4. Cardinality(EmptyWindow.ids) <= CacheSize
  BY <1>3, FS_EmptySet, MessageCacheAssumption
<1>5. WindowHolds(EmptyWindow, message) /\ Bounded(EmptyWindow)
  BY <1>3, WindowGone
<1>6. CASE calm
  <2>1. /\ \A j, k \in Job : job[j].kind # "none" /\ job[k].kind # "none" => j = k
        /\ MessagesIn(message, {"held"}) = {}
        /\ \A j \in Job : JobHolds(job[j], window, message)
    BY <1>6 DEF CacheInv, CalmHolds
  <2>2. \A j \in Job : JobHolds(job[j], EmptyWindow, message)
    BY <1>3, <2>1, WindowGone
  <2> QED
    BY <1>1, <1>2, <1>3, <1>4, <1>5, <1>6, <2>1, <2>2
    DEF CacheInv, MessageCacheTypeOK, CalmHolds
<1>7. CASE LoneWork({})
  <2>1. (\A j \in Job : job[j].kind = "none") /\ MessagesIn(message, {"held"}) = {}
    BY <1>7 DEF LoneWork, Working, InState, MessagesIn
  <2>2. \A j \in Job : JobHolds(job[j], EmptyWindow, message)
    BY <2>1, NoneHolds
  <2> QED
    BY <1>1, <1>2, <1>3, <1>4, <1>5, <1>7, <2>1, <2>2
    DEF CacheInv, MessageCacheTypeOK, CalmHolds
<1>8. CASE ~calm /\ ~LoneWork({})
  BY <1>1, <1>2, <1>3, <1>4, <1>8 DEF CacheInv, MessageCacheTypeOK
<1> QED
  BY <1>6, <1>7, <1>8

\* A payload that expired is read as missing, never as wrong.
LEMMA ExpirePayloadKeeps ==
    ASSUME CacheInv, NEW m \in Id, ExpirePayload(m)
    PROVE  CacheInv'
<1> DEFINE payload == [window.payload EXCEPT ![m] = Absent]
           w == [window EXCEPT !.payload = payload]
<1>1. /\ window \in WindowRow /\ Cardinality(window.ids) <= CacheSize
  BY CacheTyped
<1>2. /\ calm /\ window' = w /\ message' = message /\ job' = job /\ calm' = calm
  BY <1>1 DEF ExpirePayload
<1>3. /\ window.payload \in [Id -> Absent .. Blank] /\ window.ids \subseteq Id
      /\ Absent \in Absent .. Blank
  BY <1>1, MessageCacheAssumption DEF WindowRow, Absent, Blank
<1>4. /\ payload \in [Id -> Absent .. Blank]
      /\ \A k \in Id : payload[k] \in {Absent, window.payload[k]}
  BY <1>3
<1> HIDE DEF payload
<1>5. w \in WindowRow /\ w.ids = window.ids /\ w.meta = window.meta /\ w.payload = payload
  BY <1>1, <1>4 DEF WindowRow
<1> HIDE DEF w
<1>6. \A k \in window.ids : w.payload[k] \in {Absent, window.payload[k]}
  BY <1>3, <1>4, <1>5
<1>7. CalmHolds(job, window, message)
  BY <1>2 DEF CacheInv
<1>8. \A d : JobHolds(d, window, message) => JobHolds(d, w, message)
  BY <1>5, <1>6, PayloadExpires
<1>9. /\ WindowHolds(window, message) => WindowHolds(w, message)
      /\ Bounded(window) => Bounded(w)
  BY <1>5, <1>6, PayloadExpires
<1>10. CalmHolds(job, w, message)
  BY <1>7, <1>8, <1>9 DEF CalmHolds
<1> QED
  BY <1>1, <1>2, <1>5, <1>10 DEF CacheInv, MessageCacheTypeOK

\* The cache of a new conversation.
LEMMA CacheInits == MessageCacheInit => CacheInv
<1> SUFFICES ASSUME MessageCacheInit PROVE CacheInv
  OBVIOUS
<1>1. /\ message \in [Id -> MessageRow] /\ \A m \in Id : message[m].state = "none"
  BY MessageCacheAssumption DEF MessageCacheInit, MessageRow, Blank
<1>2. EmptyWindow \in WindowRow /\ EmptyWindow.ids = {}
  BY MessageCacheAssumption DEF EmptyWindow, WindowRow, NoMeta, Meta, Nothing, Absent, Blank
<1>3. NoJob \in JobRow /\ NoJob.kind = "none" /\ NoJob.pc = "read"
  BY NoJobIs
<1>4. window = EmptyWindow /\ job = [j \in Job |-> NoJob] /\ calm = TRUE
  BY DEF MessageCacheInit
<1>5. Cardinality(EmptyWindow.ids) <= CacheSize
  BY <1>2, FS_EmptySet, MessageCacheAssumption
<1>6. MessageCacheTypeOK
  BY <1>1, <1>2, <1>3, <1>4, <1>5 DEF MessageCacheTypeOK
<1>7. Numbered(message) /\ Settled(job) /\ MessagesIn(message, {"held"}) = {}
  BY <1>1, <1>3, <1>4 DEF Numbered, Settled, MessagesIn
<1>8. WindowHolds(EmptyWindow, message) /\ Bounded(EmptyWindow)
  BY <1>2, WindowGone
<1>9. \A j \in Job : job[j].kind = "none" /\ JobHolds(job[j], window, message)
  BY <1>3, <1>4, NoneHolds
<1>10. CalmHolds(job, window, message)
  BY <1>4, <1>7, <1>8, <1>9 DEF CalmHolds
<1> QED
  BY <1>6, <1>7, <1>10 DEF CacheInv

\* Every step keeps the invariant.
LEMMA CacheSteps == CacheInv /\ [MessageCacheNext]_messageCacheVars => CacheInv'
<1> SUFFICES ASSUME CacheInv, [MessageCacheNext]_messageCacheVars PROVE CacheInv'
  OBVIOUS
<1>1. CASE UNCHANGED messageCacheVars
  BY <1>1 DEF messageCacheVars, CacheInv, MessageCacheTypeOK
<1>2. ASSUME NEW j \in Job, NEW m \in Id,
             PostMessage(j, m) \/ DeliverMessage(j, m) \/ EditMessage(j, m) \/ DeleteMessage(j, m)
      PROVE  CacheInv'
  BY <1>2, PostKeeps, DeliverKeeps, EditKeeps, DeleteKeeps
<1>3. ASSUME NEW m \in Id, ScheduleMessage(m) \/ CancelMessage(m) \/ ExpirePayload(m)
      PROVE  CacheInv'
  BY <1>3, ScheduleKeeps, CancelKeeps, ExpirePayloadKeeps
<1>4. ASSUME NEW j \in Job, NEW sender \in BOOLEAN, ReadLatest(j, sender)
      PROVE  CacheInv'
  BY <1>4, ReadLatestKeeps
<1>5. ASSUME NEW j \in Job, ReadOlder(j) \/ ClearHistory(j) \/ FetchMessage(j) \/ AddMessage(j)
      PROVE  CacheInv'
  BY <1>5, ReadOlderKeeps, ClearKeeps, FetchKeeps, AddKeeps
<1>6. ASSUME NEW j \in Job,
             UpdateMessage(j) \/ RemoveMessage(j) \/ ReadBounds(j) \/ WriteBounds(j)
      PROVE  CacheInv'
  BY <1>6, UpdateKeeps, RemoveKeeps, ReadBoundsKeeps, WriteBoundsKeeps
<1>7. ASSUME NEW j \in Job,
             ClearWindow(j) \/ SeedWindow(j) \/ RebuildWindow(j) \/ LoseJob(j)
      PROVE  CacheInv'
  BY <1>7, ClearWindowKeeps, SeedKeeps, RebuildKeeps, LoseKeeps
<1>8. CASE ExpireWindow
  BY <1>8, ExpireKeeps
<1> QED
  BY <1>1, <1>2, <1>3, <1>4, <1>5, <1>6, <1>7, <1>8 DEF MessageCacheNext

\* The window is the end of the conversation, as it is, but for what the one request whose
\* work is under way has still to do, whenever no work has overlapped since it was empty.
THEOREM CacheInvariant == MessageCacheSpec => []CacheInv
<1> QED
  BY CacheInits, CacheSteps, PTL DEF MessageCacheSpec

-----------------------------------------------------------------------------

\* Whatever end of the conversation, before an id, is in the window gives a right page.
LEMMA PagesBefore ==
    ASSUME CacheInv, Quiet, window.ids # {}, NEW n \in 1 .. PageSize, NEW before \in 2 .. MaxId + 1,
           ServedWhole(PageBefore(before, n))
    PROVE  PageBefore(before, n)
           = Newest(Cardinality(PageBefore(before, n)), {m \in Live : m < before})
<1> DEFINE page == PageBefore(before, n)
           part == Within(1, before - 1)
           all == {m \in Live : m < before}
<1>1. WindowHolds(window, message)
  BY CalmIdle DEF Quiet
<1>2. page # {}
  BY DEF ServedWhole, Complete
<1>3. page = Newest(n, part)
  BY <1>2 DEF PageBefore
<1>4. Live = MessagesIn(message, {"live"}) /\ Live \subseteq Id /\ Id \subseteq Nat
  BY DEF Live, InState, MessagesIn, Id
<1>5. Suffix(window.ids, Live)
  BY <1>1, <1>4 DEF WindowHolds
<1>6. before \in Nat /\ n \in Nat
  BY MessageCacheAssumption
<1>7. \A m \in Id : (1 <= m /\ m <= before - 1) <=> m < before
  BY <1>6 DEF Id
<1>8. part = {m \in window.ids : m < before}
  BY <1>4, <1>5, <1>7 DEF Within, Suffix
<1>9. Suffix(part, all)
  <2>1. window.ids \subseteq Live /\ \A m \in window.ids, k \in Live : k > m => k \in window.ids
    BY <1>5 DEF Suffix
  <2> QED
    BY <1>8, <2>1 DEF Suffix
<1>10. part \subseteq Id /\ all \subseteq Id
  BY <1>4, <1>9 DEF Suffix
<1> HIDE DEF page, part, all
<1>11. Suffix(page, part)
  BY <1>3, <1>6, <1>10, NewestEnds
<1>12. Suffix(page, all)
  BY <1>9, <1>11, EndOfEnd
<1> QED
  BY <1>10, <1>12, EndIsNewest DEF page, all

\* The window has all that comes after an id that it covers.
LEMMA PagesAfter ==
    ASSUME CacheInv, Quiet, window.ids # {}, NEW n \in 1 .. PageSize, NEW after \in 0 .. MaxId,
           ServedWhole(PageAfter(after, n))
    PROVE  PageAfter(after, n) = Oldest(n, {m \in Live : m > after})
<1> DEFINE part == Within(after + 1, window.meta.max)
<1>1. WindowHolds(window, message) /\ Bounded(window) /\ window.ids \subseteq Id
  BY CalmIdle, CacheTyped DEF Quiet, WindowRow
<1>2. PageAfter(after, n) # {}
  BY DEF ServedWhole, Complete
<1>3. PageAfter(after, n) = Oldest(n, part) /\ ~(after < window.meta.min - 1)
  BY <1>2 DEF PageAfter
<1>4. Live = MessagesIn(message, {"live"}) /\ Live \subseteq Id /\ Id \subseteq Nat
  BY DEF Live, InState, MessagesIn, Id
<1>5. /\ window.meta = [min |-> Min(window.ids), max |-> Max(window.ids)]
      /\ Min(window.ids) \in window.ids /\ Max(window.ids) \in window.ids
      /\ \A y \in window.ids : Min(window.ids) <= y /\ y <= Max(window.ids)
  BY <1>1, BoundsAre DEF Bounded
<1>6. /\ window.meta.min \in window.ids /\ window.meta.max \in window.ids
      /\ window.meta.min \in Nat /\ window.meta.max \in Nat
      /\ \A y \in window.ids : y <= window.meta.max
  <2>1. /\ window.meta.min \in window.ids /\ window.meta.max \in window.ids
        /\ \A y \in window.ids : y <= window.meta.max
    BY <1>5
  <2>2. window.ids \subseteq Nat
    BY <1>1, <1>4
  <2> QED
    BY <2>1, <2>2
<1>7. window.ids \subseteq Live /\ \A m \in window.ids, k \in Live : k > m => k \in window.ids
  BY <1>1, <1>4 DEF WindowHolds, Suffix
<1>8. after \in Nat
  BY MessageCacheAssumption
<1>9. ASSUME NEW k \in Live, k > after PROVE k \in window.ids
  <2>1. k \in Nat /\ k >= window.meta.min
    BY <1>3, <1>4, <1>6, <1>8, <1>9
  <2> QED
    BY <1>6, <1>7, <2>1
<1>10. \A k \in Id : k > after <=> after + 1 <= k
  BY <1>4, <1>8
<1>11. part = {k \in Live : k > after}
  BY <1>4, <1>6, <1>7, <1>9, <1>10 DEF Within
<1> QED
  BY <1>3, <1>11

\* And all that lies between the first and the last of a page around one.
LEMMA PagesAround ==
    ASSUME CacheInv, Quiet, window.ids # {}, NEW n \in 1 .. PageSize, NEW m \in Id,
           ServedWhole(PageAround(m, n))
    PROVE  LET page == PageAround(m, n) IN
           /\ \A k \in page : k \in Live
           /\ \A k \in Live : Min(page) <= k /\ k <= Max(page) => k \in page
<1> DEFINE page == PageAround(m, n)
           low == Within(window.meta.min, m)
           high == Within(m + 1, window.meta.max)
<1>1. WindowHolds(window, message) /\ Bounded(window) /\ window.ids \subseteq Id
  BY CalmIdle, CacheTyped DEF Quiet, WindowRow
<1>2. page # {}
  BY DEF ServedWhole, Complete
<1>3. page = Newest(n, low) \cup Oldest(n, high)
  BY <1>2 DEF PageAround
<1>4. Live = MessagesIn(message, {"live"}) /\ Live \subseteq Id /\ Id \subseteq Nat
  BY DEF Live, InState, MessagesIn, Id
<1>5. /\ window.meta = [min |-> Min(window.ids), max |-> Max(window.ids)]
      /\ \A y \in window.ids : Min(window.ids) <= y /\ y <= Max(window.ids)
  BY <1>1, BoundsAre DEF Bounded
<1>6. \A y \in window.ids : window.meta.min <= y /\ y <= window.meta.max
  BY <1>5
<1>7. window.ids \subseteq Live /\ \A x \in window.ids, k \in Live : k > x => k \in window.ids
  BY <1>1, <1>4 DEF WindowHolds, Suffix
<1>8. low \subseteq window.ids /\ high \subseteq window.ids
  BY DEF Within
<1>9. Newest(n, low) \subseteq low /\ Oldest(n, high) \subseteq high
  BY DEF Newest, Oldest
<1>10. m \in Nat /\ n \in Nat
  BY <1>4, MessageCacheAssumption
<1>11. /\ \A x \in low : x <= m
       /\ \A x \in high : x >= m + 1
       /\ \A x \in window.ids : (x <= m => x \in low) /\ (x >= m + 1 => x \in high)
  BY <1>6 DEF Within
<1> HIDE DEF page, low, high
<1>12. page \subseteq window.ids /\ page \subseteq Id /\ page \subseteq Nat
  BY <1>1, <1>3, <1>4, <1>8, <1>9
<1>13. Min(page) \in page /\ \A y \in page : Min(page) <= y
  BY <1>2, <1>12, MinIs
<1>14. Max(page) \in page /\ \A y \in page : y <= Max(page)
  <2>1. page \subseteq 0 .. MaxId /\ MaxId \in Nat
    BY <1>12, MessageCacheAssumption DEF Id
  <2> QED
    BY <1>2, <2>1, MaxIs
<1>15. ASSUME NEW k \in Live, Min(page) <= k, k <= Max(page) PROVE k \in page
  <2>1. k \in Nat /\ Min(page) \in Nat /\ Max(page) \in Nat
    BY <1>4, <1>12, <1>13, <1>14
  <2>2. k \in window.ids
    <3>1. CASE k = Min(page)
      BY <1>12, <1>13, <3>1
    <3>2. CASE k > Min(page)
      BY <1>7, <1>12, <1>13, <3>2
    <3> QED
      BY <1>15, <2>1, <3>1, <3>2
  <2>3. CASE k <= m
    <3>1. k \in low
      BY <1>11, <2>2, <2>3
    <3>2. Min(page) \notin high
      BY <1>10, <1>11, <1>15, <2>1, <2>3
    <3>3. Min(page) \in Newest(n, low)
      BY <1>3, <1>9, <1>13, <3>2
    <3>4. CASE k = Min(page)
      BY <1>13, <3>4
    <3>5. CASE k > Min(page)
      <4>1. Suffix(Newest(n, low), low)
        BY <1>1, <1>8, <1>10, NewestEnds
      <4> QED
        BY <1>3, <3>1, <3>3, <3>5, <4>1 DEF Suffix
    <3> QED
      BY <1>15, <2>1, <3>4, <3>5
  <2>4. CASE k >= m + 1
    <3>1. k \in high
      BY <1>11, <2>2, <2>4
    <3>2. Max(page) \notin low
      BY <1>10, <1>11, <1>15, <2>1, <2>4
    <3>3. Max(page) \in Oldest(n, high)
      BY <1>3, <1>9, <1>14, <3>2
    <3>4. CASE k = Max(page)
      BY <1>14, <3>4
    <3>5. CASE k < Max(page)
      <4>1. high \subseteq Id
        BY <1>1, <1>8
      <4>2. k \in Oldest(n, high)
        BY <1>10, <3>1, <3>3, <3>5, <4>1, OldestBegins
      <4> QED
        BY <1>3, <4>2
    <3> QED
      BY <1>15, <2>1, <3>4, <3>5
  <2> QED
    BY <1>10, <2>1, <2>3, <2>4
<1>16. \A k \in page : k \in Live
  BY <1>7, <1>12
<1> QED
  BY <1>15, <1>16 DEF page

\* A page that the window serves, once what was to be done is done and no two requests' work
\* overlapped, is the one the database gives, down to the bottom of the window.
THEOREM PagesAreRight == MessageCacheSpec => []PagesAgree
<1>1. ASSUME CacheInv, Quiet, window.ids # {}
      PROVE  \A m \in window.ids : window.payload[m] \in {Absent, message[m].body}
  BY <1>1, CalmIdle DEF Quiet, WindowHolds
<1>2. CacheInv => PagesAgree
  BY <1>1, PagesBefore, PagesAfter, PagesAround DEF PagesAgree
<1> QED
  BY <1>2, CacheInvariant, PTL

=============================================================================
