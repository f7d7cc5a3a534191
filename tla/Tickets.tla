------------------------------ MODULE Tickets ------------------------------
(***************************************************************************)
(* The support tickets of one user: the requests of the user and the staff *)
(* that open, answer, read, close, reopen and delete them. A request reads *)
(* the ticket, checks it and saves some of its columns later, in no        *)
(* transaction.                                                            *)
(***************************************************************************)
EXTENDS Naturals, FiniteSets, Sequences

CONSTANTS
    Ticket,         \* the tickets there can be
    NoTicket,
    Watched,        \* bound: the tickets that are answered, read and deleted
    Desk,           \* the requests that may be half way at a time
    MaxOpen,        \* tickets.max_open_per_user
    MaxTicketFiles, \* tickets.max_ticket_attachments_size, in files of one size
    MaxMessages     \* bound: messages of a ticket

ASSUME TicketsAssumption ==
    /\ IsFiniteSet(Ticket) /\ IsFiniteSet(Desk) /\ NoTicket \notin Ticket
    /\ Watched \subseteq Ticket
    /\ {MaxOpen, MaxTicketFiles, MaxMessages} \subseteq Nat \ {0}

VARIABLES
    ticket,     \* the tickets, with their messages and attachments
    desk,       \* the requests half way
    desks       \* what has happened: staff reopened a ticket; no two requests overlapped

ticketsVars == <<ticket, desk, desks>>

TicketStatus == {"open", "in_progress", "waiting_user", "resolved", "closed"}
Ended == {"resolved", "closed"}
Party == {"user", "staff"}

TicketMessage == [author : Party, seen : BOOLEAN, told : BOOLEAN]

\* files: what tickets/<id>/ holds. attached: its TicketAttachment rows.
TicketRow == [status : TicketStatus \cup {"none", "deleted"},
              messages : UNION {[1 .. n -> TicketMessage] : n \in 0 .. MaxMessages},
              attached : 0 .. MaxTicketFiles + Cardinality(Desk),
              files : 0 .. MaxTicketFiles + Cardinality(Desk)]

DeskRow == [at : {"none", "create", "status", "quota", "store", "mark"},
            ticket : Ticket \cup {NoTicket}, party : Party, status : TicketStatus \cup {"none", "deleted"},
            unseen : SUBSET (1 .. MaxMessages)]

TicketsTypeOK ==
    /\ ticket \in [Ticket -> TicketRow] /\ desk \in [Desk -> DeskRow]
    /\ desks \in [calm : BOOLEAN, reopened : BOOLEAN]

NoDesk == [at |-> "none", ticket |-> NoTicket, party |-> "user",
           status |-> "none", unseen |-> {}]

TicketsInit ==
    /\ ticket = [t \in Ticket |-> [status |-> "none",
                                   messages |-> <<>>, attached |-> 0, files |-> 0]]
    /\ desk = [k \in Desk |-> NoDesk]
    /\ desks = [calm |-> TRUE, reopened |-> FALSE]

-----------------------------------------------------------------------------

There(t) == ticket[t].status \in TicketStatus
StillOpen == {t \in Ticket : ticket[t].status \in TicketStatus \ Ended}

Sits(k) == desk[k].at # "none"
Alone(k) == \A j \in Desk \ {k} : ~Sits(j)
DeskDone(k) == desk' = [desk EXCEPT ![k] = NoDesk]
Overlap(calm) == desks' = [desks EXCEPT !.calm = @ /\ calm]

Sit(k, row) ==
    /\ ~Sits(k)
    /\ desk' = [desk EXCEPT ![k] = row]
    /\ Overlap(Alone(k))

\* A request of one save.
AtOnce == Overlap(\A k \in Desk : ~Sits(k)) /\ UNCHANGED desk

Messages(t) == DOMAIN ticket[t].messages
Unseen(t, party) == {i \in Messages(t) : ~ticket[t].messages[i].seen
                                          /\ ticket[t].messages[i].author # party}

Written(t, party) ==
    Append(ticket[t].messages, [author |-> party, seen |-> FALSE, told |-> FALSE])

-----------------------------------------------------------------------------
(* Opening a ticket: the open ones are counted, then it is created. *)

MayOpen == Cardinality(StillOpen) < MaxOpen

CountOpen(k) ==
    /\ MayOpen
    /\ Sit(k, [NoDesk EXCEPT !.at = "create"])
    /\ UNCHANGED ticket

\* The ticket and its message are there even if the attachments are refused after.
OpenTicket(k, t) ==
    /\ desk[k].at = "create" /\ ticket[t].status = "none"
    /\ ticket' = [ticket EXCEPT ![t].status = "open",
                                ![t].messages = IF t \in Watched THEN Written(t, "user") ELSE @]
    /\ desk' = [desk EXCEPT ![k] = IF t \in Watched
                                   THEN [NoDesk EXCEPT !.at = "quota", !.ticket = t] ELSE NoDesk]
    /\ UNCHANGED desks

-----------------------------------------------------------------------------
(* Answering: the message, the status, the quota and the files, in that order. *)

Answer(k, t, party) ==
    /\ There(t) /\ t \in Watched /\ ticket[t].status # "closed" /\ Len(ticket[t].messages) < MaxMessages
    /\ Sit(k, [NoDesk EXCEPT !.at = "status", !.ticket = t, !.party = party,
                             !.status = ticket[t].status])
    /\ ticket' = [ticket EXCEPT ![t].messages = Written(t, party)]

TakesUp(party, status) ==
    IF party = "staff" THEN status \in {"open", "waiting_user"} ELSE status = "waiting_user"

\* The status that was read decides, and only the status is saved.
TakeUp(k) ==
    LET t == desk[k].ticket IN
    /\ desk[k].at = "status"
    /\ IF TakesUp(desk[k].party, desk[k].status)
       THEN IF There(t) THEN /\ ticket' = [ticket EXCEPT ![t].status = "in_progress"]
                             /\ desk' = [desk EXCEPT ![k].at = "quota"]
            ELSE DeskDone(k) /\ UNCHANGED ticket
       ELSE desk' = [desk EXCEPT ![k].at = "quota"] /\ UNCHANGED ticket
    /\ UNCHANGED desks

\* Mutant: the quota is not asked about the file that comes.
WithinQuotaBefore(t) == ticket[t].attached <= MaxTicketFiles

WithinQuota(t) == ticket[t].attached + 1 <= MaxTicketFiles

\* No file comes, it is refused, or its size fits what is attached now.
CheckQuota(k, file) ==
    /\ desk[k].at = "quota"
    /\ IF file /\ WithinQuota(desk[k].ticket) THEN desk' = [desk EXCEPT ![k].at = "store"]
       ELSE DeskDone(k)
    /\ UNCHANGED <<ticket, desks>>

\* The file is written, then its row, which fails when the ticket has gone.
StoreFile(k) ==
    LET t == desk[k].ticket IN
    /\ desk[k].at = "store"
    /\ ticket' = [ticket EXCEPT ![t].files = @ + 1,
                                ![t].attached = IF There(t) THEN @ + 1 ELSE @]
    /\ DeskDone(k)
    /\ UNCHANGED desks

-----------------------------------------------------------------------------
(* Reading: the unseen messages of the others are listed, then whatever is unseen *)
(* is marked, and the list is told to everyone.                                    *)

ListUnseen(k, t, party) ==
    /\ There(t) /\ t \in Watched /\ Unseen(t, party) # {}
    /\ Sit(k, [NoDesk EXCEPT !.at = "mark", !.ticket = t, !.party = party,
                             !.unseen = Unseen(t, party)])
    /\ UNCHANGED ticket

\* Mutant: the list is told, and only the first of it is marked.
MarkedOne(k) ==
    Unseen(desk[k].ticket, desk[k].party)
        \cap {CHOOSE i \in desk[k].unseen : \A j \in desk[k].unseen : i <= j}

Marked(k) == Unseen(desk[k].ticket, desk[k].party)

\* Nothing is told when nothing was marked any more.
MarkSeen(k) ==
    LET t == desk[k].ticket
        marked == Marked(k)
        Mark(i) == [ticket[t].messages[i] EXCEPT !.seen = @ \/ i \in marked,
                        !.told = @ \/ (marked # {} /\ i \in desk[k].unseen)] IN
    /\ desk[k].at = "mark"
    /\ ticket' = [ticket EXCEPT ![t].messages = [i \in Messages(t) |-> Mark(i)]]
    /\ DeskDone(k)
    /\ UNCHANGED desks

-----------------------------------------------------------------------------
(* The requests of one save. *)

CloseTicket(t) ==
    /\ There(t) /\ ticket[t].status # "closed"
    /\ ticket' = [ticket EXCEPT ![t].status = "closed"]
    /\ AtOnce

\* Of a ticket that is not watched it is told only whether it is open: a bound.
StaffStatus(t, status) ==
    /\ There(t) /\ (t \in Watched \/ status \in {"open", "closed"})
    /\ ticket' = [ticket EXCEPT ![t].status = status]
    /\ desks' = [desks EXCEPT !.calm = @ /\ \A k \in Desk : ~Sits(k),
                              !.reopened = @ \/ (ticket[t].status \in Ended /\ status \notin Ended)]
    /\ UNCHANGED desk

\* Mutant: the rows go, the directory stays.
DeleteTicketRows(t) ==
    /\ There(t) /\ t \in Watched
    /\ ticket' = [ticket EXCEPT ![t] = [status |-> "deleted",
                                        messages |-> <<>>, attached |-> 0, files |-> @.files]]
    /\ AtOnce

\* The rows go, and the directory with them.
DeleteTicket(t) ==
    /\ There(t) /\ t \in Watched
    /\ ticket' = [ticket EXCEPT ![t] = [status |-> "deleted",
                                        messages |-> <<>>, attached |-> 0, files |-> 0]]
    /\ AtOnce

DeskDies(k) ==
    /\ Sits(k)
    /\ DeskDone(k) /\ Overlap(FALSE)
    /\ UNCHANGED ticket

TicketsNext ==
    \/ \E k \in Desk : \/ CountOpen(k) \/ TakeUp(k) \/ StoreFile(k) \/ MarkSeen(k) \/ DeskDies(k)
                       \/ \E file \in BOOLEAN : CheckQuota(k, file)
                       \/ \E t \in Ticket : \/ OpenTicket(k, t)
                                            \/ \E party \in Party : Answer(k, t, party) \/ ListUnseen(k, t, party)
    \/ \E t \in Ticket : \/ CloseTicket(t) \/ DeleteTicket(t)
                         \/ \E status \in TicketStatus : StaffStatus(t, status)

TicketsSpec == TicketsInit /\ [][TicketsNext]_ticketsVars

-----------------------------------------------------------------------------

\* A user has no more open tickets than allowed, but one for every other request that
\* may be counting them at the same time, until the staff reopen one; and the
\* attachments of a ticket keep to its quota, but for one file for every other request
\* that may be checking it. The post of tickets/api/user_tickets.py, validate_ticket_quota.
TicketLimits ==
    /\ ~desks.reopened => Cardinality(StillOpen) <= MaxOpen + Cardinality(Desk) - 1
    /\ \A t \in Ticket :
           ticket[t].attached <= MaxTicketFiles + (IF desks.calm THEN 0 ELSE Cardinality(Desk) - 1)

\* A message its readers were told is seen is seen, however the requests overlap; and
\* without overlap the others are told of every message that is. TicketMarkReadAPIView.
SeenTold ==
    \A t \in Ticket : \A i \in Messages(t) :
        /\ ticket[t].messages[i].told => ticket[t].messages[i].seen
        /\ desks.calm /\ ticket[t].messages[i].seen => ticket[t].messages[i].told

\* Every attachment of a ticket has its file, always; and no file is left without its
\* row, unless requests overlapped. ticket_pre_delete, TicketAttachment.
FilesAgree ==
    \A t \in Ticket : /\ ticket[t].attached <= ticket[t].files
                      /\ desks.calm => ticket[t].attached = ticket[t].files

=============================================================================
