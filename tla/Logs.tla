-------------------------------- MODULE Logs --------------------------------
(***************************************************************************)
(* The log of one deployment, in a database of its own. Tasks, the monitor *)
(* and requests add entries, each stamped by the process that writes it    *)
(* and stored later, or not at all. A page of the site shows the newest    *)
(* entries and then asks for older ones and for newer ones, by the stamps  *)
(* of the oldest and of the newest entry that it has.                      *)
(***************************************************************************)
EXTENDS Naturals, FiniteSets, FiniteSetsExt

CONSTANTS
    Source,      \* the processes that write entries
    Client,      \* the pages that show them
    PageLimit,   \* the entries of an answer
    MaxLogs,     \* bound on the entries
    MaxClock     \* bound on the clock

ASSUME LogsAssumption ==
    /\ IsFiniteSet(Source) /\ PageLimit \in Nat \ {0} /\ MaxLogs \in Nat /\ MaxClock \in Nat \ {0}

VARIABLES
    clock,      \* the time
    logs,       \* the stored entries
    source,     \* what each process is about to store
    client      \* what each page has

logsVars == <<clock, logs, source, client>>

Stamp == 1..MaxClock
Entry == [id : 1..MaxLogs, at : Stamp]

\* left: the entries that are still to be written of the event at hand. lo and hi:
\* the stamps of the oldest and the newest entry that the page has. late: what was
\* stored with a stamp that the page was past.
LogsTypeOK ==
    /\ clock \in Stamp /\ logs \subseteq Entry
    /\ source \in [Source -> [left : 0..2, at : Stamp]]
    /\ client \in [Client -> [open : BOOLEAN, lo : Stamp, hi : Stamp,
                              has : SUBSET Entry, late : SUBSET Entry]]

NoPageYet == [open |-> FALSE, lo |-> 1, hi |-> 1, has |-> {}, late |-> {}]

LogsInit ==
    /\ clock = 1 /\ logs = {}
    /\ source = [s \in Source |-> [left |-> 0, at |-> 1]]
    /\ client = [c \in Client |-> NoPageYet]

Tick ==
    /\ clock < MaxClock /\ clock' = clock + 1
    /\ UNCHANGED <<logs, source, client>>

-----------------------------------------------------------------------------
(* The writers. *)

Writing == Cardinality({s \in Source : source[s].left > 0})

Records(s, entries) ==
    /\ source[s].left = 0 /\ Cardinality(logs) + Writing < MaxLogs
    /\ source' = [source EXCEPT ![s] = [left |-> entries, at |-> clock]]
    /\ UNCHANGED <<clock, logs, client>>

\* The pipeline of an application's task and the sink of a database's, which drops
\* the noise of a build; and the output of a container before it is removed.
RecordEvent(s) == Records(s, 1)
CaptureLogs(s) == Records(s, 1)

\* The monitor stores its entry, and so does the sink it then informs.
RecordVerdict(s) == Records(s, 2)

\* The next entry of an event is stamped when it is written.
AfterEntry(s) ==
    source' = [source EXCEPT ![s] = [left |-> @.left - 1, at |-> clock]]

Overtakes(e) == {c \in Client : client[c].open /\ e.at <= client[c].hi}

StoreEntry(s) ==
    LET e == [id |-> Cardinality(logs) + 1, at |-> source[s].at] IN
    /\ source[s].left > 0 /\ Cardinality(logs) < MaxLogs
    /\ logs' = logs \cup {e}
    /\ client' = [c \in Client |-> IF c \in Overtakes(e)
                                   THEN [client[c] EXCEPT !.late = @ \cup {e}] ELSE client[c]]
    /\ AfterEntry(s) /\ UNCHANGED clock

\* Every writer swallows the error of the log's database.
LoseEntry(s) ==
    /\ source[s].left > 0
    /\ AfterEntry(s) /\ UNCHANGED <<clock, logs, client>>

-----------------------------------------------------------------------------
(* deploy_logs_apiview. Entries of one stamp come in any order. *)

\* The subsets of found that an answer can be.
Answers(found) == kSubset(Min({PageLimit, Cardinality(found)}), found)

Latest(found) == {p \in Answers(found) : \A e \in p, f \in found \ p : e.at >= f.at}
Earliest(found) == {p \in Answers(found) : \A e \in p, f \in found \ p : e.at <= f.at}

Stamps(entries) == {e.at : e \in entries}

\* Without a cursor; an empty page has none to go on with.
OpenLog(c) ==
    /\ ~client[c].open /\ logs # {}
    /\ \E p \in Latest(logs) :
           client' = [client EXCEPT ![c] = [open |-> TRUE, lo |-> Min(Stamps(p)),
                                            hi |-> Max(Stamps(p)), has |-> p, late |-> {}]]
    /\ UNCHANGED <<clock, logs, source>>

\* Mutant: the oldest of the older entries.
OlderFirst(found) == Earliest(found)

Older(found) == Latest(found)

ScrollBack(c) ==
    LET found == {e \in logs : e.at < client[c].lo} IN
    /\ client[c].open /\ found # {}
    /\ \E p \in Older(found) :
           client' = [client EXCEPT ![c].lo = Min(Stamps(p)), ![c].has = @ \cup p]
    /\ UNCHANGED <<clock, logs, source>>

PollForward(c) ==
    LET found == {e \in logs : e.at > client[c].hi} IN
    /\ client[c].open /\ found # {}
    /\ \E p \in Earliest(found) :
           client' = [client EXCEPT ![c].hi = Max(Stamps(p)), ![c].has = @ \cup p]
    /\ UNCHANGED <<clock, logs, source>>

CloseLog(c) ==
    /\ client[c].open
    /\ client' = [client EXCEPT ![c] = NoPageYet]
    /\ UNCHANGED <<clock, logs, source>>

LogsNext ==
    \/ Tick
    \/ \E s \in Source : \/ RecordEvent(s) \/ CaptureLogs(s) \/ RecordVerdict(s)
                         \/ StoreEntry(s) \/ LoseEntry(s)
    \/ \E c \in Client : OpenLog(c) \/ ScrollBack(c) \/ PollForward(c) \/ CloseLog(c)

LogsSpec == LogsInit /\ [][LogsNext]_logsVars

-----------------------------------------------------------------------------

\* A page has every entry from its oldest to its newest one, however it scrolled
\* and polled, but for entries that share a stamp, of which a cut between two
\* answers loses some, and those stored with a stamp that the page was past.
\* deploy_logs_apiview.
LogComplete ==
    \A c \in Client : client[c].open =>
        \A e \in logs \ (client[c].has \cup client[c].late) :
            client[c].lo <= e.at /\ e.at <= client[c].hi
                => \E f \in logs \ {e} : f.at = e.at

=============================================================================
