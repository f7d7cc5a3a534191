-------------------------------- MODULE Lists -------------------------------
(***************************************************************************)
(* The cached lists of services, tickets, users, plans and conversations,  *)
(* and the cached settings: a request is answered from the cache, or reads *)
(* the rows and then fills the cache. Who saves a row deletes the keys: in *)
(* the signal of the save, which may run before the transaction commits,   *)
(* and in many views once more, afterwards; settings and new messages only *)
(* afterwards. Tasks update rows in bulk, which sends no signal. The       *)
(* version of the rows stands for what the list shows of them.             *)
(***************************************************************************)
EXTENDS Naturals, FiniteSets

CONSTANTS
    Reader,       \* the requests for the list
    Writer,       \* the requests and tasks that change its rows
    MaxChanges    \* bound on the changes

ASSUME ListsAssumption == IsFiniteSet(Writer) /\ MaxChanges \in Nat

VARIABLES
    rows,       \* the version of the rows
    listed,     \* the cached list: present, version, excused
    reader,     \* the requests for the list
    writer      \* the changes

listsVars == <<rows, listed, reader, writer>>

\* excused: that the list is out of date is known from what has happened.
Page == [version : 0..MaxChanges, excused : BOOLEAN]
NoPage == [version |-> 0, excused |-> FALSE]

ListsTypeOK ==
    /\ rows \in 0..MaxChanges
    /\ listed \in [there : BOOLEAN, page : Page]
    /\ reader \in [Reader -> [at : {"idle", "missed", "read"}, page : Page]]
    /\ writer \in [Writer -> [at : {"idle", "saved", "committed"}, way : {"view", "signal"}]]

Unlisted == [there |-> FALSE, page |-> NoPage]

ListsInit ==
    /\ rows = 0 /\ listed = Unlisted
    /\ reader = [r \in Reader |-> [at |-> "idle", page |-> NoPage]]
    /\ writer = [w \in Writer |-> [at |-> "idle", way |-> "view"]]

-----------------------------------------------------------------------------
(* The list views. *)

AskList(r) ==
    /\ reader[r].at = "idle" /\ ~listed.there
    /\ reader' = [reader EXCEPT ![r].at = "missed"]
    /\ UNCHANGED <<rows, listed, writer>>

ReadRows(r) ==
    /\ reader[r].at = "missed"
    /\ reader' = [reader EXCEPT ![r] =
           [at |-> "read", page |-> [version |-> rows, excused |-> FALSE]]]
    /\ UNCHANGED <<rows, listed, writer>>

\* Redis may be unreachable.
FillList(r) ==
    /\ reader[r].at = "read"
    /\ reader' = [reader EXCEPT ![r] = [at |-> "idle", page |-> NoPage]]
    /\ listed' \in {[there |-> TRUE, page |-> reader[r].page], listed}
    /\ UNCHANGED <<rows, writer>>

ListExpires ==
    /\ listed.there /\ listed' = Unlisted
    /\ UNCHANGED <<rows, reader, writer>>

\* The dashboards of the staff flush a namespace or delete a key.
FlushLists ==
    /\ listed.there /\ listed' = Unlisted
    /\ UNCHANGED <<rows, reader, writer>>

-----------------------------------------------------------------------------
(* The changes. *)

Excuse(page) == [page EXCEPT !.excused = TRUE]

\* What was read before this change is still on its way into the cache.
Overtaken ==
    [r \in Reader |-> IF reader[r].at = "read"
                      THEN [reader[r] EXCEPT !.page = Excuse(@)] ELSE reader[r]]

\* Changes made or under way.
Changes == rows + Cardinality({w \in Writer : writer[w].at = "saved"})

\* cache_delete_pattern; an error is only logged.
Invalidate ==
    /\ reader' = Overtaken
    /\ listed' \in {Unlisted, [listed EXCEPT !.page = Excuse(@)]}

\* The signal of a save that is not committed yet: by a view that deletes the keys
\* itself afterwards, or by the admin pages, update_or_create and the other views.
Signal(w, way) ==
    /\ writer[w].at = "idle" /\ Changes < MaxChanges
    /\ writer' = [writer EXCEPT ![w] = [at |-> "saved", way |-> way]]
    /\ listed' \in {Unlisted, listed}
    /\ UNCHANGED <<rows, reader>>

\* Mutant: the signal is thought to be enough.
DeletesLaterNever(way) == FALSE

DeletesLater(way) == way = "view"

\* After an update in bulk, or a save whose only signal has been sent, nothing
\* deletes the keys.
Commit(w) ==
    /\ writer[w].at = "saved" /\ rows' = rows + 1
    /\ IF DeletesLater(writer[w].way)
       THEN writer' = [writer EXCEPT ![w].at = "committed"]
       ELSE writer' = [writer EXCEPT ![w].at = "idle"]
    /\ IF writer[w].way = "view" THEN UNCHANGED <<listed, reader>>
       ELSE listed' = [listed EXCEPT !.page = Excuse(@)] /\ reader' = Overtaken

\* A save that commits first; the keys are deleted afterwards.
CommitThenDelete(w) ==
    /\ writer[w].at = "idle" /\ Changes < MaxChanges
    /\ rows' = rows + 1
    /\ writer' = [writer EXCEPT ![w] = [at |-> "committed", way |-> "view"]]
    /\ UNCHANGED <<listed, reader>>

SetSetting(w) == CommitThenDelete(w)

\* run_after_commit: a new or a deleted message drops the members' conversation lists.
CommitMessage(w) == CommitThenDelete(w)

\* Nothing is deleted: the tasks' updates in bulk, and what a member changes of a
\* conversation that is not a message.
ChangeQuietly(w) ==
    /\ writer[w].at = "idle" /\ Changes < MaxChanges
    /\ rows' = rows + 1
    /\ listed' = [listed EXCEPT !.page = Excuse(@)] /\ reader' = Overtaken
    /\ UNCHANGED writer

InvalidateLater(w) ==
    /\ writer[w].at = "committed"
    /\ writer' = [writer EXCEPT ![w].at = "idle"]
    /\ Invalidate
    /\ UNCHANGED rows

ListsNext ==
    \/ \E r \in Reader : AskList(r) \/ ReadRows(r) \/ FillList(r)
    \/ ListExpires \/ FlushLists
    \/ \E w \in Writer : \/ \E way \in {"view", "signal"} : Signal(w, way)
                         \/ Commit(w) \/ SetSetting(w) \/ CommitMessage(w)
                         \/ ChangeQuietly(w) \/ InvalidateLater(w)

ListsSpec == ListsInit /\ [][ListsNext]_listsVars

-----------------------------------------------------------------------------

\* A cached list shows the rows as they are, unless it was read before a change
\* and put into the cache after the invalidation, was there when rows were
\* changed quietly, was filled within a save that only a signal announces, or could
\* not be deleted; and but for the moment before the view has deleted it.
\* invalidate_user_services, cache_signals, ServiceViewSet.list.
ListCurrent ==
    listed.there => \/ listed.page.version = rows
                    \/ listed.page.excused
                    \/ \E w \in Writer : writer[w].at = "committed"

=============================================================================
