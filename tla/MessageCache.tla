---------------------------- MODULE MessageCache ----------------------------
(***************************************************************************)
(* The hot window of a conversation: Redis keeps the ids and payloads of   *)
(* its newest messages and the bounds of that window. Requests write the   *)
(* database, then bring the window up to date after the commit, in jobs    *)
(* that interleave and that die with their process.                        *)
(***************************************************************************)
EXTENDS Integers, FiniteSets, FiniteSetsExt

CONSTANTS
    MaxId,        \* bound: the messages ever written, numbered as they come
    MaxEdits,     \* bound: the edits (or reactions) of a message
    CacheSize,    \* MESSAGE_CACHE_SIZE
    PageSize,     \* the longest page a client asks for
    Job           \* the requests whose cache work may be under way at a time

ASSUME MessageCacheAssumption ==
    /\ {MaxId, CacheSize, PageSize} \subseteq Nat \ {0} /\ MaxEdits \in Nat
    /\ IsFiniteSet(Job)

VARIABLES
    message,      \* the rows, by id
    window,       \* the Redis keys of the conversation
    job,          \* the cache work under way
    calm          \* no work has overlapped or been lost, and no message was
                  \* scheduled, since the window was last emptied or rebuilt

messageCacheVars == <<message, window, job, calm>>

Id == 1 .. MaxId

Blank == MaxEdits + 1     \* the body of a deleted message
Absent == -1              \* no payload key

\* held: is_scheduled, private to its sender until it is due.
MessageRow == [state : {"none", "held", "live", "deleted", "gone"}, body : 0 .. Blank]

NoMeta == [min |-> 0, max |-> 0]

Meta == [min : 0 .. MaxId, max : 0 .. MaxId]

WindowRow == [ids : SUBSET Id, payload : [Id -> Absent .. Blank], meta : Meta]

JobRow == [kind : {"none", "add", "update", "delete", "clear", "seed", "rebuild"},
           pc : {"read", "write", "bounds", "meta"}, id : Id,
           rows : [Id -> Absent .. Blank], meta : Meta]

MessageCacheTypeOK ==
    /\ message \in [Id -> MessageRow] /\ window \in WindowRow
    /\ job \in [Job -> JobRow] /\ calm \in BOOLEAN
    /\ Cardinality(window.ids) <= CacheSize

Nothing == [m \in Id |-> Absent]
EmptyWindow == [ids |-> {}, payload |-> Nothing, meta |-> NoMeta]
NoJob == [kind |-> "none", pc |-> "read", id |-> 1, rows |-> Nothing, meta |-> NoMeta]

MessageCacheInit ==
    /\ message = [m \in Id |-> [state |-> "none", body |-> 0]]
    /\ window = EmptyWindow
    /\ job = [j \in Job |-> NoJob]
    /\ calm = TRUE

-----------------------------------------------------------------------------

InState(states) == {m \in Id : message[m].state \in states}
Live == InState({"live"})

\* The n greatest ids of a set.
Newest(n, set) == {m \in set : Cardinality({k \in set : k > m}) < n}
Oldest(n, set) == {m \in set : Cardinality({k \in set : k < m}) < n}

Bounds(ids) == IF ids = {} THEN NoMeta ELSE [min |-> Min(ids), max |-> Max(ids)]

Bodies(set) == [m \in Id |-> IF m \in set THEN message[m].body ELSE Absent]

Working == {j \in Job : job[j].kind # "none"}

\* Work on its own leaves the window right, unless a scheduled message can slip in.
LoneWork(jobs) == Working \subseteq jobs /\ InState({"held"}) = {}

Lull == Working = {} /\ InState({"held"}) # {}

\* A request has committed; its job starts. Once work has overlapped, only what
\* empties or rebuilds the window comes next: a bound.
Enqueue(j, kind, m) ==
    /\ job[j].kind = "none" /\ (calm \/ kind = "clear" \/ Lull)
    /\ job' = [job EXCEPT ![j] = [NoJob EXCEPT !.kind = kind, !.id = m]]
    /\ calm' = (calm /\ Working = {})

-----------------------------------------------------------------------------
(* The requests. *)

\* Post, forward, and the system messages of the other requests.
PostMessage(j, m) ==
    /\ message[m].state = "none" /\ \A k \in 1 .. m - 1 : message[k].state # "none"
    /\ message' = [message EXCEPT ![m].state = "live"]
    /\ Enqueue(j, "add", m)
    /\ UNCHANGED window

\* A scheduled message has its id from the start and no cache work.
ScheduleMessage(m) ==
    /\ message[m].state = "none" /\ \A k \in 1 .. m - 1 : message[k].state # "none"
    /\ calm /\ Working = {}
    /\ message' = [message EXCEPT ![m].state = "held"]
    /\ calm' = FALSE
    /\ UNCHANGED <<window, job>>

\* Celery beat: it is published under its old id, with a new time.
DeliverMessage(j, m) ==
    /\ message[m].state = "held"
    /\ message' = [message EXCEPT ![m].state = "live"]
    /\ Enqueue(j, "add", m)
    /\ UNCHANGED window

CancelMessage(m) ==
    /\ message[m].state = "held"
    /\ message' = [message EXCEPT ![m] = [state |-> "deleted", body |-> Blank]]
    /\ UNCHANGED <<window, job, calm>>

\* An edit, a reaction, or the purge of a view-once file.
EditMessage(j, m) ==
    /\ message[m].state = "live" /\ message[m].body < MaxEdits
    /\ message' = [message EXCEPT ![m].body = @ + 1]
    /\ Enqueue(j, "update", m)
    /\ UNCHANGED window

DeleteMessage(j, m) ==
    /\ message[m].state \in {"live", "held", "deleted"}
    /\ message' = [message EXCEPT ![m] = [state |-> "deleted", body |-> Blank]]
    /\ Enqueue(j, "delete", m)
    /\ UNCHANGED window

\* Clear history: every row goes, then the window.
ClearHistory(j) ==
    /\ message' = [m \in Id |-> IF message[m].state = "none" THEN message[m]
                                ELSE [state |-> "gone", body |-> Blank]]
    /\ Enqueue(j, "clear", 1)
    /\ UNCHANGED window

\* get_message_window: a page is served when the bounds are known, cover it and
\* every payload is there. A latest page that misses seeds and rebuilds.
Complete(ids) == ids # {} /\ \A m \in ids : window.payload[m] # Absent

LatestMisses ==
    window.meta = NoMeta \/ ~Complete(Newest(PageSize, window.ids))

ReadLatest(j, sender) ==
    /\ LatestMisses
    /\ job[j].kind = "none" /\ (calm \/ Working = {})
    /\ LET page == Newest(PageSize, Live \cup IF sender THEN InState({"held"}) ELSE {}) IN
       /\ page # {}
       /\ job' = [job EXCEPT ![j] = [NoJob EXCEPT !.kind = "seed", !.pc = "write",
                                                  !.rows = Bodies(page)]]
    /\ calm' = (calm /\ Working = {})
    /\ UNCHANGED <<message, window>>

\* Any other page that misses an empty window has it rebuilt.
ReadOlder(j) ==
    /\ window.meta = NoMeta /\ Live # {}
    /\ job[j].kind = "none" /\ (calm \/ Working = {})
    /\ \A k \in Job : job[k].kind # "rebuild"
    /\ job' = [job EXCEPT ![j] = [NoJob EXCEPT !.kind = "rebuild"]]
    /\ calm' = (calm /\ Working = {})
    /\ UNCHANGED <<message, window>>

-----------------------------------------------------------------------------
(* The jobs, one round trip at a time. *)

Goto(j, pc) == job' = [job EXCEPT ![j].pc = pc]
Done(j) == job' = [job EXCEPT ![j] = NoJob]

\* An add or an update reads its row again.
Fetched(j) == Bodies({job[j].id} \ InState({"gone"}))

FetchMessage(j) ==
    /\ job[j].kind \in {"add", "update"} /\ job[j].pc = "read"
    /\ IF Fetched(j) = Nothing \/ (job[j].kind = "update" /\ job[j].id \notin window.ids)
       THEN Done(j)
       ELSE job' = [job EXCEPT ![j] = [@ EXCEPT !.pc = "write", !.rows = Fetched(j)]]
    /\ UNCHANGED <<message, window, calm>>

\* Mutant: nothing is trimmed.
Untrimmed(ids) == ids

Trimmed(ids) == Newest(CacheSize, ids)

AddMessage(j) ==
    LET m == job[j].id
        ids == Trimmed(window.ids \cup {m}) IN
    /\ job[j].kind = "add" /\ job[j].pc = "write"
    /\ window' = [window EXCEPT
           !.ids = ids,
           !.payload = [k \in Id |-> CASE k = m -> job[j].rows[m]
                                       [] k \in window.ids \ ids -> Absent
                                       [] OTHER -> window.payload[k]]]
    /\ Goto(j, "bounds")
    /\ UNCHANGED <<message, calm>>

UpdateMessage(j) ==
    /\ job[j].kind = "update" /\ job[j].pc = "write"
    /\ window' = [window EXCEPT !.payload[job[j].id] = job[j].rows[job[j].id]]
    /\ Done(j)
    /\ UNCHANGED <<message, calm>>

RemoveMessage(j) ==
    /\ job[j].kind = "delete" /\ job[j].pc = "read"
    /\ window' = [window EXCEPT !.ids = @ \ {job[j].id}, !.payload[job[j].id] = Absent]
    /\ Goto(j, "bounds")
    /\ UNCHANGED <<message, calm>>

\* The bounds are read, then written.
ReadBounds(j) ==
    /\ job[j].pc = "bounds"
    /\ job' = [job EXCEPT ![j] = [@ EXCEPT !.pc = "meta", !.meta = Bounds(window.ids)]]
    /\ UNCHANGED <<message, window, calm>>

WriteBounds(j) ==
    /\ job[j].pc = "meta"
    /\ window' = [window EXCEPT !.meta = job[j].meta]
    /\ Done(j)
    /\ UNCHANGED <<message, calm>>

ClearWindow(j) ==
    /\ job[j].kind = "clear"
    /\ window' = [EmptyWindow EXCEPT !.payload =
           [m \in Id |-> IF m \in window.ids THEN Absent ELSE window.payload[m]]]
    /\ Done(j)
    /\ calm' = (calm \/ LoneWork({j}))
    /\ UNCHANGED message

\* cache_messages: the window becomes the given rows, in one transaction.
Cached(rows) ==
    LET ids == Newest(CacheSize, {m \in Id : rows[m] # Absent}) IN
    IF ids = {} THEN window
    ELSE [ids |-> ids, meta |-> Bounds(ids),
          payload |-> [m \in Id |-> CASE m \in ids -> rows[m]
                                      [] m \in window.ids \ ids -> Absent
                                      [] OTHER -> window.payload[m]]]

\* The seed is followed by a rebuild, unless another one holds the lock.
SeedWindow(j) ==
    /\ job[j].kind = "seed"
    /\ window' = Cached(job[j].rows)
    /\ IF \E k \in Job : job[k].kind = "rebuild" THEN Done(j)
       ELSE job' = [job EXCEPT ![j] = [NoJob EXCEPT !.kind = "rebuild"]]
    /\ UNCHANGED <<message, calm>>

\* Mutant: the rebuild forgets to leave deleted messages out.
RebuildsDeleted == Newest(CacheSize, InState({"live", "deleted"}))

Rebuilds == Newest(CacheSize, Live)

RebuildWindow(j) ==
    /\ job[j].kind = "rebuild"
    /\ \/ /\ job[j].pc = "read"
          /\ job' = [job EXCEPT ![j] = [@ EXCEPT !.pc = "write", !.rows = Bodies(Rebuilds)]]
          /\ UNCHANGED window
       \/ job[j].pc = "write" /\ window' = Cached(job[j].rows) /\ Done(j)
    /\ UNCHANGED <<message, calm>>

\* The process dies, or Redis refuses: the exception is logged.
LoseJob(j) ==
    /\ job[j].kind # "none"
    /\ Done(j) /\ calm' = FALSE
    /\ UNCHANGED <<message, window>>

\* The ids and the bounds expire together; payloads have their own time.
ExpireWindow ==
    /\ window.ids # {}
    /\ window' = EmptyWindow
    /\ calm' = (calm \/ LoneWork({}))
    /\ UNCHANGED <<message, job>>

ExpirePayload(m) ==
    /\ calm /\ m \in window.ids /\ window.payload[m] # Absent
    /\ window' = [window EXCEPT !.payload[m] = Absent]
    /\ UNCHANGED <<message, job, calm>>

MessageCacheNext ==
    \/ \E j \in Job, m \in Id : \/ PostMessage(j, m) \/ DeliverMessage(j, m)
                                \/ EditMessage(j, m) \/ DeleteMessage(j, m)
    \/ \E m \in Id : ScheduleMessage(m) \/ CancelMessage(m) \/ ExpirePayload(m)
    \/ \E j \in Job, sender \in BOOLEAN : ReadLatest(j, sender)
    \/ \E j \in Job : \/ ReadOlder(j) \/ ClearHistory(j) \/ FetchMessage(j) \/ AddMessage(j)
                      \/ UpdateMessage(j) \/ RemoveMessage(j) \/ ReadBounds(j)
                      \/ WriteBounds(j) \/ ClearWindow(j) \/ SeedWindow(j)
                      \/ RebuildWindow(j) \/ LoseJob(j)
    \/ ExpireWindow

MessageCacheSpec == MessageCacheInit /\ [][MessageCacheNext]_messageCacheVars

-----------------------------------------------------------------------------
(* What a client is served, as the ids of the page. *)

Within(low, high) == {m \in window.ids : low <= m /\ m <= high}

Covers(m) == window.meta # NoMeta /\ window.meta.min <= m /\ m <= window.meta.max

\* Before an id, or the latest with before = MaxId + 1.
PageBefore(before, n) ==
    IF window.meta = NoMeta \/ window.meta.min >= before THEN {}
    ELSE Newest(n, Within(1, before - 1))

PageAfter(after, n) ==
    IF window.meta = NoMeta \/ after >= window.meta.max \/ after < window.meta.min - 1 THEN {}
    ELSE Oldest(n, Within(after + 1, window.meta.max))

PageAround(m, n) ==
    IF ~Covers(m) THEN {}
    ELSE Newest(n, Within(window.meta.min, m)) \cup Oldest(n, Within(m + 1, window.meta.max))

ServedWhole(page) == Complete(page)

-----------------------------------------------------------------------------

Quiet == calm /\ Working = {}

\* Scrolling through the window skips nothing and shows nothing that the
\* database would not: a page before, after or around an id is the one the
\* database gives, except that it may end at the bottom of the window.
\* It shows the messages as they are, to the last edit. get_message_window,
\* update_message, as long as jobs have not overlapped since it was emptied.
PagesAgree ==
    (Quiet /\ window.ids # {}) =>
        /\ \A m \in window.ids : window.payload[m] \in {Absent, message[m].body}
        /\ \A n \in 1 .. PageSize :
              /\ \A before \in 2 .. MaxId + 1 :
                    LET page == PageBefore(before, n) IN
                    ServedWhole(page) =>
                        page = Newest(Cardinality(page), {m \in Live : m < before})
              /\ \A after \in 0 .. MaxId :
                    LET page == PageAfter(after, n) IN
                    ServedWhole(page) => page = Oldest(n, {m \in Live : m > after})
              /\ \A m \in Id :
                    LET page == PageAround(m, n) IN
                    ServedWhole(page) =>
                        /\ \A k \in page : k \in Live
                        /\ \A k \in Live : Min(page) <= k /\ k <= Max(page) => k \in page

=============================================================================
