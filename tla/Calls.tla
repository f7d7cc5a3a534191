------------------------------- MODULE Calls -------------------------------
(***************************************************************************)
(* The calls of a conversation. The requests lock the session; the Celery  *)
(* task that ends an unanswered call reads it and writes it without a lock.*)
(***************************************************************************)
EXTENDS Naturals

CONSTANTS
    Call,         \* the sessions that may be created
    MaxEnds       \* bound: the end messages of a call that are counted

ASSUME CallsAssumption == MaxEnds \in Nat \ {0}

VARIABLES
    call,         \* CallSession, with the number of its end messages
    ringer        \* the finalize_unanswered_call task of a call

callsVars == <<call, ringer>>

CallLive == {"ringing", "active"}
CallOver == {"ended", "missed", "declined", "no_answer"}

\* late: 30 seconds have passed. crossed: the session changed between the
\* task's read and its write.
CallRow == [status : {"none"} \cup CallLive \cup CallOver, late : BOOLEAN,
            answered : BOOLEAN, started : BOOLEAN, ends : 0 .. MaxEnds, crossed : BOOLEAN]

CallsTypeOK ==
    /\ call \in [Call -> CallRow]
    /\ ringer \in [Call -> {"none", "queued", "read", "done"}]

CallsInit ==
    /\ call = [c \in Call |-> [status |-> "none", late |-> FALSE, answered |-> FALSE,
                               started |-> FALSE, ends |-> 0, crossed |-> FALSE]]
    /\ ringer = [c \in Call |-> "none"]

-----------------------------------------------------------------------------

\* Mutant: the in-memory status decides nothing.
FinishAgain(row, status) ==
    [row EXCEPT !.status = status, !.ends = IF @ < MaxEnds THEN @ + 1 ELSE @]

\* _finish_call: a session that is over is left alone; one end message is posted.
Finish(row, status) ==
    IF row.status \in CallOver THEN row
    ELSE [row EXCEPT !.status = status, !.ends = IF @ < MaxEnds THEN @ + 1 ELSE @]

\* Whatever a locked request does to a session the task has read is crossed.
Locked(c, row) == [row EXCEPT !.crossed = @ \/ ringer[c] = "read"]

\* A late ringing session is finished first; any other one refuses the call. The
\* unique constraint settles two starts at once.
StartCall(c) ==
    LET stale == {d \in Call : call[d].status = "ringing" /\ call[d].late} IN
    /\ call[c].status = "none"
    /\ \A d \in Call : call[d].status \in CallLive => d \in stale
    /\ call' = [d \in Call |-> CASE d = c -> [call[d] EXCEPT !.status = "ringing"]
                                 [] d \in stale -> Locked(d, Finish(call[d], "no_answer"))
                                 [] OTHER -> call[d]]
    /\ UNCHANGED ringer

\* The start message and the task come after the transaction, or never.
AnnounceCall(c) ==
    /\ call[c].status # "none" /\ ~call[c].started /\ ringer[c] = "none"
    /\ call' = [call EXCEPT ![c].started = TRUE]
    /\ \E scheduled \in BOOLEAN :
          ringer' = [ringer EXCEPT ![c] = IF scheduled THEN "queued" ELSE "done"]

RingTimeout(c) ==
    /\ call[c].status \in CallLive /\ ~call[c].late
    /\ call' = [call EXCEPT ![c].late = TRUE]
    /\ UNCHANGED ringer

\* Mutant: joining does not ask whether the call is over.
JoinAnyCall(c) ==
    /\ call[c].status # "none"
    /\ call' = [call EXCEPT ![c] = Locked(c, [@ EXCEPT !.status = "active", !.answered = TRUE])]
    /\ UNCHANGED ringer

JoinCall(c) ==
    /\ call[c].status \in CallLive
    /\ call' = [call EXCEPT ![c] =
           IF call[c].status = "active" THEN @
           ELSE Locked(c, [@ EXCEPT !.status = "active", !.answered = TRUE])]
    /\ UNCHANGED ringer

\* A caller who hangs up while it rings leaves a missed call.
EndCall(c) ==
    \E final \in CallOver :
        /\ call[c].status # "none"
        /\ call' = [call EXCEPT ![c] = Locked(c, Finish(@, final))]
        /\ UNCHANGED ringer

\* Asking for the active call ends a late one, read again under the lock.
AskActive(c) ==
    /\ call[c].status = "ringing" /\ call[c].late
    /\ call' = [call EXCEPT ![c] = Locked(c, Finish(@, "no_answer"))]
    /\ UNCHANGED ringer

RingerReads(c) ==
    /\ ringer[c] = "queued" /\ (call[c].status \in CallLive => call[c].late)
    /\ ringer' = [ringer EXCEPT ![c] = IF call[c].status = "ringing" THEN "read" ELSE "done"]
    /\ UNCHANGED call

\* It writes by the status it read: _finish_call tests the copy, not the row.
RingerEnds(c) ==
    /\ ringer[c] = "read"
    /\ call' = [call EXCEPT ![c] = Finish([@ EXCEPT !.status = "ringing"], "no_answer")]
    /\ ringer' = [ringer EXCEPT ![c] = "done"]

RingerLost(c) ==
    /\ ringer[c] \in {"queued", "read"}
    /\ ringer' = [ringer EXCEPT ![c] = "done"]
    /\ UNCHANGED call

CallsNext ==
    \E c \in Call : \/ StartCall(c) \/ AnnounceCall(c) \/ RingTimeout(c) \/ JoinCall(c)
                    \/ EndCall(c) \/ AskActive(c) \/ RingerReads(c) \/ RingerEnds(c)
                    \/ RingerLost(c)

CallsSpec == CallsInit /\ [][CallsNext]_callsVars

-----------------------------------------------------------------------------

\* A call is announced as over exactly once, whoever ends it and however often,
\* unless the task crossed another end. _finish_call and its callers.
CallEndsOnce ==
    \A c \in Call :
        call[c].crossed \/ call[c].ends = IF call[c].status \in CallOver THEN 1 ELSE 0

\* The verdict on a call stands, duration and end message included: only the
\* task that read the session before it was over writes another one.
CallVerdictKept ==
    [][\A c \in Call :
         (call[c].status \in CallOver /\ call'[c] # call[c]) =>
             call'[c].crossed \/ call'[c] = [call[c] EXCEPT !.started = TRUE]]_callsVars

=============================================================================
