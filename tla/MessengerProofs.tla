-------------------------- MODULE MessengerProofs --------------------------
(***************************************************************************)
(* The messenger, for any number of calls, sockets, members and messages.  *)
(***************************************************************************)
EXTENDS Calls, Presence, Groups, FiniteSetTheorems, TLAPS

-----------------------------------------------------------------------------
(* Calls. *)

\* Unless the task crossed another end, a session has one end message when it is
\* over and none before, and a session the task has read still rings.
CallCounted(row, task) ==
    \/ row.crossed
    \/ /\ row.ends = IF row.status \in CallOver THEN 1 ELSE 0
       /\ task = "read" => row.status = "ringing"

CallsInv == CallsTypeOK /\ \A c \in Call : CallCounted(call[c], ringer[c])

\* Finishing a session posts its one end message, or leaves it alone when it is over.
LEMMA FinishCounted ==
    ASSUME NEW row \in CallRow, NEW task, NEW status \in CallOver, row.status # "none",
           CallCounted(row, task)
    PROVE  /\ Finish(row, status) \in CallRow
           /\ Finish(row, status).status \in CallOver
           /\ Finish(row, status).crossed = row.crossed
           /\ row.crossed \/ Finish(row, status).ends = 1
<1>1. CASE row.status \in CallOver
  BY <1>1 DEF Finish, CallCounted
<1>2. CASE row.status \notin CallOver
  <2>1. row.ends \in 0..MaxEnds
    BY DEF CallRow
  <2>2. row.ends < MaxEnds => row.ends + 1 \in 0..MaxEnds
    BY <2>1, CallsAssumption
  <2>3. Finish(row, status) = [row EXCEPT !.status = status,
                                   !.ends = IF row.ends < MaxEnds THEN row.ends + 1 ELSE row.ends]
    BY <1>2 DEF Finish
  <2>4. Finish(row, status) \in CallRow
    BY <2>1, <2>2, <2>3 DEF CallRow
  <2>5. row.crossed \/ row.ends = 0
    BY <1>2 DEF CallCounted
  <2> QED
    BY <2>3, <2>4, <2>5, CallsAssumption DEF CallRow
<1> QED
  BY <1>1, <1>2

\* Under the lock of a request a finished session stays counted: the task that has
\* read it is the one that crosses it.
LEMMA LockedCounted ==
    ASSUME CallsTypeOK, NEW c \in Call, NEW row \in CallRow,
           row.crossed \/ row.ends = IF row.status \in CallOver THEN 1 ELSE 0
    PROVE  /\ Locked(c, row) \in CallRow
           /\ CallCounted(Locked(c, row), ringer[c])
<1>1. ringer[c] = "read" => Locked(c, row).crossed
  BY DEF Locked, CallRow
<1>2. ringer[c] # "read" => Locked(c, row) = row
  BY DEF Locked, CallRow
<1>3. Locked(c, row) \in CallRow
  BY DEF Locked, CallRow
<1> QED
  BY <1>1, <1>2, <1>3 DEF CallCounted

\* The step of one call: its session and its task, which the others do not touch,
\* save that a new call finishes the late ones.
LEMMA CallsInductive == CallsInv /\ [CallsNext]_callsVars => CallsInv'
<1> SUFFICES ASSUME CallsInv, [CallsNext]_callsVars PROVE CallsInv'
  OBVIOUS
<1>1. /\ call \in [Call -> CallRow]
      /\ ringer \in [Call -> {"none", "queued", "read", "done"}]
      /\ CallsTypeOK
      /\ \A c \in Call : call[c] \in CallRow /\ CallCounted(call[c], ringer[c])
  BY DEF CallsInv, CallsTypeOK
<1>2. ASSUME NEW c \in Call, NEW row \in CallRow,
             call' = [call EXCEPT ![c] = row], UNCHANGED ringer, CallCounted(row, ringer[c])
      PROVE  CallsInv'
  BY <1>1, <1>2 DEF CallsInv, CallsTypeOK
<1>3. ASSUME NEW c \in Call, NEW status \in CallOver, call[c].status # "none"
      PROVE  LET row == Locked(c, Finish(call[c], status))
             IN  row \in CallRow /\ CallCounted(row, ringer[c])
  BY <1>1, <1>3, FinishCounted, LockedCounted
<1>4. ASSUME NEW c \in Call, StartCall(c)
      PROVE  CallsInv'
  <2> DEFINE stale == {d \in Call : call[d].status = "ringing" /\ call[d].late}
             rung == [call[c] EXCEPT !.status = "ringing"]
  <2>1. rung \in CallRow /\ CallCounted(rung, ringer[c])
    BY <1>1, <1>4 DEF StartCall, CallRow, CallLive, CallOver, CallCounted
  <2>2. ASSUME NEW d \in Call
        PROVE  call'[d] \in CallRow /\ CallCounted(call'[d], ringer[d])
    <3>1. CASE d = c
      BY <1>4, <2>1, <3>1 DEF StartCall
    <3>2. CASE d # c /\ d \in stale
      <4>1. call'[d] = Locked(d, Finish(call[d], "no_answer"))
        BY <1>4, <3>2 DEF StartCall
      <4> QED
        BY <1>3, <3>2, <4>1 DEF CallOver
    <3>3. CASE d # c /\ d \notin stale
      <4>1. call'[d] = call[d]
        BY <1>4, <3>3 DEF StartCall
      <4> QED
        BY <1>1, <4>1
    <3> QED
      BY <3>1, <3>2, <3>3
  <2>3. call' \in [Call -> CallRow]
    <3>1. \A d \in Call : call'[d] \in CallRow
      BY <2>2
    <3>2. call' = [d \in Call |-> call'[d]]
      BY <1>4 DEF StartCall
    <3> QED
      BY <3>1, <3>2
  <2> QED
    BY <1>1, <1>4, <2>2, <2>3 DEF CallsInv, CallsTypeOK, StartCall
<1>5. ASSUME NEW c \in Call, AnnounceCall(c)
      PROVE  CallsInv'
  BY ZenonT(30), <1>1, <1>5 DEF AnnounceCall, CallsInv, CallsTypeOK, CallRow, CallCounted
<1>6. ASSUME NEW c \in Call, RingTimeout(c)
      PROVE  CallsInv'
  BY ZenonT(30), <1>1, <1>6 DEF RingTimeout, CallsInv, CallsTypeOK, CallRow, CallCounted
<1>7. ASSUME NEW c \in Call, JoinCall(c)
      PROVE  CallsInv'
  <2> DEFINE joined == [call[c] EXCEPT !.status = "active", !.answered = TRUE]
             row == IF call[c].status = "active" THEN call[c] ELSE Locked(c, joined)
  <2>1. joined \in CallRow /\ joined.status = "active"
        /\ joined.crossed = call[c].crossed /\ joined.ends = call[c].ends
    BY <1>1 DEF CallRow, CallLive
  <2>2. joined.crossed \/ joined.ends = IF joined.status \in CallOver THEN 1 ELSE 0
    BY <1>1, <1>7, <2>1 DEF JoinCall, CallLive, CallOver, CallCounted
  <2>3. row \in CallRow /\ CallCounted(row, ringer[c])
    BY <1>1, <2>1, <2>2, LockedCounted
  <2>4. call' = [call EXCEPT ![c] = row] /\ UNCHANGED ringer
    BY <1>7 DEF JoinCall
  <2> HIDE DEF row
  <2> QED
    BY <1>2, <2>3, <2>4
<1>8. ASSUME NEW c \in Call, EndCall(c) \/ AskActive(c)
      PROVE  CallsInv'
  <2>1. PICK status \in CallOver :
           /\ call[c].status # "none" /\ UNCHANGED ringer
           /\ call' = [call EXCEPT ![c] = Locked(c, Finish(call[c], status))]
    BY <1>8 DEF EndCall, AskActive, CallOver
  <2> QED
    BY <1>2, <1>3, <2>1
<1>9. ASSUME NEW c \in Call, RingerReads(c)
      PROVE  CallsInv'
  BY <1>1, <1>9 DEF RingerReads, CallsInv, CallsTypeOK, CallCounted
<1>10. ASSUME NEW c \in Call, RingerEnds(c)
       PROVE  CallsInv'
  <2> DEFINE read == [call[c] EXCEPT !.status = "ringing"]
             row == Finish(read, "no_answer")
  <2>1. read \in CallRow /\ read.crossed = call[c].crossed /\ read.status = "ringing"
    BY <1>1 DEF CallRow, CallLive
  <2>2. CallCounted(read, "read")
    BY <1>1, <1>10, <2>1 DEF RingerEnds, CallCounted, CallRow, CallOver
  <2>3. /\ row \in CallRow /\ row.status \in CallOver /\ row.crossed = read.crossed
        /\ read.crossed \/ row.ends = 1
    BY <2>1, <2>2, FinishCounted DEF CallOver
  <2>4. call' = [call EXCEPT ![c] = row] /\ ringer' = [ringer EXCEPT ![c] = "done"]
    BY <1>10 DEF RingerEnds
  <2> HIDE DEF row, read
  <2>5. CallCounted(row, "done")
    BY <2>3 DEF CallCounted
  <2> QED
    BY <1>1, <2>3, <2>4, <2>5 DEF CallsInv, CallsTypeOK
<1>11. ASSUME NEW c \in Call, RingerLost(c)
       PROVE  CallsInv'
  BY <1>1, <1>11 DEF RingerLost, CallsInv, CallsTypeOK, CallCounted
<1>12. CASE UNCHANGED callsVars
  BY <1>12 DEF callsVars, CallsInv, CallsTypeOK
<1> QED
  BY <1>4, <1>5, <1>6, <1>7, <1>8, <1>9, <1>10, <1>11, <1>12 DEF CallsNext

\* The invariant holds in every reachable state.
THEOREM CallsInvariant == CallsSpec => []CallsInv
<1>1. CallsInit => CallsInv
  BY CallsAssumption DEF CallsInit, CallsInv, CallsTypeOK, CallRow, CallCounted, CallOver
<1> QED
  BY <1>1, CallsInductive, PTL DEF CallsSpec

\* A call that no unlocked write of the ringing task has crossed has one end message
\* when it is over, and none while it rings or is active.
THEOREM CallsEndOnce == CallsSpec => []CallEndsOnce
<1>1. CallsInv => CallEndsOnce
  BY DEF CallsInv, CallCounted, CallEndsOnce
<1> QED
  BY <1>1, CallsInvariant, PTL

\* Nothing is written over the verdict on a call, except by the task that had read
\* the session before the verdict fell.
THEOREM CallVerdictsStand == CallsSpec => CallVerdictKept
<1>1. ASSUME CallsInv, CallsNext, NEW d \in Call,
             call[d].status \in CallOver, call'[d] # call[d]
      PROVE  call'[d].crossed \/ call'[d] = [call[d] EXCEPT !.started = TRUE]
  <2>1. call \in [Call -> CallRow] /\ call[d] \in CallRow
    BY <1>1 DEF CallsInv, CallsTypeOK
  <2>2. \A status : Finish(call[d], status) = call[d]
    BY <1>1 DEF Finish
  <2>3. Locked(d, call[d]) # call[d] => Locked(d, call[d]).crossed
    BY <2>1 DEF Locked, CallRow
  <2>4. ASSUME NEW c \in Call, StartCall(c)
        PROVE  call'[d].crossed
    BY <1>1, <2>1, <2>4 DEF StartCall, CallOver
  <2>5. ASSUME NEW c \in Call, AnnounceCall(c)
        PROVE  call'[d] = [call[d] EXCEPT !.started = TRUE]
    BY <1>1, <2>1, <2>5 DEF AnnounceCall
  <2>6. ASSUME NEW c \in Call, RingTimeout(c) \/ JoinCall(c)
        PROVE  FALSE
    BY <1>1, <2>1, <2>6 DEF RingTimeout, JoinCall, CallLive, CallOver
  <2>7. ASSUME NEW c \in Call, EndCall(c) \/ AskActive(c)
        PROVE  call'[d].crossed
    <3>1. call'[d] = Locked(d, call[d])
      BY <1>1, <2>1, <2>2, <2>7 DEF EndCall, AskActive
    <3> QED
      BY <1>1, <2>3, <3>1
  <2>8. ASSUME NEW c \in Call, RingerReads(c) \/ RingerLost(c)
        PROVE  FALSE
    BY <1>1, <2>8 DEF RingerReads, RingerLost
  <2>9. ASSUME NEW c \in Call, RingerEnds(c)
        PROVE  call'[d].crossed
    <3>1. c = d /\ call[d].crossed
      BY <1>1, <2>1, <2>9 DEF RingerEnds, CallsInv, CallCounted, CallOver
    <3>2. call'[d] = Finish([call[d] EXCEPT !.status = "ringing"], "no_answer")
      BY <2>1, <2>9, <3>1 DEF RingerEnds
    <3> QED
      BY <2>1, <3>1, <3>2 DEF Finish, CallRow, CallOver
  <2> QED
    BY <1>1, <2>4, <2>5, <2>6, <2>7, <2>8, <2>9 DEF CallsNext
<1>2. CallsInv /\ [CallsNext]_callsVars =>
        [\A c \in Call :
           (call[c].status \in CallOver /\ call'[c] # call[c]) =>
             call'[c].crossed \/ call'[c] = [call[c] EXCEPT !.started = TRUE]]_callsVars
  BY <1>1
<1> QED
  BY <1>2, CallsInvariant, PTL DEF CallsSpec, CallVerdictKept

-----------------------------------------------------------------------------
(* Presence. *)

\* The sockets whose consumer has counted itself and has not counted itself out.
Counted == {s \in Socket : socket[s].pc \in {"flag", "tell", "open", "drop"}}

\* Consumers do not overlap.
OneMoves == \A s, t \in Socket : AtRest(s) \/ AtRest(t) \/ s = t

\* The counter is right at every command: it is not there, or zero, only when
\* nobody is counted.
CountTrue ==
    IF Counted = {} THEN online.count \in {0, NoCount} ELSE online.count = Cardinality(Counted)

\* What flag and last broadcast say while a consumer is between two commands, and
\* what it remembers: whether somebody else is online.
Shown == Open # {}

ToldBy(s) ==
    LET pc == socket[s].pc IN
    /\ pc \in {"check", "count"} => (online.flag <=> Shown)
    /\ pc \in {"check", "count", "flag", "tell"} => (online.told <=> Shown)
    /\ pc \in {"count", "flag", "tell"} => (socket[s].news <=> ~Shown)
    /\ pc \in {"tell", "drop"} => online.flag
    /\ pc \in {"drop", "forget", "unflag", "untell"} => online.told
    /\ pc \in {"forget", "unflag", "untell"} => ~Shown
    /\ pc = "untell" => ~online.flag

ToldAtRest ==
    (\A s \in Socket : AtRest(s)) => (online.flag <=> Shown) /\ (online.told <=> Shown)

SteadyTrue == OneMoves /\ CountTrue /\ ToldAtRest /\ \A s \in Socket : ToldBy(s)

PresenceInv == PresenceTypeOK /\ (steady => SteadyTrue)

\* The counted sockets are finitely many, fewer than the value that stands for a
\* missing key.
LEMMA CountedFinite ==
    /\ IsFiniteSet(Counted) /\ Cardinality(Counted) \in Nat
    /\ Cardinality(Socket) \in Nat /\ Cardinality(Counted) < NoCount
    /\ Counted = {} <=> Cardinality(Counted) = 0
<1>1. Counted \subseteq Socket
  BY DEF Counted
<1>2. /\ IsFiniteSet(Counted) /\ Cardinality(Counted) \in Nat
      /\ Cardinality(Socket) \in Nat /\ Cardinality(Counted) <= Cardinality(Socket)
  BY <1>1, PresenceAssumption, FS_Subset, FS_CardinalityType
<1>3. Counted = {} <=> Cardinality(Counted) = 0
  BY <1>2, FS_EmptySet
<1> QED
  BY <1>2, <1>3 DEF NoCount

\* One consumer moves and the others stay: what becomes of the sets of sockets.
LEMMA SocketMoves ==
    ASSUME PresenceTypeOK, NEW s \in Socket, NEW r \in [pc : SocketPC, news : BOOLEAN],
           socket' = [socket EXCEPT ![s] = r]
    PROVE  /\ socket' \in [Socket -> [pc : SocketPC, news : BOOLEAN]]
           /\ socket'[s] = r
           /\ \A t \in Socket : t # s => socket'[t] = socket[t]
           /\ Open' = IF r.pc = "open" THEN Open \cup {s} ELSE Open \ {s}
           /\ Counted' = IF r.pc \in {"flag", "tell", "open", "drop"}
                         THEN Counted \cup {s} ELSE Counted \ {s}
BY DEF PresenceTypeOK, Open, Counted

\* Every command keeps the invariant. A consumer alone between two commands finds
\* the keys as the others left them, and only pings come in between.
LEMMA PresenceInductive == PresenceInv /\ [PresenceNext]_presenceVars => PresenceInv'
<1> SUFFICES ASSUME PresenceInv, [PresenceNext]_presenceVars PROVE PresenceInv'
  OBVIOUS
<1> DEFINE record == [pc : SocketPC, news : BOOLEAN]
<1>1. /\ PresenceTypeOK /\ socket \in [Socket -> record]
      /\ online \in [count : 0 .. NoCount, flag : BOOLEAN, told : BOOLEAN]
      /\ steady \in BOOLEAN /\ NoCount \in Nat /\ 0 \in 0..NoCount /\ NoCount \in 0..NoCount
  BY CountedFinite DEF PresenceInv, PresenceTypeOK, NoCount
<1>2. ASSUME NEW s \in Socket, NEW pc \in SocketPC, SocketTo(s, pc)
      PROVE  \E r \in record : r = [socket[s] EXCEPT !.pc = pc]
                               /\ socket' = [socket EXCEPT ![s] = r]
  BY <1>1, <1>2 DEF SocketTo
<1>3. ASSUME NEW s \in Socket, Connect(s) \/ Disconnect(s)
      PROVE  PresenceInv'
  <2>1. PICK from \in {"closed", "open"}, pc \in {"check", "drop"} :
             /\ (from = "closed" /\ pc = "check") \/ (from = "open" /\ pc = "drop")
             /\ SocketStarts(s, from, pc)
    BY <1>3 DEF Connect, Disconnect
  <2>2. PICK r \in record : r = [socket[s] EXCEPT !.pc = pc]
                            /\ socket' = [socket EXCEPT ![s] = r]
    BY <1>2, <2>1 DEF SocketStarts, SocketPC
  <2>3. r.pc = pc
    BY <1>1, <2>2
  <2>4. PresenceTypeOK'
    BY <1>1, <2>1, <2>2, SocketMoves DEF PresenceTypeOK, SocketStarts
  <2>5. ASSUME steady'
        PROVE  SteadyTrue'
    <3>1. SteadyTrue /\ (\A t \in Socket : AtRest(t)) /\ UNCHANGED online
      BY <2>1, <2>5 DEF SocketStarts, PresenceInv
    <3>2. OneMoves'
      BY <1>1, <2>2, <3>1, SocketMoves DEF OneMoves, AtRest
    <3>3. Counted' = Counted
      BY <1>1, <2>1, <2>2, <2>3, SocketMoves DEF Counted, SocketStarts
    <3>4. CountTrue'
      BY <3>1, <3>3 DEF SteadyTrue, CountTrue
    <3>5. ToldAtRest'
      BY <1>1, <2>1, <2>2, <2>3, SocketMoves DEF ToldAtRest, AtRest
    <3>6. pc = "check" => Open' = Open
      BY <1>1, <2>1, <2>2, <2>3, SocketMoves DEF Open, SocketStarts
    <3>7. pc = "drop" => Shown
      BY <2>1 DEF Open, SocketStarts, Shown
    <3>8. (online.flag <=> Shown) /\ (online.told <=> Shown)
      BY <3>1 DEF SteadyTrue, ToldAtRest
    <3>9. ToldBy(s)'
      BY <1>1, <2>1, <2>2, <2>3, <3>1, <3>6, <3>7, <3>8, SocketMoves DEF ToldBy, Shown
    <3>10. \A t \in Socket : t # s => ToldBy(t)'
      BY <1>1, <2>2, <3>1, SocketMoves DEF ToldBy, AtRest
    <3> QED
      BY <3>2, <3>4, <3>5, <3>9, <3>10 DEF SteadyTrue
  <2> QED
    BY <2>4, <2>5 DEF PresenceInv
<1>4. ASSUME NEW s \in Socket, NEW r \in record, ~AtRest(s),
             socket' = [socket EXCEPT ![s] = r], UNCHANGED steady,
             online' \in [count : 0 .. NoCount, flag : BOOLEAN, told : BOOLEAN],
             SteadyTrue => CountTrue' /\ ToldAtRest' /\ ToldBy(s)'
      PROVE  PresenceInv'
  <2>1. PresenceTypeOK'
    BY <1>1, <1>4, SocketMoves DEF PresenceTypeOK
  <2>2. ASSUME SteadyTrue
        PROVE  OneMoves' /\ \A t \in Socket : t # s => ToldBy(t)'
    <3>1. \A t \in Socket : t # s => AtRest(t) /\ AtRest(t)'
      BY <1>1, <1>4, <2>2, SocketMoves DEF SteadyTrue, OneMoves, AtRest
    <3> QED
      BY <3>1 DEF OneMoves, AtRest, ToldBy
  <2> QED
    BY <1>4, <2>1, <2>2 DEF PresenceInv, SteadyTrue

<1>5. ASSUME NEW s \in Socket, ~AtRest(s), SteadyTrue
      PROVE  s \notin Open /\ Counted \ {s} = Open
  BY <1>5 DEF SteadyTrue, OneMoves, AtRest, Open, Counted
<1>6. ASSUME NEW s \in Socket, CheckFlag(s)
      PROVE  PresenceInv'
  <2> DEFINE r == [pc |-> "count", news |-> ~online.flag]
  <2>1. r \in record /\ socket' = [socket EXCEPT ![s] = r] /\ UNCHANGED <<online, steady>>
    BY <1>1, <1>6 DEF CheckFlag, SocketPC
  <2>2. ~AtRest(s) /\ socket[s].pc = "check"
    BY <1>6 DEF CheckFlag, AtRest
  <2>3. ASSUME SteadyTrue
        PROVE  CountTrue' /\ ToldAtRest' /\ ToldBy(s)'
    <3> HIDE DEF r
    <3>0. Counted' = Counted \ {s} /\ Open' = Open \ {s}
      <4>1. r.pc = "count"
        BY DEF r
      <4> QED
        BY <1>1, <2>1, <4>1, SocketMoves
    <3>1. Counted' = Counted /\ Open' = Open
      BY <1>5, <2>2, <2>3, <3>0 DEF Counted
    <3> USE DEF r
    <3>2. ~AtRest(s)'
      BY <1>1, <2>1, SocketMoves DEF AtRest
    <3>3. ToldBy(s) /\ CountTrue
      BY <2>3 DEF SteadyTrue
    <3>4. ToldBy(s)'
      BY <1>1, <2>1, <2>2, <3>1, <3>3, SocketMoves DEF ToldBy, Shown
    <3> QED
      BY <2>1, <3>1, <3>2, <3>3, <3>4 DEF CountTrue, ToldAtRest
  <2> HIDE DEF r
  <2> QED
    BY <1>1, <1>4, <2>1, <2>2, <2>3
<1>7. ASSUME NEW s \in Socket, CountSocket(s)
      PROVE  PresenceInv'
  <2> DEFINE count == IF online.count = NoCount THEN 1 ELSE online.count + 1
             r == [pc |-> "flag", news |-> socket[s].news \/ count = 1]
  <2>1. /\ socket[s].pc = "count" /\ count < NoCount /\ count \in 0..NoCount
        /\ online' = [online EXCEPT !.count = count]
        /\ UNCHANGED steady
    BY <1>1, <1>7 DEF CountSocket
  <2>2. r \in record /\ socket' = [socket EXCEPT ![s] = r]
    BY <1>1, <1>7 DEF CountSocket, SocketPC
  <2>3. /\ online' \in [count : 0 .. NoCount, flag : BOOLEAN, told : BOOLEAN]
        /\ online'.count = count /\ online'.flag = online.flag /\ online'.told = online.told
    BY <1>1, <2>1
  <2>4. ~AtRest(s)
    BY <2>1 DEF AtRest
  <2>5. ASSUME SteadyTrue
        PROVE  CountTrue' /\ ToldAtRest' /\ ToldBy(s)'
    <3>1. s \notin Counted /\ Counted = Open
      BY <1>5, <2>1, <2>4, <2>5 DEF Counted
    <3>2. Counted' = Counted \cup {s} /\ Open' = Open
      <4> HIDE DEF r
      <4>1. r.pc = "flag"
        BY DEF r
      <4>2. Counted' = Counted \cup {s} /\ Open' = Open \ {s}
        BY <1>1, <2>2, <4>1, SocketMoves
      <4> QED
        BY <1>5, <2>4, <2>5, <4>2
    <3>3. Cardinality(Counted') = Cardinality(Counted) + 1
      BY <3>1, <3>2, CountedFinite, FS_AddElement
    <3>4. count = Cardinality(Counted) + 1
      BY <1>1, <2>5, CountedFinite DEF SteadyTrue, CountTrue
    <3>5. CountTrue'
      BY <2>3, <3>2, <3>3, <3>4 DEF CountTrue
    <3>6. ToldAtRest'
      BY <1>1, <2>2, SocketMoves DEF ToldAtRest, AtRest
    <3>7. socket'[s].pc = "flag" /\ (socket'[s].news <=> ~Shown)
      <4>1. socket[s].news <=> ~Shown
        BY <2>1, <2>5 DEF SteadyTrue, ToldBy
      <4>2. Shown => count # 1
        BY <3>1, <3>4, CountedFinite DEF Shown
      <4>3. socket'[s] = r
        BY <1>1, <2>2, SocketMoves
      <4>4. r.pc = "flag" /\ r.news = (socket[s].news \/ count = 1)
        OBVIOUS
      <4> HIDE DEF r, count
      <4> QED
        BY <4>1, <4>2, <4>3, <4>4
    <3>8. ToldBy(s)'
      BY <2>1, <2>3, <2>5, <3>2, <3>7 DEF SteadyTrue, ToldBy, Shown
    <3> QED
      BY <3>5, <3>6, <3>8
  <2> HIDE DEF r
  <2> QED
    BY <1>4, <2>1, <2>2, <2>3, <2>4, <2>5
<1>8. ASSUME NEW s \in Socket, FlagOnline(s) \/ TellOnline(s)
      PROVE  PresenceInv'
  <2>1. PICK pc \in {"tell", "open"} :
             /\ SocketTo(s, pc) /\ UNCHANGED steady
             /\ \/ pc = "tell" /\ socket[s].pc = "flag" /\ online' = [online EXCEPT !.flag = TRUE]
                \/ /\ pc = "open" /\ socket[s].pc = "tell"
                   /\ online' = [online EXCEPT !.told = @ \/ socket[s].news]
    BY <1>8 DEF FlagOnline, TellOnline
  <2>2. PICK r \in record : r = [socket[s] EXCEPT !.pc = pc]
                            /\ socket' = [socket EXCEPT ![s] = r]
    BY <1>2, <2>1 DEF SocketPC
  <2>3. /\ online' \in [count : 0 .. NoCount, flag : BOOLEAN, told : BOOLEAN]
        /\ online'.count = online.count
    BY <1>1, <2>1
  <2>4. ~AtRest(s) /\ s \in Counted
    BY <2>1 DEF AtRest, Counted
  <2>5. r.pc = pc /\ r.news = socket[s].news /\ socket'[s] = r
    BY <1>1, <2>2, SocketMoves
  <2>6. ASSUME SteadyTrue
        PROVE  CountTrue' /\ ToldAtRest' /\ ToldBy(s)'
    <3>1. Counted' = Counted
      <4>1. Counted' = Counted \cup {s}
        BY <1>1, <2>1, <2>2, <2>5, SocketMoves
      <4> QED
        BY <2>4, <4>1
    <3>2. CountTrue'
      BY <2>3, <2>6, <3>1 DEF SteadyTrue, CountTrue
    <3>3. ToldBy(s)
      BY <2>6 DEF SteadyTrue
    <3>4. CASE pc = "tell"
      <4>1. Open' = Open /\ ~AtRest(s)'
        <5>1. Open' = Open \ {s}
          BY <1>1, <2>2, <2>5, <3>4, SocketMoves
        <5> QED
          BY <1>5, <2>4, <2>5, <2>6, <3>4, <5>1 DEF AtRest
      <4>2. online'.flag /\ online'.told = online.told
        BY <1>1, <2>1, <3>4
      <4>3. ToldBy(s)'
        BY <2>1, <2>5, <3>3, <3>4, <4>1, <4>2 DEF ToldBy, Shown
      <4> QED
        BY <3>2, <4>1, <4>3 DEF ToldAtRest
    <3>5. CASE pc = "open"
      <4>1. Shown'
        <5>1. Open' = Open \cup {s}
          BY <1>1, <2>2, <2>5, <3>5, SocketMoves
        <5> QED
          BY <5>1 DEF Shown
      <4>2. online'.flag /\ online'.told
        BY <1>1, <2>1, <3>3, <3>5 DEF ToldBy
      <4>3. ToldBy(s)'
        BY <2>5, <3>5 DEF ToldBy
      <4> QED
        BY <3>2, <4>1, <4>2, <4>3 DEF ToldAtRest
    <3> QED
      BY <3>4, <3>5
  <2> QED
    BY <1>4, <2>1, <2>2, <2>3, <2>4, <2>6
<1>9. ASSUME NEW s \in Socket, DropSocket(s)
      PROVE  PresenceInv'
  <2> DEFINE count == IF online.count \in {0, NoCount} THEN 0 ELSE online.count - 1
             pc == IF count = 0 THEN "forget" ELSE "closed"
  <2>1. /\ socket[s].pc = "drop" /\ SocketTo(s, pc) /\ UNCHANGED steady
        /\ online' = [online EXCEPT !.count = IF online.count = NoCount THEN online.count
                                              ELSE count,
                                    !.flag = online.flag \/ ~(count = 0)]
    BY <1>9 DEF DropSocket, Last
  <2>2. PICK r \in record : r = [socket[s] EXCEPT !.pc = pc]
                            /\ socket' = [socket EXCEPT ![s] = r]
    BY <1>2, <2>1 DEF SocketPC
  <2>3. /\ online' \in [count : 0 .. NoCount, flag : BOOLEAN, told : BOOLEAN]
        /\ online'.told = online.told /\ online'.flag = (online.flag \/ ~(count = 0))
        /\ online'.count = IF online.count = NoCount THEN online.count ELSE count
    <3>1. count \in 0..NoCount
      BY <1>1
    <3> HIDE DEF count
    <3> QED
      BY <1>1, <2>1, <3>1
  <2>4. ~AtRest(s) /\ s \in Counted
    BY <2>1 DEF AtRest, Counted
  <2>5. r.pc = pc /\ socket'[s] = r
    BY <1>1, <2>2, SocketMoves
  <2>6. ASSUME SteadyTrue
        PROVE  CountTrue' /\ ToldAtRest' /\ ToldBy(s)'
    <3>1. Counted' = Counted \ {s} /\ Counted' = Open /\ Open' = Open
      <4>1. pc \in {"forget", "closed"}
        OBVIOUS
      <4> HIDE DEF pc
      <4>2. Counted' = Counted \ {s} /\ Open' = Open \ {s}
        BY <1>1, <2>2, <2>5, <4>1, SocketMoves
      <4> QED
        BY <1>5, <2>4, <2>6, <4>2
    <3>2. online.count = Cardinality(Counted) /\ online.count # NoCount
      BY <2>4, <2>6, CountedFinite DEF SteadyTrue, CountTrue
    <3>3. /\ Cardinality(Counted') = Cardinality(Counted) - 1
          /\ Cardinality(Counted') \in Nat
          /\ Counted' = {} <=> Cardinality(Counted') = 0
      <4>1. IsFiniteSet(Counted \ {s})
            /\ Cardinality(Counted \ {s}) = Cardinality(Counted) - 1
        BY <2>4, CountedFinite, FS_RemoveElement
      <4> QED
        BY <3>1, <4>1, FS_CardinalityType, FS_EmptySet
    <3>4. count = Cardinality(Counted')
      BY <1>1, <2>4, <3>2, <3>3, CountedFinite
    <3>5. CountTrue'
      BY <2>3, <3>2, <3>3, <3>4 DEF CountTrue
    <3>6. online.flag /\ online.told
      BY <2>1, <2>6 DEF SteadyTrue, ToldBy
    <3>7. count = 0 <=> ~Shown'
      BY <3>1, <3>3, <3>4 DEF Shown
    <3>8. ToldAtRest'
      BY <2>3, <2>5, <3>6, <3>7 DEF ToldAtRest, AtRest
    <3>9. ToldBy(s)'
      BY <2>3, <2>5, <3>6, <3>7 DEF ToldBy
    <3> QED
      BY <3>5, <3>8, <3>9
  <2> QED
    BY <1>4, <2>1, <2>2, <2>3, <2>4, <2>6
<1>10. ASSUME NEW s \in Socket, ForgetCount(s) \/ UnflagOnline(s) \/ TellOffline(s)
       PROVE  PresenceInv'
  <2>1. PICK pc \in {"unflag", "untell", "closed"} :
             /\ SocketTo(s, pc) /\ UNCHANGED steady
             /\ \/ /\ pc = "unflag" /\ socket[s].pc = "forget"
                   /\ online' = [online EXCEPT !.count = NoCount]
                \/ /\ pc = "untell" /\ socket[s].pc = "unflag"
                   /\ online' = [online EXCEPT !.flag = FALSE]
                \/ /\ pc = "closed" /\ socket[s].pc = "untell"
                   /\ online' = [online EXCEPT !.told = FALSE]
    BY <1>10 DEF ForgetCount, UnflagOnline, TellOffline
  <2>2. PICK r \in record : r = [socket[s] EXCEPT !.pc = pc]
                            /\ socket' = [socket EXCEPT ![s] = r]
    BY <1>2, <2>1 DEF SocketPC
  <2>3. /\ online' \in [count : 0 .. NoCount, flag : BOOLEAN, told : BOOLEAN]
        /\ online'.count \in {online.count, NoCount}
    BY <1>1, <2>1
  <2>4. ~AtRest(s) /\ s \notin Counted
    BY <2>1 DEF AtRest, Counted
  <2>5. r.pc = pc /\ socket'[s] = r
    BY <1>1, <2>2, SocketMoves
  <2>6. ASSUME SteadyTrue
        PROVE  CountTrue' /\ ToldAtRest' /\ ToldBy(s)'
    <3>1. ToldBy(s) /\ CountTrue
      BY <2>6 DEF SteadyTrue
    <3>2. Open = {} /\ Counted = {}
      BY <1>5, <2>1, <2>4, <2>6, <3>1 DEF ToldBy, Shown
    <3>3. Open' = {} /\ Counted' = {}
      BY <1>1, <2>2, <2>5, <3>2, SocketMoves
    <3>4. CountTrue'
      BY <2>3, <3>1, <3>2, <3>3 DEF CountTrue
    <3>5. ToldAtRest' /\ ToldBy(s)'
      BY <1>1, <2>1, <2>5, <3>1, <3>3 DEF ToldBy, ToldAtRest, AtRest, Shown
    <3> QED
      BY <3>4, <3>5
  <2> QED
    BY <1>4, <2>1, <2>2, <2>3, <2>4, <2>6
<1>11. ASSUME NEW s \in Socket, Ping(s)
       PROVE  PresenceInv'
  <2>1. /\ s \in Open /\ UNCHANGED <<socket, steady>>
        /\ online' = [online EXCEPT !.flag = online.count \notin {0, NoCount}]
    BY <1>11 DEF Ping, PingFlags, Open
  <2>2. /\ online' \in [count : 0 .. NoCount, flag : BOOLEAN, told : BOOLEAN]
        /\ online'.count = online.count /\ online'.told = online.told
        /\ online'.flag = (online.count \notin {0, NoCount})
    BY <1>1, <2>1
  <2>3. ASSUME SteadyTrue
        PROVE  SteadyTrue'
    <3>1. s \in Counted /\ Shown
      BY <2>1 DEF Open, Counted, Shown
    <3>2. online'.flag
      BY <2>2, <2>3, <3>1, CountedFinite DEF SteadyTrue, CountTrue
    <3>3. Shown' /\ OneMoves' /\ CountTrue'
      BY <2>1, <2>2, <2>3, <3>1
      DEF SteadyTrue, OneMoves, AtRest, CountTrue, Counted, Shown, Open
    <3>4. ToldAtRest' /\ \A t \in Socket : ToldBy(t)'
      BY <2>1, <2>2, <2>3, <3>1, <3>2, <3>3 DEF SteadyTrue, ToldAtRest, ToldBy, AtRest
    <3> QED
      BY <3>3, <3>4 DEF SteadyTrue
  <2> QED
    BY <1>1, <2>1, <2>2, <2>3 DEF PresenceInv, PresenceTypeOK
<1>12. ASSUME NEW s \in Socket, ServerDies(s)
       PROVE  PresenceInv'
  BY <1>1, <1>12 DEF ServerDies, SocketTo, SocketPC, PresenceInv, PresenceTypeOK
<1>13. CASE FlagExpires \/ CountExpires
  BY <1>1, <1>13 DEF FlagExpires, CountExpires, PresenceInv, PresenceTypeOK
<1>14. CASE UNCHANGED presenceVars
  BY <1>14 DEF presenceVars, PresenceInv, PresenceTypeOK, SteadyTrue, OneMoves, CountTrue,
               Counted, ToldAtRest, ToldBy, Shown, Open, AtRest
<1> QED
  BY <1>3, <1>6, <1>7, <1>8, <1>9, <1>10, <1>11, <1>12, <1>13, <1>14 DEF PresenceNext

\* The inductive invariant of a user's presence.
THEOREM PresenceInvariant == PresenceSpec => []PresenceInv
<1>1. PresenceInit => PresenceInv
  <2> SUFFICES ASSUME PresenceInit PROVE PresenceInv
    OBVIOUS
  <2>1. PresenceTypeOK
    BY CountedFinite DEF PresenceInit, PresenceTypeOK, SocketPC, NoCount
  <2>2. Open = {} /\ Counted = {}
    BY DEF PresenceInit, Open, Counted
  <2>3. SteadyTrue
    BY <2>2 DEF PresenceInit, SteadyTrue, OneMoves, AtRest, CountTrue, ToldAtRest, ToldBy, Shown
  <2> QED
    BY <2>1, <2>3 DEF PresenceInv
<1> QED
  BY <1>1, PresenceInductive, PTL DEF PresenceSpec

\* A user whose consumers have not overlapped, and whose keys have not expired, is
\* shown online and was last told to be exactly while a socket of his is open.
THEOREM PresenceIsTrue == PresenceSpec => []PresenceTrue
<1>1. PresenceInv => PresenceTrue
  <2> SUFFICES ASSUME PresenceInv, steady, \A s \in Socket : AtRest(s)
               PROVE  (IsOnline <=> Shown) /\ (online.told <=> Shown)
    BY DEF PresenceTrue, Shown
  <2>1. CountTrue /\ (online.flag <=> Shown) /\ (online.told <=> Shown)
    BY DEF PresenceInv, SteadyTrue, ToldAtRest
  <2>2. Shown => Counted # {}
    BY DEF Shown, Open, Counted
  <2>3. Shown => online.count # 0
    BY <2>1, <2>2, CountedFinite DEF CountTrue
  <2> QED
    BY <2>1, <2>3 DEF IsOnline
<1> QED
  BY <1>1, PresenceInvariant, PTL

-----------------------------------------------------------------------------
(* Groups. *)

\* Two users who are owners are the same.
OneOwner == \A u, v \in Owners : u = v

\* A request that gives the ownership away is half way.
Bequeaths(k) == clerk[k].op \in {"leave", "transfer"}

\* As long as requests have not overlapped: one at most is half way, a group has an
\* owner except while one gives the ownership away, and never two; and the heir of a
\* transfer is still there when it is completed, if the group is.
CalmGroup ==
    /\ \A j, k \in Clerk : clerk[j].op = "none" \/ clerk[k].op = "none" \/ j = k
    /\ group.returned \/ OneOwner
    /\ \A k \in Clerk : Bequeaths(k) => group.returned \/ Owners = {}
    /\ \A k \in Clerk : clerk[k].op = "transfer" /\ group.exists => Active(clerk[k].user)
    /\ group.exists /\ (\A k \in Clerk : ~Bequeaths(k)) => Owners # {}

GroupsInv == GroupsTypeOK /\ (group.calm => CalmGroup)

\* Nobody half way means that nobody is busy.
LEMMA AtEaseMeans ==
    AtEase <=> \A k \in Clerk : clerk[k].op = "none"
BY DEF AtEase, ClerkBusy

\* A request of one save that leaves the owners alone, or deletes the group, keeps the
\* invariant: it crosses any request that is half way.
LEMMA OneSaveKeeps ==
    ASSUME GroupsInv, NEW row \in GroupRow, group' = Whole(row), UNCHANGED clerk,
           row.calm = group.calm, member' \in [Member -> MemberRow], asked' \subseteq Member,
           CalmGroup /\ AtEase => /\ row.returned \/ OneOwner'
                                  /\ row.exists => Owners' # {}
    PROVE  GroupsInv'
<1>1. group' = [row EXCEPT !.calm = row.calm /\ AtEase] /\ AtEase \in BOOLEAN
  BY DEF Whole, AtEase, ClerkBusy
<1>2. /\ group' \in GroupRow /\ group'.calm = (row.calm /\ AtEase)
      /\ group'.returned = row.returned /\ group'.exists = row.exists
  BY <1>1 DEF GroupRow
<1>3. GroupsTypeOK'
  BY <1>2 DEF GroupsInv, GroupsTypeOK
<1>4. ASSUME group'.calm
      PROVE  CalmGroup'
  <2>1. CalmGroup /\ AtEase /\ \A k \in Clerk : clerk[k].op = "none" /\ clerk'[k].op = "none"
    BY <1>2, <1>4, AtEaseMeans DEF GroupsInv
  <2> QED
    BY <1>2, <2>1 DEF CalmGroup, Bequeaths
<1> QED
  BY <1>3, <1>4 DEF GroupsInv

\* A request that stops half way is alone, or has crossed another one.
LEMMA HalfWayKeeps ==
    ASSUME GroupsInv, NEW k \in Clerk,
           NEW op \in {"leave", "transfer", "invite", "approve"}, NEW u \in Member,
           NEW uses \in 0..MaxUses, HalfWay(k, op, u, uses), group' = Crossed(group, k),
           member' \in [Member -> MemberRow], UNCHANGED asked,
           CalmGroup /\ AtEase =>
              IF op \in {"leave", "transfer"}
              THEN /\ group.returned \/ Owners' = {}
                   /\ op = "transfer" => group.exists /\ member'[u].role # "none" /\ ~member'[u].left
              ELSE Owners' = Owners
    PROVE  GroupsInv'
<1> DEFINE alone == ~ClerkBusy(Clerk \ {k})
           half == [op |-> op, user |-> u, uses |-> uses]
<1>1. /\ group' = [group EXCEPT !.calm = group.calm /\ alone] /\ alone \in BOOLEAN
      /\ group \in GroupRow
  BY DEF Crossed, ClerkBusy, GroupsInv, GroupsTypeOK
<1>2. /\ group' \in GroupRow /\ group'.calm = (group.calm /\ alone)
      /\ group'.returned = group.returned /\ group'.exists = group.exists
  BY <1>1 DEF GroupRow
<1>3. half \in ClerkRow /\ clerk \in [Clerk -> ClerkRow] /\ clerk' = [clerk EXCEPT ![k] = half]
      /\ clerk[k].op = "none"
  BY DEF ClerkRow, HalfWay, GroupsInv, GroupsTypeOK
<1>4. /\ clerk' \in [Clerk -> ClerkRow] /\ clerk'[k] = half
      /\ \A j \in Clerk : j # k => clerk'[j] = clerk[j]
  BY <1>3
<1>5. GroupsTypeOK'
  BY <1>2, <1>4 DEF GroupsInv, GroupsTypeOK
<1>6. ASSUME group'.calm
      PROVE  CalmGroup'
  <2>1. \A j \in Clerk : j # k => clerk[j].op = "none"
    BY <1>2, <1>6 DEF ClerkBusy
  <2>2. CalmGroup /\ AtEase
    BY <1>2, <1>3, <1>6, <2>1, AtEaseMeans DEF GroupsInv
  <2>3. \A j \in Clerk : j # k => clerk'[j].op = "none"
    BY <1>4, <2>1
  <2>4. CASE op \in {"leave", "transfer"}
    <3>1. group.returned \/ Owners' = {}
      BY <2>2, <2>4
    <3>2. Bequeaths(k)'
      BY <1>4, <2>4 DEF Bequeaths
    <3>3. op = "transfer" => Active(clerk[k].user)'
      BY <1>2, <1>4, <2>2, <2>4 DEF Active
    <3>4. group'.returned \/ OneOwner'
      BY <1>2, <3>1 DEF OneOwner
    <3>5. clerk'[k].op = op
      BY <1>4
    <3>6. \A j \in Clerk : Bequeaths(j)' => group'.returned \/ Owners' = {}
      BY <1>2, <3>1
    <3>7. \A j \in Clerk : clerk'[j].op = "transfer" => Active(clerk[j].user)'
      BY <2>3, <3>3, <3>5
    <3> QED
      BY <2>3, <3>2, <3>4, <3>6, <3>7 DEF CalmGroup
  <2>5. CASE op \in {"invite", "approve"}
    <3>1. Owners' = Owners
      BY <2>2, <2>5
    <3>2. \A j \in Clerk : ~Bequeaths(j) /\ ~Bequeaths(j)' /\ clerk'[j].op # "transfer"
      BY <1>4, <2>2, <2>3, <2>5, AtEaseMeans DEF Bequeaths
    <3> QED
      BY <1>2, <2>2, <2>3, <3>1, <3>2 DEF CalmGroup, OneOwner
  <2> QED
    BY <2>4, <2>5
<1> QED
  BY <1>5, <1>6 DEF GroupsInv

\* The second half of a request ends the disturbance, when it was alone.
LEMMA SecondHalfKeeps ==
    ASSUME GroupsInv, NEW k \in Clerk, clerk[k].op # "none", ClerkDone(k),
           group' \in GroupRow, member' \in [Member -> MemberRow], asked' \subseteq Member,
           group'.calm => group.calm,
           CalmGroup /\ group'.calm => /\ group'.returned \/ OneOwner'
                                       /\ group'.exists => Owners' # {}
    PROVE  GroupsInv'
<1>1. NoClerk \in ClerkRow /\ clerk \in [Clerk -> ClerkRow]
  BY GroupsAssumption DEF NoClerk, ClerkRow, GroupsInv, GroupsTypeOK
<1>2. /\ clerk' \in [Clerk -> ClerkRow] /\ clerk'[k].op = "none"
      /\ \A j \in Clerk : j # k => clerk'[j] = clerk[j]
  BY <1>1 DEF ClerkDone, NoClerk
<1>3. ASSUME group'.calm
      PROVE  CalmGroup'
  <2>1. CalmGroup /\ group.calm
    BY <1>3 DEF GroupsInv
  <2>2. \A j \in Clerk : clerk'[j].op = "none"
    BY <1>2, <2>1 DEF CalmGroup
  <2> QED
    BY <1>3, <2>1, <2>2 DEF CalmGroup, Bequeaths
<1> QED
  BY <1>2, <1>3 DEF GroupsInv, GroupsTypeOK

\* Somebody who comes, or comes back, brings no second owner: unless he left as one,
\* and then that is known.
LEMMA ComesKeeps ==
    ASSUME GroupsTypeOK, NEW v \in Member, NEW row \in GroupRow, row.returned = group.returned,
           row.exists = group.exists, row.calm = group.calm, group.exists,
           member' = Joined(v), group'.exists = row.exists,
           group.returned \/ OneOwner, Owners # {}
    PROVE  /\ Comes(row, v) \in GroupRow
           /\ Comes(row, v).exists = group.exists /\ Comes(row, v).calm = group.calm
           /\ member' \in [Member -> MemberRow]
           /\ Comes(row, v).returned \/ OneOwner'
           /\ Owners' # {}
<1>1. member \in [Member -> MemberRow] /\ member[v] \in MemberRow
  BY DEF GroupsTypeOK
<1> DEFINE back == member[v].left /\ member[v].role = "owner"
<1>2. /\ Comes(row, v) \in GroupRow
      /\ Comes(row, v).exists = group.exists /\ Comes(row, v).calm = group.calm
      /\ Comes(row, v).returned = (row.returned \/ back)
  BY <1>1 DEF Comes, GroupRow, MemberRow
<1>3. /\ member' \in [Member -> MemberRow]
      /\ member'[v].left = FALSE
      /\ member'[v].role = IF member[v].role = "none" THEN "member" ELSE member[v].role
      /\ \A u \in Member : u # v => member'[u] = member[u]
  BY <1>1 DEF Joined, MemberRow, Roles
<1>4. Owners \subseteq Owners'
  BY <1>1, <1>2, <1>3 DEF MemberRow, Owners, Is, Active
<1>5. ~back => Owners' \subseteq Owners
  BY <1>1, <1>2, <1>3 DEF MemberRow, Owners, Is, Active
<1> QED
  BY <1>2, <1>3, <1>4, <1>5 DEF OneOwner

\* The requests of one save.
LEMMA OneSaveRequests ==
    ASSUME GroupsInv, NEW u \in Member, NEW v \in Member, NEW role \in {"admin", "member"},
           NEW policy \in Policy,
           \/ RemoveMember(u, v) \/ AddMember(u, v) \/ RejectRequest(u, v)
           \/ ChangeRole(u, v, role) \/ ChangeSettings(u, policy) \/ DeleteGroup(u)
           \/ JoinPublic(u) \/ CancelRequest(u) \/ RevokeLink(u)
    PROVE  GroupsInv'
<1>1. /\ group \in GroupRow /\ member \in [Member -> MemberRow] /\ asked \subseteq Member
      /\ GroupsTypeOK
  BY DEF GroupsInv, GroupsTypeOK
<1>2. ASSUME CalmGroup, AtEase
      PROVE  /\ group.returned \/ OneOwner
             /\ group.exists => Owners # {}
  BY <1>2, AtEaseMeans DEF CalmGroup, Bequeaths
<1>3. ASSUME NEW row \in GroupRow, group' = Whole(row), row.exists = group.exists,
             row.calm = group.calm, row.returned = group.returned
      PROVE  group'.exists = group.exists
  BY <1>3 DEF Whole, GroupRow
<1>4. CASE RemoveMember(u, v) \/ ChangeRole(u, v, role)
  <2>1. /\ group' = Whole(group) /\ UNCHANGED <<clerk, asked>>
        /\ member[v].role # "owner"
        /\ \/ member' = [member EXCEPT ![v].left = TRUE]
           \/ member' = [member EXCEPT ![v].role = role]
    BY <1>4 DEF RemoveMember, ChangeRole, OneSave, RoleMayChange, SetRole
  <2>2. /\ member' \in [Member -> MemberRow] /\ member'[v].role # "owner"
        /\ \A w \in Member : w # v => member'[w] = member[w]
    <3>1. member[v] \in MemberRow /\ \A r \in {"admin", "member"} : r \in Roles
      BY <1>1 DEF Roles
    <3>2. CASE member' = [member EXCEPT ![v].left = TRUE]
      BY <1>1, <2>1, <3>1, <3>2 DEF MemberRow
    <3>3. CASE member' = [member EXCEPT ![v].role = role]
      BY <1>1, <2>1, <3>1, <3>3 DEF MemberRow
    <3> QED
      BY <2>1, <3>2, <3>3
  <2>3. Owners' = Owners
    BY <1>1, <1>3, <2>1, <2>2 DEF Owners, Is, Active
  <2> QED
    BY <1>1, <1>2, <2>1, <2>2, <2>3, OneSaveKeeps DEF OneOwner
<1>5. ASSUME NEW w \in Member, group.exists, member' = Joined(w),
             group' = Whole(Comes(group, w)), UNCHANGED <<asked, clerk>>
      PROVE  GroupsInv'
  <2>1. /\ Comes(group, w) \in GroupRow /\ Comes(group, w).calm = group.calm
        /\ Comes(group, w).exists = group.exists
        /\ member' \in [Member -> MemberRow]
    BY <1>1, <1>5 DEF Comes, Joined, GroupRow, MemberRow, Roles
  <2>2. group'.exists = group.exists
    BY <1>5, <2>1 DEF Whole, GroupRow
  <2>3. ASSUME CalmGroup, AtEase
        PROVE  (Comes(group, w).returned \/ OneOwner') /\ Owners' # {}
    BY <1>1, <1>2, <1>5, <2>2, <2>3, ComesKeeps
  <2> QED
    BY <1>1, <1>5, <2>1, <2>3, OneSaveKeeps
<1>6. CASE AddMember(u, v)
  BY <1>5, <1>6 DEF AddMember, Active
<1>7. CASE JoinPublic(u)
  <2>1. CASE group.policy = "approval"
    <3>1. /\ group' = Whole(group) /\ UNCHANGED <<clerk, member>> /\ asked' \subseteq Member
      BY <1>1, <1>7, <2>1 DEF JoinPublic
    <3>2. Owners' = Owners
      BY <1>1, <1>3, <3>1 DEF Owners, Is, Active
    <3> QED
      BY <1>1, <1>2, <3>1, <3>2, OneSaveKeeps DEF OneOwner
  <2>2. CASE group.policy # "approval"
    BY <1>5, <1>7, <2>2 DEF JoinPublic
  <2> QED
    BY <2>1, <2>2
<1>8. CASE ChangeSettings(u, policy) \/ RevokeLink(u) \/ CancelRequest(u) \/ RejectRequest(u, v)
  <2>1. /\ UNCHANGED <<clerk, member>> /\ asked' \subseteq Member
        /\ \E row \in {group, [group EXCEPT !.policy = policy], [group EXCEPT !.link = FALSE]} :
              group' = Whole(row)
    BY <1>1, <1>8 DEF ChangeSettings, RevokeLink, CancelRequest, RejectRequest, OneSave
  <2>2. PICK row \in GroupRow : /\ group' = Whole(row) /\ row.exists = group.exists
                                /\ row.calm = group.calm /\ row.returned = group.returned
    <3>1. /\ [group EXCEPT !.policy = policy] \in GroupRow
          /\ [group EXCEPT !.link = FALSE] \in GroupRow
      BY <1>1 DEF GroupRow
    <3> QED
      BY <1>1, <2>1, <3>1 DEF GroupRow
  <2>3. Owners' = Owners
    BY <1>1, <1>3, <2>1, <2>2 DEF Owners, Is, Active
  <2> QED
    BY <1>1, <1>2, <2>1, <2>2, <2>3, OneSaveKeeps DEF OneOwner
<1>9. CASE DeleteGroup(u)
  <2>1. /\ group' = [group EXCEPT !.exists = FALSE] /\ UNCHANGED clerk
        /\ member' = [w \in Member |-> [role |-> "none", left |-> FALSE]]
        /\ asked' = {}
    BY <1>9 DEF DeleteGroup, GroupDeleted
  <2>2. /\ group' \in GroupRow /\ group'.calm = group.calm /\ group'.returned = group.returned
        /\ ~group'.exists /\ member' \in [Member -> MemberRow]
    BY <1>1, <2>1 DEF GroupRow, MemberRow, Roles
  <2>3. Owners' = {}
    BY <2>2 DEF Owners, Is, Active
  <2>4. CalmGroup => CalmGroup'
    <3> SUFFICES ASSUME CalmGroup PROVE CalmGroup'
      OBVIOUS
    <3> QED
      BY <2>1, <2>2, <2>3 DEF CalmGroup, OneOwner, Bequeaths
  <2> QED
    BY <2>1, <2>2, <2>4 DEF GroupsInv, GroupsTypeOK
<1> QED
  BY <1>4, <1>6, <1>7, <1>8, <1>9

\* The requests that stop half way.
LEMMA FirstHalves ==
    ASSUME GroupsInv, NEW k \in Clerk, NEW u \in Member, NEW v \in Member,
           LeaveGroup(k, u) \/ ReadLink(k, u) \/ TransferOwnership(k, u, v) \/ ReadRequest(k, u, v)
    PROVE  GroupsInv'
<1>1. /\ group \in GroupRow /\ member \in [Member -> MemberRow] /\ GroupsTypeOK
      /\ 0 \in 0..MaxUses /\ group.uses \in 0..MaxUses
  BY GroupsAssumption DEF GroupsInv, GroupsTypeOK, GroupRow
<1>2. ASSUME CalmGroup, AtEase
      PROVE  (group.returned \/ OneOwner) /\ (group.exists => Owners # {})
  BY <1>2, AtEaseMeans DEF CalmGroup, Bequeaths
<1>3. /\ group' \in {Crossed(group, k), Whole(group)} => group'.exists = group.exists
  BY <1>1 DEF Crossed, Whole, GroupRow
<1>4. CASE LeaveGroup(k, u)
  <2>1. /\ Active(u) /\ UNCHANGED asked
        /\ member' \in [Member -> MemberRow]
        /\ \A w \in Member : member'[w].role = member[w].role
                             /\ (w # u => member'[w] = member[w])
        /\ member'[u].left
    BY <1>1, <1>4 DEF LeaveGroup, MemberRow
  <2>2. CASE member[u].role = "owner"
    <3>1. HalfWay(k, "leave", u, 0) /\ group' = Crossed(group, k)
      BY <1>4, <2>2 DEF LeaveGroup
    <3>2. u \in Owners
      BY <2>1, <2>2 DEF Owners, Is
    <3>3. Owners' \subseteq Owners \ {u}
      BY <1>3, <2>1, <3>1 DEF Owners, Is, Active
    <3>4. CalmGroup /\ AtEase => group.returned \/ Owners' = {}
      BY <1>2, <3>2, <3>3 DEF OneOwner
    <3> QED
      BY <1>1, <2>1, <3>1, <3>4, HalfWayKeeps
  <2>3. CASE member[u].role # "owner"
    <3>1. group' = Whole(group) /\ UNCHANGED clerk
      BY <1>4, <2>3 DEF LeaveGroup
    <3>2. Owners' = Owners
      BY <1>3, <2>1, <2>3, <3>1 DEF Owners, Is, Active
    <3> QED
      BY <1>1, <1>2, <2>1, <3>1, <3>2, OneSaveKeeps DEF OneOwner, GroupsTypeOK
  <2> QED
    BY <2>2, <2>3
<1>5. CASE TransferOwnership(k, u, v)
  <2>1. /\ HalfWay(k, "transfer", v, 0) /\ group' = Crossed(group, k) /\ UNCHANGED asked
        /\ Is(u, {"owner"}) /\ Active(v) /\ v # u
        /\ member' = [member EXCEPT ![u].role = "admin"]
    BY <1>5 DEF TransferOwnership, SetRole
  <2>2. /\ member' \in [Member -> MemberRow] /\ member'[u].role = "admin"
        /\ \A w \in Member : w # u => member'[w] = member[w]
    BY <1>1, <2>1 DEF MemberRow, Roles
  <2>3. u \in Owners /\ Owners' \subseteq Owners \ {u}
    BY <1>3, <2>1, <2>2 DEF Owners, Is, Active
  <2>4. CalmGroup /\ AtEase => group.returned \/ Owners' = {}
    BY <1>2, <2>3 DEF OneOwner
  <2>5. group.exists /\ member'[v].role # "none" /\ ~member'[v].left
    BY <2>1, <2>2 DEF Active
  <2> QED
    BY <1>1, <2>1, <2>2, <2>4, <2>5, HalfWayKeeps
<1>6. CASE ReadLink(k, u) \/ ReadRequest(k, u, v)
  <2>1. PICK op \in {"invite", "approve"}, w \in Member, uses \in 0..MaxUses :
             HalfWay(k, op, w, uses)
    BY <1>1, <1>6 DEF ReadLink, ReadRequest
  <2>2. group' = Crossed(group, k) /\ UNCHANGED <<member, asked>>
    BY <1>6 DEF ReadLink, ReadRequest
  <2>3. Owners' = Owners
    BY <1>3, <2>2 DEF Owners, Is, Active
  <2> QED
    BY <1>1, <2>1, <2>2, <2>3, HalfWayKeeps
<1> QED
  BY <1>4, <1>5, <1>6

\* The second halves: the heirs of a group that still has members are some of them.
LEMMA SecondHalves ==
    ASSUME GroupsInv, NEW k \in Clerk,
           \/ SettleSuccession(k) \/ CompleteTransfer(k) \/ ApproveRequest(k) \/ UseLink(k)
           \/ ClerkDies(k)
    PROVE  GroupsInv'
<1>1. /\ group \in GroupRow /\ member \in [Member -> MemberRow] /\ asked \subseteq Member
      /\ GroupsTypeOK /\ clerk[k] \in ClerkRow
  BY DEF GroupsInv, GroupsTypeOK
<1>2. ClerkDone(k) /\ clerk[k].op # "none" /\ clerk[k].user \in Member
  BY <1>1 DEF SettleSuccession, CompleteTransfer, ApproveRequest, UseLink, ClerkDies, ClerkRow
<1>3. ASSUME NEW u \in Member, member' = SetRole(u, "owner")
      PROVE  /\ member' \in [Member -> MemberRow]
             /\ \A w \in Member : w # u => member'[w] = member[w]
             /\ member'[u].role = "owner" /\ member'[u].left = member[u].left
  BY <1>1, <1>3 DEF SetRole, MemberRow, Roles
<1>4. ASSUME NEW u \in Member, member' = SetRole(u, "owner"), UNCHANGED <<group, asked>>,
             Bequeaths(k), CalmGroup => group.exists /\ Active(u)
      PROVE  GroupsInv'
  <2>1. ASSUME CalmGroup
        PROVE  /\ group'.returned \/ OneOwner'
               /\ Owners' # {}
    <3>1. Owners' \subseteq Owners \cup {u}
      BY <1>3, <1>4 DEF Owners, Is, Active
    <3>2. u \in Owners'
      BY <1>3, <1>4, <2>1 DEF Owners, Is, Active
    <3>3. group.returned \/ Owners = {}
      BY <1>4, <2>1 DEF CalmGroup
    <3> QED
      BY <1>4, <3>1, <3>2, <3>3 DEF OneOwner
  <2> QED
    BY <1>1, <1>2, <1>3, <1>4, <2>1, SecondHalfKeeps
<1>5. CASE SettleSuccession(k)
  <2>1. clerk[k].op = "leave"
    BY <1>5 DEF SettleSuccession
  <2>2. CASE Actives = {}
    <3>1. /\ group' = [group EXCEPT !.exists = FALSE] /\ asked' = {}
          /\ member' = [w \in Member |-> [role |-> "none", left |-> FALSE]]
      BY <1>5, <2>2 DEF SettleSuccession, GroupDeleted
    <3>2. /\ group' \in GroupRow /\ ~group'.exists /\ group'.calm = group.calm
          /\ member' \in [Member -> MemberRow]
      BY <1>1, <3>1 DEF GroupRow, MemberRow, Roles
    <3>3. OneOwner'
      BY <3>2 DEF OneOwner, Owners, Is, Active
    <3> QED
      BY <1>2, <3>1, <3>2, <3>3, SecondHalfKeeps
  <2>3. CASE Actives # {}
    <3>1. Heirs # {} /\ Heirs \subseteq Actives
      BY <2>3 DEF Heirs
    <3>2. PICK u \in Heirs : member' = SetRole(u, "owner") /\ UNCHANGED <<group, asked>>
      BY <1>5, <2>3, <3>1 DEF SettleSuccession
    <3>3. u \in Member /\ group.exists /\ Active(u)
      BY <3>1, <3>2 DEF Actives, Active
    <3> QED
      BY <1>4, <2>1, <3>2, <3>3 DEF Bequeaths
  <2> QED
    BY <2>2, <2>3
<1>6. CASE CompleteTransfer(k)
  <2>1. clerk[k].op = "transfer" /\ UNCHANGED <<group, asked>>
    BY <1>6 DEF CompleteTransfer
  <2>2. CASE group.exists
    <3>1. member' = SetRole(clerk[k].user, "owner")
      BY <1>6, <2>2 DEF CompleteTransfer
    <3>2. CalmGroup => Active(clerk[k].user)
      BY <2>1, <2>2 DEF CalmGroup
    <3> QED
      BY <1>2, <1>4, <2>1, <2>2, <3>1, <3>2 DEF Bequeaths
  <2>3. CASE ~group.exists
    <3>1. UNCHANGED member
      BY <1>6, <2>3 DEF CompleteTransfer
    <3>2. OneOwner'
      BY <2>1, <2>3, <3>1 DEF OneOwner, Owners, Is, Active
    <3> QED
      BY <1>1, <1>2, <2>1, <2>3, <3>1, <3>2, SecondHalfKeeps
  <2> QED
    BY <2>2, <2>3
<1>7. ASSUME clerk[k].op \in {"approve", "invite"}, CalmGroup, group.exists
      PROVE  (group.returned \/ OneOwner) /\ Owners # {}
  <2>1. \A j \in Clerk : ~Bequeaths(j)
    BY <1>2, <1>7 DEF CalmGroup, Bequeaths
  <2> QED
    BY <1>7, <2>1 DEF CalmGroup
<1>8. ASSUME clerk[k].op \in {"approve", "invite"}, NEW row \in GroupRow,
             row.exists = group.exists, row.calm = group.calm, row.returned = group.returned,
             group.exists, member' = Joined(clerk[k].user), group' = Comes(row, clerk[k].user),
             asked' \subseteq Member
      PROVE  GroupsInv'
  <2>1. /\ group' \in GroupRow /\ group'.calm = group.calm /\ group'.exists = group.exists
        /\ member' \in [Member -> MemberRow]
    BY <1>1, <1>2, <1>8 DEF Comes, Joined, GroupRow, MemberRow, Roles
  <2>2. ASSUME CalmGroup
        PROVE  (group'.returned \/ OneOwner') /\ Owners' # {}
    BY <1>1, <1>2, <1>7, <1>8, <2>1, <2>2, ComesKeeps
  <2> QED
    BY <1>2, <1>8, <2>1, <2>2, SecondHalfKeeps
<1>9. ASSUME clerk[k].op \in {"approve", "invite"}, group' \in GroupRow,
             group'.exists = group.exists, group'.calm = group.calm,
             group'.returned = group.returned, UNCHANGED member, asked' \subseteq Member
      PROVE  GroupsInv'
  <2>1. Owners' = Owners
    BY <1>9 DEF Owners, Is, Active
  <2>2. ~group.exists => OneOwner
    BY DEF OneOwner, Owners, Is, Active
  <2>3. CalmGroup => (group'.returned \/ OneOwner') /\ (group'.exists => Owners' # {})
    BY <1>7, <1>9, <2>1, <2>2 DEF OneOwner
  <2> QED
    BY <1>1, <1>2, <1>9, <2>3, SecondHalfKeeps
<1>10. CASE ApproveRequest(k)
  <2>1. clerk[k].op = "approve" /\ asked' \subseteq Member
    BY <1>1, <1>10 DEF ApproveRequest
  <2>2. CASE group.exists
    BY <1>1, <1>8, <1>10, <2>1, <2>2 DEF ApproveRequest
  <2>3. CASE ~group.exists
    BY <1>1, <1>9, <1>10, <2>1, <2>3 DEF ApproveRequest
  <2> QED
    BY <2>2, <2>3
<1>11. CASE UseLink(k)
  <2> DEFINE u == clerk[k].user
             uses == IF clerk[k].uses < MaxUses THEN clerk[k].uses + 1 ELSE MaxUses
             used == [group EXCEPT !.uses = uses]
  <2>1. clerk[k].op = "invite" /\ u \in Member
    BY <1>2, <1>11 DEF UseLink
  <2>2. uses \in 0..MaxUses
    BY <1>1, GroupsAssumption DEF ClerkRow
  <2>3. /\ used \in GroupRow /\ used.exists = group.exists /\ used.calm = group.calm
        /\ used.returned = group.returned
    <3> HIDE DEF uses
    <3> QED
      BY <1>1, <2>2 DEF GroupRow
  <2>4. CASE ~group.exists
    BY <1>1, <1>9, <1>11, <2>1, <2>4 DEF UseLink
  <2>5. CASE group.exists /\ group.policy = "approval"
    <3>1. asked' = asked \cup {u} /\ group' = used /\ UNCHANGED member
      BY <1>11, <2>5 DEF UseLink
    <3> HIDE DEF used, u
    <3> QED
      BY <1>1, <1>9, <2>1, <2>3, <3>1
  <2>6. CASE group.exists /\ group.policy # "approval"
    <3>1. member' = Joined(clerk[k].user) /\ group' = Comes(used, clerk[k].user) /\ UNCHANGED asked
      BY <1>11, <2>6 DEF UseLink
    <3> HIDE DEF used
    <3> QED
      BY <1>1, <1>8, <2>1, <2>3, <2>6, <3>1
  <2> QED
    BY <2>4, <2>5, <2>6
<1>12. CASE ClerkDies(k)
  <2>1. group' \in GroupRow /\ ~group'.calm /\ UNCHANGED <<member, asked>>
    BY <1>1, <1>12 DEF ClerkDies, GroupRow
  <2> QED
    BY <1>1, <1>2, <2>1, SecondHalfKeeps
<1> QED
  BY <1>5, <1>6, <1>10, <1>11, <1>12

\* The inductive invariant of a group's members.
THEOREM GroupsInvariant == GroupsSpec => []GroupsInv
<1>1. GroupsInit => GroupsInv
  <2> SUFFICES ASSUME GroupsInit PROVE GroupsInv
    OBVIOUS
  <2>1. GroupsTypeOK
    BY GroupsAssumption DEF GroupsInit, GroupsTypeOK, GroupRow, MemberRow, ClerkRow, NoClerk,
                            Roles, Policy
  <2>2. Owners = {Founder}
    BY GroupsAssumption DEF GroupsInit, Owners, Is, Active
  <2>3. CalmGroup
    BY <2>2 DEF GroupsInit, CalmGroup, OneOwner, Bequeaths, NoClerk
  <2> QED
    BY <2>1, <2>3 DEF GroupsInv
<1>2. GroupsInv /\ [GroupsNext]_groupsVars => GroupsInv'
  <2>1. GroupsInv /\ GroupsNext => GroupsInv'
    BY OneSaveRequests, FirstHalves, SecondHalves DEF GroupsNext, GroupsStep, Policy
  <2>2. GroupsInv /\ UNCHANGED groupsVars => GroupsInv'
    BY DEF groupsVars, GroupsInv, GroupsTypeOK, CalmGroup, OneOwner, Bequeaths, Owners, Is, Active
  <2> QED
    BY <2>1, <2>2
<1> QED
  BY <1>1, <1>2, PTL DEF GroupsSpec

\* A group that requests have disturbed one at a time has an owner while nothing is
\* half way, and no second one until somebody who left as owner comes back.
THEOREM GroupHasOneOwner == GroupsSpec => []OwnerKept
<1>1. GroupsInv => OwnerKept
  <2> SUFFICES ASSUME GroupsInv, group.calm PROVE OwnerKept
    BY DEF OwnerKept
  <2>1. Actives # {} => group.exists
    BY DEF Actives, Active
  <2>2. AtEase /\ Actives # {} => Owners # {}
    BY <2>1, AtEaseMeans DEF GroupsInv, CalmGroup, Bequeaths
  <2>3. OneOwner => Cardinality(Owners) <= 1
    <3>1. CASE Owners = {}
      BY <3>1, FS_EmptySet
    <3>2. ASSUME NEW u \in Owners, OneOwner
          PROVE  Cardinality(Owners) <= 1
      <4>1. Owners = {u}
        BY <3>2 DEF OneOwner
      <4> QED
        BY <4>1, FS_Singleton
    <3> QED
      BY <3>1, <3>2
  <2> QED
    BY <2>2, <2>3 DEF GroupsInv, CalmGroup, OwnerKept
<1> QED
  BY <1>1, GroupsInvariant, PTL

=============================================================================
