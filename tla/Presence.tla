------------------------------ MODULE Presence ------------------------------
(***************************************************************************)
(* Who is online: a counter of a user's sockets and a flag, two cache keys *)
(* with a time to live that pings refresh, changed one command at a time by*)
(* the consumers of the user's sockets; and the last presence they told.   *)
(***************************************************************************)
EXTENDS Naturals, FiniteSets

CONSTANTS
    Socket        \* the sockets of one user

ASSUME PresenceAssumption == IsFiniteSet(Socket)

VARIABLES
    socket,       \* the consumers, and the command each is about to issue
    online,       \* the cache keys and the last broadcast
    steady        \* no two consumers have overlapped, no server died, no key expired

presenceVars == <<socket, online, steady>>

SocketPC == {"closed", "check", "count", "flag", "tell", "open",
             "drop", "forget", "unflag", "untell"}

NoCount == Cardinality(Socket) + 1        \* the key is not there

\* news: whether the consumer has found the user newly online.
PresenceTypeOK ==
    /\ socket \in [Socket -> [pc : SocketPC, news : BOOLEAN]]
    /\ online \in [count : 0 .. NoCount, flag : BOOLEAN, told : BOOLEAN]
    /\ steady \in BOOLEAN

PresenceInit ==
    /\ socket = [s \in Socket |-> [pc |-> "closed", news |-> FALSE]]
    /\ online = [count |-> NoCount, flag |-> FALSE, told |-> FALSE]
    /\ steady = TRUE

-----------------------------------------------------------------------------

AtRest(s) == socket[s].pc \in {"closed", "open"}
Open == {s \in Socket : socket[s].pc = "open"}

SocketTo(s, pc) == socket' = [socket EXCEPT ![s].pc = pc]

\* A consumer starts or ends. Once two have overlapped nobody new comes: a bound.
SocketStarts(s, from, pc) ==
    /\ socket[s].pc = from /\ steady
    /\ SocketTo(s, pc)
    /\ steady' = (\A t \in Socket : AtRest(t))
    /\ UNCHANGED online

Connect(s) == SocketStarts(s, "closed", "check")
Disconnect(s) == SocketStarts(s, "open", "drop")

\* set_user_online
CheckFlag(s) ==
    /\ socket[s].pc = "check"
    /\ socket' = [socket EXCEPT ![s] = [pc |-> "count", news |-> ~online.flag]]
    /\ UNCHANGED <<online, steady>>

CountSocket(s) ==
    LET count == IF online.count = NoCount THEN 1 ELSE online.count + 1 IN
    /\ socket[s].pc = "count" /\ count < NoCount
    /\ online' = [online EXCEPT !.count = count]
    /\ socket' = [socket EXCEPT ![s] = [pc |-> "flag", news |-> @.news \/ count = 1]]
    /\ UNCHANGED steady

FlagOnline(s) ==
    /\ socket[s].pc = "flag"
    /\ online' = [online EXCEPT !.flag = TRUE]
    /\ SocketTo(s, "tell")
    /\ UNCHANGED steady

TellOnline(s) ==
    /\ socket[s].pc = "tell"
    /\ online' = [online EXCEPT !.told = @ \/ socket[s].news]
    /\ SocketTo(s, "open")
    /\ UNCHANGED steady

\* Mutant: every socket that closes takes the user offline.
LastAlways(count) == TRUE

Last(count) == count = 0

\* set_user_offline
DropSocket(s) ==
    LET count == IF online.count \in {0, NoCount} THEN 0 ELSE online.count - 1 IN
    /\ socket[s].pc = "drop"
    /\ online' = [online EXCEPT !.count = IF @ = NoCount THEN @ ELSE count,
                                !.flag = @ \/ ~Last(count)]
    /\ SocketTo(s, IF Last(count) THEN "forget" ELSE "closed")
    /\ UNCHANGED steady

ForgetCount(s) ==
    /\ socket[s].pc = "forget"
    /\ online' = [online EXCEPT !.count = NoCount]
    /\ SocketTo(s, "unflag")
    /\ UNCHANGED steady

UnflagOnline(s) ==
    /\ socket[s].pc = "unflag"
    /\ online' = [online EXCEPT !.flag = FALSE]
    /\ SocketTo(s, "untell")
    /\ UNCHANGED steady

TellOffline(s) ==
    /\ socket[s].pc = "untell"
    /\ online' = [online EXCEPT !.told = FALSE]
    /\ SocketTo(s, "closed")
    /\ UNCHANGED steady

PingFlags(count) == count \notin {0, NoCount}

\* refresh_user_online: without a counter the flag goes.
Ping(s) ==
    /\ socket[s].pc = "open"
    /\ online' = [online EXCEPT !.flag = PingFlags(online.count)]
    /\ UNCHANGED <<socket, steady>>

\* A server dies: its sockets are gone and nothing is counted down.
ServerDies(s) ==
    /\ socket[s].pc # "closed"
    /\ SocketTo(s, "closed") /\ steady' = FALSE
    /\ UNCHANGED online

\* Without pings the flag expires first, the counter a minute later.
FlagExpires ==
    /\ online.flag
    /\ online' = [online EXCEPT !.flag = FALSE]
    /\ steady' = FALSE /\ UNCHANGED socket

CountExpires ==
    /\ online.count # NoCount /\ ~online.flag
    /\ online' = [online EXCEPT !.count = NoCount]
    /\ steady' = FALSE /\ UNCHANGED socket

PresenceNext ==
    \/ \E s \in Socket : \/ Connect(s) \/ CheckFlag(s) \/ CountSocket(s) \/ FlagOnline(s)
                         \/ TellOnline(s) \/ Disconnect(s) \/ DropSocket(s)
                         \/ ForgetCount(s) \/ UnflagOnline(s) \/ TellOffline(s)
                         \/ Ping(s) \/ ServerDies(s)
    \/ FlagExpires \/ CountExpires

PresenceSpec == PresenceInit /\ [][PresenceNext]_presenceVars

-----------------------------------------------------------------------------

IsOnline == online.flag /\ online.count # 0

\* A user is shown online, and was last told to be, exactly while a socket of
\* his is open: the last one to close takes him offline and no other. As long as
\* consumers do not overlap and no key expires. set_user_online, set_user_offline.
PresenceTrue ==
    (steady /\ \A s \in Socket : AtRest(s)) =>
        /\ IsOnline <=> Open # {}
        /\ online.told <=> Open # {}

=============================================================================
