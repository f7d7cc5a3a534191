------------------------------- MODULE Groups -------------------------------
(***************************************************************************)
(* A group conversation: its members and their roles, join requests, an    *)
(* invite link, and the requests that change them, which read rows, check  *)
(* them and save them one by one, in no transaction.                       *)
(***************************************************************************)
EXTENDS Naturals, FiniteSets

CONSTANTS
    Member,       \* the users
    Founder,      \* the one who creates the group
    MaxUses,      \* max_uses of the invite link
    Clerk         \* the requests that may be half way at a time

ASSUME GroupsAssumption ==
    /\ Founder \in Member /\ MaxUses \in Nat \ {0}
    /\ IsFiniteSet(Member) /\ IsFiniteSet(Clerk)

VARIABLES
    group,        \* the conversation's row, its link and its past
    member,       \* ConversationParticipant: a row stays when its user leaves
    asked,        \* the pending JoinRequests
    clerk         \* the requests half way

groupsVars == <<group, member, asked, clerk>>

Roles == {"owner", "admin", "member"}
MemberRow == [role : Roles \cup {"none"}, left : BOOLEAN]

\* requires_approval and is_closed, in one.
Policy == {"open", "approval", "closed"}

\* returned: a user who had left as owner has come back. calm: no two requests have
\* overlapped, none has died.
GroupRow == [exists : BOOLEAN, policy : Policy, link : BOOLEAN,
             uses : 0 .. MaxUses, returned : BOOLEAN, calm : BOOLEAN]

ClerkRow == [op : {"none", "leave", "transfer", "invite", "approve"},
             user : Member, uses : 0 .. MaxUses]

GroupsTypeOK ==
    /\ group \in GroupRow /\ member \in [Member -> MemberRow]
    /\ asked \subseteq Member /\ clerk \in [Clerk -> ClerkRow]

NoClerk == [op |-> "none", user |-> Founder, uses |-> 0]

GroupsInit ==
    /\ group = [exists |-> TRUE, policy |-> "open", link |-> TRUE,
                uses |-> 0, returned |-> FALSE, calm |-> TRUE]
    /\ member = [u \in Member |->
                   [role |-> IF u = Founder THEN "owner" ELSE "none", left |-> FALSE]]
    /\ asked = {}
    /\ clerk = [k \in Clerk |-> NoClerk]

-----------------------------------------------------------------------------

Active(u) == group.exists /\ member[u].role # "none" /\ ~member[u].left
Actives == {u \in Member : Active(u)}
Is(u, roles) == Active(u) /\ member[u].role \in roles
GroupAdmins == {"owner", "admin"}

ClerkBusy(set) == \E k \in set : clerk[k].op # "none"
AtEase == ~ClerkBusy(Clerk)

\* A request stops half way.
HalfWay(k, op, u, uses) ==
    /\ clerk[k].op = "none"
    /\ clerk' = [clerk EXCEPT ![k] = [op |-> op, user |-> u, uses |-> uses]]

ClerkDone(k) == clerk' = [clerk EXCEPT ![k] = NoClerk]

\* The group's row after a request: another one half way means an overlap.
Crossed(row, k) == [row EXCEPT !.calm = @ /\ ~ClerkBusy(Clerk \ {k})]
Whole(row) == [row EXCEPT !.calm = @ /\ AtEase]

SetRole(u, role) == [member EXCEPT ![u].role = role]

\* A new row is a member's; a row that was left keeps its role.
Joined(u) == [member EXCEPT ![u] =
                [role |-> IF @.role = "none" THEN "member" ELSE @.role, left |-> FALSE]]

Comes(row, u) == [row EXCEPT !.returned = @ \/ (member[u].left /\ member[u].role = "owner")]

\* The group and everything of it is deleted.
GroupDeleted ==
    /\ group' = [group EXCEPT !.exists = FALSE]
    /\ member' = [u \in Member |-> [role |-> "none", left |-> FALSE]]
    /\ asked' = {}

-----------------------------------------------------------------------------
(* Leaving: the row is saved, then an owner's succession is settled. *)

LeaveGroup(k, u) ==
    /\ Active(u)
    /\ member' = [member EXCEPT ![u].left = TRUE]
    /\ IF member[u].role = "owner" THEN HalfWay(k, "leave", u, 0) /\ group' = Crossed(group, k)
       ELSE group' = Whole(group) /\ UNCHANGED clerk
    /\ UNCHANGED asked

\* Mutant: only an admin inherits.
HeirsAdmins == {u \in Actives : member[u].role = "admin"}

\* _auto_transfer_or_cleanup: the oldest admin, or the oldest of the rest.
Heirs ==
    LET admins == {u \in Actives : member[u].role = "admin"} IN
    IF admins # {} THEN admins ELSE Actives

SettleSuccession(k) ==
    /\ clerk[k].op = "leave"
    /\ ClerkDone(k)
    /\ IF Actives = {} THEN GroupDeleted
       ELSE /\ IF Heirs = {} THEN UNCHANGED member
               ELSE \E u \in Heirs : member' = SetRole(u, "owner")
            /\ UNCHANGED <<group, asked>>

\* The owner becomes an admin, then the other one the owner.
TransferOwnership(k, u, v) ==
    /\ Is(u, {"owner"}) /\ Active(v) /\ v # u
    /\ HalfWay(k, "transfer", v, 0)
    /\ member' = SetRole(u, "admin")
    /\ group' = Crossed(group, k) /\ UNCHANGED asked

CompleteTransfer(k) ==
    /\ clerk[k].op = "transfer"
    /\ ClerkDone(k)
    /\ member' = IF group.exists THEN SetRole(clerk[k].user, "owner") ELSE member
    /\ UNCHANGED <<group, asked>>

-----------------------------------------------------------------------------
(* The requests of one save. *)

OneSave == group' = Whole(group) /\ UNCHANGED clerk

RemoveMember(u, v) ==
    /\ Is(u, GroupAdmins) /\ Active(v) /\ member[v].role # "owner"
    /\ member[v].role = "admin" => member[u].role = "owner"
    /\ member' = [member EXCEPT ![v].left = TRUE]
    /\ OneSave /\ UNCHANGED asked

RoleMayChange(v) == Active(v) /\ member[v].role # "owner"

ChangeRole(u, v, role) ==
    /\ Is(u, {"owner"}) /\ RoleMayChange(v) /\ role \in {"admin", "member"}
    /\ member' = SetRole(v, role)
    /\ OneSave /\ UNCHANGED asked

\* An admin, or a member who may.
AddMember(u, v) ==
    /\ Active(u) /\ v # u /\ ~Active(v)
    /\ member' = Joined(v)
    /\ group' = Whole(Comes(group, v))
    /\ UNCHANGED <<asked, clerk>>

ChangeSettings(u, policy) ==
    /\ Is(u, {"owner"})
    /\ group' = Whole([group EXCEPT !.policy = policy])
    /\ UNCHANGED <<member, asked, clerk>>

DeleteGroup(u) ==
    /\ Is(u, GroupAdmins)
    /\ GroupDeleted /\ UNCHANGED clerk

\* A public group is joined, or asked.
JoinPublic(u) ==
    /\ group.exists /\ group.policy # "closed" /\ ~Active(u)
    /\ IF group.policy = "approval"
       THEN /\ asked' = asked \cup {u} /\ group' = Whole(group) /\ UNCHANGED member
       ELSE /\ member' = Joined(u) /\ group' = Whole(Comes(group, u)) /\ UNCHANGED asked
    /\ UNCHANGED clerk

CancelRequest(u) ==
    /\ u \in asked /\ OneSave
    /\ asked' = asked \ {u}
    /\ UNCHANGED member

RejectRequest(u, v) ==
    /\ Is(u, GroupAdmins) /\ v \in asked /\ OneSave
    /\ asked' = asked \ {v}
    /\ UNCHANGED member

RevokeLink(u) ==
    /\ Is(u, GroupAdmins) /\ group.link
    /\ group' = Whole([group EXCEPT !.link = FALSE])
    /\ UNCHANGED <<member, asked, clerk>>

-----------------------------------------------------------------------------
(* The requests that act on a row they read before. *)

ReadRequest(k, u, v) ==
    /\ Is(u, GroupAdmins) /\ v \in asked
    /\ HalfWay(k, "approve", v, 0)
    /\ group' = Crossed(group, k)
    /\ UNCHANGED <<member, asked>>

\* The member is added even if the request has gone meanwhile.
ApproveRequest(k) ==
    LET v == clerk[k].user IN
    /\ clerk[k].op = "approve"
    /\ ClerkDone(k)
    /\ IF group.exists THEN member' = Joined(v) /\ group' = Comes(group, v)
       ELSE UNCHANGED <<member, group>>
    /\ asked' = asked \ {v}

\* is_valid
LinkValid == group.link /\ group.uses < MaxUses

ReadLink(k, u) ==
    /\ group.exists /\ group.policy # "closed" /\ ~Active(u) /\ LinkValid
    /\ group.policy = "approval" => u \notin asked
    /\ HalfWay(k, "invite", u, group.uses)
    /\ group' = Crossed(group, k)
    /\ UNCHANGED <<member, asked>>

\* The use is counted from what was read.
UseLink(k) ==
    LET u == clerk[k].user
        used == [group EXCEPT !.uses = IF clerk[k].uses < MaxUses THEN clerk[k].uses + 1
                                       ELSE MaxUses] IN
    /\ clerk[k].op = "invite"
    /\ ClerkDone(k)
    /\ IF ~group.exists THEN UNCHANGED <<group, member, asked>>
       ELSE IF group.policy = "approval"
            THEN asked' = asked \cup {u} /\ group' = used /\ UNCHANGED member
            ELSE member' = Joined(u) /\ group' = Comes(used, u) /\ UNCHANGED asked

ClerkDies(k) ==
    /\ clerk[k].op # "none"
    /\ ClerkDone(k)
    /\ group' = [group EXCEPT !.calm = FALSE]
    /\ UNCHANGED <<member, asked>>

GroupsStep ==
    \/ \E k \in Clerk, u \in Member : LeaveGroup(k, u) \/ ReadLink(k, u)
    \/ \E k \in Clerk, u, v \in Member : TransferOwnership(k, u, v) \/ ReadRequest(k, u, v)
    \/ \E k \in Clerk : \/ SettleSuccession(k) \/ CompleteTransfer(k) \/ ApproveRequest(k)
                        \/ UseLink(k) \/ ClerkDies(k)
    \/ \E u, v \in Member : \/ RemoveMember(u, v) \/ AddMember(u, v) \/ RejectRequest(u, v)
                            \/ \E role \in {"admin", "member"} : ChangeRole(u, v, role)
    \/ \E u \in Member, policy \in Policy : ChangeSettings(u, policy)
    \/ \E u \in Member : DeleteGroup(u) \/ JoinPublic(u) \/ CancelRequest(u) \/ RevokeLink(u)

\* Bound: once requests have overlapped, or one has died, nothing more is followed.
GroupsNext == group.calm /\ GroupsStep

GroupsSpec == GroupsInit /\ [][GroupsNext]_groupsVars

-----------------------------------------------------------------------------

Owners == {u \in Member : Is(u, {"owner"})}

\* A group with members has one owner, whoever leaves, is removed, demoted or
\* succeeded, as long as requests do not overlap or die half way; and never two,
\* until a user who left as owner comes back: his row has kept its role. The leave,
\* transfer, role and remove requests of messenger/api/members.py.
OwnerKept ==
    group.calm =>
        /\ AtEase /\ Actives # {} => Owners # {}
        /\ group.returned \/ Cardinality(Owners) <= 1

=============================================================================
