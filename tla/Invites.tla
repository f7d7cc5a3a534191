------------------------------ MODULE Invites ------------------------------
(***************************************************************************)
(* Signing up while signup is closed: an account is made only for a valid  *)
(* invite link, whose use is recorded after the account is there, in no    *)
(* transaction.                                                            *)
(***************************************************************************)
EXTENDS Naturals, FiniteSets

CONSTANTS
    Guest,        \* those who sign up, each with one link
    LinkUses      \* max_uses of the link

ASSUME InvitesAssumption == IsFiniteSet(Guest) /\ LinkUses \in Nat \ {0}

VARIABLES
    invite,       \* the InviteLink
    guest,        \* per guest: his request, his account and what it read of the link
    invited       \* whether requests have overlapped, or one has died half way

invitesVars == <<invite, guest, invited>>

InvitesTypeOK ==
    /\ invite \in [active : BOOLEAN, expired : BOOLEAN, uses : 0 .. Cardinality(Guest)]
    /\ guest \in [Guest -> [at : {"out", "resolved", "created", "recorded", "in", "refused"},
                            user : BOOLEAN, usage : BOOLEAN, read : 0 .. Cardinality(Guest),
                            active : BOOLEAN]]
    /\ invited \in [alone : BOOLEAN, alive : BOOLEAN]

InvitesInit ==
    /\ invite = [active |-> TRUE, expired |-> FALSE, uses |-> 0]
    /\ guest = [g \in Guest |-> [at |-> "out", user |-> FALSE, usage |-> FALSE, read |-> 0,
                                 active |-> FALSE]]
    /\ invited = [alone |-> TRUE, alive |-> TRUE]

-----------------------------------------------------------------------------

Underway(g) == guest[g].at \in {"resolved", "created", "recorded"}

\* is_valid, of the row as it was read. The clock is read again each time.
LinkOpen(active, uses) == active /\ ~invite.expired /\ uses < LinkUses

\* can_create_user: the link is read and found valid, or the signup is refused.
ResolveInvite(g) ==
    /\ guest[g].at = "out"
    /\ guest' = [guest EXCEPT ![g].at = IF LinkOpen(invite.active, invite.uses)
                                        THEN "resolved" ELSE "refused",
                              ![g].read = invite.uses, ![g].active = invite.active]
    /\ invited' = [invited EXCEPT !.alone = @ /\ \A h \in Guest : ~Underway(h)]
    /\ UNCHANGED invite

CreateAccount(g) ==
    /\ guest[g].at = "resolved"
    /\ guest' = [guest EXCEPT ![g].at = "created", ![g].user = TRUE]
    /\ UNCHANGED <<invite, invited>>

\* consume: the usage is recorded, unless the link read before is no longer valid;
\* then the account is deleted.
ConsumeInvite(g) ==
    /\ guest[g].at = "created"
    /\ guest' = IF LinkOpen(guest[g].active, guest[g].read)
                THEN [guest EXCEPT ![g].at = "recorded", ![g].usage = TRUE]
                ELSE [guest EXCEPT ![g].at = "refused", ![g].user = FALSE]
    /\ UNCHANGED <<invite, invited>>

\* Mutant: the counter that was read is saved, one more.
CountUseRead(g) ==
    /\ guest[g].at = "recorded"
    /\ invite' = [invite EXCEPT !.uses = guest[g].read + 1]
    /\ guest' = [guest EXCEPT ![g].at = "in"]
    /\ UNCHANGED invited

\* The counter is incremented in the database.
CountUse(g) ==
    /\ guest[g].at = "recorded"
    /\ invite' = [invite EXCEPT !.uses = @ + 1]
    /\ guest' = [guest EXCEPT ![g].at = "in"]
    /\ UNCHANGED invited

SignupDies(g) ==
    /\ Underway(g)
    /\ guest' = [guest EXCEPT ![g].at = "refused"]
    /\ invited' = [invited EXCEPT !.alive = FALSE]
    /\ UNCHANGED invite

ExpireInvite ==
    /\ ~invite.expired
    /\ invite' = [invite EXCEPT !.expired = TRUE]
    /\ UNCHANGED <<guest, invited>>

DeactivateInvite ==
    /\ invite.active
    /\ invite' = [invite EXCEPT !.active = FALSE]
    /\ UNCHANGED <<guest, invited>>

InvitesNext ==
    \/ \E g \in Guest : \/ ResolveInvite(g) \/ CreateAccount(g) \/ ConsumeInvite(g)
                        \/ CountUse(g) \/ SignupDies(g)
    \/ ExpireInvite \/ DeactivateInvite

InvitesSpec == InvitesInit /\ [][InvitesNext]_invitesVars

-----------------------------------------------------------------------------

\* An account of a signup that has ended was invited, even when the link expires, is
\* deactivated or is used by another between the steps; the counter of the link
\* counts the usages, but for those being recorded, also when signups overlap; and
\* when they do not, it signs up no more than max_uses. All unless a request died half
\* way. StartAuthAPIView, InviteLink.consume, is_exhausted.
Invited ==
    LET Used == {g \in Guest : guest[g].usage} IN
    invited.alive =>
        /\ \A g \in Guest :
               (guest[g].user /\ guest[g].at \in {"in", "refused"}) => guest[g].usage
        /\ invite.uses = Cardinality({g \in Used : guest[g].at # "recorded"})
        /\ invited.alone => Cardinality(Used) <= LinkUses

=============================================================================
