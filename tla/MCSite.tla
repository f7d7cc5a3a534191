------------------------------- MODULE MCSite -------------------------------
(* Instances for TLC of the components of the site: accounts, messenger,      *)
(* tickets, the logs of deployments, and the cached lists and counters all of *)
(* it uses. They share no variable, and each behaviour is one of one of them. *)
EXTENDS MessageCache, Calls, Presence, Groups, Media, AuthCodes, Invites, Tickets,
        Lists, Throttle, Logs, TLC

VARIABLE part

messengerVars == <<messageCacheVars, callsVars, presenceVars, groupsVars, mediaVars>>
accountVars == <<authCodesVars, invitesVars>>
sharedVars == <<listsVars, throttleVars, logsVars>>
siteVars == <<part, messengerVars, accountVars, ticketsVars, sharedVars>>

SiteInit ==
    /\ part \in {"messages", "calls", "presence", "groups", "media",
                "codes", "invites", "tickets", "lists", "throttle", "logs"}
    /\ MessageCacheInit /\ CallsInit /\ PresenceInit /\ GroupsInit /\ MediaInit
    /\ AuthCodesInit /\ InvitesInit /\ TicketsInit /\ ListsInit /\ ThrottleInit
    /\ LogsInit

ChatNext ==
    \/ part = "messages" /\ MessageCacheNext /\ UNCHANGED <<groupsVars, mediaVars>>
    \/ part = "groups" /\ GroupsNext /\ UNCHANGED <<messageCacheVars, mediaVars>>
    \/ part = "media" /\ MediaNext /\ UNCHANGED <<messageCacheVars, groupsVars>>

MessengerNext ==
    \/ ChatNext /\ UNCHANGED <<callsVars, presenceVars>>
    \/ part = "calls" /\ CallsNext /\ UNCHANGED <<messageCacheVars, presenceVars, groupsVars, mediaVars>>
    \/ part = "presence" /\ PresenceNext /\ UNCHANGED <<messageCacheVars, callsVars, groupsVars, mediaVars>>

AccountNext ==
    \/ part = "codes" /\ AuthCodesNext /\ UNCHANGED invitesVars
    \/ part = "invites" /\ InvitesNext /\ UNCHANGED authCodesVars

SharedNext ==
    \/ part = "lists" /\ ListsNext /\ UNCHANGED <<throttleVars, logsVars>>
    \/ part = "throttle" /\ ThrottleNext /\ UNCHANGED <<listsVars, logsVars>>
    \/ part = "logs" /\ LogsNext /\ UNCHANGED <<listsVars, throttleVars>>

SiteNext ==
    \/ MessengerNext /\ UNCHANGED <<part, accountVars, ticketsVars, sharedVars>>
    \/ AccountNext /\ UNCHANGED <<part, messengerVars, ticketsVars, sharedVars>>
    \/ SharedNext /\ UNCHANGED <<part, messengerVars, accountVars, ticketsVars>>
    \/ part = "tickets" /\ TicketsNext
                        /\ UNCHANGED <<part, messengerVars, accountVars, sharedVars>>

SiteSpec == SiteInit /\ [][SiteNext]_siteVars

\* The variables of the component that works keep their types. The others stay at
\* their initial values.
SiteTypeOK ==
    CASE part = "messages" -> MessageCacheTypeOK
      [] part = "calls"    -> CallsTypeOK
      [] part = "presence" -> PresenceTypeOK
      [] part = "groups"   -> GroupsTypeOK
      [] part = "media"    -> MediaTypeOK
      [] part = "codes"    -> AuthCodesTypeOK
      [] part = "invites"  -> InvitesTypeOK
      [] part = "tickets"  -> TicketsTypeOK
      [] part = "lists"    -> ListsTypeOK
      [] part = "throttle" -> ThrottleTypeOK
      [] part = "logs"     -> LogsTypeOK

\* What is interchangeable is called a and b in every component: requests, calls,
\* the users but the founder, the tickets that are not watched.
CONSTANTS a, b

Symmetry == Permutations({a, b})

=============================================================================
