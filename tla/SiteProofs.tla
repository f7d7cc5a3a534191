----------------------------- MODULE SiteProofs -----------------------------
(***************************************************************************)
(* The components of the site, taken together as a run takes them: what is *)
(* proved of each one holds of the whole.                                  *)
(***************************************************************************)
EXTENDS MCSite, MessengerProofs, AccountsProofs, SupportProofs

\* The whole implements each of its components: its first state is a first state of
\* the component, and a step of it is a step of the component or leaves it alone.
THEOREM SiteComponents ==
    SiteSpec => /\ MessageCacheSpec /\ CallsSpec /\ PresenceSpec /\ GroupsSpec /\ MediaSpec
                /\ AuthCodesSpec /\ InvitesSpec /\ TicketsSpec
                /\ ListsSpec /\ ThrottleSpec /\ LogsSpec
<1>1. SiteInit => /\ MessageCacheInit /\ CallsInit /\ PresenceInit /\ GroupsInit /\ MediaInit
                  /\ AuthCodesInit /\ InvitesInit /\ TicketsInit
                  /\ ListsInit /\ ThrottleInit /\ LogsInit
  BY DEF SiteInit
<1>2. ASSUME [SiteNext]_siteVars
      PROVE  /\ [MessageCacheNext]_messageCacheVars /\ [CallsNext]_callsVars
             /\ [PresenceNext]_presenceVars /\ [GroupsNext]_groupsVars /\ [MediaNext]_mediaVars
             /\ [AuthCodesNext]_authCodesVars /\ [InvitesNext]_invitesVars
             /\ [TicketsNext]_ticketsVars
             /\ [ListsNext]_listsVars /\ [ThrottleNext]_throttleVars /\ [LogsNext]_logsVars
  <2> USE DEF messengerVars, accountVars, sharedVars
  <2>1. CASE MessengerNext /\ UNCHANGED <<part, accountVars, ticketsVars, sharedVars>>
    BY <2>1 DEF MessengerNext, ChatNext
  <2>2. CASE AccountNext /\ UNCHANGED <<part, messengerVars, ticketsVars, sharedVars>>
    BY <2>2 DEF AccountNext
  <2>3. CASE SharedNext /\ UNCHANGED <<part, messengerVars, accountVars, ticketsVars>>
    BY <2>3 DEF SharedNext
  <2>4. CASE TicketsNext /\ UNCHANGED <<part, messengerVars, accountVars, sharedVars>>
    BY <2>4
  <2>5. CASE UNCHANGED siteVars
    BY <2>5 DEF siteVars
  <2> QED
    BY <1>2, <2>1, <2>2, <2>3, <2>4, <2>5 DEF SiteNext
<1> QED
  BY <1>1, <1>2, PTL
  DEF SiteSpec, MessageCacheSpec, CallsSpec, PresenceSpec, GroupsSpec, MediaSpec, AuthCodesSpec,
      InvitesSpec, TicketsSpec, ListsSpec, ThrottleSpec, LogsSpec

-----------------------------------------------------------------------------
(* What the invariants of the components say of their types. *)

\* The codes, and the requests that use them.
LEMMA CodesTyped == CodesInv => AuthCodesTypeOK
<1> SUFFICES ASSUME CodesInv PROVE AuthCodesTypeOK
  OBVIOUS
<1>1. codes \subseteq AuthCodeRow /\ Cardinality(codes) <= MaxRows
  BY DEF CodesInv, CodesHold
<1>2. visit \in [Visit -> VisitRow]
  BY CodesTypes DEF CodesInv, VisitsHold
<1> QED
  BY <1>1, <1>2 DEF CodesInv, AuthCodesTypeOK, PastType, PostType

\* The link and the guests.
LEMMA InvitesTyped == InvitesInv => InvitesTypeOK
BY DEF InvitesInv, InvitesTypeOK, InviteType, GuestType

\* The log and its pages.
LEMMA LogsTyped == LogsInv => LogsTypeOK
BY DEF LogsInv, LogsTypeOK, ClientRow

\* A ticket has no more messages and files than the bounds allow.
LEMMA TicketsTyped == TicketsInv => TicketsTypeOK
<1> SUFFICES ASSUME TicketsInv PROVE TicketsTypeOK
  OBVIOUS
<1>1. ASSUME NEW t \in Ticket PROVE ticket[t] \in TicketRow
  <2>1. /\ ticket[t] \in TicketType
        /\ RowHolds(ticket[t], Pendings(desk, t), Storings(desk, t), desks.calm)
    BY DEF TicketsInv, TicketsHold
  <2>2. /\ Pendings(desk, t) \in Nat /\ Storings(desk, t) \in Nat
        /\ Desks \in Nat /\ MaxTicketFiles \in Nat /\ MaxMessages \in Nat
    BY PendingCounts, TicketsNumbers
  <2>3. ticket[t].messages \in UNION {[1 .. n -> TicketMessage] : n \in 0 .. MaxMessages}
    <3>1. /\ ticket[t].messages \in Seq(TicketMessage)
          /\ Len(ticket[t].messages) <= MaxMessages
      BY <2>1 DEF TicketType, RowHolds
    <3>2. /\ ticket[t].messages \in [1 .. Len(ticket[t].messages) -> TicketMessage]
          /\ Len(ticket[t].messages) \in 0 .. MaxMessages
      BY <2>2, <3>1
    <3> QED
      BY <3>2
  <2>4. ticket[t].attached \in 0 .. MaxTicketFiles + Desks
    BY <2>1, <2>2 DEF TicketType, RowHolds
  <2>5. ticket[t].files \in 0 .. MaxTicketFiles + Desks
    BY <2>1, <2>2, <2>4 DEF TicketType, RowHolds
  <2> QED
    BY <2>1, <2>3, <2>4, <2>5 DEF TicketType, TicketRow, Desks
<1> QED
  BY <1>1 DEF TicketsInv, TicketsTypeOK, TicketType

\* The row of a forwarded message, and the deletion under way.
MediaRest ==
    /\ copied \in {"none", "there", "gone"}
    /\ eraser \in [at : {"idle", "file", "row"}, of : {"original", "copy"}]

\* They are of these types, always.
LEMMA MediaRests == MediaSpec => []MediaRest
<1>1. MediaInit => MediaRest
  BY DEF MediaInit, MediaRest, IdleEraser
<1>2. MediaRest /\ [MediaNext]_mediaVars => MediaRest'
  <2> SUFFICES ASSUME MediaRest, [MediaNext]_mediaVars PROVE MediaRest'
    OBVIOUS
  <2> USE DEF MediaRest, TabAt, PurgerAt, EraserAt
  <2>1. CASE PostMedia \/ ForwardMedia
    BY <2>1 DEF PostMedia, ForwardMedia
  <2>2. CASE \E v \in Viewer : LeaveChat(v) \/ RejoinChat(v) \/ WindowEnds(v) \/ TokenEnds(v)
    BY <2>2 DEF LeaveChat, RejoinChat, WindowEnds, TokenEnds
  <2>3. CASE \E t \in Tab : \/ \E v \in Viewer : CheckOpen(t, v)
                            \/ GrantToken(t) \/ CreateOpen(t) \/ TabDies(t) \/ Download(t)
    BY <2>3 DEF CheckOpen, GrantToken, CreateOpen, TabDies, Download
  <2>4. CASE ReadRecipients \/ ReadOpens \/ PurgeFile \/ MarkPurged \/ PurgerDies
    BY <2>4 DEF ReadRecipients, ReadOpens, PurgeFile, MarkPurged, PurgerDies
  <2>5. CASE \E of \in {"original", "copy"} : StartErasing(of)
    BY <2>5 DEF StartErasing
  <2>6. CASE EraseFile
    BY <2>6 DEF EraseFile
  <2>7. CASE EraseRow
    BY <2>7 DEF EraseRow, IdleEraser
  <2>8. CASE UNCHANGED mediaVars
    BY <2>8 DEF mediaVars
  <2> QED
    BY <2>1, <2>2, <2>3, <2>4, <2>5, <2>6, <2>7, <2>8 DEF MediaNext
<1> QED
  BY <1>1, <1>2, PTL DEF MediaSpec

\* The picture and those who open it.
LEMMA MediaTypes == MediaInv /\ MediaRest => MediaTypeOK
BY DEF MediaInv, MediaTyped, MediaRest, MediaTypeOK, TabType, ViewerRow

-----------------------------------------------------------------------------

SiteParts == {"messages", "calls", "presence", "groups", "media",
              "codes", "invites", "tickets", "lists", "throttle", "logs"}

SiteInvs ==
    /\ CacheInv /\ CallsInv /\ PresenceInv /\ GroupsInv /\ MediaInv /\ MediaRest
    /\ CodesInv /\ InvitesInv /\ TicketsInv /\ ListsInv /\ ThrottleInv /\ LogsInv

\* The variables of the component that works keep their types, and so do the others.
THEOREM SiteTypes == SiteSpec => []SiteTypeOK
<1>1. SiteSpec => [](part \in SiteParts)
  <2>1. SiteInit => part \in SiteParts
    BY DEF SiteInit, SiteParts
  <2>2. part \in SiteParts /\ [SiteNext]_siteVars => (part \in SiteParts)'
    BY DEF SiteNext, siteVars
  <2> QED
    BY <2>1, <2>2, PTL DEF SiteSpec
<1>2. SiteSpec => []SiteInvs
  <2>1. SiteSpec => /\ []CacheInv /\ []CallsInv /\ []PresenceInv /\ []GroupsInv
                    /\ []MediaInv /\ []MediaRest /\ []CodesInv /\ []InvitesInv
                    /\ []TicketsInv /\ []ListsInv /\ []ThrottleInv /\ []LogsInv
    BY SiteComponents, CacheInvariant, CallsInvariant, PresenceInvariant, GroupsInvariant,
       MediaInvariant, MediaRests, CodesInvariant, InvitesInvariant, TicketsInvariant,
       ListsInvariant, ThrottleInvariant, LogsInvariant
  <2> QED
    BY <2>1, PTL DEF SiteInvs
<1>3. SiteInvs => /\ MessageCacheTypeOK /\ CallsTypeOK /\ PresenceTypeOK /\ GroupsTypeOK
                  /\ ListsTypeOK /\ ThrottleTypeOK
  BY DEF SiteInvs, CacheInv, CallsInv, PresenceInv, GroupsInv, ListsInv, ThrottleInv
<1>4. SiteInvs => /\ AuthCodesTypeOK /\ InvitesTypeOK /\ TicketsTypeOK /\ LogsTypeOK
                  /\ MediaTypeOK
  BY CodesTyped, InvitesTyped, TicketsTyped, LogsTyped, MediaTypes DEF SiteInvs
<1>5. part \in SiteParts /\ SiteInvs => SiteTypeOK
  BY <1>3, <1>4 DEF SiteTypeOK, SiteParts
<1> QED
  BY <1>1, <1>2, <1>5, PTL

=============================================================================
