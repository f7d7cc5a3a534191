------------------------------- MODULE Media --------------------------------
(***************************************************************************)
(* A picture that each recipient may open once, for 15 seconds. Opening it *)
(* puts a token into the cache and then a row into the database; the file  *)
(* is deleted when everybody has opened it and no window is open, by a     *)
(* task that reads the members and the windows one after the other. A      *)
(* forwarded message shares the file. Messages are deleted file first.     *)
(***************************************************************************)
CONSTANTS
    Viewer,    \* the recipients
    Tab,       \* the requests to open it, and the links they give
    NoTab      \* no token

ASSUME MediaAssumption == NoTab \notin Tab

VARIABLES
    medium,    \* the MessageAttachment row and its file
    copied,    \* the row of a forwarded message
    viewer,    \* of each recipient: membership, AttachmentViewOnceOpen row, cached token
    tab,       \* the requests to open
    purger,    \* maybe_purge_view_once_attachment
    eraser,    \* the deletion of a message, or of all messages of the chat
    slip       \* whether something has happened that may cost a recipient the picture

mediaVars == <<medium, copied, viewer, tab, purger, eraser, slip>>

Unopened == [member |-> TRUE, window |-> "none", token |-> NoTab]
IdleTab == [at |-> "idle", user |-> CHOOSE v \in Viewer : TRUE]

IdlePurger == [at |-> "idle", members |-> {}]
IdleEraser == [at |-> "idle", of |-> "original"]

MediaTypeOK ==
    /\ medium \in [row : {"none", "there", "purged", "gone"}, file : BOOLEAN]
    /\ copied \in {"none", "there", "gone"}
    /\ viewer \in [Viewer -> [member : BOOLEAN, window : {"none", "open", "over"},
                              token : Tab \cup {NoTab}]]
    /\ tab \in [Tab -> [at : {"idle", "checked", "granted", "given"},
                        user : Viewer \cup {IdleTab.user}]]
    /\ \A t \in Tab : tab[t].at # "idle" => tab[t].user \in Viewer
    /\ purger \in [at : {"idle", "members", "file", "row"}, members : SUBSET Viewer]
    /\ eraser \in [at : {"idle", "file", "row"}, of : {"original", "copy"}]
    /\ slip \in BOOLEAN

MediaInit ==
    /\ medium = [row |-> "none", file |-> FALSE] /\ copied = "none"
    /\ viewer = [v \in Viewer |-> Unopened]
    /\ tab = [t \in Tab |-> IdleTab]
    /\ purger = IdlePurger /\ eraser = IdleEraser /\ slip = FALSE

-----------------------------------------------------------------------------

TabTo(t, at) ==
    tab' = [tab EXCEPT ![t] = IF at = "idle" THEN IdleTab ELSE [@ EXCEPT !.at = at]]
TabAt(t, at) == tab[t].at = at /\ UNCHANGED <<medium, copied, purger, eraser>>

PostMedia ==
    /\ medium.row = "none"
    /\ medium' = [row |-> "there", file |-> TRUE]
    /\ UNCHANGED <<copied, viewer, tab, purger, eraser, slip>>

\* The copy has the same file, and none of the flags.
ForwardMedia ==
    /\ medium.row = "there" /\ copied = "none" /\ eraser.at = "idle"
    /\ copied' = "there"
    /\ UNCHANGED <<medium, viewer, tab, purger, eraser, slip>>

\* v has an opening of his under way, or an open window.
Opening(v) == \/ viewer[v].window = "open"
              \/ \E t \in Tab : tab[t].user = v /\ tab[t].at \in {"checked", "granted"}

LeaveChat(v) ==
    /\ viewer[v].member
    /\ viewer' = [viewer EXCEPT ![v].member = FALSE]
    /\ UNCHANGED <<medium, copied, tab, purger, eraser, slip>>

RejoinChat(v) ==
    /\ ~viewer[v].member
    /\ viewer' = [viewer EXCEPT ![v].member = TRUE]
    /\ slip' = (slip \/ purger.at # "idle" \/ Opening(v))
    /\ UNCHANGED <<medium, copied, tab, purger, eraser>>

-----------------------------------------------------------------------------
(* ViewOnceOpenAPIView. *)

CheckOpen(t, v) ==
    /\ TabAt(t, "idle")
    /\ medium.row = "there" /\ viewer[v].member /\ viewer[v].window = "none"
    /\ tab' = [tab EXCEPT ![t] = [at |-> "checked", user |-> v]]
    /\ slip' = (slip \/ Opening(v))
    /\ UNCHANGED viewer

\* A cache that fails is passed over.
GrantToken(t) ==
    /\ TabAt(t, "checked") /\ TabTo(t, "granted")
    /\ \/ viewer' = [viewer EXCEPT ![tab[t].user].token = t] /\ UNCHANGED slip
       \/ slip' = TRUE /\ UNCHANGED viewer

\* Rows are unique for recipient and attachment: the second request fails, and
\* has replaced the token of the first.
CreateOpen(t) ==
    /\ TabAt(t, "granted")
    /\ IF medium.row # "gone" /\ viewer[tab[t].user].window = "none"
       THEN TabTo(t, "given") /\ viewer' = [viewer EXCEPT ![tab[t].user].window = "open"]
       ELSE TabTo(t, "idle") /\ UNCHANGED viewer
    /\ UNCHANGED slip

TabDies(t) ==
    /\ tab[t].at \in {"checked", "granted"} /\ TabAt(t, tab[t].at)
    /\ TabTo(t, "idle") /\ UNCHANGED <<viewer, slip>>

\* AttachmentDownloadAPIView: the token of the link is the cached one, and the
\* window is open by the clock, or the token is dropped.
Download(t) ==
    LET v == tab[t].user IN
    /\ TabAt(t, "given")
    /\ medium.row = "there" /\ viewer[v].member /\ viewer[v].token = t
    /\ viewer[v].window = "over"
    /\ viewer' = [viewer EXCEPT ![v].token = NoTab]
    /\ UNCHANGED <<tab, slip>>

\* 15 seconds for the row, 17 for the token, which outlasts the request and the row.
WindowEnds(v) ==
    /\ viewer[v].window = "open"
    /\ viewer' = [viewer EXCEPT ![v].window = "over"]
    /\ UNCHANGED <<medium, copied, tab, purger, eraser, slip>>

TokenEnds(v) ==
    /\ viewer[v].window # "open" /\ viewer[v].token # NoTab
    /\ \A t \in Tab : tab[t].user = v => tab[t].at # "granted"
    /\ viewer' = [viewer EXCEPT ![v].token = NoTab]
    /\ UNCHANGED <<medium, copied, tab, purger, eraser, slip>>

-----------------------------------------------------------------------------
(* The purge: after each opening, and by the task 16 seconds later. *)

PurgerTo(at) ==
    purger' = IF at = "idle" THEN IdlePurger ELSE [purger EXCEPT !.at = at]
PurgerAt(at) == purger.at = at /\ UNCHANGED <<copied, viewer, tab, eraser, slip>>

ReadRecipients ==
    /\ PurgerAt("idle") /\ medium.row = "there"
    /\ \E v \in Viewer : viewer[v].window # "none"
    /\ purger' = [at |-> "members", members |-> {v \in Viewer : viewer[v].member}]
    /\ UNCHANGED medium

\* Mutant: the windows are not waited for.
MayPurgeOpened(members) == \A v \in members : viewer[v].window # "none"

\* Every recipient has opened it, and no window is open, whoever's it is.
MayPurge(members) ==
    /\ \A v \in members : viewer[v].window # "none"
    /\ \A v \in Viewer : viewer[v].window # "open"

ReadOpens ==
    /\ PurgerAt("members")
    /\ PurgerTo(IF purger.members = {} \/ MayPurge(purger.members) THEN "file" ELSE "idle")
    /\ UNCHANGED medium

PurgeFile ==
    /\ PurgerAt("file") /\ PurgerTo("row")
    /\ medium' = [medium EXCEPT !.file = FALSE]

MarkPurged ==
    /\ PurgerAt("row") /\ PurgerTo("idle")
    /\ medium' = [medium EXCEPT !.row = IF @ = "there" THEN "purged" ELSE @]

PurgerDies ==
    /\ purger.at # "idle" /\ PurgerTo("idle")
    /\ slip' = (slip \/ purger.at = "row")
    /\ UNCHANGED <<medium, copied, viewer, tab, eraser>>

-----------------------------------------------------------------------------
(* Deletion, of a message or by clearing the chat: files first, then rows. *)

EraserAt(at) == eraser.at = at /\ UNCHANGED <<tab, purger>>

StartErasing(of) ==
    /\ EraserAt("idle")
    /\ IF of = "copy" THEN copied = "there" ELSE medium.row \in {"there", "purged"}
    /\ eraser' = [at |-> "file", of |-> of]
    /\ slip' = TRUE
    /\ UNCHANGED <<medium, copied, viewer>>

EraseFile ==
    /\ EraserAt("file")
    /\ eraser' = [eraser EXCEPT !.at = "row"]
    /\ medium' = [medium EXCEPT !.file = FALSE]
    /\ UNCHANGED <<copied, viewer, slip>>

\* The openings go with the row.
EraseRow ==
    /\ EraserAt("row")
    /\ eraser' = IdleEraser
    /\ IF eraser.of = "copy"
       THEN copied' = "gone" /\ UNCHANGED <<medium, viewer>>
       ELSE /\ medium' = [medium EXCEPT !.row = "gone"]
            /\ viewer' = [v \in Viewer |-> [viewer[v] EXCEPT !.window = "none"]]
            /\ UNCHANGED copied
    /\ UNCHANGED slip

MediaNext ==
    \/ PostMedia \/ ForwardMedia
    \/ \E v \in Viewer : LeaveChat(v) \/ RejoinChat(v) \/ WindowEnds(v) \/ TokenEnds(v)
    \/ \E t \in Tab : \/ \E v \in Viewer : CheckOpen(t, v)
                      \/ GrantToken(t) \/ CreateOpen(t) \/ TabDies(t) \/ Download(t)
    \/ ReadRecipients \/ ReadOpens \/ PurgeFile \/ MarkPurged \/ PurgerDies
    \/ \E of \in {"original", "copy"} : StartErasing(of)
    \/ EraseFile \/ EraseRow

MediaSpec == MediaInit /\ [][MediaNext]_mediaVars

-----------------------------------------------------------------------------

\* Who has been given a link to the picture can load it while his window is open:
\* the cache still knows the link and the file is there. The purge, which reads
\* members, windows and file at different times, cuts no window short; only an
\* opening in two tabs at once, a rejoining during the purge or the opening, a
\* deletion, a purge that dies half way, or a failing cache does (ViewOnceOpenAPIView and
\* maybe_purge_view_once_attachment).
ViewedOnce ==
    ~slip => \A t \in Tab : LET v == viewer[tab[t].user] IN
        tab[t].at = "given" /\ v.member /\ v.window = "open"
            => v.token = t /\ medium = [row |-> "there", file |-> TRUE]

=============================================================================
