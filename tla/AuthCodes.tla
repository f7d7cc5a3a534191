----------------------------- MODULE AuthCodes -----------------------------
(***************************************************************************)
(* The one-time codes of one user: AuthCode rows, one per purpose unless   *)
(* two requests create it at once, the requests that issue, guess and      *)
(* spend codes, and the task that mails them. The requests read a row and  *)
(* save it later, in no transaction. Logins are open and need a code, and  *)
(* the code reaches the user by mail.                                      *)
(***************************************************************************)
EXTENDS Naturals, FiniteSets, Sequences

CONSTANTS
    Visit,         \* the requests that may be half way at a time
    OtpMaxAttempts,
    Known,         \* whether the user has signed up before, and has a password
    Served,        \* bound: the endpoints called
    MaxCodes,      \* bound: codes issued
    MaxRows,       \* bound: rows of the user at a time
    MaxMails       \* bound: mail tasks in the queue

ASSUME AuthCodesAssumption ==
    /\ IsFiniteSet(Visit) /\ Known \in BOOLEAN
    /\ Served \subseteq {"otp", "final", "set_password", "recovery", "password_reset"}
    /\ {OtpMaxAttempts, MaxCodes, MaxRows, MaxMails} \subseteq Nat \ {0}

VARIABLES
    account,   \* the user
    codes,     \* his AuthCode rows
    visit,     \* the requests half way
    post,      \* the mails: queued, and the codes that went out
    past       \* per code: wrong guesses, uses; and whether requests overlapped

authCodesVars == <<account, codes, visit, post, past>>

Purpose == {"login", "signup", "recovery", "password_reset"}
Endpoint == {"otp", "final", "set_password", "recovery", "password_reset"}

\* A row: its id is the first code it held. No code is 0: a guess of 0 is wrong.
AuthCodeRow == [id : 1 .. MaxCodes, purpose : Purpose, code : 1 .. MaxCodes,
                attempts : 0 .. OtpMaxAttempts, expired : BOOLEAN]

VisitRow == [at : {"none", "create", "refresh", "mail", "check", "count", "accept"},
             op : Endpoint \cup Purpose, row : 0 .. MaxCodes, attempts : 0 .. OtpMaxAttempts,
             guess : 0 .. MaxCodes, left : {<<>>} \cup {<<p>> : p \in Purpose}
                                         \cup {<<p, q>> : p, q \in Purpose},
             password : BOOLEAN]

AuthCodesTypeOK ==
    /\ account \in [created : BOOLEAN, password : BOOLEAN]
    /\ codes \subseteq AuthCodeRow /\ Cardinality(codes) <= MaxRows
    /\ visit \in [Visit -> VisitRow]
    /\ post \in [queued : 0 .. MaxMails, sent : SUBSET (1 .. MaxCodes), unsent : BOOLEAN]
    /\ past \in [issued : 0 .. MaxCodes, wrong : [1 .. MaxCodes -> 0 .. OtpMaxAttempts + 1],
                 spent : [1 .. MaxCodes -> 0 .. 2], calm : BOOLEAN]

NoVisit == [at |-> "none", op |-> "otp", row |-> 0, attempts |-> 0, guess |-> 0,
            left |-> <<>>, password |-> FALSE]

NoPast == [c \in 1 .. MaxCodes |-> 0]

AuthCodesInit ==
    /\ account = [created |-> Known, password |-> Known]
    /\ codes = {}
    /\ visit = [k \in Visit |-> NoVisit]
    /\ post = [queued |-> 0, sent |-> {}, unsent |-> FALSE]
    /\ past = [issued |-> 0, wrong |-> NoPast, spent |-> NoPast, calm |-> TRUE]

-----------------------------------------------------------------------------

Rows(p) == {r \in codes : r.purpose = p}
RowOf(k) == {r \in codes : r.id = visit[k].row}
LockedOut(r) == r.attempts >= OtpMaxAttempts
Usable(r) == ~r.expired /\ ~LockedOut(r)

Visiting(k) == visit[k].at # "none"
Leave(k) == visit' = [visit EXCEPT ![k] = NoVisit]
Step(k, at) == visit' = [visit EXCEPT ![k].at = at]

\* The counts are kept until two requests overlap or one dies.
Overlapped(calm) ==
    IF calm THEN past ELSE [past EXCEPT !.calm = FALSE, !.wrong = NoPast, !.spent = NoPast]

\* Once two requests have overlapped no other starts: a bound.
Enter(k, row) ==
    /\ ~Visiting(k) /\ past.calm
    /\ visit' = [visit EXCEPT ![k] = row]
    /\ past' = Overlapped(\A j \in Visit \ {k} : ~Visiting(j))

-----------------------------------------------------------------------------
(* send_otp: create_or_refresh the row of the purpose, and queue a mail. *)

\* get_or_create: the SELECT.
AskCode(k, p) ==
    /\ p = "signup" <=> ~account.created
    /\ p \in {"login", "signup"} \cup Served
    /\ Enter(k, [NoVisit EXCEPT !.op = p,
                   !.at = IF Rows(p) = {} THEN "create"
                          ELSE IF \A r \in Rows(p) : Usable(r) THEN "mail" ELSE "refresh",
                   !.row = IF Rows(p) = {} THEN 0 ELSE (CHOOSE r \in Rows(p) : TRUE).id])
    /\ Cardinality(Rows(p)) < 2
    /\ account' = [account EXCEPT !.created = TRUE]
    /\ UNCHANGED <<codes, post>>

Issued == past.issued + 1
Issue == Issued <= MaxCodes /\ past' = [past EXCEPT !.issued = Issued]

\* get_or_create: the INSERT. No constraint keeps a second row of the purpose out.
CreateCode(k) ==
    /\ visit[k].at = "create" /\ Cardinality(codes) < MaxRows
    /\ Issue
    /\ codes' = codes \cup {[id |-> Issued, purpose |-> visit[k].op, code |-> Issued,
                             attempts |-> 0, expired |-> FALSE]}
    /\ Step(k, "mail")
    /\ UNCHANGED <<account, post>>

\* Mutant: a code that is renewed is not mailed.
RefreshQuietly(k) ==
    /\ visit[k].at = "refresh" /\ RowOf(k) # {} /\ Issue
    /\ codes' = {IF r \in RowOf(k) THEN [r EXCEPT !.code = Issued, !.attempts = 0, !.expired = FALSE]
                 ELSE r : r \in codes}
    /\ Leave(k)
    /\ UNCHANGED <<account, post>>

\* update_code: the save fails if the row has gone.
RefreshCode(k) ==
    /\ visit[k].at = "refresh"
    /\ IF RowOf(k) = {}
       THEN Leave(k) /\ UNCHANGED <<codes, past>>
       ELSE /\ Issue
            /\ codes' = {IF r \in RowOf(k)
                         THEN [r EXCEPT !.code = Issued, !.attempts = 0, !.expired = FALSE]
                         ELSE r : r \in codes}
            /\ Step(k, "mail")
    /\ UNCHANGED <<account, post>>

QueueMail(k) ==
    /\ visit[k].at = "mail" /\ post.queued < MaxMails
    /\ post' = [post EXCEPT !.queued = @ + 1]
    /\ Leave(k)
    /\ UNCHANGED <<account, codes, past>>

\* send_code_via_email gets the user's only code: with none, or with two, whatever
\* their purposes, or when the mail service fails, nothing goes out.
MailCode(works) ==
    /\ post.queued > 0
    /\ post' = IF works /\ Cardinality(codes) = 1
               THEN [post EXCEPT !.queued = @ - 1, !.sent = @ \cup {r.code : r \in codes}]
               ELSE [post EXCEPT !.queued = @ - 1, !.unsent = TRUE]
    /\ UNCHANGED <<account, codes, visit, past>>

-----------------------------------------------------------------------------
(* Guessing a code: validate, purpose by purpose. *)

Accepts(op) == CASE op \in {"otp", "final"} -> <<"login", "signup">>
                 [] op = "set_password" -> <<"signup", "login">>
                 [] OTHER -> <<op>>

\* Setting a password asks for a code only while one is pending. A code no row holds
\* is as wrong as 0.
GuessCode(k, op, guess) ==
    /\ account.created /\ guess \in {0} \cup {r.code : r \in codes}
    /\ op = "set_password" => codes # {}
    /\ Enter(k, [NoVisit EXCEPT !.at = "check", !.op = op, !.guess = guess,
                                !.left = Accepts(op),
                                !.password = account.password /\ op \in {"otp", "final"}])
    /\ UNCHANGED <<account, codes, post>>

SetPasswordUnasked(k) ==
    /\ "set_password" \in Served
    /\ account.created /\ codes = {} /\ ~Visiting(k) /\ past.calm
    /\ account' = [account EXCEPT !.password = TRUE]
    /\ past' = Overlapped(\A j \in Visit : ~Visiting(j))
    /\ UNCHANGED <<codes, visit, post>>

\* The next purpose, or the answer that the code is incorrect or expired.
NextPurpose(k) ==
    LET left == visit[k].left IN
    visit' = [visit EXCEPT ![k] = IF Len(left) = 1 THEN NoVisit
                                  ELSE [@ EXCEPT !.at = "check", !.left = Tail(left)]]

\* Mutant: a locked code is still compared.
CheckCodeUnlocked(k) ==
    LET rows == Rows(Head(visit[k].left)) IN
    /\ visit[k].at = "check"
    /\ IF rows = {} THEN NextPurpose(k)
       ELSE IF Cardinality(rows) > 1 THEN Leave(k)
       ELSE \E r \in rows :
              IF r.expired THEN NextPurpose(k)
              ELSE visit' = [visit EXCEPT ![k].row = r.id, ![k].attempts = r.attempts,
                               ![k].at = IF r.code = visit[k].guess THEN "accept" ELSE "count"]
    /\ UNCHANGED <<account, codes, post, past>>

\* validate: the row of the purpose is read. Two of them are an error.
CheckCode(k) ==
    LET rows == Rows(Head(visit[k].left)) IN
    /\ visit[k].at = "check"
    /\ IF rows = {} THEN NextPurpose(k)
       ELSE IF Cardinality(rows) > 1 THEN Leave(k)
       ELSE \E r \in rows :
              IF ~Usable(r) THEN NextPurpose(k)
              ELSE visit' = [visit EXCEPT ![k].row = r.id, ![k].attempts = r.attempts,
                               ![k].at = IF r.code = visit[k].guess THEN "accept" ELSE "count"]
    /\ UNCHANGED <<account, codes, post, past>>

\* The attempts that were read are saved, one more, unless the row has gone.
CountAttempt(k) ==
    /\ visit[k].at = "count"
    /\ IF RowOf(k) = {} THEN Leave(k) /\ UNCHANGED <<codes, past>>
       ELSE \E r \in RowOf(k) :
              /\ codes' = (codes \ {r}) \cup
                            {[r EXCEPT !.attempts = IF visit[k].attempts < OtpMaxAttempts
                                                    THEN visit[k].attempts + 1 ELSE @]}
              /\ past' = IF past.calm
                         THEN [past EXCEPT !.wrong[r.code] = IF @ > OtpMaxAttempts THEN @ ELSE @ + 1]
                         ELSE past
              /\ NextPurpose(k)
    /\ UNCHANGED <<account, post>>

Spend(c) ==
    past' = IF past.calm THEN [past EXCEPT !.spent[c] = IF @ = 2 THEN @ ELSE @ + 1] ELSE past

\* Mutant: signing in leaves the codes to expire.
SpendsKept(k, all) == {}

\* The rows an accepted code takes with it.
Spends(k, all) == IF all THEN codes ELSE RowOf(k)

\* The user is saved as he was read when the request came, and the code is consumed.
\* A new password, or signing in with one, deletes all his codes.
AcceptCode(k) ==
    LET op == visit[k].op IN
    /\ visit[k].at = "accept"
    /\ Spend(visit[k].guess)
    /\ account' = [account EXCEPT !.password =
                     CASE op \in {"set_password", "password_reset"} -> TRUE
                       [] op = "recovery" -> @
                       [] OTHER -> visit[k].password]
    /\ codes' = codes \ Spends(k, op \in {"final", "set_password", "password_reset"})
    /\ Leave(k)
    /\ UNCHANGED post

\* The code is right, the password is not: the code stays.
RefusePassword(k) ==
    /\ visit[k].at = "accept" /\ visit[k].op = "final" /\ visit[k].password
    /\ Leave(k)
    /\ UNCHANGED <<account, codes, post, past>>

-----------------------------------------------------------------------------

\* updated_at is otp_expire_minutes ago.
ExpireCode(r) ==
    /\ ~r.expired
    /\ codes' = (codes \ {r}) \cup {[r EXCEPT !.expired = TRUE]}
    /\ UNCHANGED <<account, visit, post, past>>

\* The staff delete a code.
DeleteCode(r) ==
    /\ codes' = codes \ {r}
    /\ UNCHANGED <<account, visit, post, past>>

PurgeCodes ==
    /\ \E r \in codes : r.expired
    /\ codes' = {r \in codes : ~r.expired}
    /\ UNCHANGED <<account, visit, post, past>>

VisitDies(k) ==
    /\ Visiting(k)
    /\ Leave(k)
    /\ post' = [post EXCEPT !.unsent = TRUE]
    /\ past' = Overlapped(FALSE)
    /\ UNCHANGED <<account, codes>>

AuthCodesNext ==
    \/ \E k \in Visit : \/ \E p \in Purpose : AskCode(k, p)
                        \/ \E op \in Served, c \in 0 .. MaxCodes : GuessCode(k, op, c)
                        \/ CreateCode(k) \/ RefreshCode(k) \/ QueueMail(k)
                        \/ SetPasswordUnasked(k) \/ CheckCode(k) \/ CountAttempt(k)
                        \/ AcceptCode(k) \/ RefusePassword(k) \/ VisitDies(k)
    \/ \E works \in BOOLEAN : MailCode(works)
    \/ \E r \in codes : ExpireCode(r) \/ DeleteCode(r)
    \/ PurgeCodes

AuthCodesSpec == AuthCodesInit /\ [][AuthCodesNext]_authCodesVars

-----------------------------------------------------------------------------

\* A code is compared with no more wrong guesses than LoginSettings allows, over
\* every endpoint that takes it and every time it is asked for again, unless two
\* requests overlap. AuthCode.validate, create_or_refresh.
GuessLimit == past.calm => \A c \in 1 .. MaxCodes : past.wrong[c] <= OtpMaxAttempts

\* A code is good for one use, unless two requests overlap. AuthCode.consume and
\* the endpoints that call it.
CodeSpentOnce == past.calm => \A c \in 1 .. MaxCodes : past.spent[c] <= 1

\* When every mail task has found one code to send, a code that can be used has been
\* mailed, however the requests that issued and spent codes overlapped. send_otp,
\* send_code_via_email.
CodeMailed ==
    (~post.unsent /\ post.queued = 0 /\ \A k \in Visit : ~Visiting(k))
        => \A r \in codes : Usable(r) => r.code \in post.sent

=============================================================================
