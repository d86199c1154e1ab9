------------------------------ MODULE Calendar ------------------------------
(***************************************************************************)
(* The connected Google accounts (app/gcal): the sign-in that adds one or  *)
(* restores it (oauth.py), the registry (accounts.py), the thread that     *)
(* keeps the events current (sync.py), the reading of an invitation        *)
(* (invite.py) and the page's handlers (app/api/routes.py).  Every answer  *)
(* of Google is a step of its own: other threads run while one waits.      *)
(*                                                                         *)
(* An account is numbered by when it was first connected, which is its     *)
(* place in the list; the events themselves and the texts of errors are    *)
(* left out.  Each account has one source, its primary calendar.           *)
(***************************************************************************)
EXTENDS Naturals

CONSTANTS
    Accounts,  \* addresses, numbered
    SignIns,   \* sign-ins, with the listener and the thread of each
    MaxTokens, \* refresh tokens an account is given at most
    Quotas     \* how often each outside event may happen: one is chosen at the start

\* "down": Google cannot be reached, or says so.  "odd": an answer no code foresees.
\* "limit": another refusal of the token endpoint.  "reject": it refuses the client.
\* "scope": the permission is gone.  "revoke": the user took the access away at Google.
\* "beside": a handler begins while the sync asks; "overlap": while another handler does.
Occasions == {"connect", "cancel", "remove", "visible", "sync", "invite", "revoke", "down",
              "odd", "limit", "reject", "scope", "beside", "overlap"}

ASSUME AccountsAreNumbered == Accounts \subseteq Nat
ASSUME SignInsAreNumbered == SignIns \subseteq Nat \ {0}
ASSUME MaxTokensAssumption == MaxTokens \in Nat \ {0}
ASSUME OccasionsAssumption == Quotas \subseteq [Occasions -> Nat]

VARIABLES
    issued,    \* Google: the last refresh token it gave for each account
    accepted,  \* Google: the refresh tokens it accepts
    row,       \* calendar_accounts: removed_at and visible
    secret,    \* the refresh token kept for each account, 0 when there is none
    access,    \* the access token in memory, by the refresh token it came from
    rejected,  \* client_rejected
    due,       \* next_near and next_wide, when they have passed
    stopped,   \* auth_stopped
    todo,      \* accounts the tick has still to look at
    thread,    \* where the sync and the page's thread are
    pending,   \* the sign-in whose redirect is waited for, 0 when there is none
    finishing, \* the status says "connecting" though none is pending
    signin,    \* where each sign-in is
    held,      \* accounts an invitation is remembered of
    behind,    \* accounts that were to catch up, and were neither read nor refused since
    quota      \* what is left of the quota

google == <<issued, accepted, secret, access, rejected>>
syncing == <<due, stopped, todo, behind>>
signing == <<pending, finishing, signin>>
calendarVars == <<google, syncing, signing, row, thread, held, quota>>

Tokens == 0..MaxTokens
Rhythms == {"near", "wide"}
Callers == {"sync", "page"}

Call == [at : {"rest", "next", "ask", "token", "fetch", "forget", "remove"},
         account : Accounts \union {0}, token : Tokens,
         again : BOOLEAN,  \* an access token was refused once
         wide : BOOLEAN,   \* it asks for the wide window
         kicked : BOOLEAN] \* a kick came since the sync took the account

SignIn == [at : {"none", "waiting", "exchange", "address", "add", "remember", "tell"},
           account : Accounts \union {0}, token : Tokens]

AtRest == [at |-> "rest", account |-> 0, token |-> 0, again |-> FALSE, wide |-> FALSE,
           kicked |-> FALSE]
NoSignIn == [at |-> "none", account |-> 0, token |-> 0]

CalendarTypeOK ==
    /\ issued \in [Accounts -> Tokens]
    /\ accepted \in [Accounts -> SUBSET (Tokens \ {0})]
    /\ row \in [Accounts -> {"absent", "shown", "hidden", "removed"}]
    /\ secret \in [Accounts -> Tokens] /\ access \in [Accounts -> Tokens]
    /\ rejected \in BOOLEAN /\ finishing \in BOOLEAN
    /\ due \in [Accounts -> SUBSET Rhythms]
    /\ stopped \subseteq Accounts /\ held \subseteq Accounts /\ behind \subseteq Accounts
    /\ todo \subseteq Accounts
    /\ thread \in [Callers -> Call]
    /\ pending \in SignIns \union {0}
    /\ signin \in [SignIns -> SignIn]
    /\ quota \in [Occasions -> Nat]

\* Some accounts are connected and shown; nothing was read since the start.
CalendarInit ==
    /\ \E known \in {{a \in Accounts : a <= n} : n \in Accounts \union {0}} :
       /\ issued = [a \in Accounts |-> IF a \in known THEN 1 ELSE 0]
       /\ accepted = [a \in Accounts |-> IF a \in known THEN {1} ELSE {}]
       /\ row = [a \in Accounts |-> IF a \in known THEN "shown" ELSE "absent"]
       /\ secret = [a \in Accounts |-> IF a \in known THEN 1 ELSE 0]
       /\ behind = known
    /\ access = [a \in Accounts |-> 0]
    /\ rejected = FALSE
    /\ due = [a \in Accounts |-> Rhythms]
    /\ stopped = {}
    /\ todo = {}
    /\ thread = [t \in Callers |-> AtRest]
    /\ pending = 0 /\ finishing = FALSE
    /\ signin = [i \in SignIns |-> NoSignIn]
    /\ held = {}
    /\ quota \in Quotas

May(e) == quota[e] > 0 /\ quota' = [quota EXCEPT ![e] = @ - 1]

\* A handler begins beside others only where the quota says that they overlap.
HandlersRest ==
    thread["page"].at = "rest" /\ \A i \in SignIns : signin[i].at \in {"none", "waiting"}

MayBegin ==
    /\ quota["beside"] > 0 \/ thread["sync"].at = "rest"
    /\ quota["overlap"] > 0 \/ HandlersRest

Moves(t, at) == thread' = [thread EXCEPT ![t].at = at]
Ends(t) == thread' = [thread EXCEPT ![t] = AtRest]
Leads(i, at) == signin' = [signin EXCEPT ![i].at = at]

(***************************************************************************)
(* Accounts.                                                               *)
(***************************************************************************)
connected(a) == secret[a] # 0 /\ ~rejected

active_ids == {a \in Accounts : row[a] = "shown" /\ connected(a)}

\* Mutant: an account that stopped is not taken up again.
kickOnlyDue(as) ==
    /\ due' = [a \in Accounts |-> IF a \in as THEN Rhythms ELSE due[a]]
    /\ behind' = behind \union as
    /\ UNCHANGED stopped

kick(as) ==
    /\ stopped' = stopped \ as
    /\ due' = [a \in Accounts |-> IF a \in as THEN Rhythms ELSE due[a]]
    /\ behind' = behind \union as

\* What the sync is asking for was kicked meanwhile: for the properties only.
Noted(as) == [thread EXCEPT !["sync"].kicked = @ \/ thread["sync"].account \in as]

\* The token goes, unless the account has none; the user has to connect again.
_drop_token(a) ==
    /\ secret' = [secret EXCEPT ![a] = 0]
    /\ access' = [access EXCEPT ![a] = 0]

(***************************************************************************)
(* Reading from Google: the sync and the page ask the same way.            *)
(***************************************************************************)
NextAccount(t) ==
    IF t = "sync"
    THEN /\ todo' = todo \ {thread[t].account}
         /\ thread' = [thread EXCEPT ![t] = [AtRest EXCEPT !.at = "next"]]
    ELSE Ends(t) /\ UNCHANGED todo

\* CalendarAuthError: the sync of this account stops until the next kick.
Refused(t) ==
    LET a == thread[t].account IN
    /\ NextAccount(t)
    /\ stopped' = IF t = "sync" THEN stopped \union {a} ELSE stopped
    /\ behind' = IF t = "sync" /\ ~thread[t].kicked THEN behind \ {a} ELSE behind
    /\ UNCHANGED <<due, held>>

\* CalendarUnavailable puts off the near window; a wide one stays due.
Unavailable(t) ==
    LET a == thread[t].account IN
    /\ NextAccount(t)
    /\ due' = IF t = "sync" THEN [due EXCEPT ![a] = @ \ {"near"}] ELSE due
    /\ UNCHANGED <<stopped, behind, held>>

\* Any other exception ends the whole tick.
Raised(t) ==
    /\ Ends(t)
    /\ todo' = IF t = "sync" THEN {} ELSE todo
    /\ UNCHANGED <<due, stopped, behind, held>>

Read(t) ==
    LET a == thread[t].account IN
    /\ NextAccount(t)
    /\ due' = IF t # "sync" THEN due
              ELSE [due EXCEPT ![a] = IF thread[t].wide THEN {} ELSE @ \ {"near"}]
    /\ behind' = IF t = "sync" THEN behind \ {a} ELSE behind
    /\ held' = IF t = "page" THEN held \union {a} ELSE held
    /\ UNCHANGED stopped

\* access_token: the one in memory unless it has expired, a new one, or none.
Asks(t) ==
    LET a == thread[t].account IN
    /\ thread[t].at = "ask"
    /\ \/ /\ access[a] # 0
          /\ thread' = [thread EXCEPT ![t].at = "fetch", ![t].token = access[a]]
          /\ UNCHANGED <<syncing, held>>
       \/ /\ connected(a)
          /\ thread' = [thread EXCEPT ![t].at = "token", ![t].token = secret[a]]
          /\ UNCHANGED <<syncing, held>>
       \/ ~connected(a) /\ Refused(t)
    /\ UNCHANGED <<google, signing, row, quota>>

TokenAnswered(t) ==
    LET a == thread[t].account
        sent == thread[t].token
    IN
    /\ thread[t].at = "token"
    /\ \/ /\ sent \in accepted[a]
          /\ access' = [access EXCEPT ![a] = sent]
          /\ Moves(t, "fetch")
          /\ UNCHANGED <<syncing, held, issued, accepted, secret, rejected, quota>>
       \/ /\ sent \notin accepted[a]
          /\ _drop_token(a) /\ Refused(t)
          /\ UNCHANGED <<issued, accepted, rejected, quota>>
       \/ /\ May("reject") /\ rejected' = TRUE /\ Refused(t)
          /\ UNCHANGED <<issued, accepted, secret, access>>
       \/ May("limit") /\ Refused(t) /\ UNCHANGED google
       \/ May("down") /\ Unavailable(t) /\ UNCHANGED google
    /\ UNCHANGED <<signing, row>>

FetchAnswered(t) ==
    LET a == thread[t].account
        good == thread[t].token \in accepted[a]
    IN
    /\ thread[t].at = "fetch"
    /\ \/ good /\ Read(t) /\ UNCHANGED <<google, quota>>
       \/ /\ ~good /\ ~thread[t].again
          /\ access' = [access EXCEPT ![a] = 0]
          /\ thread' = [thread EXCEPT ![t].at = "ask", ![t].again = TRUE]
          /\ UNCHANGED <<syncing, held, issued, accepted, secret, rejected, quota>>
       \/ ~good /\ thread[t].again /\ Refused(t) /\ UNCHANGED <<google, quota>>
       \/ /\ May("scope") /\ _drop_token(a) /\ Refused(t)
          /\ UNCHANGED <<issued, accepted, rejected>>
       \/ May("down") /\ Unavailable(t) /\ UNCHANGED google
       \/ May("odd") /\ Raised(t) /\ UNCHANGED google
    /\ UNCHANGED <<signing, row>>

(***************************************************************************)
(* The tick of the sync.                                                   *)
(***************************************************************************)
TickBegins ==
    /\ thread["sync"].at = "rest" /\ active_ids # {}
    /\ quota["beside"] > 0 \/ HandlersRest
    /\ todo' = active_ids
    /\ Moves("sync", "next")
    /\ UNCHANGED <<google, signing, row, due, stopped, behind, held, quota>>

\* In the order of the list.
TakesAccount ==
    /\ thread["sync"].at = "next"
    /\ \/ todo = {} /\ Ends("sync") /\ UNCHANGED todo
       \/ \E a \in todo :
             /\ \A other \in todo : a <= other
             /\ IF a \in stopped \/ due[a] = {} THEN todo' = todo \ {a} /\ UNCHANGED thread
                ELSE /\ thread' = [thread EXCEPT !["sync"] = [AtRest EXCEPT
                           !.at = "ask", !.account = a, !.wide = "wide" \in due[a]]]
                     /\ UNCHANGED todo
    /\ UNCHANGED <<google, signing, row, due, stopped, behind, held, quota>>

\* A minute passes, or ten; or the machine slept.
TimePasses ==
    /\ thread["sync"].at = "rest"
    /\ \E a \in Accounts :
          \/ "near" \notin due[a] /\ due' = [due EXCEPT ![a] = @ \union {"near"}]
          \/ due[a] = {"near"} /\ due' = [due EXCEPT ![a] = Rhythms]
    /\ UNCHANGED <<google, signing, row, todo, stopped, behind, thread, held, quota>>

(***************************************************************************)
(* The page: show, hide, sync now, remove, read an invitation.             *)
(***************************************************************************)
Listed(a) == row[a] \in {"shown", "hidden"}

\* _hidden: the readers' callbacks, which forget the invitations.
_hidden(as) == held' = held \ as

set_visible(a) ==
    /\ May("visible") /\ MayBegin /\ Listed(a)
    /\ \/ row' = [row EXCEPT ![a] = "shown"] /\ UNCHANGED held
       \/ row' = [row EXCEPT ![a] = "hidden"] /\ _hidden({a})
    /\ kick({a}) /\ thread' = Noted({a})
    /\ UNCHANGED <<google, signing, todo>>

SyncPressed ==
    /\ May("sync") /\ MayBegin
    /\ kick(Accounts) /\ thread' = Noted(Accounts)
    /\ UNCHANGED <<google, signing, row, todo, held>>

InvitePressed(a) ==
    /\ MayBegin /\ row[a] = "shown" /\ active_ids # {} /\ a \notin held
    /\ May("invite")
    /\ thread' = [thread EXCEPT !["page"] = [AtRest EXCEPT !.at = "ask", !.account = a]]
    /\ UNCHANGED <<google, syncing, signing, row, held>>

\* An invitation is remembered for a minute.
InviteExpires ==
    /\ \E a \in held : held' = held \ {a}
    /\ UNCHANGED <<google, syncing, signing, row, thread, quota>>

\* forget: what is kept is sent to be revoked.
RemovePressed(a) ==
    LET kept == IF secret[a] # 0 THEN secret[a] ELSE access[a] IN
    /\ May("remove") /\ MayBegin /\ Listed(a)
    /\ thread' = [thread EXCEPT !["page"] = [AtRest EXCEPT
           !.at = "forget", !.account = a, !.token = kept]]
    /\ UNCHANGED <<google, syncing, signing, row, held>>

\* Mutant: the token stays until Google has confirmed.
ForgottenOnceRevoked ==
    LET a == thread["page"].account IN
    /\ thread["page"].at = "forget"
    /\ \/ /\ accepted' = [accepted EXCEPT ![a] = @ \ {thread["page"].token}]
          /\ _drop_token(a)
          /\ UNCHANGED quota
       \/ May("down") /\ UNCHANGED <<accepted, secret, access>>
    /\ Moves("page", "remove")
    /\ UNCHANGED <<issued, rejected, syncing, signing, row, held>>

\* The token is deleted here whatever Google answers.
Forgotten ==
    LET a == thread["page"].account IN
    /\ thread["page"].at = "forget"
    /\ \/ /\ accepted' = [accepted EXCEPT ![a] = @ \ {thread["page"].token}]
          /\ UNCHANGED quota
       \/ May("down") /\ UNCHANGED accepted
    /\ _drop_token(a)
    /\ Moves("page", "remove")
    /\ UNCHANGED <<issued, rejected, syncing, signing, row, held>>

Removed ==
    LET a == thread["page"].account IN
    /\ thread["page"].at = "remove"
    /\ row' = [row EXCEPT ![a] = "removed"]
    /\ _hidden({a})
    /\ kick({a}) /\ thread' = [Noted({a}) EXCEPT !["page"] = AtRest]
    /\ UNCHANGED <<google, signing, todo, quota>>

(***************************************************************************)
(* The sign-in.                                                            *)
(***************************************************************************)
\* start: the one before is cancelled, though its listener may still answer for a moment.
start(i) ==
    /\ May("connect")
    /\ quota["overlap"] > 0 \/ HandlersRest
    /\ signin[i].at = "none" /\ \A j \in SignIns : j < i => signin[j].at # "none"
    /\ pending' = i
    /\ Leads(i, "waiting")
    /\ UNCHANGED <<google, syncing, row, thread, finishing, held>>

cancel ==
    /\ May("cancel")
    /\ quota["overlap"] > 0 \/ HandlersRest
    /\ pending # 0
    /\ pending' = 0
    /\ UNCHANGED <<google, syncing, row, thread, finishing, signin, held>>

\* _serve and _expire_pending: nothing came back in time, or it was cancelled.
Closes(i) ==
    /\ signin[i].at = "waiting"
    /\ signin' = [signin EXCEPT ![i] = NoSignIn]
    /\ pending' = IF pending = i THEN 0 ELSE pending
    /\ UNCHANGED <<google, syncing, row, thread, finishing, held, quota>>

\* An account is connected for the first time after those of smaller numbers.
MayChoose(a) == \A b \in Accounts : b < a => row[b] # "absent"

\* The redirect is taken: none is pending, one is being finished.
Takes == pending' = 0 /\ finishing' = TRUE

\* complete: of the sign-in waited for, and once.  The redirect of another is refused.
complete(i) ==
    /\ signin[i].at = "waiting" /\ MayBegin
    /\ \/ /\ pending = i
          /\ Takes
          /\ \/ \E a \in Accounts :
                /\ MayChoose(a)
                /\ signin' = [signin EXCEPT ![i].at = "exchange", ![i].account = a]
             \/ Leads(i, "tell")
       \/ /\ pending # i
          /\ signin' = [signin EXCEPT ![i] = NoSignIn]
          /\ UNCHANGED <<pending, finishing>>
    /\ UNCHANGED <<google, syncing, row, thread, held, quota>>

Failed(i) == signin' = [signin EXCEPT ![i] = [NoSignIn EXCEPT !.at = "tell"]]

\* The code is exchanged for a refresh token; without the permission it is given back.
Exchanged(i) ==
    LET a == signin[i].account IN
    /\ signin[i].at = "exchange"
    /\ \/ LET new == issued[a] + 1 IN
          /\ new <= MaxTokens
          /\ issued' = [issued EXCEPT ![a] = new]
          /\ accepted' = [accepted EXCEPT ![a] = @ \union {new}]
          /\ rejected' = FALSE
          /\ signin' = [signin EXCEPT ![i].at = "address", ![i].token = new]
          /\ UNCHANGED quota
       \/ Failed(i) /\ UNCHANGED <<issued, accepted, rejected, quota>>
       \/ May("reject") /\ rejected' = TRUE /\ Failed(i) /\ UNCHANGED <<issued, accepted>>
    /\ UNCHANGED <<secret, access, syncing, row, thread, pending, finishing, held>>

\* Whose account it is; without the address the token is given back.
AddressRead(i) ==
    /\ signin[i].at = "address"
    /\ \/ Leads(i, "add") /\ UNCHANGED accepted
       \/ /\ accepted' = [accepted EXCEPT ![signin[i].account] = @ \ {signin[i].token}]
          /\ Failed(i)
    /\ UNCHANGED <<issued, secret, access, rejected, syncing, row, thread, pending, finishing, held,
                   quota>>

add_or_restore(i) ==
    LET a == signin[i].account IN
    /\ signin[i].at = "add"
    /\ row' = [row EXCEPT ![a] = IF @ = "hidden" THEN @ ELSE "shown"]
    /\ Leads(i, "remember")
    /\ UNCHANGED <<google, syncing, thread, pending, finishing, held, quota>>

remember(i) ==
    LET a == signin[i].account
        new == signin[i].token
    IN
    /\ signin[i].at = "remember"
    /\ secret' = [secret EXCEPT ![a] = new]
    /\ access' = [access EXCEPT ![a] = new]
    /\ Leads(i, "tell")
    /\ UNCHANGED <<issued, accepted, rejected, syncing, row, thread, pending, finishing, held, quota>>

\* Connected, the account catches up now.
Told(i) ==
    LET a == signin[i].account IN
    /\ signin[i].at = "tell"
    /\ finishing' = FALSE
    /\ IF signin[i].token # 0 THEN kick({a}) /\ thread' = Noted({a})
       ELSE UNCHANGED <<due, stopped, behind, thread>>
    /\ signin' = [signin EXCEPT ![i] = NoSignIn]
    /\ UNCHANGED <<google, todo, row, pending, held, quota>>

(***************************************************************************)
(* Next.                                                                   *)
(***************************************************************************)
\* The user takes the access away in the account's settings at Google.
RevokedAtGoogle(a) ==
    /\ May("revoke") /\ accepted[a] # {}
    /\ accepted' = [accepted EXCEPT ![a] = {}]
    /\ UNCHANGED <<issued, secret, access, rejected, syncing, signing, row, thread, held>>

SyncStep ==
    \/ TickBegins
    \/ TakesAccount
    \/ Asks("sync") \/ TokenAnswered("sync") \/ FetchAnswered("sync")

PageStep ==
    \/ Asks("page") \/ TokenAnswered("page") \/ FetchAnswered("page")
    \/ Forgotten
    \/ Removed

SignInStep(i) ==
    \/ Exchanged(i)
    \/ AddressRead(i)
    \/ add_or_restore(i)
    \/ remember(i)
    \/ Told(i)

CalendarPressed ==
    \/ \E a \in Accounts : set_visible(a) \/ InvitePressed(a) \/ RemovePressed(a)
    \/ SyncPressed
    \/ \E i \in SignIns : start(i) \/ complete(i)
    \/ cancel

CalendarNext ==
    \/ SyncStep
    \/ PageStep
    \/ \E i \in SignIns : SignInStep(i) \/ Closes(i)
    \/ CalendarPressed
    \/ \E a \in Accounts : RevokedAtGoogle(a)
    \/ TimePasses
    \/ InviteExpires

CalendarSpec == CalendarInit /\ [][CalendarNext]_calendarVars

\* The sync's thread runs, requests time out, clocks go on; nobody has to press anything.
CalendarFairSpec ==
    /\ CalendarSpec
    /\ WF_calendarVars(SyncStep) /\ WF_calendarVars(PageStep)
    /\ \A i \in SignIns : WF_calendarVars(SignInStep(i))
    /\ WF_calendarVars(TimePasses)

(***************************************************************************)
(* Properties.                                                             *)
(***************************************************************************)
\* No token is kept of a removed account, whatever Google answered and whoever was
\* asking with it.
RemovedHasNoToken == \A a \in Accounts : row[a] = "removed" => secret[a] = 0

\* No invitation is remembered of an account that is hidden or removed.
HiddenIsForgotten == \A a \in held : row[a] = "shown"

\* While a sign-in is being finished the status says so: it is not taken for a cancel.
FinishingIsShown ==
    (\E i \in SignIns : signin[i].at \notin {"none", "waiting"}) => finishing

\* Nothing is kept of who is gone, in a state of the declared types; and the status.
CalendarInv == CalendarTypeOK /\ RemovedHasNoToken /\ HiddenIsForgotten /\ FinishingIsShown

Working(a) == row[a] = "shown" /\ connected(a) /\ secret[a] \in accepted[a]

\* An account that is to catch up does, or Google refuses a request made since; unless it
\* is hidden, removed or disconnected first.
CatchesUp ==
    \A a \in Accounts : (a \in behind /\ Working(a)) ~> (a \notin behind \/ ~Working(a))

\* The sync of an account whose connection works is not stopped for ever.
EveryShownSyncs ==
    \A a \in Accounts : (a \in stopped /\ Working(a)) ~> (a \notin stopped \/ ~Working(a))
=============================================================================
