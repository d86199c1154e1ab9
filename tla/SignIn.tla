------------------------------- MODULE SignIn -------------------------------
(***************************************************************************)
(* A CLI is signed in from setup's card: the card and its polls            *)
(* (frontend/src/setup/apiBackend.ts), the handlers that start, join, stop *)
(* and replace the CLI's login (app/api/routes.py, app/llm/signin.py), and *)
(* the status that is held meanwhile (app/llm/cli_status.py).              *)
(*                                                                         *)
(* One provider, installed, whose login has no window: Claude or Codex.    *)
(* Cancel and the code are the card's; Sign out, and the looks that do not *)
(* ask for a fresh status, are another page's.  Nobody waits ten minutes.  *)
(***************************************************************************)
EXTENDS Naturals, FiniteSets, Sequences, SequencesExt

CONSTANTS
    PRESSES,  \* of Sign in, at most
    POLLS,    \* of the card that are out at once, at most: setInterval waits for none
    Histories \* what may happen: one is chosen at the start

VARIABLES
    account,  \* what the CLI says when asked: in, or out
    logins,   \* the login processes started, in order
    registry, \* _LOGINS: which of them the app knows, 0 for none
    starting, \* _STARTING
    lock,     \* _LOGINS_LOCK: the press that holds it, 0 for none
    held,     \* the status held
    asks,     \* the statuses asked for and not yet shown, in the order asked
    presses,  \* the requests of Sign in: where each is, and the login it is about
    cancel, out, code, \* the same of Cancel, Sign out and the code
    card,     \* its phase, what it shows, and its timer, 0 for none
    timers,   \* the timers it made: a watch with how often it saw nothing run, or a follow
    history   \* what of the chosen history is to come

loginVars == <<logins, registry, starting, lock>>
requestVars == <<presses, cancel, out, code>>
cardVars == <<card, timers>>
signInVars == <<account, loginVars, held, asks, requestVars, cardVars, history>>

Troubles == {"press", "look", "cancel", "out", "code", "ends", "refused", "mute", "slow", "hangs",
             "outlives"}
Answers == {"in", "out", "unknown"}

ASSUME SignInAssumption ==
    PRESSES \in Nat /\ POLLS \in Nat /\ Histories \subseteq [Troubles -> Nat]

Ask(who, timer) ==
    [who |-> who, timer |-> timer, at |-> "asked", says |-> "unknown",
     valid |-> TRUE, late |-> FALSE, open |-> FALSE]

SignInTypeOK ==
    /\ account \in {"in", "out"} /\ held \in Answers \union {"none"}
    /\ ToSet(logins) \subseteq [runs : BOOLEAN, link : BOOLEAN, young : BOOLEAN, done : BOOLEAN,
                                outlived : BOOLEAN]
    /\ registry \in 0 .. Len(logins) /\ starting \in BOOLEAN /\ lock \in 0 .. Len(presses)
    /\ ToSet(asks) \subseteq [who : {"poll", "check", "look", "out"}, timer : 0 .. Len(timers),
                              at : {"asked", "said", "told"}, says : Answers,
                              valid : BOOLEAN, late : BOOLEAN, open : BOOLEAN]
    /\ ToSet(presses) \subseteq [at : {"sent", "lock", "stop", "start", "wait", "ok", "refused", "rest"},
                                 login : 0 .. Len(logins)]
    /\ cancel \in [at : {"rest", "sent", "stop"}, login : 0 .. Len(logins)]
    /\ out \in [at : {"rest", "sent", "stop", "run", "again"}, login : 0 .. Len(logins)]
    /\ code \in [at : {"rest", "sent", "look", "send", "refused"}, login : 0 .. Len(logins)]
    /\ card \in [phase : {"idle", "signing-in", "testing", "signin-failed"},
                 shown : Answers, timer : 0 .. Len(timers)]
    /\ ToSet(timers) \subseteq [kind : {"watch", "follow"}, gone : 0 .. 2]

SignInInit ==
    /\ history \in Histories
    /\ account = "out" /\ held = "none" /\ asks = <<>>
    /\ logins = <<>> /\ registry = 0 /\ starting = FALSE /\ lock = 0
    /\ presses = <<>> /\ cancel = [at |-> "rest", login |-> 0]
    /\ out = cancel /\ code = cancel
    /\ card = [phase |-> "idle", shown |-> "out", timer |-> 0] /\ timers = <<>>

Uses(e) == history[e] > 0 /\ history' = [history EXCEPT ![e] = @ - 1]

(***************************************************************************)
(* The status held.                                                        *)
(***************************************************************************)
\* forget: what is held goes, and what is being asked will not be.
Forgets ==
    /\ held' = "none"
    /\ asks' = [i \in DOMAIN asks |-> [asks[i] EXCEPT !.valid = FALSE]]

\* The CLI answers, or does not: a build too old, or a run that fails.
Says(i) ==
    /\ asks[i].at = "asked"
    /\ \/ asks' = [asks EXCEPT ![i].at = "said", ![i].says = account] /\ UNCHANGED history
       \/ Uses("mute") /\ asks' = [asks EXCEPT ![i].at = "said"]
    /\ UNCHANGED <<account, loginVars, held, requestVars, cardVars>>

Runs(l) == l # 0 /\ logins[l].runs

console_open == Runs(registry) \/ starting

\* get's second half: held, unless something was forgotten or a later answer is held.  Then
\* the row is made of it, and of whether a login still goes on.
Tells(i) ==
    /\ asks[i].at = "said"
    /\ LET keeps == asks[i].valid /\ ~asks[i].late IN
       /\ held' = IF keeps THEN asks[i].says ELSE held
       /\ asks' = [j \in DOMAIN asks |->
                     IF j = i THEN [asks[i] EXCEPT !.at = "told", !.open = console_open]
                     ELSE [asks[j] EXCEPT !.late = @ \/ (keeps /\ j < i)]]
    /\ UNCHANGED <<account, loginVars, requestVars, cardVars, history>>

\* Another page looks: it takes what is held, and asks where nothing is, or it is too old.
Looks ==
    /\ Uses("look")
    /\ asks' = Append(asks, Ask("look", 0))
    /\ UNCHANGED <<account, loginVars, held, requestVars, cardVars>>

(***************************************************************************)
(* The login processes.                                                    *)
(***************************************************************************)
Killed(l) == IF l = 0 THEN logins ELSE [logins EXCEPT ![l].runs = FALSE]

LinkPrinted(l) ==
    /\ Runs(l) /\ ~logins[l].link
    /\ logins' = [logins EXCEPT ![l].link = TRUE]
    /\ UNCHANGED <<account, registry, starting, lock, held, asks, requestVars, cardVars, history>>

\* The user approves in the browser, or the code is right; then the process ends.
Approved(l) ==
    /\ Runs(l) /\ logins[l].link /\ ~logins[l].done
    /\ account' = "in"
    /\ logins' = [logins EXCEPT ![l].done = TRUE]
    /\ UNCHANGED <<registry, starting, lock, held, asks, requestVars, cardVars, history>>

LoginEnds(l) ==
    /\ Runs(l) /\ logins[l].done
    /\ logins' = Killed(l)
    /\ UNCHANGED <<account, registry, starting, lock, held, asks, requestVars, cardVars, history>>

\* It ends without: of itself, because another holds the callback port, or as it was stopped.
LoginFails(l) ==
    /\ Runs(l) /\ ~logins[l].done
    /\ IF logins[l].outlived \/ \E k \in 1 .. l - 1 : Runs(k) THEN UNCHANGED history
       ELSE Uses("ends")
    /\ logins' = Killed(l)
    /\ UNCHANGED <<account, registry, starting, lock, held, asks, requestVars, cardVars>>

\* JOIN_S has passed.
LoginAges(l) ==
    /\ Runs(l) /\ logins[l].young
    /\ logins' = [logins EXCEPT ![l].young = FALSE]
    /\ UNCHANGED <<account, registry, starting, lock, held, asks, requestVars, cardVars, history>>

LoginStep(l) == LinkPrinted(l) \/ LoginEnds(l)

\* kill_tree: it ends, or is not waited for any longer.
StopsLogin(l) ==
    \/ logins' = Killed(l) /\ UNCHANGED history
    \/ Runs(l) /\ Uses("outlives") /\ logins' = [logins EXCEPT ![l].outlived = TRUE]

\* What a login is when it is started.
NewLogin == [runs |-> TRUE, link |-> FALSE, young |-> TRUE, done |-> FALSE, outlived |-> FALSE]

(***************************************************************************)
(* The card.                                                               *)
(***************************************************************************)
\* Mutant: a timer of this name that runs goes on instead.
PollsOnce(kind, phase, shown) ==
    IF card.timer # 0 THEN card' = [card EXCEPT !.phase = phase, !.shown = shown] /\ UNCHANGED timers
    ELSE /\ timers' = Append(timers, [kind |-> kind, gone |-> 0])
         /\ card' = [phase |-> phase, shown |-> shown, timer |-> Len(timers) + 1]

\* poll: a timer of this name replaces the one before.
Polls(kind, phase, shown) ==
    /\ timers' = Append(timers, [kind |-> kind, gone |-> 0])
    /\ card' = [phase |-> phase, shown |-> shown, timer |-> Len(timers) + 1]

\* fail, of the stage "signin": what failed is still looked at.
Fails(shown) == Polls("follow", "signin-failed", shown)

\* The check of a poll answers true: its timer stops, if it is still the one.
Stops(t) == IF card.timer = t THEN 0 ELSE card.timer

\* Offered while the card says signed out, and where it failed.
SignInPressed ==
    /\ \/ card.phase = "idle" /\ card.shown # "in"
       \/ card.phase = "signin-failed"
    /\ Len(presses) < PRESSES /\ Uses("press")
    /\ card' = [card EXCEPT !.phase = "signing-in"]
    /\ presses' = Append(presses, [at |-> "sent", login |-> 0])
    /\ UNCHANGED <<account, loginVars, held, asks, cancel, out, code, timers>>

CancelPressed ==
    /\ card.phase = "signing-in" /\ cancel.at = "rest" /\ Uses("cancel")
    /\ card' = [card EXCEPT !.phase = "idle", !.timer = 0]
    /\ cancel' = [at |-> "sent", login |-> 0]
    /\ UNCHANGED <<account, loginVars, held, asks, presses, out, code, timers>>

\* The code is from the page the link opens.
CodePasted ==
    /\ card.phase = "signing-in" /\ code.at = "rest" /\ Uses("code")
    /\ \E l \in DOMAIN logins : logins[l].link
    /\ code' = [code EXCEPT !.at = "sent"]
    /\ UNCHANGED <<account, loginVars, held, asks, presses, cancel, out, cardVars>>

\* The answer of POST /llm/signin: it is watched, or refused.
PressAnswered(n) ==
    /\ \/ presses[n].at = "ok" /\ Polls("watch", card.phase, card.shown)
       \/ presses[n].at = "refused" /\ Fails(card.shown)
    /\ presses' = [presses EXCEPT ![n].at = "rest"]
    /\ UNCHANGED <<account, loginVars, held, asks, cancel, out, code, history>>

\* A refused code is asked about before it counts.
CodeRefused ==
    /\ code.at = "refused"
    /\ code' = [code EXCEPT !.at = "rest"]
    /\ asks' = Append(asks, Ask("check", 0))
    /\ UNCHANGED <<account, loginVars, held, presses, cancel, out, cardVars, history>>

\* POLL_MS passed.  What follows a failure stops where there is none any more.
Ticks ==
    /\ card.timer # 0
    /\ IF timers[card.timer].kind = "follow" /\ card.phase # "signin-failed"
       THEN card' = [card EXCEPT !.timer = 0] /\ UNCHANGED asks
       ELSE /\ Cardinality({i \in DOMAIN asks : asks[i].who = "poll"}) < POLLS
            /\ asks' = Append(asks, Ask("poll", card.timer))
            /\ UNCHANGED card
    /\ UNCHANGED <<account, loginVars, held, requestVars, timers, history>>

\* Twice in a row.
Ended(gone) == gone >= 2

\* What watch makes of a row.
Watched(t, row) ==
    LET gone == IF row.open THEN 0 ELSE timers[t].gone + 1 IN
    IF card.phase # "signing-in"
    THEN card' = [card EXCEPT !.shown = row.says, !.timer = Stops(t)] /\ UNCHANGED timers
    ELSE IF row.says = "in"
    THEN /\ card' = [phase |-> "testing", shown |-> "in", timer |-> Stops(t)]
         /\ UNCHANGED timers
    ELSE IF Ended(gone)
    THEN Fails(row.says)
    ELSE /\ timers' = [timers EXCEPT ![t].gone = gone]
         /\ card' = [card EXCEPT !.shown = row.says]

\* What followFailed makes of it.
Followed(t, row) ==
    /\ card' = IF row.says = "in" THEN [phase |-> "testing", shown |-> "in", timer |-> Stops(t)]
               ELSE card
    /\ UNCHANGED timers

\* What submitCode makes of it.
Checked(row) ==
    IF card.phase = "signing-in" /\ row.says # "in" THEN Fails(card.shown) ELSE UNCHANGED cardVars

RowArrives(i) ==
    /\ asks[i].at = "told"
    /\ CASE asks[i].timer = 0 -> IF asks[i].who = "check" THEN Checked(asks[i])
                                 ELSE UNCHANGED cardVars
         [] OTHER -> IF timers[asks[i].timer].kind = "watch"
                     THEN Watched(asks[i].timer, asks[i])
                     ELSE Followed(asks[i].timer, asks[i])
    /\ asks' = RemoveAt(asks, i)
    /\ UNCHANGED <<account, loginVars, held, requestVars, history>>

\* One prompt, answered or not.
TestEnds ==
    /\ card.phase = "testing"
    /\ \E phase \in {"idle", "signin-failed"} : card' = [card EXCEPT !.phase = phase]
    /\ UNCHANGED <<account, loginVars, held, asks, requestVars, timers, history>>

(***************************************************************************)
(* POST /llm/signin: hidden_signin, under _LOGINS_LOCK until the login runs.*)
(***************************************************************************)
Goes(n, at) == presses' = [presses EXCEPT ![n].at = at]

PressArrives(n) ==
    /\ presses[n].at = "sent" /\ Goes(n, "lock")
    /\ Forgets
    /\ UNCHANGED <<account, loginVars, cancel, out, code, cardVars, history>>

Joinable(l) == Runs(l) /\ logins[l].young

LooksForLogin(n) ==
    /\ presses[n].at = "lock" /\ lock = 0
    /\ IF Joinable(registry)
       THEN /\ presses' = [presses EXCEPT ![n] = [at |-> "wait", login |-> registry]]
            /\ UNCHANGED loginVars
       ELSE /\ presses' = [presses EXCEPT ![n] = [at |-> "stop", login |-> registry]]
            /\ lock' = n /\ starting' = TRUE /\ registry' = 0
            /\ UNCHANGED logins
    /\ UNCHANGED <<account, held, asks, cancel, out, code, cardVars, history>>

StopsPrevious(n) ==
    /\ presses[n].at = "stop" /\ Goes(n, "start")
    /\ StopsLogin(presses[n].login)
    /\ UNCHANGED <<account, registry, starting, lock, held, asks, cancel, out, code, cardVars>>

StartsLogin(n) ==
    /\ presses[n].at = "start"
    /\ lock' = 0 /\ starting' = FALSE
    /\ \/ /\ logins' = Append(logins, NewLogin)
          /\ registry' = Len(logins) + 1
          /\ presses' = [presses EXCEPT ![n] = [at |-> "wait", login |-> Len(logins) + 1]]
          /\ UNCHANGED history
       \/ Uses("refused") /\ Goes(n, "refused") /\ UNCHANGED <<logins, registry>>
    /\ UNCHANGED <<account, held, asks, cancel, out, code, cardVars>>

\* wait_for_url: the link, the end of the process, or URL_WAIT_S.
LinkAwaited(n) ==
    /\ presses[n].at = "wait"
    /\ LET login == logins[presses[n].login] IN
       /\ IF login.link \/ ~login.runs THEN UNCHANGED history ELSE Uses("slow")
       /\ Goes(n, IF ~login.link /\ ~login.runs THEN "refused" ELSE "ok")
    /\ UNCHANGED <<account, loginVars, held, asks, cancel, out, code, cardVars>>

PressStep(n) ==
    \/ PressArrives(n) \/ LooksForLogin(n) \/ StopsPrevious(n) \/ StartsLogin(n) \/ LinkAwaited(n)
    \/ PressAnswered(n)

(***************************************************************************)
(* Cancel, the code and Sign out, which do not take the lock.              *)
(***************************************************************************)
CancelArrives ==
    /\ cancel.at = "sent"
    /\ Forgets
    /\ cancel' = [at |-> "stop", login |-> registry] /\ registry' = 0
    /\ UNCHANGED <<account, logins, starting, lock, presses, out, code, cardVars, history>>

CancelStops ==
    /\ cancel.at = "stop"
    /\ StopsLogin(cancel.login)
    /\ cancel' = [at |-> "rest", login |-> 0]
    /\ UNCHANGED <<account, registry, starting, lock, held, asks, presses, out, code, cardVars>>

CodeArrives ==
    /\ code.at = "sent"
    /\ Forgets
    /\ code' = [at |-> "look", login |-> registry]
    /\ UNCHANGED <<account, loginVars, presses, cancel, out, cardVars, history>>

\* Where no login waits, the CLI itself is asked: it may have finished before the code came.
CodeLooks ==
    /\ code.at = "look"
    /\ code' = [code EXCEPT !.at = IF Runs(code.login) THEN "send"
                                   ELSE IF account = "in" THEN "rest" ELSE "refused"]
    /\ UNCHANGED <<account, loginVars, held, asks, presses, cancel, out, cardVars, history>>

CodeSent ==
    /\ code.at = "send"
    /\ code' = [code EXCEPT !.at = IF Runs(code.login) THEN "rest" ELSE "refused"]
    /\ UNCHANGED <<account, loginVars, held, asks, presses, cancel, out, cardVars, history>>

CodeStep == CodeArrives \/ CodeLooks \/ CodeSent \/ CodeRefused

SignOutPressed ==
    /\ out.at = "rest" /\ Uses("out")
    /\ out' = [out EXCEPT !.at = "sent"]
    /\ UNCHANGED <<account, loginVars, held, asks, presses, cancel, code, cardVars>>

OutArrives ==
    /\ out.at = "sent"
    /\ Forgets
    /\ out' = [at |-> "stop", login |-> registry] /\ registry' = 0
    /\ UNCHANGED <<account, logins, starting, lock, presses, cancel, code, cardVars, history>>

OutStops ==
    /\ out.at = "stop"
    /\ StopsLogin(out.login)
    /\ out' = [at |-> "run", login |-> 0]
    /\ UNCHANGED <<account, registry, starting, lock, held, asks, presses, cancel, code, cardVars>>

\* The CLI's own command, which may do its work and not come back in time.
OutRuns ==
    /\ out.at = "run"
    /\ account' = "out"
    /\ \/ out' = [out EXCEPT !.at = "again"] /\ UNCHANGED history
       \/ Uses("hangs") /\ out' = [out EXCEPT !.at = "rest"]
    /\ UNCHANGED <<loginVars, held, asks, presses, cancel, code, cardVars>>

\* Mutant: what was held while the command ran stays.
AsksOnly == UNCHANGED held /\ asks' = Append(asks, Ask("out", 0))

\* Forgotten again, and asked afresh.
ForgetsAgain ==
    /\ held' = "none"
    /\ asks' = Append([i \in DOMAIN asks |-> [asks[i] EXCEPT !.valid = FALSE]], Ask("out", 0))

OutAsksAgain ==
    /\ out.at = "again"
    /\ ForgetsAgain
    /\ out' = [out EXCEPT !.at = "rest"]
    /\ UNCHANGED <<account, loginVars, presses, cancel, code, cardVars, history>>

OutStep == OutArrives \/ OutStops \/ OutRuns \/ OutAsksAgain
CancelStep == CancelArrives \/ CancelStops
AskStep == \E i \in DOMAIN asks : Says(i) \/ Tells(i) \/ RowArrives(i)

SignInNext ==
    \/ AskStep \/ Looks
    \/ \E l \in DOMAIN logins : LoginStep(l) \/ Approved(l) \/ LoginFails(l) \/ LoginAges(l)
    \/ SignInPressed \/ CancelPressed \/ CodePasted \/ SignOutPressed
    \/ Ticks \/ TestEnds
    \/ \E n \in DOMAIN presses : PressStep(n)
    \/ CancelStep \/ CodeStep \/ OutStep

SignInSpec == SignInInit /\ [][SignInNext]_signInVars

\* The timers tick, what is asked is answered, and the handlers and processes go on.
SignInFairSpec ==
    /\ SignInSpec
    /\ WF_signInVars(Ticks) /\ WF_signInVars(TestEnds) /\ WF_signInVars(AskStep)
    /\ WF_signInVars(CancelStep) /\ WF_signInVars(CodeStep) /\ WF_signInVars(OutStep)
    /\ \A n \in 1 .. PRESSES :
        /\ WF_signInVars(n \in DOMAIN presses /\ PressStep(n))
        /\ WF_signInVars(n \in DOMAIN logins /\ LoginStep(n))

(***************************************************************************)
(* Properties.                                                             *)
(***************************************************************************)
Stopping(l) ==
    \/ \E n \in DOMAIN presses : presses[n].at = "stop" /\ presses[n].login = l
    \/ cancel.at = "stop" /\ cancel.login = l
    \/ out.at = "stop" /\ out.login = l

\* No login is left running that Cancel, Sign out and the next Sign in would not find, and so
\* hold the callback port, but one whose stop was not waited for to its end.
NoOrphan ==
    \A l \in DOMAIN logins : Runs(l) => l = registry \/ Stopping(l) \/ logins[l].outlived

\* After a sign-out no page is told from what is held that the CLI is signed in, whoever
\* asked while it ran; only until the command's end is noted may it be so.
SignedOutIsHeld == held = "in" /\ account = "out" => out.at = "again"

\* Those, in a state of the declared types.
SignInInv == SignInTypeOK /\ NoOrphan /\ SignedOutIsHeld

\* The card fails no sign-in that worked, as it means to by looking twice and by asking where
\* a code comes late.  (A CLI that does not say counts as signed out; a sign-out under way, or
\* a sign-in over one there was, is not what the card tells of.)
FailedHasFailed ==
    [][card.phase = "signing-in" /\ card'.phase = "signin-failed"
          => account = "out" \/ out.at # "rest" \/ card'.shown = "unknown" \/ card.shown = "in"
      ]_signInVars

\* A sign-in that worked is seen in the end, watched or given up on, unless the user
\* cancelled what the card waited for.
WorkedIsSeen ==
    \A h \in Histories :
        history = h => <>[](account = "in" => card.shown = "in" \/ history["cancel"] < h["cancel"])

\* In the end the card does not wait for a login that is not there: it went on, or failed,
\* whatever answers were out at once, and in whatever order they came.
WaitsForALogin == <>[](card.phase = "signing-in" => Runs(registry))
=============================================================================
