----------------------------- MODULE SetupProofs -----------------------------
(***************************************************************************)
(* Proofs about two of the things setup starts, which share nothing.       *)
(*                                                                         *)
(* Calendar, for any accounts, sign-ins and tokens, where the handlers of  *)
(* the page and of the sign-ins come one after another: no token and no    *)
(* invitation is kept of an account that is gone, and the status tells of  *)
(* a sign-in that is being finished.                                       *)
(*                                                                         *)
(* Models, for any models, files and revisions, where no build goes back   *)
(* to an earlier revision: a model that counts as ready is whole.          *)
(***************************************************************************)
EXTENDS Calendar, Models, WellFoundedInduction, TLAPS

(***************************************************************************)
(* Calendar.                                                               *)
(***************************************************************************)
Asking == {"ask", "token", "fetch"}
OfAccount == {"exchange", "address", "add", "remember"}

\* What the types leave open: whose account is asked for, and whose a token is.
CalendarTypes ==
    /\ CalendarTypeOK
    /\ \A t \in Callers : thread[t].at \notin {"rest", "next"} => thread[t].account \in Accounts
    /\ \A i \in SignIns :
          /\ signin[i].at \in OfAccount \/ signin[i].token # 0 => signin[i].account \in Accounts
          /\ signin[i].at \in {"none", "waiting"} => signin[i].token = 0

AtWork(i) == signin[i].at \notin {"none", "waiting"}

\* What makes the three inductive: one handler at a time is between two steps; what the
\* page reads of is shown, what it removes has lost its token, and what a sign-in is about
\* to remember a token of has been restored.
HandlerInv ==
    /\ RemovedHasNoToken /\ HiddenIsForgotten /\ FinishingIsShown
    /\ quota["overlap"] = 0
    /\ \A i, j \in SignIns : AtWork(i) /\ AtWork(j) => i = j
    /\ thread["page"].at # "rest" => \A i \in SignIns : ~AtWork(i)
    /\ thread["page"].at \in Asking => row[thread["page"].account] = "shown"
    /\ thread["page"].at = "remove" => secret[thread["page"].account] = 0
    /\ \A i \in SignIns : signin[i].at = "remember" => row[signin[i].account] # "removed"

(***************************************************************************)
(* Types, by what they are of.                                             *)
(***************************************************************************)
GoogleTypes ==
    /\ issued \in [Accounts -> Tokens]
    /\ accepted \in [Accounts -> SUBSET (Tokens \ {0})]
    /\ secret \in [Accounts -> Tokens] /\ access \in [Accounts -> Tokens]
    /\ rejected \in BOOLEAN
SyncTypes ==
    /\ due \in [Accounts -> SUBSET Rhythms]
    /\ stopped \subseteq Accounts /\ behind \subseteq Accounts /\ todo \subseteq Accounts
ThreadTypes ==
    /\ thread \in [Callers -> Call]
    /\ \A t \in Callers : thread[t].at \notin {"rest", "next"} => thread[t].account \in Accounts
SignInTypes ==
    /\ pending \in SignIns \union {0} /\ finishing \in BOOLEAN
    /\ signin \in [SignIns -> SignIn]
    /\ \A i \in SignIns :
          /\ signin[i].at \in OfAccount \/ signin[i].token # 0 => signin[i].account \in Accounts
          /\ signin[i].at \in {"none", "waiting"} => signin[i].token = 0
RowTypes ==
    /\ row \in [Accounts -> {"absent", "shown", "hidden", "removed"}]
    /\ held \subseteq Accounts
QuotaType == quota \in [Occasions -> Nat]

LEMMA TypesByPart ==
    CalendarTypes <=> /\ GoogleTypes /\ SyncTypes /\ ThreadTypes /\ SignInTypes
                      /\ RowTypes /\ QuotaType
BY DEF CalendarTypes, CalendarTypeOK, GoogleTypes, SyncTypes, ThreadTypes, SignInTypes,
       RowTypes, QuotaType

LEMMA TypesByPartNext ==
    CalendarTypes' <=> /\ GoogleTypes' /\ SyncTypes' /\ ThreadTypes' /\ SignInTypes'
                       /\ RowTypes' /\ QuotaType'
BY DEF CalendarTypes, CalendarTypeOK, GoogleTypes, SyncTypes, ThreadTypes, SignInTypes,
       RowTypes, QuotaType

LEMMA Numbers == 0 \in Tokens /\ 1 \in Tokens /\ MaxTokens \in Nat /\ Tokens \subseteq Nat
BY MaxTokensAssumption DEF Tokens

LEMMA InitCalendar ==
    ASSUME CalendarInit, \A q \in Quotas : q["overlap"] = 0
    PROVE  CalendarTypes /\ HandlerInv
<1>1. PICK known \in {{a \in Accounts : a <= n} : n \in Accounts \union {0}} :
         /\ issued = [a \in Accounts |-> IF a \in known THEN 1 ELSE 0]
         /\ accepted = [a \in Accounts |-> IF a \in known THEN {1} ELSE {}]
         /\ row = [a \in Accounts |-> IF a \in known THEN "shown" ELSE "absent"]
         /\ secret = [a \in Accounts |-> IF a \in known THEN 1 ELSE 0]
         /\ behind = known
  BY DEF CalendarInit
<1>2. known \subseteq Accounts
  OBVIOUS
<1>3. GoogleTypes
  <2>1. {1} \in SUBSET (Tokens \ {0}) /\ {} \in SUBSET (Tokens \ {0})
    BY Numbers
  <2>2. accepted \in [Accounts -> SUBSET (Tokens \ {0})]
    BY <1>1, <2>1
  <2> QED BY <1>1, <2>2, Numbers DEF CalendarInit, GoogleTypes
<1>4. SyncTypes /\ RowTypes
  BY <1>1, <1>2 DEF CalendarInit, SyncTypes, RowTypes
<1>5. ThreadTypes
  BY Numbers DEF CalendarInit, ThreadTypes, AtRest, Call
<1>6. SignInTypes
  BY Numbers DEF CalendarInit, SignInTypes, NoSignIn, SignIn, OfAccount
<1>7. QuotaType
  BY OccasionsAssumption DEF CalendarInit, QuotaType
<1>8. CalendarTypes
  BY <1>3, <1>4, <1>5, <1>6, <1>7, TypesByPart
<1>9. HandlerInv
  <2>1. row \in [Accounts -> {"shown", "absent"}]
    BY <1>1
  <2>2. thread["page"].at = "rest" /\ \A i \in SignIns : signin[i].at = "none"
    BY DEF CalendarInit, AtRest, NoSignIn, Callers
  <2>3. held = {} /\ quota["overlap"] = 0
    BY DEF CalendarInit
  <2> QED BY <2>1, <2>2, <2>3
          DEF HandlerInv, RemovedHasNoToken, HiddenIsForgotten, FinishingIsShown, AtWork, Asking
<1> QED BY <1>8, <1>9

\* What happens is taken from the quota, and leaves no overlap.
LEMMA QuotaStep ==
    ASSUME QuotaType, UNCHANGED quota \/ \E e \in Occasions : May(e)
    PROVE  QuotaType' /\ (quota["overlap"] = 0 => quota'["overlap"] = 0)
<1>1. CASE UNCHANGED quota
  BY <1>1 DEF QuotaType
<1>2. CASE \E e \in Occasions : May(e)
  <2>1. PICK e \in Occasions : May(e)
    BY <1>2
  <2>2. quota[e] - 1 \in Nat /\ quota' = [quota EXCEPT ![e] = quota[e] - 1]
    BY <2>1 DEF QuotaType, May
  <2>3. QuotaType'
    BY <2>2 DEF QuotaType
  <2>4. quota["overlap"] = 0 => quota'["overlap"] = 0
    BY <2>1, <2>2 DEF QuotaType, May, Occasions
  <2> QED BY <2>3, <2>4
<1> QED BY <1>1, <1>2

(***************************************************************************)
(* Asking Google: the sync and the page.                                   *)
(***************************************************************************)
\* A thread that goes on in one of its own ways keeps the type.
LEMMA ThreadMoves ==
    ASSUME ThreadTypes, NEW t \in Callers, NEW c \in Call,
           thread' = [thread EXCEPT ![t] = c],
           c.at \notin {"rest", "next"} => c.account \in Accounts
    PROVE  ThreadTypes'
BY DEF ThreadTypes

LEMMA RestsAreCalls ==
    /\ AtRest \in Call /\ [AtRest EXCEPT !.at = "next"] \in Call
    /\ \A a \in Accounts, wide \in BOOLEAN :
          [AtRest EXCEPT !.at = "ask", !.account = a, !.wide = wide] \in Call
    /\ \A a \in Accounts, token \in Tokens :
          [AtRest EXCEPT !.at = "forget", !.account = a, !.token = token] \in Call
BY Numbers DEF AtRest, Call

\* An account is done with, one way or the other.
LEMMA AccountDone ==
    ASSUME SyncTypes, ThreadTypes, RowTypes, NEW t \in Callers, thread[t].at \in Asking,
           Refused(t) \/ Unavailable(t) \/ Raised(t) \/ Read(t), UNCHANGED row
    PROVE  /\ SyncTypes' /\ ThreadTypes' /\ RowTypes'
           /\ thread'[t].at \in {"rest", "next"}
           /\ \A c \in Callers : c # t => thread'[c] = thread[c]
           /\ held' = held \/ (t = "page" /\ held' = held \union {thread[t].account})
<1> DEFINE a == thread[t].account
<1>1. a \in Accounts /\ thread \in [Callers -> Call]
  BY DEF ThreadTypes, Asking
<1>2. \E c \in {AtRest, [AtRest EXCEPT !.at = "next"]} :
         thread' = [thread EXCEPT ![t] = c]
  BY DEF Refused, Unavailable, Raised, Read, NextAccount, Ends
<1>3. PICK c \in {AtRest, [AtRest EXCEPT !.at = "next"]} : thread' = [thread EXCEPT ![t] = c]
  BY <1>2
<1>4. c \in Call /\ c.at \in {"rest", "next"}
  <2>1. AtRest.at = "rest" /\ [AtRest EXCEPT !.at = "next"].at = "next"
    BY DEF AtRest
  <2> QED BY <2>1, RestsAreCalls
<1>5. ThreadTypes' /\ thread'[t] = c /\ \A d \in Callers : d # t => thread'[d] = thread[d]
  BY <1>1, <1>3, <1>4, ThreadMoves
<1>6. todo' \subseteq todo
  BY DEF Refused, Unavailable, Raised, Read, NextAccount
<1>7. stopped' \subseteq stopped \union {a} /\ behind' \subseteq behind
  BY DEF Refused, Unavailable, Raised, Read
<1>8. due' \in [Accounts -> SUBSET Rhythms]
  BY <1>1 DEF Refused, Unavailable, Raised, Read, SyncTypes
<1>9. held' = held \/ (t = "page" /\ held' = held \union {a})
  BY DEF Refused, Unavailable, Raised, Read
<1> QED BY <1>1, <1>4, <1>5, <1>6, <1>7, <1>8, <1>9 DEF SyncTypes, RowTypes

\* A token that is dropped leaves the others.
LEMMA TokenDropped ==
    ASSUME GoogleTypes, NEW a \in Accounts, _drop_token(a), UNCHANGED <<issued, accepted, rejected>>
    PROVE  /\ GoogleTypes' /\ secret'[a] = 0
           /\ \A b \in Accounts : secret'[b] \in {secret[b], 0}
BY Numbers DEF GoogleTypes, _drop_token

\* What a step of asking does: it may drop the token of the account, and remember an
\* invitation of the account the page reads.
AskingStep(t) ==
    /\ thread[t].at \in Asking
    /\ UNCHANGED row /\ UNCHANGED signing
    /\ UNCHANGED quota \/ \E e \in Occasions : May(e)
    /\ \A b \in Accounts : secret'[b] \in {secret[b], 0}
    /\ \/ thread'[t].at \in {"rest", "next"}
       \/ thread'[t].at \in Asking /\ thread'[t].account = thread[t].account
    /\ \A c \in Callers : c # t => thread'[c] = thread[c]
    /\ held' = held \/ (t = "page" /\ held' = held \union {thread[t].account})

LEMMA AsksIs ==
    ASSUME CalendarTypes, NEW t \in Callers, Asks(t)
    PROVE  /\ GoogleTypes' /\ SyncTypes' /\ ThreadTypes' /\ RowTypes' /\ SignInTypes'
           /\ AskingStep(t)
<1> DEFINE a == thread[t].account
<1> USE TypesByPart
<1>1. /\ thread[t].at = "ask" /\ UNCHANGED <<google, signing, row, quota>>
      /\ thread \in [Callers -> Call] /\ thread[t] \in Call /\ a \in Accounts
      /\ access[a] \in Tokens /\ secret[a] \in Tokens
  BY DEF Asks, ThreadTypes, GoogleTypes
<1>2. GoogleTypes' /\ SignInTypes'
  BY <1>1 DEF google, signing, GoogleTypes, SignInTypes
<1>3. \A b \in Accounts : secret'[b] \in {secret[b], 0}
  BY <1>1 DEF google
<1>4. ASSUME NEW at \in {"fetch", "token"}, NEW token \in Tokens,
             thread' = [thread EXCEPT ![t].at = at, ![t].token = token],
             UNCHANGED <<syncing, held>>
      PROVE  SyncTypes' /\ ThreadTypes' /\ RowTypes' /\ AskingStep(t)
  <2> DEFINE c == [thread[t] EXCEPT !.at = at, !.token = token]
  <2>1. c \in Call /\ c.at = at /\ c.account = a
    BY <1>1 DEF Call
  <2>2. thread' = [thread EXCEPT ![t] = c]
    BY <1>1, <1>4
  <2>3. ThreadTypes' /\ thread'[t] = c
    <3> HIDE DEF c
    <3> QED BY <1>1, <2>1, <2>2, ThreadMoves
  <2> HIDE DEF c
  <2>4. SyncTypes' /\ RowTypes'
    BY <1>1, <1>4 DEF syncing, SyncTypes, RowTypes
  <2> QED BY <1>1, <1>3, <1>4, <2>1, <2>2, <2>3, <2>4 DEF AskingStep, Asking
<1>5. CASE Refused(t)
  <2>1. UNCHANGED row /\ UNCHANGED signing /\ UNCHANGED quota /\ thread[t].at \in Asking
    BY <1>1 DEF Asking
  <2>2. /\ SyncTypes' /\ ThreadTypes' /\ RowTypes'
        /\ thread'[t].at \in {"rest", "next"}
        /\ \A c \in Callers : c # t => thread'[c] = thread[c]
        /\ held' = held \/ (t = "page" /\ held' = held \union {thread[t].account})
    BY <1>5, <2>1, AccountDone
  <2> QED BY <1>2, <1>3, <2>1, <2>2 DEF AskingStep
<1>6. CASE /\ thread' = [thread EXCEPT ![t].at = "fetch", ![t].token = access[a]]
           /\ UNCHANGED <<syncing, held>>
  BY <1>1, <1>2, <1>4, <1>6
<1>7. CASE /\ thread' = [thread EXCEPT ![t].at = "token", ![t].token = secret[a]]
           /\ UNCHANGED <<syncing, held>>
  BY <1>1, <1>2, <1>4, <1>7
<1> HIDE DEF a
<1> QED BY <1>2, <1>5, <1>6, <1>7 DEF Asks, a

LEMMA TokenAnsweredIs ==
    ASSUME CalendarTypes, NEW t \in Callers, TokenAnswered(t)
    PROVE  /\ GoogleTypes' /\ SyncTypes' /\ ThreadTypes' /\ RowTypes' /\ SignInTypes'
           /\ AskingStep(t)
<1> DEFINE a == thread[t].account
           sent == thread[t].token
<1> USE TypesByPart
<1>1. /\ thread[t].at = "token" /\ UNCHANGED signing /\ UNCHANGED row
      /\ thread \in [Callers -> Call] /\ thread[t] \in Call /\ a \in Accounts /\ sent \in Tokens
  BY DEF TokenAnswered, ThreadTypes, Call
<1>2. SignInTypes' /\ thread[t].at \in Asking
  BY <1>1 DEF signing, SignInTypes, Asking
<1>3. UNCHANGED quota \/ \E e \in Occasions : May(e)
  BY DEF TokenAnswered, Occasions
<1>4. CASE /\ access' = [access EXCEPT ![a] = sent] /\ Moves(t, "fetch")
           /\ UNCHANGED <<syncing, held, issued, accepted, secret, rejected, quota>>
  <2> DEFINE c == [thread[t] EXCEPT !.at = "fetch"]
  <2>1. c \in Call /\ c.at = "fetch" /\ c.account = a /\ thread' = [thread EXCEPT ![t] = c]
    BY <1>1, <1>4 DEF Call, Moves
  <2> HIDE DEF c
  <2>2. ThreadTypes' /\ thread'[t] = c
    BY <1>1, <2>1, ThreadMoves
  <2>3. SyncTypes' /\ RowTypes' /\ GoogleTypes'
    BY <1>1, <1>4 DEF syncing, SyncTypes, RowTypes, GoogleTypes
  <2> QED BY <1>1, <1>2, <1>3, <1>4, <2>1, <2>2, <2>3 DEF AskingStep, Asking
<1>5. CASE _drop_token(a) /\ Refused(t) /\ UNCHANGED <<issued, accepted, rejected>>
  BY <1>1, <1>2, <1>3, <1>5, AccountDone, TokenDropped DEF AskingStep
<1>6. CASE /\ Refused(t) \/ Unavailable(t)
           /\ rejected' \in {rejected, TRUE}
           /\ UNCHANGED <<issued, accepted, secret, access>>
  <2>1. GoogleTypes'
    BY <1>6 DEF GoogleTypes
  <2> QED BY <1>1, <1>2, <1>3, <1>6, <2>1, AccountDone DEF AskingStep
<1> QED BY <1>4, <1>5, <1>6 DEF TokenAnswered, google

LEMMA FetchAnsweredIs ==
    ASSUME CalendarTypes, NEW t \in Callers, FetchAnswered(t)
    PROVE  /\ GoogleTypes' /\ SyncTypes' /\ ThreadTypes' /\ RowTypes' /\ SignInTypes'
           /\ AskingStep(t)
<1> DEFINE a == thread[t].account
<1> USE TypesByPart
<1>1. /\ thread[t].at = "fetch" /\ UNCHANGED signing /\ UNCHANGED row
      /\ thread \in [Callers -> Call] /\ thread[t] \in Call /\ a \in Accounts
  BY DEF FetchAnswered, ThreadTypes, Call
<1>2. SignInTypes' /\ thread[t].at \in Asking
  BY <1>1 DEF signing, SignInTypes, Asking
<1>3. UNCHANGED quota \/ \E e \in Occasions : May(e)
  BY DEF FetchAnswered, Occasions
<1>4. CASE /\ access' = [access EXCEPT ![a] = 0]
           /\ thread' = [thread EXCEPT ![t].at = "ask", ![t].again = TRUE]
           /\ UNCHANGED <<syncing, held, issued, accepted, secret, rejected, quota>>
  <2> DEFINE c == [thread[t] EXCEPT !.at = "ask", !.again = TRUE]
  <2>1. c \in Call /\ c.at = "ask" /\ c.account = a /\ thread' = [thread EXCEPT ![t] = c]
    BY <1>1, <1>4 DEF Call
  <2> HIDE DEF c
  <2>2. ThreadTypes' /\ thread'[t] = c
    BY <1>1, <2>1, ThreadMoves
  <2>3. SyncTypes' /\ RowTypes' /\ GoogleTypes'
    BY <1>1, <1>4, Numbers DEF syncing, SyncTypes, RowTypes, GoogleTypes
  <2> QED BY <1>1, <1>2, <1>3, <1>4, <2>1, <2>2, <2>3 DEF AskingStep, Asking
<1>5. CASE _drop_token(a) /\ Refused(t) /\ UNCHANGED <<issued, accepted, rejected>>
  BY <1>1, <1>2, <1>3, <1>5, AccountDone, TokenDropped DEF AskingStep
<1>6. CASE /\ Refused(t) \/ Unavailable(t) \/ Raised(t) \/ Read(t)
           /\ UNCHANGED google
  <2>1. GoogleTypes' /\ UNCHANGED secret
    BY <1>6 DEF GoogleTypes, google
  <2> QED BY <1>1, <1>2, <1>3, <1>6, <2>1, AccountDone DEF AskingStep
<1> QED BY <1>4, <1>5, <1>6 DEF FetchAnswered

\* While it is asked, the handlers' invariant holds: the sync only drops tokens, and the
\* page reads of a shown account.
LEMMA AskingKeepsHandlers ==
    ASSUME CalendarTypes, HandlerInv, NEW t \in Callers, AskingStep(t)
    PROVE  HandlerInv'
<1>1. /\ UNCHANGED row /\ UNCHANGED <<pending, finishing, signin>>
      /\ quota'["overlap"] = 0
      /\ \A b \in Accounts : secret'[b] = 0 \/ secret'[b] = secret[b]
  BY QuotaStep, TypesByPart DEF AskingStep, HandlerInv, signing
<1>2. thread[t].account \in Accounts
  BY DEF AskingStep, CalendarTypes, Asking
<1>3. RemovedHasNoToken' /\ FinishingIsShown'
  BY <1>1 DEF HandlerInv, RemovedHasNoToken, FinishingIsShown
<1>4. HiddenIsForgotten'
  BY <1>1 DEF AskingStep, HandlerInv, HiddenIsForgotten
<1>5. /\ thread'["page"].at # "rest" => thread["page"].at # "rest"
      /\ thread'["page"].at \in Asking =>
            thread["page"].at \in Asking /\ thread'["page"].account = thread["page"].account
      /\ thread'["page"].at = "remove" =>
            thread["page"].at = "remove" /\ thread'["page"].account = thread["page"].account
  BY DEF AskingStep, Callers, Asking
<1>6. thread'["page"].at = "remove" => secret'[thread'["page"].account] = 0
  BY <1>1, <1>5 DEF HandlerInv, CalendarTypes, Callers
<1> QED BY <1>1, <1>3, <1>4, <1>5, <1>6 DEF HandlerInv, AtWork

(***************************************************************************)
(* The tick, the clocks, and the world.                                    *)
(***************************************************************************)
LEMMA TicksKeep ==
    ASSUME CalendarTypes, HandlerInv,
           TickBegins \/ TakesAccount \/ TimePasses \/ InviteExpires
              \/ \E a \in Accounts : RevokedAtGoogle(a)
    PROVE  CalendarTypes' /\ HandlerInv'
<1> USE TypesByPart, TypesByPartNext
<1> USE DEF google, syncing, signing
<1>1. UNCHANGED <<row, secret, pending, finishing, signin>>
      /\ thread'["page"] = thread["page"] /\ held' \subseteq held
  <2>1. UNCHANGED <<row, secret, pending, finishing, signin>> /\ held' \subseteq held
    BY DEF TickBegins, TakesAccount, TimePasses, InviteExpires, RevokedAtGoogle
  <2>2. thread'["page"] = thread["page"]
    BY DEF TickBegins, TakesAccount, TimePasses, InviteExpires, RevokedAtGoogle, Moves, Ends,
           ThreadTypes, Callers
  <2> QED BY <2>1, <2>2
<1>2. QuotaType' /\ quota'["overlap"] = 0
  <2>1. UNCHANGED quota \/ \E e \in Occasions : May(e)
    BY DEF TickBegins, TakesAccount, TimePasses, InviteExpires, RevokedAtGoogle, Occasions
  <2> QED BY <2>1, QuotaStep DEF HandlerInv
<1>3. HandlerInv'
  BY <1>1, <1>2 DEF HandlerInv, RemovedHasNoToken, HiddenIsForgotten, FinishingIsShown, AtWork
<1>4. SignInTypes' /\ RowTypes'
  BY <1>1 DEF SignInTypes, RowTypes
<1>5. ThreadTypes'
  <2>1. CASE TickBegins
    <3> DEFINE c == [thread["sync"] EXCEPT !.at = "next"]
    <3>1. c \in Call /\ c.at = "next" /\ thread' = [thread EXCEPT !["sync"] = c]
      BY <2>1 DEF TickBegins, Moves, ThreadTypes, Call, Callers
    <3> HIDE DEF c
    <3> QED BY <3>1, ThreadMoves DEF Callers
  <2>2. CASE TakesAccount /\ todo = {}
    <3>1. thread' = [thread EXCEPT !["sync"] = AtRest] \/ UNCHANGED thread
      BY <2>2 DEF TakesAccount, Ends
    <3>2. AtRest \in Call /\ AtRest.at = "rest" /\ "sync" \in Callers
      BY RestsAreCalls DEF AtRest, Callers
    <3> QED BY <3>1, <3>2, ThreadMoves DEF ThreadTypes
  <2>3. CASE TakesAccount /\ todo # {}
    <3>1. PICK a \in todo :
             \/ UNCHANGED thread
             \/ thread' = [thread EXCEPT !["sync"] = [AtRest EXCEPT
                             !.at = "ask", !.account = a, !.wide = "wide" \in due[a]]]
      BY <2>3 DEF TakesAccount
    <3> DEFINE c == [AtRest EXCEPT !.at = "ask", !.account = a, !.wide = "wide" \in due[a]]
    <3>2. a \in Accounts /\ ("wide" \in due[a]) \in BOOLEAN
      BY DEF SyncTypes
    <3>3. c \in Call
      BY <3>2, RestsAreCalls
    <3>4. c.at = "ask" /\ c.account = a
      BY DEF AtRest
    <3>5. UNCHANGED thread \/ thread' = [thread EXCEPT !["sync"] = c]
      BY <3>1
    <3> HIDE DEF c
    <3> QED BY <3>2, <3>3, <3>4, <3>5, ThreadMoves DEF ThreadTypes, Callers
  <2>4. CASE UNCHANGED thread
    BY <2>4 DEF ThreadTypes
  <2> QED BY <2>1, <2>2, <2>3, <2>4 DEF TimePasses, InviteExpires, RevokedAtGoogle
<1>6. SyncTypes'
  <2>1. UNCHANGED <<stopped, behind>> /\ todo' \subseteq Accounts
    BY DEF TickBegins, TakesAccount, TimePasses, InviteExpires, RevokedAtGoogle, SyncTypes, active_ids
  <2>2. due' \in [Accounts -> SUBSET Rhythms]
    BY DEF TickBegins, TakesAccount, TimePasses, InviteExpires, RevokedAtGoogle, SyncTypes, Rhythms
  <2> QED BY <2>1, <2>2 DEF SyncTypes
<1>7. GoogleTypes'
  <2>1. UNCHANGED <<issued, secret, access, rejected>>
    BY DEF TickBegins, TakesAccount, TimePasses, InviteExpires, RevokedAtGoogle
  <2>2. accepted' \in [Accounts -> SUBSET (Tokens \ {0})]
    BY DEF TickBegins, TakesAccount, TimePasses, InviteExpires, RevokedAtGoogle, GoogleTypes
  <2> QED BY <2>1, <2>2 DEF GoogleTypes
<1> QED BY <1>2, <1>3, <1>4, <1>5, <1>6, <1>7

(***************************************************************************)
(* The page.                                                               *)
(***************************************************************************)
\* Who is kicked is of the accounts; the sync notes it.
LEMMA KickKeeps ==
    ASSUME SyncTypes, ThreadTypes, NEW as \in SUBSET Accounts, kick(as), UNCHANGED todo,
           thread' = Noted(as)
    PROVE  /\ SyncTypes' /\ ThreadTypes' /\ thread'["page"] = thread["page"]
<1>1. SyncTypes'
  <2>1. due' \in [Accounts -> SUBSET Rhythms]
    BY DEF kick, SyncTypes
  <2> QED BY <2>1 DEF kick, SyncTypes
<1> DEFINE noted == thread["sync"].kicked \/ thread["sync"].account \in as
           c == [thread["sync"] EXCEPT !.kicked = noted]
<1>2. noted \in BOOLEAN /\ thread["sync"] \in Call
  BY DEF ThreadTypes, Callers, Call
<1>3. thread' = [thread EXCEPT !["sync"] = c]
  BY DEF Noted
<1> HIDE DEF noted
<1>4. c \in Call /\ c.at = thread["sync"].at /\ c.account = thread["sync"].account
  BY <1>2 DEF Call
<1> HIDE DEF c
<1>5. ThreadTypes'
  BY <1>3, <1>4, ThreadMoves DEF ThreadTypes, Callers
<1>6. thread'["page"] = thread["page"]
  BY <1>3 DEF ThreadTypes, Callers
<1> QED BY <1>1, <1>5, <1>6

\* A handler that begins is alone.
LEMMA BeginsAlone ==
    ASSUME HandlerInv, MayBegin
    PROVE  thread["page"].at = "rest" /\ \A i \in SignIns : ~AtWork(i)
BY DEF HandlerInv, MayBegin, HandlersRest, AtWork

LEMMA SwitchesKeep ==
    ASSUME CalendarTypes, HandlerInv, SyncPressed \/ \E a \in Accounts : set_visible(a)
    PROVE  CalendarTypes' /\ HandlerInv'
<1> USE TypesByPart, TypesByPartNext
<1>1. /\ MayBegin /\ UNCHANGED google /\ UNCHANGED signing /\ UNCHANGED todo
      /\ \E e \in Occasions : May(e)
      /\ \E as \in SUBSET Accounts : kick(as) /\ thread' = Noted(as)
  <2>1. CASE SyncPressed
    BY <2>1 DEF SyncPressed, Occasions
  <2>2. CASE \E a \in Accounts : set_visible(a)
    BY <2>2 DEF set_visible, Occasions
  <2> QED BY <2>1, <2>2
<1>2. /\ SyncTypes' /\ ThreadTypes' /\ thread'["page"] = thread["page"]
      /\ QuotaType' /\ quota'["overlap"] = 0
  BY <1>1, KickKeeps, QuotaStep DEF HandlerInv
<1>3. GoogleTypes' /\ SignInTypes' /\ UNCHANGED <<secret, finishing, signin>>
  BY <1>1 DEF google, signing, GoogleTypes, SignInTypes
<1>4. /\ RowTypes' /\ held' \subseteq held
      /\ \A a \in Accounts : row'[a] = "removed" => row[a] = "removed"
      /\ \A a \in held' : row'[a] = "shown"
  <2>1. CASE SyncPressed
    BY <2>1 DEF SyncPressed, RowTypes, HandlerInv, HiddenIsForgotten
  <2>2. CASE \E a \in Accounts : set_visible(a)
    <3>1. PICK a \in Accounts : set_visible(a)
      BY <2>2
    <3>2. CASE row' = [row EXCEPT ![a] = "shown"] /\ UNCHANGED held
      BY <3>2 DEF RowTypes, HandlerInv, HiddenIsForgotten
    <3>3. CASE row' = [row EXCEPT ![a] = "hidden"] /\ held' = held \ {a}
      BY <3>3 DEF RowTypes, HandlerInv, HiddenIsForgotten
    <3> QED BY <3>1, <3>2, <3>3 DEF set_visible, _hidden
  <2> QED BY <2>1, <2>2
<1>5. thread["page"].at = "rest" /\ \A i \in SignIns : ~AtWork(i)
  BY <1>1, BeginsAlone
<1>6. RemovedHasNoToken' /\ HiddenIsForgotten' /\ FinishingIsShown'
  BY <1>3, <1>4 DEF HandlerInv, RemovedHasNoToken, HiddenIsForgotten, FinishingIsShown
<1>7. HandlerInv'
  BY <1>2, <1>3, <1>5, <1>6 DEF HandlerInv, AtWork, Asking
<1> QED BY <1>2, <1>3, <1>4, <1>7

LEMMA PageBeginsKeeps ==
    ASSUME CalendarTypes, HandlerInv, NEW a \in Accounts, InvitePressed(a) \/ RemovePressed(a)
    PROVE  CalendarTypes' /\ HandlerInv'
<1> USE TypesByPart, TypesByPartNext
<1> DEFINE asked == [AtRest EXCEPT !.at = "ask", !.account = a]
           kept == IF secret[a] # 0 THEN secret[a] ELSE access[a]
           gone == [AtRest EXCEPT !.at = "forget", !.account = a, !.token = kept]
<1>1. /\ MayBegin /\ UNCHANGED google /\ UNCHANGED syncing /\ UNCHANGED signing
      /\ UNCHANGED row /\ UNCHANGED held
      /\ \E e \in Occasions : May(e)
      /\ \/ row[a] = "shown" /\ thread' = [thread EXCEPT !["page"] = asked]
         \/ thread' = [thread EXCEPT !["page"] = gone]
  <2>1. CASE InvitePressed(a)
    BY <2>1 DEF InvitePressed, Occasions
  <2>2. CASE RemovePressed(a)
    BY <2>2 DEF RemovePressed, Occasions
  <2> QED BY <2>1, <2>2
<1>2. /\ asked \in Call /\ asked.at = "ask" /\ asked.account = a
      /\ gone \in Call /\ gone.at = "forget" /\ gone.account = a
  <2>1. kept \in Tokens
    BY DEF GoogleTypes
  <2> HIDE DEF kept
  <2> QED BY <2>1, Numbers DEF AtRest, Call
<1> HIDE DEF asked, gone
<1>3. PICK c \in {asked, gone} : thread' = [thread EXCEPT !["page"] = c] /\ (c = asked => row[a] = "shown")
  <2>1. asked # gone
    BY <1>2
  <2> QED BY <1>1, <2>1
<1>4. ThreadTypes' /\ thread'["page"] = c
  BY <1>2, <1>3, ThreadMoves DEF ThreadTypes, Callers
<1>5. QuotaType' /\ quota'["overlap"] = 0
  BY <1>1, QuotaStep DEF HandlerInv
<1>6. GoogleTypes' /\ SyncTypes' /\ SignInTypes' /\ RowTypes' /\ UNCHANGED <<secret, finishing, signin>>
  BY <1>1 DEF google, syncing, signing, GoogleTypes, SyncTypes, SignInTypes, RowTypes
<1>7. \A i \in SignIns : ~AtWork(i)
  BY <1>1, BeginsAlone
<1>8. RemovedHasNoToken' /\ HiddenIsForgotten' /\ FinishingIsShown'
  BY <1>1, <1>6 DEF HandlerInv, RemovedHasNoToken, HiddenIsForgotten, FinishingIsShown
<1>9. /\ thread'["page"].at \in Asking => row'[thread'["page"].account] = "shown"
      /\ thread'["page"].at # "remove"
  BY <1>1, <1>2, <1>3, <1>4 DEF Asking
<1>10. HandlerInv'
  BY <1>5, <1>6, <1>7, <1>8, <1>9 DEF HandlerInv, AtWork
<1> QED BY <1>4, <1>5, <1>6, <1>10

LEMMA ForgottenKeeps ==
    ASSUME CalendarTypes, HandlerInv, Forgotten
    PROVE  CalendarTypes' /\ HandlerInv'
<1> USE TypesByPart, TypesByPartNext
<1> DEFINE a == thread["page"].account
           c == [thread["page"] EXCEPT !.at = "remove"]
<1>1. /\ thread["page"].at = "forget" /\ thread["page"] \in Call /\ a \in Accounts
      /\ thread \in [Callers -> Call]
  BY DEF Forgotten, ThreadTypes, Callers
<1>2. /\ accepted' = [accepted EXCEPT ![a] = @ \ {thread["page"].token}] \/ UNCHANGED accepted
      /\ UNCHANGED <<issued, rejected, row, held>> /\ UNCHANGED syncing /\ UNCHANGED signing
      /\ UNCHANGED quota \/ \E e \in Occasions : May(e)
      /\ secret' = [secret EXCEPT ![a] = 0] /\ access' = [access EXCEPT ![a] = 0]
      /\ thread' = [thread EXCEPT !["page"] = c]
  BY DEF Forgotten, _drop_token, Moves, Occasions
<1>3. c \in Call /\ c.at = "remove" /\ c.account = a
  BY <1>1 DEF Call
<1> HIDE DEF c
<1>4. ThreadTypes' /\ thread'["page"] = c
  BY <1>1, <1>2, <1>3, ThreadMoves DEF Callers
<1>5. accepted' \in [Accounts -> SUBSET (Tokens \ {0})]
  BY <1>2 DEF GoogleTypes
<1>6. GoogleTypes'
  BY <1>1, <1>2, <1>5, Numbers DEF GoogleTypes
<1>7. secret'[a] = 0 /\ \A b \in Accounts : secret'[b] = 0 \/ secret'[b] = secret[b]
  BY <1>1, <1>2 DEF GoogleTypes
<1>8. SyncTypes' /\ SignInTypes' /\ RowTypes' /\ UNCHANGED <<finishing, signin>>
  BY <1>2 DEF syncing, signing, SyncTypes, SignInTypes, RowTypes
<1>9. QuotaType' /\ quota'["overlap"] = 0
  BY <1>2, QuotaStep DEF HandlerInv
<1>10. RemovedHasNoToken' /\ HiddenIsForgotten' /\ FinishingIsShown'
  BY <1>2, <1>7, <1>8 DEF HandlerInv, RemovedHasNoToken, HiddenIsForgotten, FinishingIsShown
<1>11. HandlerInv'
  BY <1>1, <1>2, <1>3, <1>4, <1>7, <1>8, <1>9, <1>10 DEF HandlerInv, AtWork, Asking
<1> QED BY <1>4, <1>6, <1>8, <1>9, <1>11

LEMMA RemovedKeeps ==
    ASSUME CalendarTypes, HandlerInv, Removed
    PROVE  CalendarTypes' /\ HandlerInv'
<1> USE TypesByPart, TypesByPartNext
<1> DEFINE a == thread["page"].account
           noted == thread["sync"].kicked \/ thread["sync"].account \in {a}
           c == [thread["sync"] EXCEPT !.kicked = noted]
<1>1. /\ thread["page"].at = "remove" /\ a \in Accounts /\ secret[a] = 0
      /\ thread \in [Callers -> Call] /\ noted \in BOOLEAN /\ thread["sync"] \in Call
  BY DEF Removed, ThreadTypes, Callers, HandlerInv
<1>2. /\ row' = [row EXCEPT ![a] = "removed"] /\ held' = held \ {a} /\ kick({a})
      /\ UNCHANGED <<issued, accepted, secret, access, rejected, todo, quota>>
      /\ UNCHANGED <<pending, finishing, signin>>
      /\ thread' = [[thread EXCEPT !["sync"] = c] EXCEPT !["page"] = AtRest]
  BY DEF Removed, _hidden, Noted, google, signing
<1> HIDE DEF noted
<1>3. c \in Call /\ c.at = thread["sync"].at /\ c.account = thread["sync"].account
  BY <1>1 DEF Call
<1>4. AtRest \in Call /\ AtRest.at = "rest"
  BY RestsAreCalls DEF AtRest
<1> HIDE DEF c
<1>5. thread' \in [Callers -> Call] /\ thread'["page"] = AtRest /\ thread'["sync"] = c
  BY <1>1, <1>2, <1>3, <1>4 DEF Callers
<1>6. ThreadTypes'
  BY <1>3, <1>4, <1>5 DEF ThreadTypes, Callers
<1>7. SyncTypes'
  <2>1. due' \in [Accounts -> SUBSET Rhythms]
    BY <1>2 DEF kick, SyncTypes
  <2> QED BY <1>1, <1>2, <2>1 DEF kick, SyncTypes
<1>8. GoogleTypes' /\ SignInTypes' /\ RowTypes' /\ QuotaType'
  BY <1>1, <1>2 DEF GoogleTypes, SignInTypes, RowTypes, QuotaType
<1>9. RemovedHasNoToken' /\ HiddenIsForgotten' /\ FinishingIsShown'
  BY <1>1, <1>2 DEF HandlerInv, RemovedHasNoToken, HiddenIsForgotten, FinishingIsShown, RowTypes
<1>10. \A i \in SignIns : signin[i].at # "remember"
  BY <1>1 DEF HandlerInv, AtWork
<1>11. HandlerInv'
  BY <1>2, <1>4, <1>5, <1>9, <1>10 DEF HandlerInv, AtWork, Asking
<1> QED BY <1>6, <1>7, <1>8, <1>11

(***************************************************************************)
(* The sign-in.                                                            *)
(***************************************************************************)
\* A sign-in that goes on in one of its own ways keeps the type.
LEMMA SignInMoves ==
    ASSUME SignInTypes, NEW i \in SignIns, NEW s \in SignIn,
           signin' = [signin EXCEPT ![i] = s],
           pending' \in SignIns \union {0}, finishing' \in BOOLEAN,
           s.at \in OfAccount \/ s.token # 0 => s.account \in Accounts,
           s.at \in {"none", "waiting"} => s.token = 0
    PROVE  /\ SignInTypes' /\ signin'[i] = s
           /\ \A j \in SignIns : j # i => signin'[j] = signin[j]
BY DEF SignInTypes

LEMMA SignInRests == /\ NoSignIn \in SignIn /\ NoSignIn.at = "none" /\ NoSignIn.token = 0
                     /\ [NoSignIn EXCEPT !.at = "tell"] \in SignIn
                     /\ [NoSignIn EXCEPT !.at = "tell"].at = "tell"
                     /\ [NoSignIn EXCEPT !.at = "tell"].token = 0
BY Numbers DEF NoSignIn, SignIn

\* start, cancel, _expire_pending: nothing is finished yet.
LEMMA WaitingKeeps ==
    ASSUME CalendarTypes, HandlerInv, cancel \/ \E i \in SignIns : start(i) \/ Closes(i)
    PROVE  CalendarTypes' /\ HandlerInv'
<1> USE TypesByPart, TypesByPartNext
<1>1. /\ UNCHANGED google /\ UNCHANGED syncing
      /\ UNCHANGED row /\ UNCHANGED thread /\ UNCHANGED held /\ UNCHANGED finishing
      /\ UNCHANGED quota \/ \E e \in Occasions : May(e)
  BY DEF cancel, start, Closes, Occasions
<1>2. /\ SignInTypes'
      /\ \A j \in SignIns : signin'[j] = signin[j] \/ signin'[j].at \in {"none", "waiting"}
  <2>1. CASE cancel
    BY <2>1 DEF cancel, SignInTypes
  <2>2. ASSUME NEW i \in SignIns, start(i)
        PROVE  /\ SignInTypes'
               /\ \A j \in SignIns : signin'[j] = signin[j] \/ signin'[j].at \in {"none", "waiting"}
    <3> DEFINE s == [signin[i] EXCEPT !.at = "waiting"]
    <3>1. signin[i] \in SignIn /\ signin[i].token = 0
      BY <2>2 DEF start, SignInTypes
    <3>2. s \in SignIn /\ s.at = "waiting" /\ s.token = 0
      BY <3>1 DEF SignIn
    <3>3. signin' = [signin EXCEPT ![i] = s] /\ pending' = i /\ finishing' = finishing
      BY <2>2 DEF start, Leads
    <3> HIDE DEF s
    <3> QED BY <3>2, <3>3, SignInMoves DEF OfAccount, SignInTypes
  <2>3. ASSUME NEW i \in SignIns, Closes(i)
        PROVE  /\ SignInTypes'
               /\ \A j \in SignIns : signin'[j] = signin[j] \/ signin'[j].at \in {"none", "waiting"}
    <3>1. /\ signin' = [signin EXCEPT ![i] = NoSignIn] /\ pending' \in {0, pending}
          /\ finishing' = finishing
      BY <2>3 DEF Closes
    <3> QED BY <3>1, SignInMoves, SignInRests DEF OfAccount, SignInTypes
  <2> QED BY <2>1, <2>2, <2>3
<1>3. QuotaType' /\ quota'["overlap"] = 0
  BY <1>1, QuotaStep DEF HandlerInv
<1>4. GoogleTypes' /\ SyncTypes' /\ ThreadTypes' /\ RowTypes' /\ UNCHANGED secret
  BY <1>1 DEF google, syncing, GoogleTypes, SyncTypes, ThreadTypes, RowTypes
<1>5. \A j \in SignIns : AtWork(j)' => AtWork(j) /\ signin'[j] = signin[j]
  BY <1>2 DEF AtWork
<1>6. RemovedHasNoToken' /\ HiddenIsForgotten' /\ FinishingIsShown'
  BY <1>1, <1>2, <1>4 DEF HandlerInv, RemovedHasNoToken, HiddenIsForgotten, FinishingIsShown
<1>7. \A j \in SignIns : signin'[j].at = "remember" => signin'[j] = signin[j]
  BY <1>2
<1>8. HandlerInv'
  BY <1>1, <1>3, <1>4, <1>5, <1>6, <1>7 DEF HandlerInv
<1> QED BY <1>2, <1>3, <1>4, <1>8

\* What a sign-in at work leaves: nobody else is at work, before and after.
LEMMA AloneAtWork ==
    ASSUME CalendarTypes, HandlerInv, NEW i \in SignIns, AtWork(i)
    PROVE  /\ thread["page"].at = "rest" /\ finishing
           /\ \A j \in SignIns : j # i => ~AtWork(j)
BY DEF HandlerInv, FinishingIsShown, AtWork, CalendarTypes, CalendarTypeOK

LEMMA CompleteKeeps ==
    ASSUME CalendarTypes, HandlerInv, NEW i \in SignIns, complete(i)
    PROVE  CalendarTypes' /\ HandlerInv'
<1> USE TypesByPart, TypesByPartNext
<1>1. /\ UNCHANGED google /\ UNCHANGED syncing
      /\ UNCHANGED row /\ UNCHANGED thread /\ UNCHANGED held /\ UNCHANGED quota
      /\ signin[i].at = "waiting" /\ MayBegin
      /\ signin \in [SignIns -> SignIn] /\ signin[i] \in SignIn /\ signin[i].token = 0
  BY DEF complete, SignInTypes
<1>2. thread["page"].at = "rest" /\ \A j \in SignIns : ~AtWork(j)
  BY <1>1, BeginsAlone
<1>3. /\ SignInTypes'
      /\ \A j \in SignIns : j # i => signin'[j] = signin[j]
      /\ (signin'[i].at \in {"exchange", "tell"} /\ finishing') \/ signin'[i].at = "none"
  <2>1. CASE pending # i
    <3>1. signin' = [signin EXCEPT ![i] = NoSignIn] /\ UNCHANGED <<pending, finishing>>
      BY <2>1 DEF complete
    <3> QED BY <3>1, SignInMoves, SignInRests DEF SignInTypes, OfAccount
  <2>2. CASE pending = i
    <3>1. /\ pending' = 0 /\ finishing' = TRUE
          /\ \/ \E a \in Accounts : signin' = [signin EXCEPT ![i].at = "exchange", ![i].account = a]
             \/ signin' = [signin EXCEPT ![i].at = "tell"]
      BY <2>2 DEF complete, Takes, Leads
    <3>2. CASE signin' = [signin EXCEPT ![i].at = "tell"]
      <4> DEFINE s == [signin[i] EXCEPT !.at = "tell"]
      <4>1. /\ s \in SignIn /\ s.at = "tell" /\ s.token = 0 /\ signin' = [signin EXCEPT ![i] = s]
        BY <1>1, <3>2 DEF SignIn
      <4> HIDE DEF s
      <4> QED BY <3>1, <4>1, SignInMoves DEF OfAccount
    <3>3. ASSUME NEW a \in Accounts,
                 signin' = [signin EXCEPT ![i].at = "exchange", ![i].account = a]
          PROVE  /\ SignInTypes' /\ signin'[i].at = "exchange"
                 /\ \A j \in SignIns : j # i => signin'[j] = signin[j]
      <4> DEFINE s == [signin[i] EXCEPT !.at = "exchange", !.account = a]
      <4>1. s \in SignIn /\ s.at = "exchange" /\ s.account = a /\ signin' = [signin EXCEPT ![i] = s]
        BY <1>1, <3>3 DEF SignIn
      <4> HIDE DEF s
      <4> QED BY <3>1, <4>1, SignInMoves
    <3> QED BY <3>1, <3>2, <3>3
  <2> QED BY <2>1, <2>2
<1>4. GoogleTypes' /\ SyncTypes' /\ ThreadTypes' /\ RowTypes' /\ QuotaType' /\ UNCHANGED secret
  BY <1>1 DEF google, syncing, GoogleTypes, SyncTypes, ThreadTypes, RowTypes, QuotaType
<1>5. \A j \in SignIns : AtWork(j)' => j = i /\ finishing'
  BY <1>2, <1>3 DEF AtWork
<1>6. RemovedHasNoToken' /\ HiddenIsForgotten' /\ FinishingIsShown'
  BY <1>1, <1>4, <1>5 DEF HandlerInv, RemovedHasNoToken, HiddenIsForgotten, FinishingIsShown, AtWork
<1>7. \A j \in SignIns : signin'[j].at # "remember"
  BY <1>2, <1>3 DEF AtWork
<1>8. HandlerInv'
  BY <1>1, <1>2, <1>5, <1>6, <1>7 DEF HandlerInv, Asking
<1> QED BY <1>3, <1>4, <1>8

\* A step of a sign-in that stays at work and touches neither rows nor tokens kept here.
LEMMA SignInGoesOn ==
    ASSUME CalendarTypes, HandlerInv, NEW i \in SignIns, AtWork(i), NEW s \in SignIn,
           signin' = [signin EXCEPT ![i] = s], s.at \in {"address", "add", "tell"},
           s.at # "tell" \/ s.token # 0 => s.account \in Accounts,
           GoogleTypes', UNCHANGED secret, UNCHANGED syncing, UNCHANGED row, UNCHANGED thread,
           UNCHANGED pending, UNCHANGED finishing, UNCHANGED held,
           UNCHANGED quota \/ \E e \in Occasions : May(e)
    PROVE  CalendarTypes' /\ HandlerInv'
<1> USE TypesByPart, TypesByPartNext
<1>1. /\ SignInTypes' /\ signin'[i] = s
      /\ \A j \in SignIns : j # i => signin'[j] = signin[j]
  BY SignInMoves DEF OfAccount, SignInTypes
<1>2. SyncTypes' /\ ThreadTypes' /\ RowTypes'
  BY DEF syncing, SyncTypes, ThreadTypes, RowTypes
<1>3. QuotaType' /\ quota'["overlap"] = 0
  BY QuotaStep DEF HandlerInv
<1>4. thread["page"].at = "rest" /\ finishing /\ \A j \in SignIns : AtWork(j)' => j = i
  BY <1>1, AloneAtWork DEF AtWork
<1>5. RemovedHasNoToken' /\ HiddenIsForgotten' /\ FinishingIsShown'
  BY <1>4 DEF HandlerInv, RemovedHasNoToken, HiddenIsForgotten, FinishingIsShown
<1>6. \A j \in SignIns : signin'[j].at # "remember"
  BY <1>1, <1>4 DEF AtWork
<1>7. HandlerInv'
  BY <1>3, <1>4, <1>5, <1>6 DEF HandlerInv, Asking
<1> QED BY <1>1, <1>2, <1>3, <1>7

LEMMA ExchangedKeeps ==
    ASSUME CalendarTypes, HandlerInv, NEW i \in SignIns, Exchanged(i)
    PROVE  CalendarTypes' /\ HandlerInv'
<1> USE TypesByPart
<1> DEFINE a == signin[i].account
<1>1. /\ AtWork(i) /\ a \in Accounts /\ signin[i] \in SignIn /\ signin \in [SignIns -> SignIn]
      /\ UNCHANGED <<secret, access>> /\ UNCHANGED syncing /\ UNCHANGED row /\ UNCHANGED thread
      /\ UNCHANGED pending /\ UNCHANGED finishing /\ UNCHANGED held
      /\ UNCHANGED quota \/ \E e \in Occasions : May(e)
  BY DEF Exchanged, AtWork, SignInTypes, OfAccount, Occasions
<1>2. CASE /\ Failed(i) /\ rejected' \in {rejected, TRUE} /\ UNCHANGED <<issued, accepted>>
  <2>1. GoogleTypes'
    BY <1>1, <1>2 DEF GoogleTypes
  <2>2. signin' = [signin EXCEPT ![i] = [NoSignIn EXCEPT !.at = "tell"]]
    BY <1>2 DEF Failed
  <2> QED BY <1>1, <2>1, <2>2, SignInRests, SignInGoesOn
<1> DEFINE new == issued[a] + 1
<1>3. CASE /\ new <= MaxTokens /\ issued' = [issued EXCEPT ![a] = new]
           /\ accepted' = [accepted EXCEPT ![a] = @ \union {new}] /\ rejected' = FALSE
           /\ signin' = [signin EXCEPT ![i].at = "address", ![i].token = new]
  <2> DEFINE s == [signin[i] EXCEPT !.at = "address", !.token = new]
  <2>1. /\ new <= MaxTokens /\ issued' = [issued EXCEPT ![a] = new]
        /\ accepted' = [accepted EXCEPT ![a] = @ \union {new}] /\ rejected' = FALSE
        /\ signin' = [signin EXCEPT ![i].at = "address", ![i].token = new]
    BY <1>3
  <2>2. new \in Tokens \ {0}
    BY <1>1, <2>1, Numbers DEF GoogleTypes, Tokens
  <2> HIDE DEF new
  <2>3. GoogleTypes'
    BY <1>1, <2>1, <2>2 DEF GoogleTypes
  <2>4. s \in SignIn /\ s.at = "address" /\ s.account = a /\ signin' = [signin EXCEPT ![i] = s]
    BY <1>1, <2>1, <2>2 DEF SignIn
  <2> HIDE DEF s
  <2> QED BY <1>1, <2>3, <2>4, SignInGoesOn
<1> QED BY <1>2, <1>3 DEF Exchanged

LEMMA AddressReadKeeps ==
    ASSUME CalendarTypes, HandlerInv, NEW i \in SignIns, AddressRead(i)
    PROVE  CalendarTypes' /\ HandlerInv'
<1> USE TypesByPart
<1> DEFINE a == signin[i].account
<1>1. /\ AtWork(i) /\ a \in Accounts /\ signin[i] \in SignIn /\ signin \in [SignIns -> SignIn]
      /\ UNCHANGED <<issued, secret, access, rejected>> /\ UNCHANGED syncing /\ UNCHANGED row
      /\ UNCHANGED thread /\ UNCHANGED pending /\ UNCHANGED finishing /\ UNCHANGED held
      /\ UNCHANGED quota
  BY DEF AddressRead, AtWork, SignInTypes, OfAccount
<1>2. accepted' \in [Accounts -> SUBSET (Tokens \ {0})]
  BY DEF AddressRead, GoogleTypes
<1>3. GoogleTypes'
  BY <1>1, <1>2 DEF GoogleTypes
<1>4. CASE Failed(i)
  <2>1. signin' = [signin EXCEPT ![i] = [NoSignIn EXCEPT !.at = "tell"]]
    BY <1>4 DEF Failed
  <2> QED BY <1>1, <1>3, <2>1, SignInRests, SignInGoesOn
<1>5. CASE Leads(i, "add")
  <2> DEFINE s == [signin[i] EXCEPT !.at = "add"]
  <2>1. s \in SignIn /\ s.at = "add" /\ s.account = a /\ signin' = [signin EXCEPT ![i] = s]
    BY <1>1, <1>5 DEF SignIn, Leads
  <2> HIDE DEF s
  <2> QED BY <1>1, <1>3, <2>1, SignInGoesOn
<1> QED BY <1>4, <1>5 DEF AddressRead

\* What is added or restored is shown or hidden: the token may follow.
LEMMA AddKeeps ==
    ASSUME CalendarTypes, HandlerInv, NEW i \in SignIns, add_or_restore(i)
    PROVE  CalendarTypes' /\ HandlerInv'
<1> USE TypesByPart, TypesByPartNext
<1> DEFINE a == signin[i].account
           s == [signin[i] EXCEPT !.at = "remember"]
<1>1. /\ AtWork(i) /\ a \in Accounts /\ signin[i] \in SignIn /\ signin \in [SignIns -> SignIn]
      /\ UNCHANGED google /\ UNCHANGED syncing /\ UNCHANGED thread
      /\ UNCHANGED pending /\ UNCHANGED finishing /\ UNCHANGED held /\ UNCHANGED quota
      /\ row' = [row EXCEPT ![a] = IF row[a] = "hidden" THEN row[a] ELSE "shown"]
      /\ signin' = [signin EXCEPT ![i] = s]
  BY DEF add_or_restore, AtWork, SignInTypes, OfAccount, Leads
<1>2. s \in SignIn /\ s.at = "remember" /\ s.account = a
  BY <1>1 DEF SignIn
<1> HIDE DEF s
<1>3. /\ SignInTypes' /\ signin'[i] = s
      /\ \A j \in SignIns : j # i => signin'[j] = signin[j]
  BY <1>1, <1>2, SignInMoves DEF SignInTypes
<1>4. /\ row' \in [Accounts -> {"absent", "shown", "hidden", "removed"}]
      /\ row'[a] \in {"shown", "hidden"}
      /\ \A b \in Accounts : row[b] = "shown" => row'[b] = "shown"
      /\ \A b \in Accounts : row'[b] = "removed" => row[b] = "removed"
  BY <1>1 DEF RowTypes
<1>5. GoogleTypes' /\ SyncTypes' /\ ThreadTypes' /\ RowTypes' /\ QuotaType' /\ UNCHANGED secret
  BY <1>1, <1>4 DEF google, syncing, GoogleTypes, SyncTypes, ThreadTypes, RowTypes, QuotaType
<1>6. thread["page"].at = "rest" /\ finishing /\ \A j \in SignIns : AtWork(j)' => j = i
  BY <1>1, <1>3, AloneAtWork DEF AtWork
<1>7. RemovedHasNoToken' /\ HiddenIsForgotten' /\ FinishingIsShown'
  BY <1>1, <1>4, <1>5, <1>6
  DEF HandlerInv, RemovedHasNoToken, HiddenIsForgotten, FinishingIsShown, RowTypes
<1>8. \A j \in SignIns : signin'[j].at = "remember" => row'[signin'[j].account] # "removed"
  BY <1>2, <1>3, <1>4, <1>6 DEF AtWork
<1>9. HandlerInv'
  BY <1>1, <1>6, <1>7, <1>8 DEF HandlerInv, Asking
<1> QED BY <1>3, <1>5, <1>9

LEMMA RememberKeeps ==
    ASSUME CalendarTypes, HandlerInv, NEW i \in SignIns, remember(i)
    PROVE  CalendarTypes' /\ HandlerInv'
<1> USE TypesByPart, TypesByPartNext
<1> DEFINE a == signin[i].account
           s == [signin[i] EXCEPT !.at = "tell"]
<1>1. /\ AtWork(i) /\ a \in Accounts /\ signin[i] \in SignIn /\ signin \in [SignIns -> SignIn]
      /\ row[a] # "removed"
      /\ UNCHANGED <<issued, accepted, rejected>> /\ UNCHANGED syncing /\ UNCHANGED thread
      /\ UNCHANGED row /\ UNCHANGED pending /\ UNCHANGED finishing /\ UNCHANGED held
      /\ UNCHANGED quota
      /\ secret' = [secret EXCEPT ![a] = signin[i].token]
      /\ access' = [access EXCEPT ![a] = signin[i].token]
      /\ signin' = [signin EXCEPT ![i] = s]
  BY DEF remember, AtWork, SignInTypes, OfAccount, Leads, HandlerInv
<1>2. s \in SignIn /\ s.at = "tell" /\ s.account = a
  BY <1>1 DEF SignIn
<1> HIDE DEF s
<1>3. /\ SignInTypes' /\ signin'[i] = s
      /\ \A j \in SignIns : j # i => signin'[j] = signin[j]
  BY <1>1, <1>2, SignInMoves DEF SignInTypes
<1>4. signin[i].token \in Tokens
  BY <1>1 DEF SignIn
<1>5. GoogleTypes' /\ \A b \in Accounts : b # a => secret'[b] = secret[b]
  BY <1>1, <1>4 DEF GoogleTypes
<1>6. SyncTypes' /\ ThreadTypes' /\ RowTypes' /\ QuotaType'
  BY <1>1 DEF syncing, SyncTypes, ThreadTypes, RowTypes, QuotaType
<1>7. thread["page"].at = "rest" /\ finishing /\ \A j \in SignIns : AtWork(j)' => j = i
  BY <1>1, <1>3, AloneAtWork DEF AtWork
<1>8. RemovedHasNoToken' /\ HiddenIsForgotten' /\ FinishingIsShown'
  BY <1>1, <1>5, <1>7 DEF HandlerInv, RemovedHasNoToken, HiddenIsForgotten, FinishingIsShown
<1>9. \A j \in SignIns : signin'[j].at # "remember"
  BY <1>2, <1>3, <1>7 DEF AtWork
<1>10. HandlerInv'
  BY <1>1, <1>7, <1>8, <1>9 DEF HandlerInv, Asking
<1> QED BY <1>3, <1>5, <1>6, <1>10

LEMMA ToldKeeps ==
    ASSUME CalendarTypes, HandlerInv, NEW i \in SignIns, Told(i)
    PROVE  CalendarTypes' /\ HandlerInv'
<1> USE TypesByPart, TypesByPartNext
<1> DEFINE a == signin[i].account
<1>1. /\ AtWork(i) /\ UNCHANGED google /\ UNCHANGED todo /\ UNCHANGED row /\ UNCHANGED held
      /\ UNCHANGED pending /\ finishing' = FALSE /\ UNCHANGED quota
      /\ signin' = [signin EXCEPT ![i] = NoSignIn]
  BY DEF Told, AtWork
<1>2. /\ SignInTypes' /\ signin'[i] = NoSignIn
      /\ \A j \in SignIns : j # i => signin'[j] = signin[j]
  BY <1>1, SignInMoves, SignInRests DEF SignInTypes, OfAccount
<1>3. SyncTypes' /\ ThreadTypes' /\ thread'["page"] = thread["page"]
  <2>1. CASE signin[i].token # 0
    <3>1. {a} \in SUBSET Accounts
      BY <2>1 DEF SignInTypes
    <3>2. kick({a}) /\ thread' = Noted({a})
      BY <2>1 DEF Told
    <3> QED BY <1>1, <3>1, <3>2, KickKeeps
  <2>2. CASE signin[i].token = 0
    <3>1. UNCHANGED <<due, stopped, behind, thread>>
      BY <2>2 DEF Told
    <3> QED BY <1>1, <3>1 DEF SyncTypes, ThreadTypes
  <2> QED BY <2>1, <2>2
<1>4. GoogleTypes' /\ RowTypes' /\ QuotaType' /\ UNCHANGED secret
  BY <1>1 DEF google, GoogleTypes, RowTypes, QuotaType
<1>5. thread["page"].at = "rest" /\ \A j \in SignIns : ~AtWork(j)'
  BY <1>1, <1>2, AloneAtWork, SignInRests DEF AtWork
<1>6. RemovedHasNoToken' /\ HiddenIsForgotten' /\ FinishingIsShown'
  BY <1>1, <1>4, <1>5
  DEF HandlerInv, RemovedHasNoToken, HiddenIsForgotten, FinishingIsShown, AtWork
<1>7. \A j \in SignIns : signin'[j].at # "remember"
  BY <1>5 DEF AtWork
<1>8. HandlerInv'
  BY <1>1, <1>3, <1>5, <1>6, <1>7 DEF HandlerInv, Asking
<1> QED BY <1>2, <1>3, <1>4, <1>8

(***************************************************************************)
(* The invariant.                                                          *)
(***************************************************************************)
LEMMA AskingKeeps ==
    ASSUME CalendarTypes, HandlerInv, NEW t \in Callers,
           Asks(t) \/ TokenAnswered(t) \/ FetchAnswered(t)
    PROVE  CalendarTypes' /\ HandlerInv'
<1>1. /\ GoogleTypes' /\ SyncTypes' /\ ThreadTypes' /\ RowTypes' /\ SignInTypes'
      /\ AskingStep(t)
  BY AsksIs, TokenAnsweredIs, FetchAnsweredIs
<1>2. QuotaType'
  BY <1>1, QuotaStep, TypesByPart DEF AskingStep
<1> QED BY <1>1, <1>2, AskingKeepsHandlers, TypesByPartNext

LEMMA NextCalendar ==
    ASSUME CalendarTypes, HandlerInv, [CalendarNext]_calendarVars
    PROVE  CalendarTypes' /\ HandlerInv'
<1>1. CASE UNCHANGED calendarVars
  <2>1. UNCHANGED <<issued, accepted, secret, access, rejected, due, stopped, todo, behind,
                    pending, finishing, signin, row, thread, held, quota>>
    BY <1>1 DEF calendarVars, google, syncing, signing
  <2>2. CalendarTypes'
    BY <2>1 DEF CalendarTypes, CalendarTypeOK
  <2>3. HandlerInv'
    BY <2>1 DEF HandlerInv, RemovedHasNoToken, HiddenIsForgotten, FinishingIsShown, AtWork
  <2> QED BY <2>2, <2>3
<1>2. CASE SyncStep
  BY <1>2, TicksKeep, AskingKeeps DEF SyncStep, Callers
<1>3. CASE PageStep
  BY <1>3, AskingKeeps, ForgottenKeeps, RemovedKeeps DEF PageStep, Callers
<1>4. CASE \E i \in SignIns : SignInStep(i)
  BY <1>4, ExchangedKeeps, AddressReadKeeps, AddKeeps, RememberKeeps, ToldKeeps DEF SignInStep
<1>5. CASE CalendarPressed
  BY <1>5, SwitchesKeep, PageBeginsKeeps, WaitingKeeps, CompleteKeeps DEF CalendarPressed
<1>6. CASE TimePasses \/ InviteExpires \/ \E a \in Accounts : RevokedAtGoogle(a)
  BY <1>6, TicksKeep
<1>7. CASE \E i \in SignIns : Closes(i)
  BY <1>7, WaitingKeeps
<1> QED BY <1>1, <1>2, <1>3, <1>4, <1>5, <1>6, <1>7 DEF CalendarNext

\* oauth.py, accounts.py, invite.py: with handlers one after another, whatever Google
\* answers and whenever, and whoever is asking it meanwhile: no token is kept of a removed
\* account, no invitation of a hidden one, and a sign-in that is being finished shows.
THEOREM NothingIsKeptOfTheGone ==
    ASSUME \A q \in Quotas : q["overlap"] = 0
    PROVE  CalendarSpec => []CalendarInv
<1>1. CalendarInit => CalendarTypes /\ HandlerInv
  BY InitCalendar
<1>2. CalendarTypes /\ HandlerInv /\ [CalendarNext]_calendarVars => CalendarTypes' /\ HandlerInv'
  BY NextCalendar
<1>3. CalendarTypes /\ HandlerInv => CalendarInv
  BY DEF CalendarTypes, HandlerInv, CalendarInv
<1> QED BY <1>1, <1>2, <1>3, PTL DEF CalendarSpec

(***************************************************************************)
(* Models.                                                                 *)
(***************************************************************************)
ManagerAt == {"rest", "list", "next", "fetch", "verify", "mark"}
ManagerState == {"missing", "downloading", "ready", "failed", "cancelled"}
SetAt == {"rest", "space", "look", "begin", "wait"}

Manager == [at : ManagerAt, todo : Seq(File), cancel : BOOLEAN, state : ManagerState]

\* A manager that fetches has a file to fetch.
HasFile == \A r \in Role : mgr[r].at = "fetch" => mgr[r].todo # <<>>

\* The types of the model, the set's as a record.
ModelsTypes ==
    /\ pinned \in Revisions
    /\ whole \in [Role -> [File -> Seq(Revisions)]]
    /\ part \in [Role -> [File -> Seq(Revisions)]]
    /\ marker \in [Role -> Revisions \union {0}]
    /\ set \in [at : SetAt, pending : SUBSET Role, cancel : BOOLEAN,
                outcome : {"none", "failed", "cancelled"}]
    /\ mgr \in [Role -> Manager] /\ HasFile

LEMMA ModelsTypesAreTypes == ModelsTypes => ModelsTypeOK
BY DEF ModelsTypes, ModelsTypeOK, Manager, ManagerAt, ManagerState, SetAt

\* A manager's thread ends, goes on or leaves a file; a file is replaced.
LEMMA ManagerMoves ==
    ASSUME ModelsTypes, NEW r \in Role
    PROVE  /\ \A st \in ManagerState : Stops(r, st) => mgr' \in [Role -> Manager] /\ HasFile'
           /\ \A to \in ManagerAt : Goes(r, to) /\ (to = "fetch" => mgr[r].todo # <<>>)
                                    => mgr' \in [Role -> Manager] /\ HasFile'
           /\ mgr[r].todo # <<>> /\ Leaves(r) => mgr' \in [Role -> Manager] /\ HasFile'
<1>1. /\ mgr \in [Role -> Manager] /\ mgr[r] \in Manager /\ mgr[r].todo \in Seq(File)
      /\ <<>> \in Seq(File)
  BY DEF ModelsTypes, Manager
<1>2. ASSUME NEW m \in Manager, mgr' = [mgr EXCEPT ![r] = m],
             m.at = "fetch" => m.todo # <<>>
      PROVE  mgr' \in [Role -> Manager] /\ HasFile'
  BY <1>1, <1>2 DEF ModelsTypes, HasFile, Role
<1>3. ASSUME NEW st \in ManagerState, Stops(r, st)
      PROVE  mgr' \in [Role -> Manager] /\ HasFile'
  <2> DEFINE m == [mgr[r] EXCEPT !.at = "rest", !.todo = <<>>, !.state = st]
  <2>1. m \in Manager /\ m.at # "fetch"
    BY <1>1 DEF Manager, ManagerAt
  <2>2. mgr' = [mgr EXCEPT ![r] = m]
    BY <1>1, <1>3 DEF Stops
  <2> HIDE DEF m
  <2> QED BY <1>2, <2>1, <2>2
<1>4. ASSUME NEW to \in ManagerAt, Goes(r, to), to = "fetch" => mgr[r].todo # <<>>
      PROVE  mgr' \in [Role -> Manager] /\ HasFile'
  <2> DEFINE m == [mgr[r] EXCEPT !.at = to]
  <2>1. m \in Manager /\ m.at = to /\ m.todo = mgr[r].todo
    BY <1>1 DEF Manager
  <2>2. mgr' = [mgr EXCEPT ![r] = m]
    BY <1>1, <1>4 DEF Goes
  <2> HIDE DEF m
  <2> QED BY <1>2, <1>4, <2>1, <2>2
<1>5. ASSUME mgr[r].todo # <<>>, Leaves(r)
      PROVE  mgr' \in [Role -> Manager] /\ HasFile'
  <2> DEFINE m == [mgr[r] EXCEPT !.at = "next", !.todo = Tail(mgr[r].todo)]
  <2>1. Tail(mgr[r].todo) \in Seq(File)
    BY <1>1, <1>5
  <2>2. m \in Manager /\ m.at # "fetch"
    BY <1>1, <2>1 DEF Manager, ManagerAt
  <2>3. mgr' = [mgr EXCEPT ![r] = m]
    BY <1>1, <1>5 DEF Leaves
  <2> HIDE DEF m
  <2> QED BY <1>2, <2>2, <2>3
<1> QED BY <1>3, <1>4, <1>5

\* A file is replaced, if there is one.
LEMMA FilesReplaced ==
    ASSUME NEW files \in [Role -> [File -> Seq(Revisions)]], NEW r \in Role, NEW f,
           NEW blocks \in Seq(Revisions)
    PROVE  [files EXCEPT ![r][f] = blocks] \in [Role -> [File -> Seq(Revisions)]]
OBVIOUS

LEMMA LeastExists ==
    ASSUME NEW S \in SUBSET Nat, S # {}
    PROVE  \E x \in S : \A y \in S : x <= y
<1>1. \E x \in S : \A y \in S : <<y, x>> \notin OpToRel(<, Nat)
  BY NatLessThanWellFounded, WFMin
<1>2. PICK x \in S : \A y \in S : <<y, x>> \notin OpToRel(<, Nat)
  BY <1>1
<1>3. \A y \in S : ~(y < x)
  BY <1>2 DEF OpToRel
<1> QED BY <1>3

\* What the first build pins.
LEMMA FirstRevision ==
    Min(Revisions) \in Revisions /\ \A v \in Revisions : Min(Revisions) <= v
<1>1. \E v \in Revisions : \A w \in Revisions : v <= w
  BY RevisionsAreNumbered, LeastExists DEF Revisions
<1> QED BY <1>1 DEF Min

(***************************************************************************)
(* What a model that counts as ready rests on: its marker was written      *)
(* after every file was found to match, and no download of the revision    *)
(* the marker tells of takes a file away that matches.                     *)
(***************************************************************************)
Sound(r) ==
    /\ marker[r] <= pinned
    /\ mgr[r].at = "mark" \/ marker[r] = pinned => \A f \in File : Matches(r, f)
    /\ mgr[r].at = "fetch" => ~HasWhole(r, InHand(r))

SoundInv == ModelsTypes /\ \A r \in Role : Sound(r)

\* What a thread of the set does leaves the files alone.
LEMMA SetStepTypes ==
    ASSUME ModelsTypes, DownloadPressed \/ CancelPressed \/ SetStep
    PROVE  ModelsTypes' /\ UNCHANGED <<pinned, Disk>>
<1>1. /\ set.pending \in SUBSET Role /\ set.at \in SetAt /\ set.cancel \in BOOLEAN
      /\ set.outcome \in {"none", "failed", "cancelled"} /\ _pending \in SUBSET Role
      /\ set \in [at : SetAt, pending : SUBSET Role, cancel : BOOLEAN,
                  outcome : {"none", "failed", "cancelled"}]
  BY DEF ModelsTypes, _pending
<1>2. mgr \in [Role -> Manager] /\ (mgr' = mgr => HasFile')
  BY DEF ModelsTypes, HasFile, Role
<1>3. ASSUME UNCHANGED <<pinned, Disk>>, mgr' \in [Role -> Manager] /\ HasFile',
             set' \in [at : SetAt, pending : SUBSET Role, cancel : BOOLEAN,
                       outcome : {"none", "failed", "cancelled"}]
      PROVE  ModelsTypes' /\ UNCHANGED <<pinned, Disk>>
  BY <1>3 DEF ModelsTypes, Disk, Revisions, Role, File
<1>4. CASE DownloadPressed
  BY <1>1, <1>2, <1>3, <1>4 DEF DownloadPressed, NoSet, SetAt
<1>5. CASE CancelPressed
  <2>1. \A r \in Role : [mgr[r] EXCEPT !.cancel = TRUE] \in Manager
    BY <1>2 DEF Manager
  <2>2. mgr' \in [Role -> Manager] /\ \A r \in Role : mgr'[r].at = mgr[r].at
                                               /\ mgr'[r].todo = mgr[r].todo
    BY <1>2, <1>5, <2>1 DEF CancelPressed, Manager, Role
  <2>3. HasFile'
    BY <2>2 DEF ModelsTypes, HasFile, Role
  <2> QED BY <1>1, <1>3, <1>5, <2>2, <2>3 DEF CancelPressed
<1>6. CASE ChecksSpace
  BY <1>1, <1>2, <1>3, <1>6 DEF ChecksSpace, SetEnds, SetAt
<1>7. CASE LooksAtCancel
  BY <1>1, <1>2, <1>3, <1>7 DEF LooksAtCancel, SetEnds, SetAt
<1>8. CASE BeginsModel
  <2> DEFINE r == FirstOf(Roles, set.pending)
             new == [NoManager EXCEPT !.at = "list", !.state = "downloading"]
  <2>1. new \in Manager /\ new.at = "list"
    <3>1. <<>> \in Seq(File)
      OBVIOUS
    <3> QED BY <3>1 DEF NoManager, Manager, ManagerAt, ManagerState
  <2>2. UNCHANGED mgr \/ mgr' = [mgr EXCEPT ![r] = new]
    BY <1>8 DEF BeginsModel
  <2> HIDE DEF r, new
  <2>3. mgr' \in [Role -> Manager] /\ HasFile'
    BY <1>2, <2>1, <2>2 DEF ModelsTypes, HasFile, Role
  <2>4. set' = [set EXCEPT !.at = "wait"] /\ UNCHANGED <<pinned, Disk>>
    BY <1>8 DEF BeginsModel
  <2> QED BY <1>1, <1>3, <2>3, <2>4 DEF SetAt
<1>9. CASE GoesOn
  <2>1. PICK r : /\ UNCHANGED <<pinned, Disk, mgr>>
                 /\ \/ \E outcome \in {"failed", "cancelled"} : SetEnds(outcome)
                    \/ set' = [set EXCEPT !.at = "look", !.pending = @ \ {r}]
    BY <1>9 DEF GoesOn
  <2> QED BY <1>1, <1>2, <1>3, <2>1 DEF SetEnds, SetAt
<1> QED BY <1>4, <1>5, <1>6, <1>7, <1>8, <1>9 DEF SetStep

\* What a manager's thread does is of one model.
LEMMA ManagerStepTypes ==
    ASSUME ModelsTypes, NEW r \in Role, ManagerStep(r) \/ Drops(r)
    PROVE  ModelsTypes' /\ UNCHANGED <<pinned, set>>
<1>1. /\ pinned \in Revisions /\ mgr[r] \in Manager /\ mgr[r].todo \in Seq(File)
      /\ part \in [Role -> [File -> Seq(Revisions)]]
      /\ whole \in [Role -> [File -> Seq(Revisions)]]
      /\ mgr \in [Role -> Manager]
  BY DEF ModelsTypes, Manager
<1>2. ASSUME UNCHANGED <<pinned, set>>, mgr' \in [Role -> Manager] /\ HasFile',
             marker' \in [Role -> Revisions \union {0}],
             part' \in [Role -> [File -> Seq(Revisions)]],
             whole' \in [Role -> [File -> Seq(Revisions)]]
      PROVE  ModelsTypes' /\ UNCHANGED <<pinned, set>>
  BY <1>2 DEF ModelsTypes, Revisions, Role, File
<1>3. marker \in [Role -> Revisions \union {0}]
  BY DEF ModelsTypes
<1>4. {"failed", "cancelled", "ready"} \subseteq ManagerState
      /\ {"verify", "fetch", "mark"} \subseteq ManagerAt
  BY DEF ManagerState, ManagerAt
<1>5. CASE Lists(r)
  <2> DEFINE kept(f) == IF ~HasWhole(r, f) /\ Len(part[r][f]) > ListedSize(f)
                        THEN <<>> ELSE part[r][f]
  <2>1. \/ Stops(r, "failed") /\ UNCHANGED part
        \/ /\ part' = [part EXCEPT ![r] = [f \in File |-> kept(f)]]
           /\ mgr' = [mgr EXCEPT ![r].at = "next", ![r].todo = Files]
    BY <1>1, <1>5 DEF Lists
  <2>2. \A f \in File : kept(f) \in Seq(Revisions)
    BY <1>1
  <2>3. mgr' \in [Role -> Manager] /\ HasFile'
    <3> DEFINE m == [mgr[r] EXCEPT !.at = "next", !.todo = Files]
    <3>1. m \in Manager /\ m.at = "next"
      BY <1>1, FilesAssumption DEF Manager, ManagerAt, File
    <3>2. CASE mgr' = [mgr EXCEPT ![r].at = "next", ![r].todo = Files]
      <4>1. mgr' = [mgr EXCEPT ![r] = m]
        BY <1>1, <3>2
      <4> HIDE DEF m
      <4> QED BY <1>1, <3>1, <4>1 DEF ModelsTypes, HasFile, Role
    <3> QED BY <1>4, <2>1, <3>2, ManagerMoves
  <2> HIDE DEF kept
  <2>4. part' \in [Role -> [File -> Seq(Revisions)]]
    <3>1. [f \in File |-> kept(f)] \in [File -> Seq(Revisions)]
      BY <2>2
    <3> QED BY <1>1, <2>1, <3>1
  <2>5. UNCHANGED <<pinned, whole, marker, set>>
    BY <1>5 DEF Lists
  <2> QED BY <1>1, <1>2, <1>3, <2>3, <2>4, <2>5
<1>6. CASE NextFile(r)
  <2>1. mgr' \in [Role -> Manager] /\ HasFile'
    BY <1>4, <1>6, ManagerMoves DEF NextFile
  <2>2. part' \in [Role -> [File -> Seq(Revisions)]]
    <3> DEFINE f == InHand(r)
    <3>1. UNCHANGED part \/ part' = [part EXCEPT ![r][f] = <<>>]
      BY <1>6 DEF NextFile
    <3>2. <<>> \in Seq(Revisions)
      OBVIOUS
    <3> HIDE DEF f
    <3>3. [part EXCEPT ![r][f] = <<>>] \in [Role -> [File -> Seq(Revisions)]]
      BY <1>1, <3>2, FilesReplaced
    <3> QED BY <1>1, <3>1, <3>3
  <2>3. UNCHANGED <<pinned, whole, marker, set>>
    BY <1>6 DEF NextFile
  <2> QED BY <1>1, <1>2, <1>3, <2>1, <2>2, <2>3
<1>7. CASE Fetches(r)
  <2>1. mgr' \in [Role -> Manager] /\ HasFile'
    <3>1. Stops(r, "failed") \/ Stops(r, "cancelled") \/ UNCHANGED mgr
      BY <1>7 DEF Fetches
    <3>2. UNCHANGED mgr => HasFile'
      BY DEF ModelsTypes, HasFile, Role
    <3> QED BY <1>1, <1>4, <3>1, <3>2, ManagerMoves
  <2>2. part' \in [Role -> [File -> Seq(Revisions)]]
    <3>1. CASE UNCHANGED part
      BY <1>1, <3>1
    <3> DEFINE f == InHand(r)
    <3>2. CASE part' = [part EXCEPT ![r][f] = Append(part[r][f], pinned)]
      <4> HIDE DEF f
      <4>1. f \in File => Append(part[r][f], pinned) \in Seq(Revisions)
        BY <1>1
      <4> QED BY <1>1, <3>2, <4>1
    <3> QED BY <1>1, <1>7, <3>1, <3>2 DEF Fetches
  <2> QED BY <1>1, <1>2, <1>3, <1>7, <2>1, <2>2 DEF Fetches
<1>8. CASE Drops(r)
  BY <1>1, <1>2, <1>3, <1>4, <1>8, ManagerMoves DEF Drops, Disk
<1>9. CASE Lands(r)
  <2> DEFINE f == InHand(r)
  <2>1. /\ whole' = [whole EXCEPT ![r][f] = part[r][f]]
        /\ part' = [part EXCEPT ![r][f] = <<>>]
    BY <1>9 DEF Lands
  <2> HIDE DEF f
  <2>2. whole' \in [Role -> [File -> Seq(Revisions)]]
    <3>1. f \in File => part[r][f] \in Seq(Revisions)
      BY <1>1
    <3> QED BY <1>1, <2>1, <3>1
  <2>3. part' \in [Role -> [File -> Seq(Revisions)]]
    <3>1. <<>> \in Seq(Revisions)
      OBVIOUS
    <3> QED BY <1>1, <2>1, <3>1, FilesReplaced
  <2>4. mgr' \in [Role -> Manager] /\ HasFile'
    <3>1. mgr[r].todo # <<>> /\ Leaves(r)
      BY <1>9 DEF Lands, ModelsTypes, HasFile
    <3> QED BY <3>1, ManagerMoves
  <2>5. UNCHANGED <<pinned, marker, set>>
    BY <1>9 DEF Lands
  <2> QED BY <1>2, <1>3, <2>2, <2>3, <2>4, <2>5
<1>10. CASE Verifies(r)
  <2>1. mgr' \in [Role -> Manager] /\ HasFile'
    BY <1>4, <1>10, ManagerMoves DEF Verifies
  <2> DEFINE f == FirstOf(Files, {g \in File : ~Matches(r, g)})
  <2>2. UNCHANGED whole \/ whole' = [whole EXCEPT ![r][f] = <<>>]
    BY <1>10 DEF Verifies
  <2> HIDE DEF f
  <2>3. whole' \in [Role -> [File -> Seq(Revisions)]]
    <3>1. <<>> \in Seq(Revisions)
      OBVIOUS
    <3>2. [whole EXCEPT ![r][f] = <<>>] \in [Role -> [File -> Seq(Revisions)]]
      BY <1>1, <3>1, FilesReplaced
    <3> QED BY <1>1, <2>2, <3>2
  <2>4. UNCHANGED <<pinned, part, marker, set>>
    BY <1>10 DEF Verifies
  <2> QED BY <1>1, <1>2, <1>3, <2>1, <2>3, <2>4
<1>11. CASE Marks(r)
  BY <1>1, <1>2, <1>3, <1>4, <1>11, ManagerMoves DEF Marks
<1> QED BY <1>5, <1>6, <1>7, <1>8, <1>9, <1>10, <1>11 DEF ManagerStep

\* What happens around: the process ends and begins, the drive fills and is cleared.
LEMMA OutsideTypes ==
    ASSUME ModelsTypes, Fills \/ IsCleared \/ Restarts \/ UNCHANGED modelsVars
    PROVE  ModelsTypes' /\ UNCHANGED Disk
<1>1. CASE UNCHANGED <<pinned, Disk, set, mgr>>
  BY <1>1 DEF ModelsTypes, HasFile, Disk, Revisions, Role, File
<1>2. CASE Restarts
  <2>1. pinned' \in Revisions /\ UNCHANGED <<whole, part, marker>>
    BY <1>2 DEF Restarts, Disk, ModelsTypes
  <2>2. set' \in [at : SetAt, pending : SUBSET Role, cancel : BOOLEAN,
                  outcome : {"none", "failed", "cancelled"}]
    BY <1>2 DEF Restarts, NoSet, SetAt
  <2>3. NoManager \in Manager /\ NoManager.at = "rest"
    <3>1. <<>> \in Seq(File)
      OBVIOUS
    <3> QED BY <3>1 DEF NoManager, Manager, ManagerAt, ManagerState
  <2>4. mgr' \in [Role -> Manager] /\ HasFile'
    BY <1>2, <2>3 DEF Restarts, HasFile, Role
  <2> QED BY <2>1, <2>2, <2>4 DEF ModelsTypes, Disk, Revisions, Role, File
<1> QED BY <1>1, <1>2 DEF Fills, IsCleared, modelsVars, Disk

LEMMA ModelsStepTypes == ModelsTypes /\ [ModelsNext]_modelsVars => ModelsTypes'
BY SetStepTypes, ManagerStepTypes, OutsideTypes DEF ModelsNext

LEMMA ModelsInitTypes == ModelsInit => ModelsTypes
<1> SUFFICES ASSUME ModelsInit
             PROVE  ModelsTypes
  OBVIOUS
<1>1. <<>> \in Seq(File) /\ <<>> \in Seq(Revisions)
  OBVIOUS
<1>2. NoManager \in Manager /\ NoManager.at = "rest"
  BY <1>1 DEF NoManager, Manager, ManagerAt, ManagerState
<1> QED BY <1>1, <1>2, FirstRevision
        DEF ModelsInit, ModelsTypes, HasFile, NoSet, SetAt

(***************************************************************************)
(* Every step but one to another revision.                                 *)
(***************************************************************************)
\* The files stay and no download gets to where it writes to them.
LEMMA FilesStay ==
    ASSUME SoundInv, UNCHANGED <<pinned, whole, marker>>, NEW r \in Role,
           \/ mgr'[r].at = mgr[r].at /\ mgr'[r].todo = mgr[r].todo
           \/ mgr'[r].at \notin {"mark", "fetch"}
    PROVE  Sound(r)'
BY DEF SoundInv, Sound, Matches, HasWhole, InHand, ListedSize

\* What happens to one model does not touch another.
LEMMA OthersStaySound ==
    ASSUME SoundInv, UNCHANGED pinned, NEW r \in Role, NEW q \in Role, q # r,
           ManagerStep(r) \/ Drops(r)
    PROVE  Sound(q)'
<1>1. mgr'[q] = mgr[q] /\ whole'[q] = whole[q] /\ marker'[q] = marker[q]
  BY DEF SoundInv, ModelsTypes, ManagerStep, Drops, Lists, NextFile, Fetches, Lands, Verifies,
         Marks, Stops, Goes, Leaves, Disk
<1> QED BY <1>1 DEF SoundInv, Sound, Matches, HasWhole, InHand, ListedSize

LEMMA ManagerStepSound ==
    ASSUME SoundInv, UNCHANGED pinned, NEW r \in Role, ManagerStep(r) \/ Drops(r)
    PROVE  Sound(r)'
<1>1. /\ Sound(r) /\ pinned \in Nat \ {0} /\ mgr \in [Role -> Manager] /\ mgr[r] \in Manager
      /\ whole \in [Role -> [File -> Seq(Revisions)]] /\ marker \in [Role -> Revisions \union {0}]
  BY RevisionsAreNumbered DEF SoundInv, ModelsTypes, Revisions
<1>2. \A st : Stops(r, st) => mgr'[r].at = "rest"
  BY <1>1 DEF Stops, Manager
<1>3. \A to : Goes(r, to) => mgr'[r].at = to /\ mgr'[r].todo = mgr[r].todo
  BY <1>1 DEF Goes, Manager
<1>4. Leaves(r) => mgr'[r].at = "next"
  BY <1>1 DEF Leaves, Manager
<1>5. UNCHANGED <<pinned, whole>>
          => \A f : (HasWhole(r, f)' <=> HasWhole(r, f)) /\ (Matches(r, f)' <=> Matches(r, f))
  BY DEF Matches, HasWhole, ListedSize
<1>6. CASE Lists(r)
  <2>1. mgr'[r].at \in {"rest", "next"}
    BY <1>1, <1>2, <1>6 DEF Lists, Manager
  <2> QED BY <1>6, <2>1, FilesStay DEF Lists
<1>7. CASE NextFile(r)
  <2>1. UNCHANGED <<pinned, whole, marker>>
    BY <1>7 DEF NextFile
  <2>2. CASE mgr'[r].at \in {"verify", "next"}
    BY <2>1, <2>2, FilesStay
  <2>3. CASE Goes(r, "fetch") /\ ~HasWhole(r, InHand(r)) /\ mgr[r].at = "next"
    <3>1. mgr'[r].at = "fetch" /\ mgr'[r].todo = mgr[r].todo
      BY <1>3, <2>3
    <3>2. ~HasWhole(r, InHand(r))'
      BY <1>5, <2>1, <2>3, <3>1 DEF InHand
    <3> QED BY <1>1, <1>5, <2>1, <3>1, <3>2 DEF Sound, File
  <2> QED BY <1>3, <1>4, <1>7, <2>2, <2>3 DEF NextFile
<1>8. CASE Fetches(r) \/ Drops(r)
  <2>1. UNCHANGED <<pinned, whole, marker>>
    BY <1>8 DEF Fetches, Drops, Disk
  <2>2. UNCHANGED mgr \/ mgr'[r].at = "rest"
    BY <1>2, <1>8 DEF Fetches, Drops
  <2> QED BY <2>1, <2>2, FilesStay
\* The file in hand is not there at its size, so the model's marker tells of another revision.
<1>9. CASE Lands(r)
  <2>1. mgr[r].at = "fetch" /\ mgr'[r].at = "next" /\ UNCHANGED <<pinned, marker>>
    BY <1>4, <1>9 DEF Lands
  <2>2. mgr[r].todo # <<>> /\ InHand(r) \in File
    <3>1. mgr[r].todo \in Seq(File) /\ mgr[r].todo # <<>>
      BY <1>1, <2>1 DEF SoundInv, ModelsTypes, HasFile, Manager
    <3> QED BY <3>1 DEF InHand
  <2>3. marker[r] # pinned
    BY <1>1, <2>1, <2>2 DEF Sound, Matches
  <2> QED BY <1>1, <2>1, <2>3 DEF Sound
<1>10. CASE Verifies(r)
  <2>1. mgr[r].at = "verify" /\ UNCHANGED <<pinned, marker>>
    BY <1>10 DEF Verifies
  <2>2. CASE \A f \in File : Matches(r, f)
    <3>1. Goes(r, "mark") /\ UNCHANGED whole
      BY <1>10, <2>2 DEF Verifies
    <3> QED BY <1>1, <1>3, <1>5, <2>1, <2>2, <3>1 DEF Sound, File
  <2>3. CASE ~ \A f \in File : Matches(r, f)
    <3>1. Stops(r, "failed")
      BY <1>10, <2>3 DEF Verifies
    <3> QED BY <1>1, <1>2, <2>1, <2>3, <3>1 DEF Sound
  <2> QED BY <2>2, <2>3
<1>11. CASE Marks(r)
  <2>1. /\ mgr[r].at = "mark" /\ mgr'[r].at = "rest" /\ UNCHANGED <<pinned, whole>>
        /\ marker'[r] = pinned
    BY <1>1, <1>2, <1>11 DEF Marks
  <2> QED BY <1>1, <1>5, <2>1 DEF Sound, File
<1> QED BY <1>6, <1>7, <1>8, <1>9, <1>10, <1>11 DEF ManagerStep

LEMMA SoundStep ==
    ASSUME SoundInv, [ModelsNext]_modelsVars, pinned <= pinned'
    PROVE  SoundInv'
<1>1. ModelsTypes /\ ModelsTypes'
  BY ModelsStepTypes DEF SoundInv
<1>2. SUFFICES ASSUME NEW r \in Role
               PROVE  Sound(r)'
  BY <1>1, <1>2 DEF SoundInv, Role
<1>3. CASE \E q \in Role : ManagerStep(q) \/ Drops(q)
  BY <1>1, <1>3, ManagerStepTypes, ManagerStepSound, OthersStaySound
<1>4. CASE DownloadPressed \/ CancelPressed \/ SetStep
  <2>1. UNCHANGED <<pinned, whole, marker>>
    BY <1>1, <1>4, SetStepTypes DEF Disk
  <2>2. \/ mgr'[r].at = mgr[r].at /\ mgr'[r].todo = mgr[r].todo
        \/ mgr'[r].at \notin {"mark", "fetch"}
    <3>1. CASE CancelPressed
      BY <1>1, <3>1 DEF CancelPressed, ModelsTypes, Manager
    <3>2. CASE BeginsModel
      <4> DEFINE n == FirstOf(Roles, set.pending)
                 new == [NoManager EXCEPT !.at = "list", !.state = "downloading"]
      <4>1. new.at = "list"
        BY DEF NoManager
      <4>2. UNCHANGED mgr \/ mgr' = [mgr EXCEPT ![n] = new]
        BY <3>2 DEF BeginsModel
      <4> HIDE DEF n, new
      <4> QED BY <1>1, <4>1, <4>2 DEF ModelsTypes
    <3> QED
      BY <1>4, <3>1, <3>2 DEF DownloadPressed, SetStep, ChecksSpace, LooksAtCancel, GoesOn
  <2> QED BY <2>1, <2>2, FilesStay
<1>5. CASE Fills \/ IsCleared \/ UNCHANGED modelsVars
  BY <1>5, FilesStay DEF Fills, IsCleared, modelsVars, Disk
<1>6. CASE Restarts
  <2>1. mgr'[r].at = "rest" /\ UNCHANGED <<whole, marker>>
    BY <1>6 DEF Restarts, NoManager, Disk, Role
  <2>2. CASE UNCHANGED pinned
    BY <2>1, <2>2, FilesStay
  <2>3. CASE pinned' # pinned
    <3>1. /\ pinned \in Nat /\ pinned' \in Nat /\ pinned < pinned' /\ marker[r] <= pinned
          /\ marker[r] \in Nat
      BY <1>1, <2>3, RevisionsAreNumbered DEF SoundInv, Sound, ModelsTypes, Revisions
    <3> QED BY <2>1, <3>1 DEF Sound
  <2> QED BY <2>2, <2>3
<1> QED BY <1>3, <1>4, <1>5, <1>6 DEF ModelsNext

LEMMA SoundIsReady == SoundInv => ModelsInv
BY ModelsTypesAreTypes DEF SoundInv, ModelsInv, ReadyIsWhole, Sound, is_verified

LEMMA InitSound == ModelsInit => SoundInv
<1> SUFFICES ASSUME ModelsInit
             PROVE  SoundInv
  OBVIOUS
<1>1. ModelsTypes /\ pinned \in Nat \ {0}
  BY ModelsInitTypes, RevisionsAreNumbered DEF ModelsTypes, Revisions
<1>2. \A r \in Role : marker[r] = 0 /\ mgr[r].at = "rest"
  BY DEF ModelsInit, NoManager
<1> QED BY <1>1, <1>2 DEF SoundInv, Sound

\* Every variable of the downloads keeps to its values, whatever the connection, the drive,
\* the user and the end of the process do.
THEOREM ModelsTypeCorrect == ModelsSpec => []ModelsTypeOK
<1>1. ModelsTypes /\ [ModelsNext]_modelsVars => ModelsTypes'
  BY ModelsStepTypes
<1> QED BY <1>1, ModelsInitTypes, ModelsTypesAreTypes, PTL DEF ModelsSpec

\* As long as no build goes back to a revision before the one it replaces, a model that
\* counts as ready is whole and of the revision this build pins, whatever a stopped
\* download, a dropped connection, a crash or an older build left.
THEOREM ReadyModelsAreWhole ==
    ModelsSpec /\ [][pinned <= pinned']_modelsVars => []ModelsInv
<1>1. SoundInv /\ [ModelsNext]_modelsVars /\ [pinned <= pinned']_modelsVars => SoundInv'
  <2> SUFFICES ASSUME SoundInv, [ModelsNext]_modelsVars, [pinned <= pinned']_modelsVars
               PROVE  SoundInv'
    OBVIOUS
  <2>1. pinned <= pinned'
    BY RevisionsAreNumbered DEF SoundInv, ModelsTypes, Revisions, modelsVars
  <2> QED BY <2>1, SoundStep
<1> QED BY <1>1, InitSound, SoundIsReady, PTL DEF ModelsSpec

(***************************************************************************)
(* The case the runs check: one change of the build at most.               *)
(***************************************************************************)
OneBuild ==
    /\ history \in [room : Nat, others : Nat, quota : [Troubles -> Nat]]
    /\ history.quota["build"] <= 1
    /\ history.quota["build"] = 1 => pinned = Min(Revisions)

LEMMA OneBuildStep ==
    ASSUME OneBuild, ModelsTypes, [ModelsNext]_modelsVars
    PROVE  OneBuild' /\ pinned <= pinned'
<1>1. /\ history \in [room : Nat, others : Nat, quota : [Troubles -> Nat]]
      /\ history.quota["build"] \in Nat /\ pinned \in Nat
  BY RevisionsAreNumbered DEF OneBuild, Troubles, ModelsTypes, Revisions
<1>2. ASSUME NEW e \in Troubles, Uses(e)
      PROVE  /\ history' \in [room : Nat, others : Nat, quota : [Troubles -> Nat]]
             /\ history'.quota["build"] = IF e = "build" THEN history.quota["build"] - 1
                                          ELSE history.quota["build"]
  <2> DEFINE q == [history.quota EXCEPT ![e] = @ - 1]
  <2>1. q \in [Troubles -> Nat] /\ q["build"] = IF e = "build" THEN history.quota["build"] - 1
                                                ELSE history.quota["build"]
    BY <1>1, <1>2 DEF Uses, Troubles
  <2>2. history' = [history EXCEPT !.quota = q]
    BY <1>1, <1>2 DEF Uses
  <2> HIDE DEF q
  <2> QED BY <1>1, <2>1, <2>2
<1>3. ASSUME UNCHANGED pinned,
             \/ UNCHANGED history
             \/ \E e \in Troubles \ {"build"} : Uses(e)
             \/ \E n \in Nat : history' = [history EXCEPT !.others = n]
      PROVE  OneBuild' /\ pinned <= pinned'
  <2>1. /\ history' \in [room : Nat, others : Nat, quota : [Troubles -> Nat]]
        /\ history'.quota["build"] = history.quota["build"]
    BY <1>1, <1>2, <1>3
  <2> QED BY <1>1, <1>3, <2>1 DEF OneBuild, Revisions
<1>4. {"cancel", "drop", "short", "again", "fill", "crash"} \subseteq Troubles \ {"build"}
  BY DEF Troubles
<1>5. CASE DownloadPressed \/ CancelPressed \/ SetStep \/ UNCHANGED modelsVars
  BY <1>3, <1>4, <1>5
     DEF DownloadPressed, CancelPressed, SetStep, ChecksSpace, LooksAtCancel, BeginsModel,
         GoesOn, modelsVars
<1>6. CASE \E r \in Role : ManagerStep(r) \/ Drops(r)
  BY <1>3, <1>4, <1>6
     DEF ManagerStep, Drops, Lists, NextFile, Fetches, Lands, Verifies, Marks
<1>7. CASE Fills
  <2> DEFINE q == [history.quota EXCEPT !["fill"] = @ - 1]
  <2>1. q \in [Troubles -> Nat] /\ q["build"] = history.quota["build"]
    BY <1>1, <1>7 DEF Fills, Troubles
  <2>2. history' = [history EXCEPT !.quota = q, !.others = history.room] /\ UNCHANGED pinned
    BY <1>1, <1>7 DEF Fills
  <2> HIDE DEF q
  <2>3. /\ history' \in [room : Nat, others : Nat, quota : [Troubles -> Nat]]
        /\ history'.quota["build"] = history.quota["build"]
    BY <1>1, <2>1, <2>2
  <2> QED BY <1>1, <2>2, <2>3 DEF OneBuild, Revisions
<1>8. CASE IsCleared
  BY <1>3, <1>8 DEF IsCleared
<1>9. CASE Restarts
  <2>1. CASE Uses("crash") /\ UNCHANGED pinned
    BY <1>3, <1>4, <2>1
  <2>2. CASE Uses("build") /\ pinned' \in Revisions \ {pinned}
    <3>1. history.quota["build"] = 1 /\ pinned = Min(Revisions) /\ history'.quota["build"] = 0
      BY <1>1, <1>2, <2>2 DEF OneBuild, Uses, Troubles
    <3>2. history' \in [room : Nat, others : Nat, quota : [Troubles -> Nat]]
      BY <1>2, <2>2 DEF Troubles
    <3> QED BY <2>2, <3>1, <3>2, FirstRevision DEF OneBuild
  <2> QED BY <1>9, <2>1, <2>2 DEF Restarts
<1> QED BY <1>5, <1>6, <1>7, <1>8, <1>9 DEF ModelsNext

\* With one change of the build at most, as in the histories of the runs, that is so.
THEOREM OneBuildIsWhole ==
    ASSUME \A h \in Histories : h.quota["build"] <= 1
    PROVE  ModelsSpec => []ModelsInv
<1>1. ModelsInit => OneBuild
  BY HistoriesAssumption DEF ModelsInit, OneBuild
<1>2. OneBuild /\ ModelsTypes /\ [ModelsNext]_modelsVars
         => OneBuild' /\ ModelsTypes' /\ [pinned <= pinned']_modelsVars
  BY OneBuildStep, ModelsStepTypes
<1> QED BY <1>1, <1>2, ModelsInitTypes, ReadyModelsAreWhole, PTL DEF ModelsSpec
==============================================================================
