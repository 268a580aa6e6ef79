---------------------------- MODULE ServerAccount ----------------------------
(***************************************************************************)
(* The optional account of the server, as a tab knows it: the state of the *)
(* session (api/session.tsx), the pages that open it (LoginPage,           *)
(* InvitationPage), and the cards of the settings about the second factor  *)
(* and its recovery codes (SettingsPage), over the calls of                *)
(* api/allauth.ts.  A call may be lost before or after it is served, it is *)
(* answered at an instant and its answer read at a later one, and several  *)
(* may be under way; the cards come and go with the session and the page,  *)
(* and an answer to a card that is gone is read by nobody.                 *)
(***************************************************************************)
EXTENDS Naturals, FiniteSets

CONSTANTS
    MaxCalls,       \* bound: the calls under way at once
    MaxVisits,      \* bound: the times the cards are shown
    MaxCodes,       \* bound: the sets of recovery codes generated
    MaxGestures     \* bound: what the user begins

VARIABLES
    cookie,         \* the session of the server: "none", "pending" of a code, "user"
    factorOn,       \* the server has a second factor for this user
    codeSet,        \* the current set of recovery codes, 0 when there never was one
    signed,         \* SessionState
    loginForm,      \* the form LoginPage shows
    onSettings,     \* the page on screen is the settings
    visit,          \* which showing of the cards this is
    factorCard,     \* TwoFactorCard: what it tells, whether it shows an error
    codesCard,      \* RecoveryCodesCard: the same, and the set of codes it shows
    calls,          \* the calls under way, with their answer once there is one
    excused,        \* history: what late answers may have spoilt
    gestures        \* what the user has begun

accountServer == <<cookie, factorOn, codeSet>>
accountCards == <<onSettings, visit, factorCard, codesCard>>
serverAccountVars == <<accountServer, signed, loginForm, accountCards, calls, excused, gestures>>

Unanswered == [kind |-> "none", set |-> 0]
Lost == [kind |-> "lost", set |-> 0]
Asked(by, asks, shown) == [by |-> by, asks |-> asks, visit |-> shown, answer |-> Unanswered]

Begins == gestures < MaxGestures /\ gestures' = gestures + 1

\* Those whose answer ends in setState.
SessionCallers == {"boot", "login", "code", "invitation", "logout"}
UnderWay(callers) == {c \in calls : c.by \in callers}

Reads == {"session", "refresh", "totp", "codes"}

BlankFactor == [told |-> "loading", error |-> FALSE]
BlankCodes == [told |-> "loading", set |-> 0, error |-> FALSE]

\* The provider asks for the session as soon as it is mounted.
ServerAccountInit ==
    /\ cookie \in {"none", "user"} /\ factorOn \in BOOLEAN /\ codeSet \in {0, 1}
    /\ signed = "loading" /\ loginForm = "credentials" /\ onSettings \in BOOLEAN /\ visit = 0
    /\ factorCard = BlankFactor /\ codesCard = BlankCodes
    /\ calls = {Asked("boot", "refresh", 0)} /\ excused = {} /\ gestures = 0

-----------------------------------------------------------------------------
\* The server (django-allauth).

Replies(c, kind, set) ==
    calls' = (calls \ {c}) \cup {[c EXCEPT !.answer = [kind |-> kind, set |-> set]]}

\* GET /auth/session, and the two reads of the cards.  The codes themselves are only
\* in an answer allauth marks viewable.
ServesRead(c) ==
    /\ c.asks \in Reads /\ UNCHANGED accountServer
    /\ \/ cookie # "user" /\ Replies(c, "refused", 0)
       \/ cookie = "user" /\ c.asks \in {"session", "refresh"} /\ Replies(c, "ok", 0)
       \/ cookie = "user" /\ c.asks = "totp" /\ Replies(c, IF factorOn THEN "ok" ELSE "absent", 0)
       \/ /\ cookie = "user" /\ c.asks = "codes"
          /\ IF codeSet = 0 THEN Replies(c, "absent", 0)
             ELSE \E shown \in {0, codeSet} : Replies(c, "ok", shown)

\* What a password, a code or an invitation opens; what the cards change.
ServesWrite(c) ==
    \/ /\ c.asks = "login" /\ cookie # "user"
       /\ cookie' = IF factorOn THEN "pending" ELSE "user"
       /\ Replies(c, IF factorOn THEN "pending" ELSE "ok", 0)
       /\ UNCHANGED <<factorOn, codeSet>>
    \/ /\ \/ c.asks = "second" /\ cookie = "pending"
          \/ c.asks = "accept" /\ ~factorOn
       /\ cookie' = "user" /\ Replies(c, "ok", 0) /\ UNCHANGED <<factorOn, codeSet>>
    \/ /\ c.asks = "logout" /\ cookie' = "none"
       /\ Replies(c, "ok", 0) /\ UNCHANGED <<factorOn, codeSet>>
    \/ /\ c.asks \in {"activate", "deactivate"} /\ cookie = "user"
       /\ factorOn = (c.asks = "deactivate") /\ factorOn' = ~factorOn
       /\ Replies(c, "ok", 0) /\ UNCHANGED <<cookie, codeSet>>
    \/ /\ c.asks = "generate" /\ cookie = "user" /\ codeSet < MaxCodes
       /\ codeSet' = codeSet + 1
       /\ Replies(c, "ok", codeSet + 1) /\ UNCHANGED <<cookie, factorOn>>
    \/ /\ c.asks \notin Reads           \* a wrong password or code, no token, no session
       /\ Replies(c, "refused", 0) /\ UNCHANGED accountServer

Serves(c) ==
    /\ c.answer = Unanswered
    /\ ServesRead(c) \/ ServesWrite(c)
    /\ UNCHANGED <<signed, loginForm, accountCards, excused, gestures>>

\* fetch throws, before the call is served or after; or a read is answered by something
\* else than allauth, with no JSON: a 200 for the session, a 404 for the cards.
Loses(c) ==
    /\ c.answer # Lost
    /\ \/ Replies(c, "lost", 0)
       \/ c.answer = Unanswered /\ c.asks \in Reads /\ Replies(c, "misrouted", 0)
    /\ UNCHANGED <<accountServer, signed, loginForm, accountCards, excused, gestures>>

\* The session of the server reaches its age.
Expires ==
    /\ Begins /\ cookie = "user" /\ cookie' = "none"
    /\ excused' = excused \cup {"session"}
    /\ UNCHANGED <<factorOn, codeSet, signed, loginForm, accountCards, calls>>

-----------------------------------------------------------------------------
\* The render: the cards are there on the settings of a session, and ask what they
\* show each time they are mounted.

CardsFor(settings, state) == settings /\ state = "authenticated"
HasCards == CardsFor(onSettings, signed)

AtMount ==
    excused \cup (IF UnderWay({"factorForm"}) # {} THEN {"factor"} ELSE {})
            \cup (IF UnderWay({"codesForm"}) # {} THEN {"codes"} ELSE {})

ShowsAccount(settings, state, rest) ==
    /\ onSettings' = settings /\ signed' = state
    /\ \/ /\ CardsFor(settings, state) /\ ~HasCards /\ visit < MaxVisits
          /\ visit' = visit + 1
          /\ calls' = rest \cup {Asked("factor", "totp", visit + 1), Asked("codes", "codes", visit + 1)}
          /\ excused' = AtMount
          /\ factorCard' = BlankFactor /\ codesCard' = BlankCodes
       \/ /\ CardsFor(settings, state) => HasCards
          /\ calls' = rest /\ UNCHANGED <<visit, excused>>
          /\ factorCard' = IF CardsFor(settings, state) THEN factorCard ELSE BlankFactor
          /\ codesCard' = IF CardsFor(settings, state) THEN codesCard ELSE BlankCodes

\* The user goes to the settings and leaves them.
Navigates ==
    /\ Begins /\ ShowsAccount(~onSettings, signed, calls)
    /\ UNCHANGED <<accountServer, loginForm>>

-----------------------------------------------------------------------------
\* The session.

FetchSession(a) ==
    CASE a.kind = "ok" -> "ok"
      [] a.kind \in {"lost", "misrouted"} -> "unreachable"
      [] OTHER -> "anonymous"

LoginRefusal(a) ==
    CASE a.kind = "lost" -> "unreachable"
      [] a.kind = "pending" -> "mfa_required"
      [] OTHER -> "rejected"

\* Mutant: a password that is not rejected signs in.
ToStateOfPassword(result) ==
    IF result \in {"ok", "mfa_required"} THEN "authenticated"
    ELSE IF result = "unreachable" THEN "unreachable" ELSE "anonymous"

ToState(result) ==
    CASE result = "ok" -> "authenticated"
      [] result = "unreachable" -> "unreachable"
      [] OTHER -> "anonymous"

\* A call that sets the session: one sent while another is under way may be answered
\* before it and read after it.
Sends(by, asks) ==
    /\ Begins /\ Cardinality(calls) < MaxCalls
    /\ calls' = calls \cup {Asked(by, asks, 0)}
    /\ excused' = excused \cup (IF UnderWay(SessionCallers) # {} THEN {"session"} ELSE {})
    /\ UNCHANGED <<accountServer, signed, loginForm, accountCards>>

\* The two forms of LoginPage, of which `submitting` sends one at a time; the page of
\* an invitation; the buttons of the session.
SubmitsCredentials ==
    /\ ~onSettings /\ loginForm = "credentials" /\ UnderWay({"login", "code"}) = {}
    /\ Sends("login", "login")

SubmitsCode ==
    /\ ~onSettings /\ loginForm = "code" /\ UnderWay({"login", "code"}) = {}
    /\ Sends("code", "second")

AcceptsInvitation ==
    /\ ~onSettings /\ UnderWay({"invitation"}) = {}
    /\ Sends("invitation", "accept")

SignsOut ==
    /\ signed = "authenticated" /\ UnderWay({"logout"}) = {}
    /\ Sends("logout", "logout")

GoesOn(c, asks) ==
    /\ calls' = (calls \ {c}) \cup {Asked(c.by, asks, 0)}
    /\ UNCHANGED <<signed, accountCards, excused>>

SetsState(c, result) == ShowsAccount(onSettings, ToState(result), calls \ {c})

\* login: the session is read back before anything is believed; a second factor still
\* pending brings the form of its code.
LoginAnswers(c) ==
    /\ c.by = "login"
    /\ \/ c.asks = "login" /\ c.answer.kind = "ok" /\ GoesOn(c, "session") /\ UNCHANGED loginForm
       \/ /\ c.asks = "login" /\ c.answer.kind # "ok"
          /\ SetsState(c, LoginRefusal(c.answer))
          /\ loginForm' = IF LoginRefusal(c.answer) = "mfa_required" THEN "code" ELSE loginForm
       \/ c.asks = "session" /\ SetsState(c, FetchSession(c.answer)) /\ UNCHANGED loginForm

\* handleCode and the page of an invitation: the provider is refreshed once the server
\* has accepted; a refusal is an error of the page, and the session stays as it is told.
CodeAnswers(c) ==
    /\ c.by \in {"code", "invitation"} /\ c.asks # "refresh" /\ UNCHANGED loginForm
    /\ \/ c.asks = "second" /\ c.answer.kind = "ok" /\ GoesOn(c, "session")
       \/ c.asks \in {"session", "accept"} /\ c.answer.kind = "ok" /\ GoesOn(c, "refresh")
       \/ /\ c.answer.kind # "ok"
          /\ calls' = calls \ {c} /\ UNCHANGED <<signed, accountCards, excused>>

RefreshAnswers(c) ==
    /\ c.asks = "refresh"
    /\ SetsState(c, FetchSession(c.answer)) /\ UNCHANGED loginForm

\* logout: whatever was answered.
LogoutAnswers(c) ==
    /\ c.by = "logout"
    /\ SetsState(c, "anonymous") /\ UNCHANGED loginForm

-----------------------------------------------------------------------------
\* The cards.

\* fetchTotpStatus: a 404 with a fresh secret is a second factor that is off.
TotpTold(a) ==
    CASE a.kind = "ok" -> "on"
      [] a.kind = "absent" -> "off"
      [] OTHER -> "unreachable"

\* fetchRecoveryCodes: any 404 is codes never generated.
CodesTold(a) ==
    CASE a.kind = "ok" -> "generated"
      [] a.kind \in {"absent", "misrouted"} -> "never"
      [] OTHER -> "unreachable"

SubmitsCard(by, asks) ==
    /\ Begins /\ HasCards /\ Cardinality(calls) < MaxCalls
    /\ \A c \in UnderWay({by}) : c.visit # visit
    /\ calls' = calls \cup {Asked(by, asks, visit)}

\* handleActivate, handleDeactivate.
SubmitsFactor ==
    /\ \/ factorCard.told = "off" /\ SubmitsCard("factorForm", "activate")
       \/ factorCard.told = "on" /\ SubmitsCard("factorForm", "deactivate")
    /\ factorCard' = [factorCard EXCEPT !.error = FALSE]
    /\ UNCHANGED <<accountServer, signed, loginForm, onSettings, visit, codesCard, excused>>

\* handleGenerate: its button is there while the first read is still under way.
GeneratesCodes ==
    /\ SubmitsCard("codesForm", "generate")
    /\ codesCard' = [codesCard EXCEPT !.error = FALSE]
    /\ excused' = excused \cup (IF UnderWay({"codes"}) # {} THEN {"codes"} ELSE {})
    /\ UNCHANGED <<accountServer, signed, loginForm, onSettings, visit, factorCard>>

\* load: after the mount, and after each change that was accepted.
FactorAnswers(c) ==
    /\ UNCHANGED codesCard
    /\ \/ /\ c.by = "factor" /\ calls' = calls \ {c}
          /\ factorCard' = [factorCard EXCEPT !.told = TotpTold(c.answer)]
       \/ /\ c.by = "factorForm" /\ c.answer.kind = "ok" /\ UNCHANGED factorCard
          /\ calls' = (calls \ {c}) \cup {Asked("factor", "totp", visit)}
       \/ /\ c.by = "factorForm" /\ c.answer.kind # "ok" /\ calls' = calls \ {c}
          /\ factorCard' = [factorCard EXCEPT !.error = TRUE]

CodesAnswers(c) ==
    /\ UNCHANGED factorCard /\ calls' = calls \ {c}
    /\ \/ /\ c.by = "codes" \/ (c.by = "codesForm" /\ c.answer.kind = "ok")
          /\ codesCard' = [codesCard EXCEPT !.told = CodesTold(c.answer), !.set = c.answer.set]
       \/ /\ c.by = "codesForm" /\ c.answer.kind # "ok"
          /\ codesCard' = [codesCard EXCEPT !.error = TRUE]

\* An answer to cards that are gone sets the state of nothing.
CardAnswers(c) ==
    /\ c.by \notin SessionCallers
    /\ \/ HasCards /\ c.visit = visit /\ (FactorAnswers(c) \/ CodesAnswers(c))
       \/ /\ ~(HasCards /\ c.visit = visit)
          /\ calls' = calls \ {c} /\ UNCHANGED <<factorCard, codesCard>>
    /\ UNCHANGED <<signed, loginForm, onSettings, visit, excused>>

Answers(c) ==
    /\ c.answer # Unanswered
    /\ LoginAnswers(c) \/ CodeAnswers(c) \/ RefreshAnswers(c) \/ LogoutAnswers(c) \/ CardAnswers(c)
    /\ UNCHANGED <<accountServer, gestures>>

ServerAccountNext ==
    \/ \E c \in calls : Serves(c) \/ Loses(c) \/ Answers(c)
    \/ SubmitsCredentials \/ SubmitsCode \/ AcceptsInvitation \/ SignsOut
    \/ Navigates \/ SubmitsFactor \/ GeneratesCodes \/ Expires

ServerAccountSpec == ServerAccountInit /\ [][ServerAccountNext]_serverAccountVars

-----------------------------------------------------------------------------
ServerAccountTypeOK ==
    /\ cookie \in {"none", "pending", "user"} /\ factorOn \in BOOLEAN /\ codeSet \in 0..MaxCodes
    /\ signed \in {"loading", "anonymous", "unreachable", "authenticated"}
    /\ loginForm \in {"credentials", "code"} /\ onSettings \in BOOLEAN /\ visit \in 0..MaxVisits
    /\ factorCard \in [told : {"loading", "on", "off", "unreachable"}, error : BOOLEAN]
    /\ codesCard \in [told : {"loading", "generated", "never", "unreachable"},
                      set : 0..MaxCodes, error : BOOLEAN]
    /\ excused \subseteq {"session", "factor", "codes"}

\* With no call of the session under way, signed in is signed in: a password waiting for
\* its code never is, nor a session that was closed; but for two calls of the session that
\* overlapped, and its expiry.
SignedInIsOpen ==
    /\ signed = "authenticated" /\ "session" \notin excused /\ UnderWay(SessionCallers) = {}
    => cookie = "user"

\* At rest and with no error shown, a card tells the second factor the server has, and the
\* recovery codes it shows are those that work; but for a change left under way by an
\* earlier showing of the cards, or sent before the first read was answered.
QuietFor(callers) == \A c \in UnderWay(callers) : c.visit # visit
FactorIsTold ==
    /\ HasCards /\ ~factorCard.error /\ "factor" \notin excused /\ QuietFor({"factor", "factorForm"})
    => /\ factorCard.told = "on" => factorOn
       /\ factorCard.told = "off" => ~factorOn
CodesShownWork ==
    /\ HasCards /\ ~codesCard.error /\ "codes" \notin excused /\ QuietFor({"codes", "codesForm"})
    => codesCard.set \in {0, codeSet}

AccountIsTold == SignedInIsOpen /\ FactorIsTold /\ CodesShownWork
=============================================================================
