----------------------------- MODULE LoginPage ------------------------------
(***************************************************************************)
(* The session of one tab of a browser: the login page                     *)
(* (frontend/src/pages/auth/LoginPage.tsx), the account of the page        *)
(* (context/AuthContext.tsx), the guards of the portals (App.tsx) and the  *)
(* calls that the portals' own pages make (utils/apiClient.ts), which      *)
(* carry the token that is stored when they are made.  Other tabs change   *)
(* the same store.                                                         *)
(*                                                                         *)
(* The tool pages that the portals also show (sandbox, console, panel) are *)
(* not meant: they call through services/api.ts, with another key of the   *)
(* store, pathwise_token, which this login never sets.                     *)
(*                                                                         *)
(* Whether a password is right is module Accounts' subject; the fallback   *)
(* to the first login call answers a 404, which this server does not give. *)
(* Loading a page ends the script at once, with its calls.                 *)
(***************************************************************************)
EXTENDS PageCalls

CONSTANTS
    OwnerAccount,   \* accounts of business owners
    AdminAccount    \* accounts whose role is SUPER_ADMIN

VARIABLES
    stored,         \* localStorage's pathwise_user
    user,           \* the account of the page
    place,          \* what the router shows: "login", "user", "admin" or "legacy"
    signingIn,      \* loading
    otherTab        \* history: another tab has changed `stored` since the page was loaded

loginVars == <<stored, user, place, signingIn, otherTab>>

NoAccount == "nobody"
LoginAccount == OwnerAccount \cup AdminAccount
Place == {"login", "user", "admin", "legacy"}

LoginInit ==
    /\ stored = NoAccount /\ user = NoAccount
    /\ place = "login" /\ signingIn = FALSE /\ otherTab = FALSE

\* AdminRoute and UserRoute: where a visitor to `p` ends up.
Guarded(p, who) ==
    IF p \in {"user", "admin"} /\ who = NoAccount THEN "login"
    ELSE IF p = "admin" /\ who \notin AdminAccount THEN "user"
    ELSE p

RedirectTo(who) == IF who \in AdminAccount THEN "admin" ELSE "user"

\* The attempts under way belong to a form that is no longer there.
FormLeft ==
    [s \in Slot |-> IF calls[s] # NoCall /\ calls[s].op = "login"
                    THEN [calls[s] EXCEPT !.arg.here = FALSE] ELSE calls[s]]

-----------------------------------------------------------------------------
\* Pages are loaded anew, and left within the router.

Loads(p, who) ==
    /\ calls' = [s \in Slot |-> NoCall]
    /\ stored' = who /\ user' = who /\ place' = Guarded(p, who)
    /\ signingIn' = FALSE /\ otherTab' = FALSE
    /\ UNCHANGED <<failures, mounted>>

LoadPage(p) == Loads(p, stored)

LogOut == place \in {"user", "admin"} /\ Loads("login", NoAccount)

Navigate(p) ==
    /\ calls' = FormLeft
    /\ place' = Guarded(p, user) /\ signingIn' = FALSE
    /\ UNCHANGED <<failures, mounted, stored, user, otherTab>>

OtherTabStores(who) ==
    /\ stored' = who /\ otherTab' = TRUE
    /\ NoSends
    /\ UNCHANGED <<user, place, signingIn>>

-----------------------------------------------------------------------------
\* handleSubmit and login.

SignIn(s, who) ==
    /\ place = "login" /\ ~signingIn
    /\ Sends(s, "login", [account |-> who, here |-> TRUE])
    /\ signingIn' = TRUE
    /\ UNCHANGED <<stored, user, place, otherTab>>

LoginV2(s) ==
    /\ Serving(s, "login")
    /\ \E right \in BOOLEAN : Replies(s, right, calls[s].arg.account)
    /\ UNCHANGED loginVars

\* Faulty variant: the account is stored, but the page keeps the one it had.
LoginOnlyStored(s) ==
    /\ Resolving(s, "login")
    /\ calls' = [FormLeft EXCEPT ![s] = NoCall]
    /\ stored' = calls[s].answer /\ user' = IF user = NoAccount THEN stored' ELSE user
    /\ place' = Guarded(RedirectTo(stored'), user') /\ signingIn' = FALSE
    /\ UNCHANGED <<failures, mounted, otherTab>>

\* The answer moves the tab even when the form has been left.
LoginAnswered(s) ==
    /\ Resolving(s, "login")
    /\ calls' = [FormLeft EXCEPT ![s] = NoCall]
    /\ stored' = calls[s].answer /\ user' = stored'
    /\ place' = Guarded(RedirectTo(stored'), user') /\ signingIn' = FALSE
    /\ UNCHANGED <<failures, mounted, otherTab>>

LoginFails(s) ==
    /\ Rejects(s, "login")
    /\ signingIn' = (signingIn /\ ~calls[s].arg.here)
    /\ UNCHANGED <<stored, user, place, otherTab>>

-----------------------------------------------------------------------------
\* A call of a portal's own page: getToken reads the store when it is made.  A
\* 401 loads the login page, and leaves the account stored.

PortalCall(s) ==
    /\ place \in {"user", "admin"}
    /\ Sends(s, "portal", [drawnFor |-> user, token |-> stored])
    /\ UNCHANGED loginVars

PortalServes(s) ==
    /\ Serving(s, "portal")
    /\ \E valid \in BOOLEAN : Replies(s, valid, "")
    /\ UNCHANGED loginVars

Expelled(s) == Refused(s, "portal") /\ Loads("login", stored)

PortalEnds(s) ==
    /\ \/ Resolving(s, "portal") /\ GoesOn(s, NoCall)
       \/ ~Refused(s, "portal") /\ Rejects(s, "portal")
    /\ UNCHANGED loginVars

-----------------------------------------------------------------------------

LoginServes(s) == LoginV2(s) \/ PortalServes(s)

LoginReacts(s) == LoginAnswered(s) \/ LoginFails(s) \/ Expelled(s) \/ PortalEnds(s)

LoginUser ==
    \/ \E p \in Place : LoadPage(p) \/ Navigate(p)
    \/ \E who \in LoginAccount \cup {NoAccount} : OtherTabStores(who)
    \/ \E s \in UserSlot :
          PortalCall(s) \/ \E who \in LoginAccount : SignIn(s, who)
    \/ LogOut

=============================================================================
