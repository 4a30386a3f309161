----------------------------- MODULE AuthSession -----------------------------
(***************************************************************************)
(* Sessions (backend/internal/app/auth.go): the login form, the trusted    *)
(* devices, the logout and the check that nginx asks for before it lets a  *)
(* page through (deploy/nginx/status-board.example.conf, which serves the  *)
(* host over http and over https), with one browser that follows every     *)
(* redirect.  A session is nothing but a signed cookie: statusd keeps      *)
(* none, so a restart with the same settings changes nothing and one with  *)
(* other settings leaves the browser with cookies made under the old ones. *)
(*                                                                         *)
(* The browser keeps one cookie per scope: host-only, or for a domain that *)
(* covers the host.  It sends them with the oldest first, those that are   *)
(* Secure over https only; a cookie that replaces another takes its place. *)
(* What comes over http changes nothing while a Secure cookie of the name  *)
(* is there, whatever its scope.                                           *)
(*                                                                         *)
(* A `next` is the sequence of the places it leads to: each but the last   *)
(* is the login, the logout or the page of the trusted devices with the    *)
(* rest as its own `next`.  safeAuthNext looks at the first characters of  *)
(* the value only, so there are paths that pass and still lead there.      *)
(*                                                                         *)
(* Signatures and hashes are taken to do their work: a cookie names the    *)
(* secret it was signed with.  The cookie's name does not change.          *)
(***************************************************************************)
EXTENDS Integers, Sequences, FiniteSetsExt

CONSTANTS
    OptionsSet,     \* the settings statusd may be started with: [secret,
                    \* domain, htpasswd, device]
    Users,
    BarUsers,       \* those whose name holds the separator of the payload
    DeviceUsername,
    Unset,          \* no secret, no cookie domain: a host-only cookie
    SessionTTL,
    NextValues,     \* the `next` parameters that are used
    MaxClock,       \* bound: the clock
    MaxChanges      \* bound: restarts and dropped cookies

NoOne == ""             \* no such login, no such logout

\* No domain is Unset, never the empty string.
ASSUME DomainAssumption == \A o \in OptionsSet : o.domain # NoOne

\* AuthOptions.normalized replaces what is not positive.
ASSUME TTLAssumption == SessionTTL \in Nat \ {0}

\* How a `next` ends: a page; a value that begins with /login or /_auth/; no
\* value, or one that is no local path.
Ends == {"page", "own", "none"}
Handlers == {"login", "logout", "trust"}

IsNext(n) ==
    /\ n \in Seq(Ends \cup Handlers) /\ Len(n) > 0
    /\ \A i \in 1..Len(n) : n[i] \in Ends <=> i = Len(n)

ASSUME NextAssumption == \A n \in NextValues : IsNext(n)

VARIABLES
    options,        \* AuthOptions
    now,
    jar,            \* the browser's cookies for the host, by the order in
                    \* which they were created
    scheme,         \* of the page shown or asked for
    place,          \* what the browser does next, or shows
    next,           \* the `next` parameter of that request
    changes,
    spare,          \* the redirects that may still follow
    entered,        \* the user of a login that nothing but redirects followed
    left,           \* the domain setting at a logout not followed by a login
    locked          \* whether that logout could change no cookie

settings == <<options, now, changes>>
browser == <<jar, scheme, place, next>>
logout == <<left, locked>>
history == <<spare, entered, logout>>
vars == <<settings, browser, history>>

-----------------------------------------------------------------------------

\* Enabled, cookieEnabled and deviceTrustEnabled.
CookieEnabled == options.secret # Unset
Enabled == CookieEnabled /\ options.htpasswd
DeviceTrustEnabled == CookieEnabled /\ options.device

\* Mutant of NewCookie: the expiry is the moment of the login.
NewCookieStale(user) ==
    [user |-> user, expires |-> now, secret |-> options.secret,
     scope |-> options.domain, secure |-> scheme = "https"]

\* newAuthCookie, and cookieShouldBeSecure.
NewCookie(user) ==
    [user |-> user, expires |-> now + SessionTTL, secret |-> options.secret,
     scope |-> options.domain, secure |-> scheme = "https"]

\* Mutant of ExpiredScopes: only the cookie as it would be set now.
ExpiredScopesNow == {options.domain}

\* expiredAuthCookies.
ExpiredScopes == {Unset, options.domain}

\* The oldest cookie is sent first.
First(cookies) == cookies[Min(DOMAIN cookies)]

NoCookies == [i \in {} |-> i]

\* What the browser sends.
Sent ==
    [i \in {j \in DOMAIN jar : jar[j].secure => scheme = "https"} |-> jar[i]]

\* Cookies that come over http are not stored, nor do they clear any.
Locked == scheme = "http" /\ \E i \in DOMAIN jar : jar[i].secure

\* r.Cookie and validAuthCookie: only the first cookie is looked at, and its
\* payload must fall into three fields.
ValidCookie ==
    /\ CookieEnabled
    /\ DOMAIN Sent # {}
    /\ First(Sent).secret = options.secret
    /\ First(Sent).user \notin BarUsers
    /\ now < First(Sent).expires

\* safeAuthNext: the first page stands for the login's and the logout's own
\* paths, if they are written plainly.
SafeNext(n) == IF Head(n) = "own" THEN <<"page">> ELSE n

\* Where the callers go on to if there is no value.
NextOr(default) ==
    IF Head(SafeNext(next)) = "none" THEN default ELSE SafeNext(next)

\* Mutant of SignedIn: the cookie is not checked.
SignedInByName == Enabled /\ DOMAIN jar # {}

\* /login sends a browser on that has a session.
SignedIn == Enabled /\ ValidCookie

-----------------------------------------------------------------------------
(* The browser. *)

\* The jar with one more cookie, in the place of the one it replaces.
Stored(cookies, cookie) ==
    LET same == {i \in DOMAIN cookies : cookies[i].scope = cookie.scope}
        at == IF same # {} THEN same ELSE {1 + Max({0} \cup DOMAIN cookies)}
    IN  [i \in DOMAIN cookies \cup at |-> IF i \in at THEN cookie ELSE cookies[i]]

Without(cookies, scopes) ==
    [i \in {j \in DOMAIN cookies : cookies[j].scope \notin scopes} |-> cookies[i]]

To(p, n) == place' = p /\ next' = n

\* The browser is sent to the first place of n.
SentTo(n) ==
    IF Head(n) = "page" THEN To("check", <<"none">>) ELSE To(Head(n), Tail(n))

\* One more redirect.
Redirected == spare' = spare - 1 /\ UNCHANGED <<entered, logout>>

\* What follows may take one redirect for each place of its `next`, and one.
Afresh == spare' = Len(next') + 1 /\ entered' = NoOne

Init ==
    /\ options \in OptionsSet
    /\ now = 0
    /\ jar = NoCookies
    /\ scheme = "https"
    /\ place = "away" /\ next = <<"none">>
    /\ changes = 0
    /\ spare = 2 /\ entered = NoOne /\ left = NoOne /\ locked = FALSE

AtRest == place \in {"away", "page", "form", "trust"}

\* The user asks for a page, or for one of statusd's own.
Visit(p, n, s) ==
    /\ AtRest
    /\ To(p, IF p = "check" THEN <<"none">> ELSE n)
    /\ scheme' = s
    /\ Afresh
    /\ UNCHANGED <<settings, jar, logout>>

\* A page behind nginx: authCheck, and @login_redirect if it says 401.
Check ==
    /\ place = "check"
    /\ \/ ValidCookie /\ To("page", <<"none">>) /\ UNCHANGED history
       \/ ~ValidCookie /\ To("login", <<"page">>) /\ Redirected
    /\ UNCHANGED <<settings, jar, scheme>>

\* authLoginGet.
LoginGet ==
    /\ place = "login"
    /\ \/ SignedIn /\ SentTo(NextOr(<<"page">>)) /\ Redirected
       \/ ~SignedIn /\ To("form", NextOr(<<"page">>)) /\ UNCHANGED history
    /\ UNCHANGED <<settings, jar, scheme>>

\* The cookie is set and the browser sent on.
Enter(user) ==
    /\ jar' = IF Locked THEN jar ELSE Stored(jar, NewCookie(user))
    /\ SentTo(NextOr(<<"page">>))
    /\ spare' = Len(NextOr(<<"page">>)) /\ entered' = user
    /\ left' = NoOne /\ locked' = FALSE

\* authLoginPost, with verifyHtpasswd's verdict; if it is FALSE the form is
\* shown again.
LoginPost(user, verified) ==
    /\ place = "form"
    /\ \/ Enabled /\ verified /\ Enter(user)
       \/ /\ ~(Enabled /\ verified)
          /\ To("form", NextOr(<<"page">>))
          /\ Afresh
          /\ UNCHANGED <<jar, logout>>
    /\ UNCHANGED <<settings, scheme>>

\* authTrustDevicePost, from the page of authTrustDevice.
TrustDevicePost(token) ==
    /\ place = "trust"
    /\ \/ DeviceTrustEnabled /\ token /\ Enter(DeviceUsername)
       \/ ~(DeviceTrustEnabled /\ token) /\ UNCHANGED <<jar, place, next, history>>
    /\ UNCHANGED <<settings, scheme>>

\* authLogout.
Logout ==
    /\ place = "logout"
    /\ jar' = IF Locked THEN jar ELSE Without(jar, ExpiredScopes)
    /\ SentTo(NextOr(<<"login", "none">>))
    /\ spare' = spare - 1 /\ UNCHANGED entered
    /\ left' = options.domain /\ locked' = Locked
    /\ UNCHANGED <<settings, scheme>>

-----------------------------------------------------------------------------
(* What happens meanwhile. *)

Tick ==
    /\ now < MaxClock
    /\ now' = now + 1
    /\ UNCHANGED <<options, changes, browser, logout>>
    /\ Afresh

Meanwhile ==
    /\ changes < MaxChanges
    /\ changes' = changes + 1
    /\ UNCHANGED <<now, scheme, place, next, logout>>
    /\ Afresh

\* statusd restarts, maybe with other settings.
Restart ==
    /\ Meanwhile
    /\ options' \in OptionsSet
    /\ UNCHANGED jar

\* The browser drops a cookie: it is out of date by the browser's own clock.
Drop ==
    /\ Meanwhile
    /\ \E i \in DOMAIN jar : jar' = Without(jar, {jar[i].scope})
    /\ UNCHANGED options

Next ==
    \/ \E p \in {"check"} \cup Handlers, n \in NextValues, s \in {"http", "https"} :
          Visit(p, n, s)
    \/ Check \/ LoginGet \/ Logout
    \/ \E user \in Users, verified \in BOOLEAN : LoginPost(user, verified)
    \/ \E token \in BOOLEAN : TrustDevicePost(token)
    \/ Tick \/ Restart \/ Drop

Spec == Init /\ [][Next]_vars

-----------------------------------------------------------------------------

(***************************************************************************)
(* An accepted login sticks: the browser does not get back to the form.    *)
(* The exceptions are a user whose name holds the separator; a `next` that *)
(* leads to the logout; a `next` that leads a trusted device to /login     *)
(* where nobody can log in; a login over http while a Secure cookie from   *)
(* https is kept, so that the new one is not stored; and an older cookie   *)
(* in another scope, left from before the domain was set or changed, which *)
(* is sent first and hides the new one for as long as it is kept.          *)
(***************************************************************************)
LoginSticks ==
    entered # NoOne /\ place = "form" =>
        \/ entered \in BarUsers
        \/ left # NoOne
        \/ ~Enabled
        \/ Locked
        \/ DOMAIN Sent # {} /\ First(Sent).scope # options.domain

(***************************************************************************)
(* After a logout no page is shown until the next login, whatever settings *)
(* follow; except with a cookie for a domain that was not the one set at   *)
(* the moment of the logout, which statusd did not know to clear, and      *)
(* after a logout over http while a Secure cookie was kept, which clears   *)
(* nothing.                                                                *)
(***************************************************************************)
LogoutHolds ==
    left # NoOne /\ ValidCookie =>
        First(Sent).scope \notin {Unset, left} \/ locked

(***************************************************************************)
(* Nobody is sent around in circles: /login and the check behind the pages *)
(* judge a cookie alike, and a `next` is used up on the way.  If it leads  *)
(* to a page the browser is redirected twice at most; each login, logout   *)
(* or trust page that it leads to first adds one redirect and no more.     *)
(***************************************************************************)
RedirectsEnd == spare >= 0
=============================================================================
