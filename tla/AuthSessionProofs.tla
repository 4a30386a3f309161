------------------------- MODULE AuthSessionProofs -------------------------
(***************************************************************************)
(* Theorems about AuthSession for any settings, users, lifetime and `next` *)
(* parameters, and without a bound on the clock or on the restarts:        *)
(*                                                                         *)
(*   NoCircles            Spec => []RedirectsEnd                           *)
(*   AcceptedLoginSticks  Spec => []LoginSticks                            *)
(*   LogoutClears         Spec => []LogoutHolds                            *)
(*                                                                         *)
(* That some redirects are left is not enough by itself: Settled says how  *)
(* many the place needs that the browser is at, by what is left of the     *)
(* `next` and by what the look at the cookies there will find.             *)
(*                                                                         *)
(* The two promises about cookies speak of the one that is sent first, and *)
(* hold because of what is true of all that are sent, or kept (JarInv):    *)
(* after a login the one in the scope that is set now is the new one, and  *)
(* after a logout none is left in the scopes that were cleared; unless     *)
(* nothing that came over http could change the jar.                       *)
(***************************************************************************)
EXTENDS AuthSession, WellFoundedInduction, TLAPS

\* A `next` that is more than its end begins with one of statusd's own places.
LEMMA NextParts ==
    ASSUME NEW n, IsNext(n)
    PROVE  /\ Len(n) \in Nat \ {0}
           /\ Len(n) = 1 => Head(n) \in Ends
           /\ Len(n) # 1 => /\ Head(n) \in Handlers /\ IsNext(Tail(n))
                            /\ Len(Tail(n)) = Len(n) - 1
<1>1. n \in Seq(Ends \cup Handlers) /\ Len(n) \in Nat \ {0} /\ Head(n) = n[1]
    BY DEF IsNext
<1>2. CASE Len(n) = 1
    BY <1>1, <1>2 DEF IsNext
<1>3. CASE Len(n) # 1
    <2>1. n[1] \in Handlers
        BY <1>1, <1>3 DEF IsNext
    <2>2. /\ Tail(n) \in Seq(Ends \cup Handlers) /\ Len(Tail(n)) = Len(n) - 1
          /\ \A i \in 1..(Len(n) - 1) : Tail(n)[i] = n[i + 1]
        BY <1>1
    <2>3. ASSUME NEW i \in 1..(Len(n) - 1)
          PROVE  Tail(n)[i] \in Ends <=> i = Len(n) - 1
        <3>1. i + 1 \in 1..Len(n) /\ Tail(n)[i] = n[i + 1]
            BY <1>1, <2>2
        <3>2. n[i + 1] \in Ends <=> i + 1 = Len(n)
            BY <3>1 DEF IsNext
        <3>. QED BY <1>1, <3>1, <3>2
    <2>4. IsNext(Tail(n))
        <3> DEFINE t == Tail(n)
        <3>1. t \in Seq(Ends \cup Handlers) /\ Len(t) = Len(n) - 1
            BY <2>2
        <3>2. \A i \in 1..(Len(n) - 1) : t[i] \in Ends <=> i = Len(n) - 1
            BY <2>3
        <3> HIDE DEF t
        <3>3. Len(n) - 1 > 0
            <4>1. \A k \in Nat \ {0} : k # 1 => k - 1 > 0
                OBVIOUS
            <4>. QED BY <1>1, <1>3, <4>1
        <3>4. \A i \in 1..Len(t) : t[i] \in Ends <=> i = Len(t)
            BY <3>1, <3>2
        <3>5. IsNext(t)
            BY <3>1, <3>3, <3>4 DEF IsNext
        <3>. QED BY <3>5 DEF t
    <2>. QED BY <1>1, <1>3, <2>1, <2>2, <2>4
<1>. QED BY <1>2, <1>3

LEMMA OnePlace ==
    ASSUME NEW p \in Ends
    PROVE  IsNext(<<p>>) /\ Len(<<p>>) = 1 /\ Head(<<p>>) = p
<1> DEFINE n == <<p>>
<1>1. n \in Seq(Ends \cup Handlers) /\ Len(n) = 1 /\ n[1] = p /\ Head(n) = n[1]
    OBVIOUS
<1> HIDE DEF n
<1>2. \A i \in 1..1 : n[i] \in Ends <=> i = 1
    BY <1>1
<1>3. IsNext(n)
    BY <1>1, <1>2 DEF IsNext
<1>. QED BY <1>1, <1>3 DEF n

LEMMA LoginFirst ==
    LET d == <<"login", "none">>
    IN  IsNext(d) /\ Len(d) = 2 /\ Head(d) = "login" /\ Tail(d) = <<"none">>
<1> DEFINE d == <<"login", "none">>
<1>1. /\ d \in Seq({"login", "none"}) /\ Len(d) = 2
      /\ d[1] = "login" /\ d[2] = "none"
    OBVIOUS
<1>2. d \in Seq(Ends \cup Handlers)
    BY DEF Ends, Handlers
<1>3. Head(d) = "login" /\ Tail(d) = <<"none">>
    OBVIOUS
<1>4. \A i \in 1..2 : d[i] \in Ends <=> i = 2
    BY <1>1 DEF Ends
<1> HIDE DEF d
<1>5. IsNext(d)
    BY <1>1, <1>2, <1>4 DEF IsNext
<1>. QED BY <1>1, <1>3, <1>5 DEF d

\* What a handler makes of its `next`.
LEMMA NextOrParts ==
    ASSUME IsNext(next), NEW d, IsNext(d), Head(d) \notin {"none", "own"}
    PROVE  /\ IsNext(NextOr(d)) /\ Head(NextOr(d)) \notin {"none", "own"}
           /\ NextOr(d) \in {next, <<"page">>, d}
           /\ Len(next) = 1 => NextOr(d) \in {<<"page">>, d} \/ Len(NextOr(d)) = 1
           /\ Len(next) # 1 => NextOr(d) = next
<1>1. IsNext(<<"page">>) /\ Head(<<"page">>) = "page"
    BY OnePlace DEF Ends
<1>2. /\ Len(next) = 1 => Head(next) \in Ends
      /\ Len(next) # 1 => Head(next) \in Handlers
    BY NextParts
<1>3. CASE Head(next) = "own"
    <2>1. NextOr(d) = <<"page">>
        BY <1>1, <1>3 DEF NextOr, SafeNext
    <2>. QED BY <1>1, <1>2, <1>3, <2>1 DEF Handlers
<1>4. CASE Head(next) = "none"
    <2>1. NextOr(d) = d
        BY <1>4 DEF NextOr, SafeNext
    <2>. QED BY <1>2, <1>4, <2>1 DEF Handlers
<1>5. CASE Head(next) \notin {"own", "none"}
    <2>1. NextOr(d) = next
        BY <1>5 DEF NextOr, SafeNext
    <2>. QED BY <1>5, <2>1
<1>. QED BY <1>3, <1>4, <1>5

\* Where the browser is sent: to a page, or on with the rest of the `next`.
LEMMA SentOn ==
    ASSUME NEW n, IsNext(n), Head(n) \notin {"none", "own"}, SentTo(n)
    PROVE  /\ IsNext(next')
           /\ Len(n) = 1 => place' = "check"
           /\ Len(n) # 1 => place' \in Handlers /\ Len(next') = Len(n) - 1
<1>1. /\ Len(n) = 1 => Head(n) \in Ends
      /\ Len(n) # 1 => /\ Head(n) \in Handlers /\ IsNext(Tail(n))
                       /\ Len(Tail(n)) = Len(n) - 1
    BY NextParts
<1>2. CASE Head(n) = "page"
    <2>1. place' = "check" /\ next' = <<"none">>
        BY <1>2 DEF SentTo, To
    <2>2. IsNext(<<"none">>)
        BY OnePlace DEF Ends
    <2>. QED BY <1>1, <1>2, <2>1, <2>2 DEF Handlers
<1>3. CASE Head(n) # "page"
    <2>1. place' = Head(n) /\ next' = Tail(n)
        BY <1>3 DEF SentTo, To
    <2>2. Len(n) # 1
        BY <1>1, <1>3 DEF Ends
    <2>. QED BY <1>1, <2>1, <2>2
<1>. QED BY <1>2, <1>3

-----------------------------------------------------------------------------

Settled ==
    /\ spare \in Nat /\ IsNext(next)
    /\ place = "check" /\ ~ValidCookie => spare >= 1
    /\ place = "login" /\ ValidCookie =>
          spare >= IF Len(next) = 1 THEN 1 ELSE Len(next) + 1
    /\ place = "logout" => spare >= Len(next) + 1

LEMMA InitSettled == Init => Settled
<1> SUFFICES ASSUME Init PROVE Settled
    OBVIOUS
<1>1. IsNext(<<"none">>)
    BY OnePlace DEF Ends
<1>. QED BY <1>1 DEF Init, Settled

\* What the verdict on the cookies depends on.
LEMMA SameVerdict ==
    ASSUME UNCHANGED <<settings, jar, scheme>>
    PROVE  /\ ValidCookie' <=> ValidCookie
           /\ Locked' <=> Locked
           /\ Sent' = Sent
<1>1. options' = options /\ now' = now /\ jar' = jar /\ scheme' = scheme
    BY DEF settings
<1>2. Sent' = Sent
    BY <1>1 DEF Sent
<1>3. Locked' <=> Locked
    BY <1>1 DEF Locked
<1>4. ValidCookie' <=> ValidCookie
    BY <1>1, <1>2 DEF ValidCookie, CookieEnabled
<1>. QED BY <1>2, <1>3, <1>4

\* Enough is left for any place when the count begins.
LEMMA AfreshSettled ==
    ASSUME IsNext(next'), spare' = Len(next') + 1 PROVE Settled'
<1>1. Len(next') \in Nat \ {0}
    BY NextParts
<1>. QED BY <1>1 DEF Settled

\* So it is after a redirect to the first place of n.
LEMMA SentSettled ==
    ASSUME NEW n, IsNext(n), Head(n) \notin {"none", "own"}, SentTo(n), spare' \in Int,
           Len(n) # 1 => spare' >= Len(n),
           Len(n) = 1 => spare' >= 0 /\ (~ValidCookie' => spare' >= 1)
    PROVE  Settled'
<1>1. /\ IsNext(next') /\ Len(n) \in Nat \ {0}
      /\ Len(n) = 1 => place' = "check"
      /\ Len(n) # 1 => place' \in Handlers /\ Len(next') = Len(n) - 1
    BY SentOn, NextParts
<1>2. CASE Len(n) = 1
    BY <1>1, <1>2 DEF Settled
<1>3. CASE Len(n) # 1
    <2>1. place' # "check" /\ spare' >= Len(next') + 1 /\ Len(next') \in Nat /\ Len(next') >= 1
        BY <1>1, <1>3 DEF Handlers
    <2>. QED BY <1>1, <2>1 DEF Settled
<1>. QED BY <1>2, <1>3

LEMMA CheckSettled == Settled /\ Check => Settled'
<1> SUFFICES ASSUME Settled, Check PROVE Settled'
    OBVIOUS
<1>1. (ValidCookie' <=> ValidCookie) /\ place = "check"
    BY SameVerdict DEF Check
<1>2. IsNext(<<"none">>) /\ IsNext(<<"page">>)
    BY OnePlace DEF Ends
<1>3. CASE ValidCookie
    <2>1. place' = "page" /\ next' = <<"none">> /\ spare' = spare
        BY <1>3 DEF Check, To, history
    <2>. QED BY <1>2, <2>1 DEF Settled
<1>4. CASE ~ValidCookie
    <2>1. place' = "login" /\ next' = <<"page">> /\ spare' = spare - 1
        BY <1>4 DEF Check, To, Redirected
    <2>. QED BY <1>1, <1>2, <1>4, <2>1 DEF Settled
<1>. QED BY <1>3, <1>4

LEMMA LoginGetSettled == Settled /\ LoginGet => Settled'
<1> SUFFICES ASSUME Settled, LoginGet PROVE Settled'
    OBVIOUS
<1> DEFINE n == NextOr(<<"page">>)
<1>1. (ValidCookie' <=> ValidCookie) /\ place = "login"
    BY SameVerdict DEF LoginGet
<1>2. /\ IsNext(n) /\ Head(n) \notin {"none", "own"}
      /\ Len(next) = 1 => Len(n) = 1
      /\ Len(next) # 1 => n = next
    <2>1. IsNext(<<"page">>) /\ Head(<<"page">>) = "page" /\ Len(<<"page">>) = 1
        BY OnePlace DEF Ends
    <2>. QED BY <2>1, NextOrParts DEF Settled
<1>3. /\ SignedIn => SentTo(n) /\ spare' = spare - 1
      /\ ~SignedIn => place' = "form" /\ next' = n /\ spare' = spare
    BY DEF LoginGet, Redirected, To, history
<1> HIDE DEF n
<1>4. CASE SignedIn
    <2>1. ValidCookie /\ Len(next) \in Nat \ {0}
        BY <1>4, NextParts DEF SignedIn, Settled
    <2>2. /\ Len(n) # 1 => spare' >= Len(n)
          /\ Len(n) = 1 => spare' >= 0
        BY <1>1, <1>2, <1>3, <1>4, <2>1 DEF Settled
    <2>3. spare' \in Int
        BY <1>3, <1>4 DEF Settled
    <2>. QED BY <1>1, <1>2, <1>3, <1>4, <2>1, <2>2, <2>3, SentSettled
<1>5. CASE ~SignedIn
    BY <1>2, <1>3, <1>5 DEF Settled
<1>. QED BY <1>4, <1>5

LEMMA LogoutSettled == Settled /\ Logout => Settled'
<1> SUFFICES ASSUME Settled, Logout PROVE Settled'
    OBVIOUS
<1> DEFINE d == <<"login", "none">>
           n == NextOr(d)
<1>1. IsNext(d) /\ Len(d) = 2 /\ Head(d) = "login" /\ Tail(d) = <<"none">>
    BY LoginFirst
<1>2. /\ IsNext(next) /\ Len(next) \in Nat \ {0} /\ spare \in Nat
      /\ spare >= Len(next) + 1
    BY NextParts DEF Settled, Logout
<1>3. SentTo(n) /\ spare' = spare - 1
    BY DEF Logout
<1> HIDE DEF d
<1>4. /\ IsNext(n) /\ Head(n) \notin {"none", "own"}
      /\ Len(next) = 1 => n = d \/ Len(n) = 1
      /\ Len(next) # 1 => n = next
    <2>1. Len(<<"page">>) = 1
        OBVIOUS
    <2>. QED BY <1>1, <1>2, <2>1, NextOrParts
<1> HIDE DEF n
<1>5. CASE n = d
    <2>1. place' = "login" /\ next' = <<"none">>
        BY <1>1, <1>3, <1>5 DEF SentTo, To
    <2>2. IsNext(<<"none">>) /\ Len(<<"none">>) = 1
        BY OnePlace DEF Ends
    <2>3. spare' >= 1 /\ spare' \in Nat
        BY <1>2, <1>3
    <2>. QED BY <2>1, <2>2, <2>3 DEF Settled
<1>6. CASE n # d
    <2>1. spare' \in Int /\ spare' >= Len(next)
        BY <1>2, <1>3
    <2>2. Len(n) # 1 => spare' >= Len(n)
        BY <1>4, <1>6, <2>1
    <2>3. Len(n) = 1 => spare' >= 1 /\ spare' >= 0
        BY <1>2, <2>1
    <2>. QED BY <1>3, <1>4, <2>1, <2>2, <2>3, SentSettled
<1>. QED BY <1>5, <1>6

LEMMA EnterSettled == ASSUME Settled, NEW user, Enter(user) PROVE Settled'
<1> DEFINE n == NextOr(<<"page">>)
<1>1. IsNext(n) /\ Head(n) \notin {"none", "own"}
    <2>1. IsNext(<<"page">>) /\ Head(<<"page">>) = "page"
        BY OnePlace DEF Ends
    <2>. QED BY <2>1, NextOrParts DEF Settled
<1>2. SentTo(n) /\ spare' = Len(n)
    BY DEF Enter
<1> HIDE DEF n
<1>3. Len(n) \in Nat \ {0}
    BY <1>1, NextParts
<1>. QED BY <1>1, <1>2, <1>3, SentSettled

LEMMA NextSettled == Settled /\ [Next]_vars => Settled'
<1> SUFFICES ASSUME Settled, [Next]_vars PROVE Settled'
    OBVIOUS
<1>1. CASE Check
    BY <1>1, CheckSettled
<1>2. CASE LoginGet
    BY <1>2, LoginGetSettled
<1>3. CASE Logout
    BY <1>3, LogoutSettled
<1>4. ASSUME NEW p, NEW n \in NextValues, NEW s, Visit(p, n, s) PROVE Settled'
    <2>1. IsNext(n) /\ IsNext(<<"none">>)
        BY NextAssumption, OnePlace DEF Ends
    <2>. QED BY <1>4, <2>1, AfreshSettled DEF Visit, To, Afresh
<1>5. ASSUME NEW user, NEW verified, LoginPost(user, verified) PROVE Settled'
    <2>1. CASE Enter(user)
        BY <2>1, EnterSettled
    <2>2. CASE To("form", NextOr(<<"page">>)) /\ Afresh
        <3>1. IsNext(<<"page">>) /\ Head(<<"page">>) = "page"
            BY OnePlace DEF Ends
        <3>2. IsNext(NextOr(<<"page">>))
            BY <3>1, NextOrParts DEF Settled
        <3>. QED BY <2>2, <3>2, AfreshSettled DEF To, Afresh
    <2>. QED BY <1>5, <2>1, <2>2 DEF LoginPost
<1>6. ASSUME NEW token, TrustDevicePost(token) PROVE Settled'
    <2>1. CASE Enter(DeviceUsername)
        BY <2>1, EnterSettled
    <2>2. CASE UNCHANGED <<jar, place, next, history>>
        BY <1>6, <2>2, SameVerdict DEF TrustDevicePost, history, Settled
    <2>. QED BY <1>6, <2>1, <2>2 DEF TrustDevicePost
<1>7. CASE Tick \/ Restart \/ Drop
    <2>1. next' = next /\ spare' = Len(next') + 1
        BY <1>7 DEF Tick, Restart, Drop, Meanwhile, Afresh, browser
    <2>. QED BY <2>1, AfreshSettled DEF Settled
<1>8. CASE UNCHANGED vars
    <2>1. UNCHANGED <<settings, jar, scheme, place, next, spare>>
        BY <1>8 DEF vars, browser, history
    <2>. QED BY <2>1, SameVerdict DEF Settled
<1>. QED BY <1>1, <1>2, <1>3, <1>4, <1>5, <1>6, <1>7, <1>8 DEF Next

\* Whatever the cookies and the settings are, a `next` that leads to a page
\* takes two redirects at most, and one that leads through the login, the logout
\* or the trusted devices one more for each of them.
THEOREM NoCircles == Spec => []RedirectsEnd
<1>1. Settled => RedirectsEnd
    BY DEF Settled, RedirectsEnd
<1>. QED BY <1>1, InitSettled, NextSettled, PTL DEF Spec

-----------------------------------------------------------------------------

\* A set of naturals that is not empty has a least member.
LEMMA LeastNatural ==
    ASSUME NEW T, T \subseteq Nat, T # {}
    PROVE  \E x \in T : \A y \in T : x <= y
<1>1. \E x \in T : \A y \in T : ~(y < x)
    <2>1. PICK x \in T : \A y \in T : <<y, x>> \notin OpToRel(<, Nat)
        BY WFMin, NatLessThanWellFounded
    <2>2. \A y \in T : ~(y < x)
        BY <2>1 DEF OpToRel
    <2>. QED BY <2>2
<1>. QED BY <1>1

\* Below a bound it has a greatest one too.
LEMMA GreatestNatural ==
    ASSUME NEW n \in Nat, NEW T, T \subseteq 0..n, T # {}
    PROVE  Max(T) \in T
<1> DEFINE D == {n - x : x \in T}
<1>1. D \subseteq Nat /\ D # {}
    OBVIOUS
<1>2. PICK d \in D : \A e \in D : d <= e
    <2> HIDE DEF D
    <2>. QED BY <1>1, LeastNatural
<1>3. PICK x \in T : d = n - x
    OBVIOUS
<1>4. \A y \in T : n - x <= n - y
    BY <1>2, <1>3
<1>5. \A y \in T : x >= y
    BY <1>4
<1>. QED BY <1>5 DEF Max

\* Every cookie that is sent first is one of the jar.
LEMMA FirstIsOne ==
    ASSUME NEW n \in Nat, NEW cookies, DOMAIN cookies \subseteq 0..n,
           DOMAIN cookies # {}
    PROVE  \E i \in DOMAIN cookies : First(cookies) = cookies[i]
<1>1. DOMAIN cookies \subseteq Nat
    OBVIOUS
<1>2. \E x \in DOMAIN cookies : \A y \in DOMAIN cookies : x <= y
    BY <1>1, LeastNatural
<1>3. Min(DOMAIN cookies) \in DOMAIN cookies
    BY <1>2 DEF Min
<1>. QED BY <1>3 DEF First

LEMMA StoredCookies ==
    ASSUME NEW n \in Nat, NEW cookies, DOMAIN cookies \subseteq 0..n, NEW cookie
    PROVE  LET new == Stored(cookies, cookie)
           IN  /\ \E m \in Nat : DOMAIN new \subseteq 0..m
               /\ \E i \in DOMAIN new : new[i] = cookie
               /\ \A i \in DOMAIN new : \/ new[i] = cookie
                                        \/ new[i].scope # cookie.scope
<1> DEFINE same == {i \in DOMAIN cookies : cookies[i].scope = cookie.scope}
           top == Max({0} \cup DOMAIN cookies)
           at == IF same # {} THEN same ELSE {1 + top}
           new == [i \in DOMAIN cookies \cup at |-> IF i \in at THEN cookie ELSE cookies[i]]
<1>1. Stored(cookies, cookie) = new
    BY DEF Stored
<1>2. top \in 0..n
    <2>1. {0} \cup DOMAIN cookies \subseteq 0..n
        OBVIOUS
    <2>. QED BY <2>1, GreatestNatural
<1>3. at # {} /\ at \subseteq 0..(n + 1) /\ same \subseteq at
    <2> HIDE DEF top
    <2>. QED BY <1>2
<1>4. \A i \in DOMAIN cookies : i \notin at => cookies[i].scope # cookie.scope
    BY <1>3
<1> HIDE DEF at
<1>5. DOMAIN new = DOMAIN cookies \cup at
    OBVIOUS
<1>6. DOMAIN new \subseteq 0..(n + 1) /\ DOMAIN new # {} /\ n + 1 \in Nat
    <2>1. 0..n \subseteq 0..(n + 1)
        OBVIOUS
    <2>2. n + 1 \in Nat
        OBVIOUS
    <2> HIDE DEF new, same, top
    <2>3. DOMAIN new \subseteq 0..(n + 1)
        BY <1>3, <1>5, <2>1
    <2>. QED BY <1>3, <1>5, <2>2, <2>3
<1>7. \A i \in DOMAIN new : new[i] = cookie \/ new[i].scope # cookie.scope
    BY <1>4
<1>8. \E i \in DOMAIN new : new[i] = cookie
    BY <1>3, <1>5
<1> HIDE DEF new
<1>. QED BY <1>1, <1>6, <1>7, <1>8

LEMMA WithoutCookies ==
    ASSUME NEW n \in Nat, NEW cookies, DOMAIN cookies \subseteq 0..n, NEW scopes
    PROVE  /\ DOMAIN Without(cookies, scopes) \subseteq 0..n
           /\ \A i \in DOMAIN Without(cookies, scopes) :
                 /\ i \in DOMAIN cookies
                 /\ Without(cookies, scopes)[i] = cookies[i]
                 /\ cookies[i].scope \notin scopes
BY DEF Without

-----------------------------------------------------------------------------

JarTypes ==
    /\ options \in OptionsSet
    /\ now \in Nat
    /\ \E n \in Nat : DOMAIN jar \subseteq 0..n

\* The cookie of an accepted login is the only one in its scope that is sent.
TheNewOne ==
    /\ DOMAIN Sent # {}
    /\ \A i \in DOMAIN Sent :
          Sent[i].scope = options.domain => Sent[i] = NewCookie(entered)

JustEntered ==
    entered # NoOne /\ left = NoOne =>
        /\ CookieEnabled
        /\ Locked \/ TheNewOne
        /\ place = "form" => ~SignedIn

Cleared ==
    left # NoOne /\ ~locked => \A i \in DOMAIN jar : jar[i].scope \notin {Unset, left}

JarInv == JarTypes /\ JustEntered /\ Cleared

LEMMA InitJar == Init => JarInv
<1>. SUFFICES ASSUME Init PROVE JarInv
    OBVIOUS
<1>1. DOMAIN jar = {} /\ 0 \in Nat
    BY DEF Init, NoCookies
<1>. QED BY <1>1 DEF Init, JarInv, JarTypes, JustEntered, Cleared

\* Steps that leave the cookies and the settings as they are, and forget the
\* login or judge the cookies once more.
LEMMA SameJar ==
    ASSUME JarInv, UNCHANGED <<settings, jar, logout>>,
           \/ entered' = NoOne
           \/ /\ entered' = entered /\ scheme' = scheme
              /\ place' = "form" => ~SignedIn \/ place = "form"
    PROVE  JarInv'
<1>1. /\ options' = options /\ now' = now /\ jar' = jar
      /\ left' = left /\ locked' = locked
    BY DEF settings, logout
<1>2. JarTypes' /\ Cleared'
    BY <1>1 DEF JarInv, JarTypes, Cleared
<1>3. CASE entered' = NoOne
    BY <1>2, <1>3 DEF JarInv, JustEntered
<1>4. CASE /\ entered' = entered /\ scheme' = scheme
           /\ place' = "form" => ~SignedIn \/ place = "form"
    <2>1. /\ ValidCookie' <=> ValidCookie
          /\ Locked' <=> Locked
          /\ Sent' = Sent
        BY <1>4, SameVerdict
    <2>2. (SignedIn' <=> SignedIn) /\ (CookieEnabled' <=> CookieEnabled)
        BY <1>1, <2>1 DEF SignedIn, Enabled, CookieEnabled
    <2>3. NewCookie(entered)' = NewCookie(entered)
        BY <1>1, <1>4 DEF NewCookie
    <2>4. TheNewOne' <=> TheNewOne
        BY <1>1, <2>1, <2>3 DEF TheNewOne
    <2>. QED BY <1>1, <1>2, <1>4, <2>1, <2>2, <2>4 DEF JarInv, JustEntered
<1>. QED BY <1>3, <1>4

LEMMA EnterJar ==
    ASSUME JarInv, IsNext(next), CookieEnabled, NEW user, Enter(user),
           UNCHANGED <<settings, scheme>>
    PROVE  JarInv'
<1>1. PICK n \in Nat : DOMAIN jar \subseteq 0..n
    BY DEF JarInv, JarTypes
<1>2. /\ jar' = IF Locked THEN jar ELSE Stored(jar, NewCookie(user))
      /\ entered' = user /\ left' = NoOne
    BY DEF Enter
<1>3. options' = options /\ now' = now /\ scheme' = scheme
    BY DEF settings
<1>4. place' # "form"
    <2>1. IsNext(<<"page">>) /\ Head(<<"page">>) = "page"
        BY OnePlace DEF Ends
    <2>2. IsNext(NextOr(<<"page">>)) /\ Head(NextOr(<<"page">>)) \notin {"none", "own"}
        BY <2>1, NextOrParts
    <2>3. SentTo(NextOr(<<"page">>))
        BY DEF Enter
    <2>. QED BY <2>2, <2>3, SentOn DEF Handlers
<1>5. CASE Locked
    <2>1. jar' = jar
        BY <1>2, <1>5
    <2>2. Locked'
        BY <1>3, <1>5, <2>1 DEF Locked
    <2>3. CookieEnabled'
        BY <1>3 DEF CookieEnabled
    <2>4. JarTypes'
        BY <1>3, <2>1 DEF JarInv, JarTypes
    <2>. QED BY <1>2, <1>4, <2>2, <2>3, <2>4 DEF JarInv, JustEntered, Cleared
<1>6. CASE ~Locked
    <2> DEFINE c == NewCookie(user)
    <2>1. /\ \E m \in Nat : DOMAIN jar' \subseteq 0..m
          /\ \E i \in DOMAIN jar' : jar'[i] = c
          /\ \A i \in DOMAIN jar' : jar'[i] = c \/ jar'[i].scope # c.scope
        BY <1>1, <1>2, <1>6, StoredCookies
    <2>2. /\ c.scope = options.domain /\ NewCookie(entered)' = c
          /\ c.secure => scheme = "https"
        BY <1>2, <1>3 DEF NewCookie
    <2> HIDE DEF c
    <2>3. DOMAIN Sent' \subseteq DOMAIN jar' /\ \A i \in DOMAIN Sent' : Sent'[i] = jar'[i]
        BY DEF Sent
    <2>4. DOMAIN Sent' # {}
        <3>1. PICK i \in DOMAIN jar' : jar'[i] = c
            BY <2>1
        <3>2. i \in DOMAIN Sent'
            BY <1>3, <2>2, <3>1 DEF Sent
        <3>. QED BY <3>2
    <2>5. TheNewOne'
        BY <1>3, <2>1, <2>2, <2>3, <2>4 DEF TheNewOne
    <2>6. JarTypes' /\ CookieEnabled'
        BY <1>3, <2>1 DEF JarInv, JarTypes, CookieEnabled
    <2>. QED BY <1>2, <1>4, <2>5, <2>6 DEF JarInv, JustEntered, Cleared
<1>. QED BY <1>5, <1>6

\* Cookies are removed, and no login is remembered without a logout after it.
LEMMA LessJar ==
    ASSUME JarInv, NEW scopes, jar' = Without(jar, scopes), now' = now,
           options' = options, entered' = NoOne \/ left' # NoOne,
           \/ left' = left /\ locked' = locked
           \/ {Unset, left'} \subseteq scopes
    PROVE  JarInv'
<1>1. PICK n \in Nat : DOMAIN jar \subseteq 0..n
    BY DEF JarInv, JarTypes
<1>2. /\ DOMAIN jar' \subseteq 0..n
      /\ \A i \in DOMAIN jar' : /\ i \in DOMAIN jar /\ jar'[i] = jar[i]
                                /\ jar[i].scope \notin scopes
    BY <1>1, WithoutCookies
<1>3. Cleared'
    BY <1>2 DEF JarInv, Cleared
<1>4. JustEntered'
    BY DEF JustEntered
<1>. QED BY <1>2, <1>3, <1>4 DEF JarInv, JarTypes

LEMMA LogoutJar == ASSUME JarInv, Logout PROVE JarInv'
<1>1. /\ options' = options /\ now' = now /\ left' = options.domain
      /\ left' # NoOne /\ (locked' <=> Locked)
    BY DomainAssumption DEF Logout, settings, JarInv, JarTypes
<1>2. CASE Locked
    <2>1. jar' = jar
        BY <1>2 DEF Logout
    <2>. QED BY <1>1, <1>2, <2>1 DEF JarInv, JarTypes, JustEntered, Cleared
<1>3. CASE ~Locked
    <2>1. jar' = Without(jar, ExpiredScopes) /\ {Unset, left'} \subseteq ExpiredScopes
        BY <1>1, <1>3 DEF Logout, ExpiredScopes
    <2>. QED BY <1>1, <2>1, LessJar
<1>. QED BY <1>2, <1>3

LEMMA NextJar == Settled /\ JarInv /\ [Next]_vars => JarInv'
<1>. SUFFICES ASSUME Settled, JarInv, [Next]_vars PROVE JarInv'
    OBVIOUS
<1>1. ASSUME NEW p, NEW n, NEW s, Visit(p, n, s) PROVE JarInv'
    <2>1. UNCHANGED <<settings, jar, logout>> /\ entered' = NoOne
        BY <1>1 DEF Visit, Afresh
    <2>. QED BY <2>1, SameJar
<1>2. CASE Check
    <2>1. /\ UNCHANGED <<settings, jar, logout>> /\ entered' = entered
          /\ scheme' = scheme /\ place' # "form"
        BY <1>2 DEF Check, To, history, Redirected
    <2>. QED BY <2>1, SameJar
<1>3. CASE LoginGet
    <2>1. /\ UNCHANGED <<settings, jar, logout>> /\ entered' = entered
          /\ scheme' = scheme
        BY <1>3 DEF LoginGet, history, Redirected
    <2>2. CASE SignedIn
        <3>1. IsNext(<<"page">>) /\ Head(<<"page">>) = "page"
            BY OnePlace DEF Ends
        <3>2. IsNext(NextOr(<<"page">>)) /\ Head(NextOr(<<"page">>)) \notin {"none", "own"}
            BY <3>1, NextOrParts DEF Settled
        <3>3. SentTo(NextOr(<<"page">>))
            BY <1>3, <2>2 DEF LoginGet
        <3>4. place' # "form"
            BY <3>2, <3>3, SentOn DEF Handlers
        <3>. QED BY <2>1, <3>4, SameJar
    <2>3. CASE ~SignedIn
        BY <2>1, <2>3, SameJar
    <2>. QED BY <2>2, <2>3
<1>4. ASSUME NEW user, NEW verified, LoginPost(user, verified) PROVE JarInv'
    <2>1. CASE Enabled /\ Enter(user)
        BY <1>4, <2>1, EnterJar DEF LoginPost, Enabled, Settled
    <2>2. CASE UNCHANGED <<jar, logout>> /\ Afresh
        BY <1>4, <2>2, SameJar DEF LoginPost, Afresh
    <2>. QED BY <1>4, <2>1, <2>2 DEF LoginPost
<1>5. ASSUME NEW token, TrustDevicePost(token) PROVE JarInv'
    <2>1. CASE DeviceTrustEnabled /\ Enter(DeviceUsername)
        BY <1>5, <2>1, EnterJar DEF TrustDevicePost, DeviceTrustEnabled, Settled
    <2>2. CASE UNCHANGED <<jar, place, next, history>>
        <3>1. UNCHANGED <<settings, jar, logout, entered, scheme, place>>
            BY <1>5, <2>2 DEF TrustDevicePost, history
        <3>. QED BY <3>1, SameJar
    <2>. QED BY <1>5, <2>1, <2>2 DEF TrustDevicePost
<1>6. CASE Logout
    BY <1>6, LogoutJar
<1>7. CASE Tick
    BY <1>7 DEF Tick, Afresh, browser, logout, JarInv, JarTypes, JustEntered, Cleared
<1>8. CASE Restart
    BY <1>8 DEF Restart, Meanwhile, Afresh, logout, JarInv, JarTypes, JustEntered, Cleared
<1>9. CASE Drop
    <2>1. PICK i \in DOMAIN jar : jar' = Without(jar, {jar[i].scope})
        BY <1>9 DEF Drop
    <2>2. /\ now' = now /\ left' = left /\ locked' = locked /\ entered' = NoOne
          /\ options' = options
        BY <1>9 DEF Drop, Meanwhile, Afresh, logout
    <2>. QED BY <2>1, <2>2, LessJar
<1>10. CASE UNCHANGED vars
    <2>1. UNCHANGED <<settings, jar, logout, entered, scheme, place>>
        BY <1>10 DEF vars, browser, history
    <2>. QED BY <2>1, SameJar
<1>. QED BY <1>1, <1>2, <1>3, <1>4, <1>5, <1>6, <1>7, <1>8, <1>9, <1>10 DEF Next

LEMMA JarAlways == Spec => []JarInv
BY InitSettled, NextSettled, InitJar, NextJar, PTL DEF Spec

\* The cookie that is sent first.
LEMMA FirstCookie ==
    ASSUME JarInv, DOMAIN Sent # {}
    PROVE  \E i \in DOMAIN Sent :
              i \in DOMAIN jar /\ First(Sent) = Sent[i] /\ Sent[i] = jar[i]
<1>1. PICK n \in Nat : DOMAIN jar \subseteq 0..n
    BY DEF JarInv, JarTypes
<1>2. DOMAIN Sent \subseteq DOMAIN jar /\ \A i \in DOMAIN Sent : Sent[i] = jar[i]
    BY DEF Sent
<1>3. DOMAIN Sent \subseteq 0..n
    BY <1>1, <1>2
<1>4. PICK i \in DOMAIN Sent : First(Sent) = Sent[i]
    BY <1>3, FirstIsOne
<1>. QED BY <1>2, <1>4

\* An accepted login does not end at the form, unless the name cannot be a
\* session's, its `next` leads elsewhere, the browser does not store what comes
\* over http, or an older cookie in another scope is sent before the new one.
THEOREM AcceptedLoginSticks == Spec => []LoginSticks
<1>1. JarInv => LoginSticks
    <2>. SUFFICES ASSUME JarInv, entered # NoOne, place = "form", left = NoOne,
                         Enabled, ~Locked,
                         ~(DOMAIN Sent # {} /\ First(Sent).scope # options.domain)
                  PROVE  entered \in BarUsers
        BY DEF LoginSticks
    <2>1. CookieEnabled /\ TheNewOne /\ ~ValidCookie
        BY DEF JarInv, JustEntered, SignedIn
    <2>2. DOMAIN Sent # {} /\ First(Sent).scope = options.domain
        BY <2>1 DEF TheNewOne
    <2>3. First(Sent) = NewCookie(entered)
        BY <2>1, <2>2, FirstCookie DEF TheNewOne
    <2>4. /\ First(Sent).secret = options.secret /\ First(Sent).user = entered
          /\ First(Sent).expires = now + SessionTTL
        BY <2>3 DEF NewCookie
    <2>5. now < now + SessionTTL
        BY TTLAssumption DEF JarInv, JarTypes
    <2>. QED BY <2>1, <2>2, <2>4, <2>5 DEF ValidCookie
<1>. QED BY <1>1, JarAlways, PTL

\* After a logout that could clear cookies, only one for another domain lets a
\* page through.
THEOREM LogoutClears == Spec => []LogoutHolds
<1>1. JarInv => LogoutHolds
    <2>. SUFFICES ASSUME JarInv, left # NoOne, ValidCookie, ~locked
                  PROVE  First(Sent).scope \notin {Unset, left}
        BY DEF LogoutHolds
    <2>1. \E i \in DOMAIN jar : First(Sent) = jar[i]
        BY FirstCookie DEF ValidCookie
    <2>. QED BY <2>1 DEF JarInv, Cleared
<1>. QED BY <1>1, JarAlways, PTL
=============================================================================
