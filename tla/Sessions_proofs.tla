-------------------------- MODULE Sessions_proofs --------------------------
(***************************************************************************)
(* Theorems about Sessions, for every number of tabs, sign-ins, login      *)
(* requests, accounts and nonces.                                          *)
(***************************************************************************)
EXTENDS Sessions, TLAPS

\* The rows of login, signIn and tab.
Logins  == [pc : LoginStep, signIn : SignIns \cup {None}, nonce : Nonces \cup {None}]
SignInRows == [pc : SignInStep, tab : Tabs \cup {None}, account : Accounts \cup {None},
               nonce : Nonces \cup {None}, mounted : BOOLEAN]
TabRows == [address : Accounts \cup {None}, open : BOOLEAN, step : {"intro", "nonce"}]

Inv == TypeOK /\ SessionInvariant

LEMMA Types ==
  TypeOK <=>
    /\ nonce \in [Nonces -> NonceState]
    /\ login \in [Requests -> Logins]
    /\ signIn \in [SignIns -> SignInRows]
    /\ tab \in [Tabs -> TabRows]
    /\ stored \in [account : Accounts \cup {None}, valid : BOOLEAN]
    /\ \A r \in Requests : login[r].pc # "idle" =>
         /\ login[r].nonce # None /\ nonce[login[r].nonce] # "free"
         /\ login[r].signIn # None /\ signIn[login[r].signIn].nonce = login[r].nonce
    /\ stored.valid => stored.account # None
BY DEF TypeOK, Logins, SignInRows, TabRows

\* The request of a row, once it is sent.
LEMMA Sent ==
  ASSUME Inv, NEW r \in Requests, login[r].pc # "idle"
  PROVE  /\ login[r].nonce \in Nonces /\ nonce[login[r].nonce] # "free"
         /\ login[r].signIn \in SignIns /\ signIn[login[r].signIn].nonce = login[r].nonce
         /\ signIn[login[r].signIn].pc \in {"login", "ended"}
<1>1. login[r] \in Logins
  BY Types DEF Inv
<1> QED
  BY <1>1 DEF Inv, TypeOK, SessionInvariant, RequestsAreSent, Logins

----------------------------------------------------------------------------
\* What the steps have in common.

\* A sign-in, or all of a tab, goes on without touching a nonce of its own or
\* a request; those that have sent requests stay where they are, or end.
LEMMA SignInsMove ==
  ASSUME Inv, UNCHANGED login, nonce' \in [Nonces -> NonceState],
         \A n \in Nonces : nonce[n] # "free" => nonce'[n] # "free",
         \A n \in Nonces : nonce[n] = "gone" => nonce'[n] = "gone",
         signIn' \in [SignIns -> SignInRows],
         \A s \in SignIns : signIn[s].pc \in {"login", "ended"} =>
           signIn'[s].nonce = signIn[s].nonce /\ signIn'[s].pc \in {"login", "ended"},
         tab' \in [Tabs -> TabRows],
         stored' \in [account : Accounts \cup {None}, valid : BOOLEAN],
         stored'.valid => stored'.account # None,
         SignInsArePrepared'
  PROVE  Inv'
<1>1. ASSUME NEW r \in Requests, login[r].pc # "idle"
      PROVE  /\ login[r].nonce # None /\ nonce'[login[r].nonce] # "free"
             /\ login[r].signIn # None /\ signIn'[login[r].signIn].nonce = login[r].nonce
             /\ signIn'[login[r].signIn].pc \in {"login", "ended"}
  BY <1>1, Sent, NoneAssumption
<1>2. TypeOK'
  BY <1>1, Types DEF Inv, TypeOK, Logins, SignInRows, TabRows
<1>3. RequestsAreSent'
  BY <1>1 DEF RequestsAreSent
<1>4. UsedNoncesAreGone'
  BY Sent DEF Inv, SessionInvariant, UsedNoncesAreGone, HasLoggedIn
<1>5. NonceLogsInOnce'
  BY DEF Inv, SessionInvariant, NonceLogsInOnce, HasLoggedIn
<1> QED
  BY <1>2, <1>3, <1>4, <1>5 DEF Inv, SessionInvariant

\* The server goes on with a request; none logs in whose nonce is not gone by
\* then, or was gone before.
LEMMA LoginMoves ==
  ASSUME Inv, UNCHANGED <<signIn, tab, stored>>, nonce' \in [Nonces -> NonceState],
         \A n \in Nonces : nonce[n] # "free" => nonce'[n] # "free",
         \A n \in Nonces : nonce[n] = "gone" => nonce'[n] = "gone",
         NEW r \in Requests, login[r].pc # "idle", NEW pc \in LoginStep \ {"idle"}, Serves(r, pc),
         pc \in {"token", "done"} =>
           \/ HasLoggedIn(r)
           \/ nonce[login[r].nonce] # "gone" /\ nonce'[login[r].nonce] = "gone"
  PROVE  Inv'
<1>1. /\ login' \in [Requests -> Logins]
      /\ \A q \in Requests : /\ login'[q].nonce = login[q].nonce
                             /\ login'[q].signIn = login[q].signIn
                             /\ login'[q].pc = IF q = r THEN pc ELSE login[q].pc
  BY Types DEF Inv, Serves, Logins
<1>2. \A q \in Requests : login'[q].pc # "idle" <=> login[q].pc # "idle"
  BY <1>1
<1>3. TypeOK'
  BY <1>1, <1>2, Sent, Types DEF Inv, TypeOK, Logins, SignInRows, TabRows
<1>4. SignInsArePrepared'
  BY Types DEF Inv, SessionInvariant, SignInsArePrepared, SignInRows
<1>5. RequestsAreSent'
  BY <1>1, <1>2 DEF Inv, SessionInvariant, RequestsAreSent
<1>6. UsedNoncesAreGone'
  <2> SUFFICES ASSUME NEW q \in Requests, HasLoggedIn(q)' PROVE nonce'[login[q].nonce] = "gone"
    BY <1>1 DEF UsedNoncesAreGone
  <2>1. login[q].pc # "idle" /\ login[q].nonce \in Nonces
    BY <1>2, Sent DEF HasLoggedIn
  <2>2. HasLoggedIn(q) => nonce[login[q].nonce] = "gone"
    BY DEF Inv, SessionInvariant, UsedNoncesAreGone
  <2> QED
    BY <1>1, <2>1, <2>2 DEF HasLoggedIn
<1>7. NonceLogsInOnce'
  <2> SUFFICES ASSUME NEW p \in Requests, NEW q \in Requests, HasLoggedIn(p)', HasLoggedIn(q)',
                      login[p].nonce = login[q].nonce
               PROVE  p = q
    BY <1>1 DEF NonceLogsInOnce
  <2>1. HasLoggedIn(p) /\ HasLoggedIn(q) => p = q
    BY DEF Inv, SessionInvariant, NonceLogsInOnce
  <2>2. \A x \in Requests : HasLoggedIn(x) => nonce[login[x].nonce] = "gone"
    BY DEF Inv, SessionInvariant, UsedNoncesAreGone
  <2> QED
    BY <1>1, <2>1, <2>2 DEF HasLoggedIn
<1> QED
  BY <1>3, <1>4, <1>5, <1>6, <1>7 DEF Inv, SessionInvariant

\* A request of a sign-in whose message is signed reaches the server.
LEMMA RequestArrives ==
  ASSUME Inv, UNCHANGED <<nonce, tab, stored>>, NEW r \in Requests, NEW s \in SignIns,
         Arrives(r, s), signIn[s].pc \in {"sign", "login"}, signIn' \in [SignIns -> SignInRows],
         \A x \in SignIns : /\ signIn'[x].nonce = signIn[x].nonce
                            /\ signIn'[x].account = signIn[x].account
                            /\ signIn'[x].pc = IF x = s THEN "login" ELSE signIn[x].pc
  PROVE  Inv'
<1>1. signIn[s].nonce \in Nonces /\ signIn[s].nonce # None /\ nonce[signIn[s].nonce] # "free"
  BY Types DEF Inv, SessionInvariant, SignInsArePrepared, SignInRows
<1>2. /\ login' \in [Requests -> Logins]
      /\ login'[r].pc = "find" /\ login'[r].signIn = s /\ login'[r].nonce = signIn[s].nonce
      /\ \A q \in Requests \ {r} : login'[q] = login[q]
  BY <1>1, Types DEF Inv, Arrives, Logins, LoginStep
<1>3. ASSUME NEW q \in Requests, login'[q].pc # "idle"
      PROVE  /\ login'[q].nonce # None /\ nonce[login'[q].nonce] # "free"
             /\ login'[q].signIn # None /\ signIn'[login'[q].signIn].nonce = login'[q].nonce
             /\ signIn'[login'[q].signIn].pc \in {"login", "ended"}
  BY <1>1, <1>2, <1>3, Sent, NoneAssumption
<1>4. TypeOK'
  BY <1>2, <1>3, Types DEF Inv, TypeOK, Logins, SignInRows, TabRows
<1>5. SignInsArePrepared'
  BY <1>1 DEF Inv, SessionInvariant, SignInsArePrepared
<1>6. RequestsAreSent'
  BY <1>3 DEF RequestsAreSent
<1>7. UsedNoncesAreGone' /\ NonceLogsInOnce'
  BY <1>2 DEF Inv, SessionInvariant, UsedNoncesAreGone, NonceLogsInOnce, HasLoggedIn
<1> QED
  BY <1>4, <1>5, <1>6, <1>7 DEF Inv, SessionInvariant

\* One sign-in goes on, keeping its nonce once it has sent requests.
LEMMA OneSignInMoves ==
  ASSUME Inv, UNCHANGED <<nonce, login>>, NEW s \in SignIns, NEW row \in SignInRows,
         signIn' = [signIn EXCEPT ![s] = row],
         signIn[s].pc \in {"login", "ended"} =>
           row.nonce = signIn[s].nonce /\ row.pc \in {"login", "ended"},
         row.pc \in {"deleteExpired", "createNonce", "sign", "login"} => row.account # None,
         row.pc \in {"sign", "login"} => row.nonce # None /\ nonce[row.nonce] # "free",
         tab' \in [Tabs -> TabRows],
         stored' \in [account : Accounts \cup {None}, valid : BOOLEAN],
         stored'.valid => stored'.account # None
  PROVE  Inv'
<1>1. /\ signIn' \in [SignIns -> SignInRows]
      /\ \A x \in SignIns : signIn'[x] = IF x = s THEN row ELSE signIn[x]
  BY Types DEF Inv
<1>2. \A x \in SignIns : signIn[x].pc \in {"login", "ended"} =>
        signIn'[x].nonce = signIn[x].nonce /\ signIn'[x].pc \in {"login", "ended"}
  BY <1>1
<1>3. SignInsArePrepared'
  BY <1>1 DEF Inv, SessionInvariant, SignInsArePrepared
<1>4. nonce' \in [Nonces -> NonceState]
  BY Types DEF Inv
<1> QED
  BY <1>1, <1>2, <1>3, <1>4, SignInsMove

\* A step of the dialog or the browser that touches no sign-in.
LEMMA SignInsUntouched ==
  ASSUME Inv, UNCHANGED <<nonce, login, signIn>>, tab' \in [Tabs -> TabRows],
         stored' \in [account : Accounts \cup {None}, valid : BOOLEAN],
         stored'.valid => stored'.account # None
  PROVE  Inv'
<1>1. SignInsArePrepared'
  BY DEF Inv, SessionInvariant, SignInsArePrepared
<1>2. nonce' \in [Nonces -> NonceState] /\ signIn' \in [SignIns -> SignInRows]
  BY Types DEF Inv
<1> QED
  BY <1>1, <1>2, SignInsMove

\* The handlers of AuthService.login.
LEMMA HandleStep ==
  ASSUME Inv, NEW r \in Requests, Handle(r)
  PROVE  Inv'
<1>0. nonce \in [Nonces -> NonceState]
  BY Types DEF Inv
<1>1. CASE FindNonce(r)
  BY <1>0, <1>1, LoginMoves DEF FindNonce, LoginStep
<1>2. ASSUME NEW valid \in BOOLEAN, VerifySignature(r, valid) PROVE Inv'
  BY <1>0, <1>2, LoginMoves DEF VerifySignature, LoginStep
<1>3. CASE DeleteNonce(r)
  <2>1. login[r].pc = "delete" /\ UNCHANGED <<signIn, tab, stored>>
    BY <1>3 DEF DeleteNonce
  <2>2. login[r].nonce \in Nonces
    BY <2>1, Sent
  <2>3. CASE NonceDeleted(r) /\ nonce' = [nonce EXCEPT ![login[r].nonce] = "gone"] /\ Serves(r, "token")
    <3>1. /\ nonce' \in [Nonces -> NonceState]
          /\ \A n \in Nonces : nonce'[n] = IF n = login[r].nonce THEN "gone" ELSE nonce[n]
      BY <1>0, <2>3 DEF NonceState
    <3> QED
      BY <2>1, <2>2, <2>3, <3>1, LoginMoves DEF NonceDeleted, LoginStep
  <2>4. CASE Serves(r, "refused") /\ UNCHANGED nonce
    BY <1>0, <2>1, <2>4, LoginMoves DEF LoginStep
  <2> QED
    BY <1>3, <2>3, <2>4 DEF DeleteNonce
<1>4. CASE IssueToken(r)
  BY <1>0, <1>4, LoginMoves DEF IssueToken, LoginStep, HasLoggedIn
<1>5. CASE LoginFails(r)
  BY <1>0, <1>5, LoginMoves DEF LoginFails, LoginStep
<1> QED
  BY <1>1, <1>2, <1>3, <1>4, <1>5 DEF Handle

LEMMA ProceedsStep ==
  ASSUME Inv, NEW s \in SignIns, Proceeds(s) \/ \E r \in Requests : Duplicated(s, r)
  PROVE  Inv'
<1>0. /\ nonce \in [Nonces -> NonceState] /\ tab \in [Tabs -> TabRows]
      /\ signIn \in [SignIns -> SignInRows] /\ signIn[s] \in SignInRows
      /\ stored \in [account : Accounts \cup {None}, valid : BOOLEAN]
      /\ stored.valid => stored.account # None
      /\ SignInsArePrepared
  BY Types DEF Inv, SessionInvariant
<1>1. ASSUME NEW a \in Accounts, Connected(s, a) PROVE Inv'
  <2> DEFINE row == [signIn[s] EXCEPT !.pc = "deleteExpired", !.account = a]
  <2>1. row \in SignInRows /\ row.pc = "deleteExpired" /\ row.account # None
    BY <1>0, NoneAssumption DEF SignInRows, SignInStep
  <2>2. signIn' = [signIn EXCEPT ![s] = row]
    BY <1>1 DEF Connected
  <2>3. signIn[s].pc = "connect" /\ UNCHANGED <<nonce, login, tab, stored>>
    BY <1>1 DEF Connected
  <2> HIDE DEF row
  <2> QED
    BY <1>0, <2>1, <2>2, <2>3, OneSignInMoves
<1>2. CASE DeleteExpired(s)
  <2>1. /\ nonce' \in [Nonces -> NonceState]
        /\ \A n \in Nonces : nonce'[n] = IF nonce[n] = "expired" THEN "gone" ELSE nonce[n]
    BY <1>0, <1>2 DEF DeleteExpired, NonceState
  <2>2. /\ signIn' \in [SignIns -> SignInRows]
        /\ \A x \in SignIns : /\ signIn'[x].nonce = signIn[x].nonce
                              /\ signIn'[x].account = signIn[x].account
                              /\ signIn'[x].pc = IF x = s THEN "createNonce" ELSE signIn[x].pc
    BY <1>0, <1>2 DEF DeleteExpired, Goes, SignInRows, SignInStep
  <2>3. SignInsArePrepared'
    BY <1>0, <1>2, <2>1, <2>2 DEF SignInsArePrepared, SignInRows, DeleteExpired
  <2> QED
    BY <1>0, <1>2, <2>1, <2>2, <2>3, SignInsMove DEF DeleteExpired
<1>3. ASSUME NEW n \in Nonces, CreateNonce(s, n) PROVE Inv'
  <2>1. /\ nonce' \in [Nonces -> NonceState]
        /\ \A x \in Nonces : nonce'[x] = IF x = n THEN "live" ELSE nonce[x]
    BY <1>0, <1>3 DEF CreateNonce, NonceState
  <2>2. /\ signIn' \in [SignIns -> SignInRows]
        /\ \A x \in SignIns \ {s} : signIn'[x] = signIn[x]
        /\ signIn'[s].pc = "sign" /\ signIn'[s].nonce = n /\ signIn'[s].account = signIn[s].account
    BY <1>0, <1>3 DEF CreateNonce, SignInRows, SignInStep
  <2>3. SignInsArePrepared'
    BY <1>0, <1>3, <2>1, <2>2, NoneAssumption DEF SignInsArePrepared, SignInRows, CreateNonce
  <2> QED
    BY <1>0, <1>3, <2>1, <2>2, <2>3, SignInsMove DEF CreateNonce
<1>4. ASSUME NEW r \in Requests, Signed(s, r) PROVE Inv'
  <2>1. /\ signIn' \in [SignIns -> SignInRows]
        /\ \A x \in SignIns : /\ signIn'[x].nonce = signIn[x].nonce
                              /\ signIn'[x].account = signIn[x].account
                              /\ signIn'[x].pc = IF x = s THEN "login" ELSE signIn[x].pc
    BY <1>0, <1>4 DEF Signed, Goes, SignInRows, SignInStep
  <2> QED
    BY <1>4, <2>1, RequestArrives DEF Signed
<1>5. ASSUME NEW r \in Requests, Duplicated(s, r) PROVE Inv'
  BY <1>0, <1>5, RequestArrives DEF Duplicated
<1>6. CASE SignedIn(s) \/ SignInFails(s)
  <2> DEFINE row == [signIn[s] EXCEPT !.pc = "ended"]
  <2>1. row \in SignInRows /\ row.pc = "ended" /\ row.nonce = signIn[s].nonce
    BY <1>0 DEF SignInRows, SignInStep
  <2>2. signIn' = [signIn EXCEPT ![s] = row] /\ UNCHANGED <<nonce, login>>
    BY <1>6 DEF SignedIn, SignInFails, Goes
  <2>3. /\ tab' \in [Tabs -> TabRows]
        /\ stored' \in [account : Accounts \cup {None}, valid : BOOLEAN]
        /\ stored'.valid => stored'.account # None
    <3>1. CASE SignInFails(s)
      BY <1>0, <3>1 DEF SignInFails
    <3>2. CASE SignedIn(s)
      <4>1. signIn[s].account \in Accounts
        BY <1>0, <3>2 DEF SignedIn, Answered, SignInsArePrepared, SignInRows
      <4> DEFINE step(t) == IF signIn[s].mounted THEN "intro" ELSE tab[t].step
      <4>2. \A t \in Tabs : step(t) \in {"intro", "nonce"}
        BY <1>0 DEF TabRows
      <4>3. tab' = [tab EXCEPT ![signIn[s].tab].address = signIn[s].account,
                               ![signIn[s].tab].open = FALSE,
                               ![signIn[s].tab].step = IF signIn[s].mounted THEN "intro" ELSE @]
        BY <3>2 DEF SignedIn
      <4>4. ASSUME NEW t \in Tabs PROVE tab'[t] \in TabRows
        <5>1. CASE t # signIn[s].tab
          BY <1>0, <4>3, <5>1
        <5>2. CASE t = signIn[s].tab
          <6>1. tab[t] \in TabRows
            BY <1>0
          <6>2. tab'[t] = [address |-> signIn[s].account, open |-> FALSE, step |-> step(t)]
            BY <1>0, <4>3, <5>2, <6>1 DEF TabRows
          <6> HIDE DEF step
          <6> QED
            BY <4>1, <4>2, <6>2 DEF TabRows
        <5> QED
          BY <5>1, <5>2
      <4>5. tab' \in [Tabs -> TabRows]
        BY <1>0, <4>3, <4>4
      <4> QED
        BY <3>2, <4>1, <4>5, NoneAssumption DEF SignedIn
    <3> QED
      BY <1>6, <3>1, <3>2
  <2> HIDE DEF row
  <2> QED
    BY <2>1, <2>2, <2>3, OneSignInMoves
<1> QED
  BY <1>1, <1>2, <1>3, <1>4, <1>5, <1>6 DEF Proceeds

LEMMA InvStep ==
  ASSUME Inv, [Next]_vars
  PROVE  Inv'
<1>0. /\ nonce \in [Nonces -> NonceState] /\ tab \in [Tabs -> TabRows]
      /\ signIn \in [SignIns -> SignInRows]
      /\ stored \in [account : Accounts \cup {None}, valid : BOOLEAN]
      /\ stored.valid => stored.account # None
      /\ SignInsArePrepared
  BY Types DEF Inv, SessionInvariant
<1>1. ASSUME NEW t \in Tabs, Open(t) \/ Close(t) PROVE Inv'
  <2>1. tab' = [tab EXCEPT ![t].open = TRUE] \/ tab' = [tab EXCEPT ![t].open = FALSE]
    BY <1>1 DEF Open, Close
  <2>2. tab' \in [Tabs -> TabRows]
    <3>1. CASE tab' = [tab EXCEPT ![t].open = TRUE]
      BY <1>0, <3>1 DEF TabRows
    <3>2. CASE tab' = [tab EXCEPT ![t].open = FALSE]
      BY <1>0, <3>2 DEF TabRows
    <3> QED
      BY <2>1, <3>1, <3>2
  <2> QED
    BY <1>0, <1>1, <2>2, SignInsUntouched DEF Open, Close
<1>2. ASSUME NEW t \in Tabs, Disconnect(t) PROVE Inv'
  <2>1. tab' \in [Tabs -> TabRows]
    BY <1>0, <1>2 DEF Disconnect, TabRows
  <2> QED
    BY <1>2, <2>1, SignInsUntouched DEF Disconnect, SignedOut
<1>3. CASE TokenExpires
  BY <1>0, <1>3, SignInsUntouched DEF TokenExpires
<1>4. ASSUME NEW t \in Tabs, Navigate(t) PROVE Inv'
  <2>1. tab' \in [Tabs -> TabRows]
    BY <1>0, <1>4 DEF Navigate, TabRows
  <2>2. /\ signIn' \in [SignIns -> SignInRows]
        /\ \A x \in SignIns : /\ signIn'[x].nonce = signIn[x].nonce
                              /\ signIn'[x].account = signIn[x].account
                              /\ signIn'[x].pc = signIn[x].pc
    BY <1>0, <1>4 DEF Navigate, SignInRows
  <2>3. SignInsArePrepared'
    BY <1>0, <1>4, <2>2 DEF SignInsArePrepared, Navigate
  <2> QED
    BY <1>0, <1>4, <2>1, <2>2, <2>3, SignInsMove DEF Navigate
<1>5. ASSUME NEW t \in Tabs, Reload(t) PROVE Inv'
  <2>1. tab' \in [Tabs -> TabRows]
    BY <1>0, <1>5 DEF Reload, TabRows
  <2>2. /\ signIn' \in [SignIns -> SignInRows]
        /\ \A x \in SignIns : /\ signIn'[x].nonce = signIn[x].nonce
                              /\ signIn'[x].account = signIn[x].account
                              /\ signIn'[x].pc = signIn[x].pc \/ signIn'[x].pc = "ended"
    <3>1. \A row \in SignInRows :
            LET ended == [row EXCEPT !.pc = "ended", !.mounted = FALSE] IN
            /\ ended \in SignInRows /\ ended.pc = "ended"
            /\ ended.nonce = row.nonce /\ ended.account = row.account
      BY DEF SignInRows, SignInStep
    <3>2. signIn' = [x \in SignIns |->
            IF signIn[x].tab = t THEN [signIn[x] EXCEPT !.pc = "ended", !.mounted = FALSE]
            ELSE signIn[x]]
      BY <1>5 DEF Reload
    <3> QED
      BY <1>0, <3>1, <3>2
  <2>3. UNCHANGED <<nonce, login, stored>>
    BY <1>5 DEF Reload
  <2>4. SignInsArePrepared'
    BY <1>0, <2>2, <2>3 DEF SignInsArePrepared
  <2>5. \A x \in SignIns : signIn[x].pc \in {"login", "ended"} =>
          signIn'[x].nonce = signIn[x].nonce /\ signIn'[x].pc \in {"login", "ended"}
    BY <2>2
  <2> QED
    BY <1>0, <2>1, <2>2, <2>3, <2>4, <2>5, SignInsMove
<1>6. ASSUME NEW s \in SignIns, NEW t \in Tabs, Begin(s, t) PROVE Inv'
  <2> DEFINE row == [signIn[s] EXCEPT !.pc = "connect", !.tab = t, !.mounted = TRUE]
  <2>1. row \in SignInRows /\ row.pc = "connect"
    BY <1>0 DEF SignInRows, SignInStep
  <2>2. tab' \in [Tabs -> TabRows]
    BY <1>0, <1>6 DEF Begin, TabRows
  <2>3. signIn' = [signIn EXCEPT ![s] = row] /\ UNCHANGED <<nonce, login, stored>>
        /\ signIn[s].pc = "idle"
    BY <1>6 DEF Begin
  <2> HIDE DEF row
  <2> QED
    BY <1>0, <2>1, <2>2, <2>3, OneSignInMoves
<1>7. ASSUME NEW s \in SignIns, Proceeds(s) \/ \E r \in Requests : Duplicated(s, r) PROVE Inv'
  BY <1>7, ProceedsStep
<1>8. ASSUME NEW r \in Requests, Handle(r) PROVE Inv'
  BY <1>8, HandleStep
<1>9. ASSUME NEW n \in Nonces, Expire(n) PROVE Inv'
  <2>1. /\ nonce' \in [Nonces -> NonceState]
        /\ \A x \in Nonces : nonce'[x] = IF x = n THEN "expired" ELSE nonce[x]
    BY <1>0, <1>9 DEF Expire, NonceState
  <2>2. SignInsArePrepared'
    BY <1>0, <1>9, <2>1 DEF SignInsArePrepared, Expire, SignInRows
  <2> QED
    BY <1>0, <1>9, <2>1, <2>2, SignInsMove DEF Expire
<1>10. CASE UNCHANGED vars
  BY <1>0, <1>10, SignInsUntouched DEF vars
<1> QED
  BY <1>1, <1>2, <1>3, <1>4, <1>5, <1>6, <1>7, <1>8, <1>9, <1>10 DEF Next

LEMMA SessionsCorrect == Spec => []Inv
<1>1. Init => Inv
  BY DEF Init, Inv, TypeOK, NonceState, LoginStep, SignInStep, SessionInvariant,
     SignInsArePrepared, RequestsAreSent, UsedNoncesAreGone, NonceLogsInOnce, HasLoggedIn
<1> QED
  BY <1>1, InvStep, PTL DEF Spec

\* Every variable keeps its type, a request carries the nonce of its sign-in,
\* and a stored token is somebody's.
THEOREM TypeCorrect == Spec => []TypeOK
<1>1. Inv => TypeOK
  BY DEF Inv
<1> QED
  BY <1>1, SessionsCorrect, PTL

\* However many requests carry a nonce, and whoever deletes expired rows in
\* between, one at most logs in with it.
THEOREM NonceCorrect == Spec => []NonceLogsInOnce
<1>1. Inv => NonceLogsInOnce
  BY DEF Inv, SessionInvariant
<1> QED
  BY <1>1, SessionsCorrect, PTL
=============================================================================
