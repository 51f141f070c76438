------------------------------ MODULE Sessions ------------------------------
(***************************************************************************)
(* Signing in with Ethereum: AuthService (issueNonce, login) over the      *)
(* AuthNonce table, and the web client's connect dialog, wallet and stored *)
(* session, in several tabs of one browser.                                *)
(*                                                                         *)
(* A sign-in is one call of the dialog's requestNonce.  Its login request  *)
(* may be delivered more than once, and the handlers of all requests       *)
(* interleave at their awaits.  A nonce is an id; that ids are random is   *)
(* that no id is issued twice.  A message carries the domain and chain the *)
(* server sent with the nonce, so those two checks pass.                   *)
(***************************************************************************)
EXTENDS Naturals

CONSTANTS
  Tabs,
  SignIns,        \* calls of requestNonce; bounds their number
  Requests,       \* login requests, duplicates included; bounds their number
  Accounts,
  Nonces,         \* ids of AuthNonce rows; bounds the rows ever made
  None            \* null

ASSUME NoneAssumption == None \notin Tabs \cup SignIns \cup Accounts \cup Nonces

VARIABLES
  nonce,    \* the AuthNonce rows
  login,    \* where the server stands with each login request
  signIn,   \* where each requestNonce stands
  tab,      \* React state of each tab: the address shown, and the dialog
  stored    \* localStorage: fanpulse_wallet and fanpulse_token

vars == <<nonce, login, signIn, tab, stored>>

----------------------------------------------------------------------------
NonceState  == {"free", "live", "expired", "gone"}
LoginStep   == {"idle", "find", "verify", "delete", "token", "done", "refused"}
SignInStep  == {"idle", "connect", "deleteExpired", "createNonce", "sign", "login", "ended"}

TypeOK ==
  /\ nonce \in [Nonces -> NonceState]
  /\ login \in [Requests -> [pc : LoginStep, signIn : SignIns \cup {None},
                             nonce : Nonces \cup {None}]]
  /\ signIn \in [SignIns -> [pc : SignInStep, tab : Tabs \cup {None},
                             account : Accounts \cup {None},
                             nonce : Nonces \cup {None}, mounted : BOOLEAN]]
  /\ tab \in [Tabs -> [address : Accounts \cup {None}, open : BOOLEAN,
                       step : {"intro", "nonce"}]]
  /\ stored \in [account : Accounts \cup {None}, valid : BOOLEAN]
  /\ \A r \in Requests : login[r].pc # "idle" =>
       /\ login[r].nonce # None /\ nonce[login[r].nonce] # "free"
       /\ login[r].signIn # None /\ signIn[login[r].signIn].nonce = login[r].nonce
  /\ stored.valid => stored.account # None

Init ==
  /\ nonce = [n \in Nonces |-> "free"]
  /\ login = [r \in Requests |-> [pc |-> "idle", signIn |-> None, nonce |-> None]]
  /\ signIn = [s \in SignIns |-> [pc |-> "idle", tab |-> None, account |-> None,
                                  nonce |-> None, mounted |-> FALSE]]
  /\ tab = [t \in Tabs |-> [address |-> None, open |-> FALSE, step |-> "intro"]]
  /\ stored = [account |-> None, valid |-> FALSE]

Goes(s, pc) == signIn' = [signIn EXCEPT ![s].pc = pc]

Serves(r, pc) == login' = [login EXCEPT ![r].pc = pc]

----------------------------------------------------------------------------
\* The connect dialog.

\* openConnect: nobody is signed in, or a request was answered 401.
Open(t) ==
  /\ ~tab[t].open
  /\ tab[t].address = None \/ ~stored.valid
  /\ tab' = [tab EXCEPT ![t].open = TRUE]
  /\ UNCHANGED <<nonce, login, signIn, stored>>

\* The dialog renders nothing, but keeps its step; a sign-in goes on.
Close(t) ==
  /\ tab[t].open
  /\ tab' = [tab EXCEPT ![t].open = FALSE]
  /\ UNCHANGED <<nonce, login, signIn, stored>>

\* The button is shown in the first step only.
Begin(s, t) ==
  /\ signIn[s].pc = "idle"
  /\ tab[t].open /\ tab[t].step = "intro"
  /\ signIn' = [signIn EXCEPT ![s].pc = "connect", ![s].tab = t, ![s].mounted = TRUE]
  /\ tab' = [tab EXCEPT ![t].step = "nonce"]
  /\ UNCHANGED <<nonce, login, stored>>

\* connectToSomnia, with the account its user chooses.
Connected(s, a) ==
  /\ signIn[s].pc = "connect"
  /\ signIn' = [signIn EXCEPT ![s].pc = "deleteExpired", ![s].account = a]
  /\ UNCHANGED <<nonce, login, tab, stored>>

\* issueNonce: deleteMany of what has expired.
DeleteExpired(s) ==
  /\ signIn[s].pc = "deleteExpired"
  /\ nonce' = [n \in Nonces |-> IF nonce[n] = "expired" THEN "gone" ELSE nonce[n]]
  /\ Goes(s, "createNonce")
  /\ UNCHANGED <<login, tab, stored>>

\* issueNonce: generateNonce and create.
CreateNonce(s, n) ==
  /\ signIn[s].pc = "createNonce"
  /\ nonce[n] = "free"
  /\ nonce' = [nonce EXCEPT ![n] = "live"]
  /\ signIn' = [signIn EXCEPT ![s].pc = "sign", ![s].nonce = n]
  /\ UNCHANGED <<login, tab, stored>>

\* A login request of s reaches the server.
Arrives(r, s) ==
  /\ login[r].pc = "idle"
  /\ login' = [login EXCEPT ![r] = [pc |-> "find", signIn |-> s, nonce |-> signIn[s].nonce]]

\* personal_sign was answered.
Signed(s, r) ==
  /\ signIn[s].pc = "sign"
  /\ Arrives(r, s)
  /\ Goes(s, "login")
  /\ UNCHANGED <<nonce, tab, stored>>

\* The same request once more.
Duplicated(s, r) ==
  /\ signIn[s].pc = "login"
  /\ Arrives(r, s)
  /\ UNCHANGED <<nonce, signIn, tab, stored>>

Answered(s, pc) ==
  /\ signIn[s].pc = "login"
  /\ \E r \in Requests : login[r].signIn = s /\ login[r].pc = pc

\* setSession, onClose, setStep('intro').
SignedIn(s) ==
  LET t == signIn[s].tab IN
  /\ Answered(s, "done")
  /\ Goes(s, "ended")
  /\ stored' = [account |-> signIn[s].account, valid |-> TRUE]
  /\ tab' = [tab EXCEPT ![t].address = signIn[s].account, ![t].open = FALSE,
                        ![t].step = IF signIn[s].mounted THEN "intro" ELSE @]
  /\ UNCHANGED <<nonce, login>>

\* A plausible slip: only the wallet's refusals are caught.
Fails_WalletOnly(s) == signIn[s].pc \in {"connect", "sign"}

\* The wallet refuses, the request for a nonce is not answered, or the login
\* is refused, or its answer lost.
Fails(s) ==
  \/ signIn[s].pc \in {"connect", "deleteExpired", "createNonce", "sign"}
  \/ Answered(s, "refused") \/ Answered(s, "done")

\* The catch block shows the error; the dialog stays in its second step,
\* which has no button to sign in again, until it is mounted anew.
SignInFails(s) ==
  /\ Fails(s)
  /\ Goes(s, "ended")
  /\ UNCHANGED <<nonce, login, tab, stored>>

\* Another page: AppShell, and the dialog in it, are mounted anew.
Navigate(t) ==
  /\ tab[t].step = "nonce"
  /\ tab' = [tab EXCEPT ![t].step = "intro"]
  /\ signIn' = [s \in SignIns |->
       IF signIn[s].tab = t THEN [signIn[s] EXCEPT !.mounted = FALSE] ELSE signIn[s]]
  /\ UNCHANGED <<nonce, login, stored>>

\* The page is loaded again: the address is what is stored.
Reload(t) ==
  /\ tab' = [tab EXCEPT ![t] = [address |-> stored.account, open |-> FALSE, step |-> "intro"]]
  /\ signIn' = [s \in SignIns |->
       IF signIn[s].tab = t THEN [signIn[s] EXCEPT !.pc = "ended", !.mounted = FALSE]
       ELSE signIn[s]]
  /\ tab'[t] # tab[t] \/ signIn' # signIn
  /\ UNCHANGED <<nonce, login, stored>>

\* A plausible slip: fanpulse_token stays in localStorage.
SignedOut_WalletOnly == [account |-> None, valid |-> stored.valid]

\* Both keys are removed.
SignedOut == [account |-> None, valid |-> FALSE]

Disconnect(t) ==
  /\ tab[t].address # None
  /\ stored' = SignedOut
  /\ tab' = [tab EXCEPT ![t].address = None]
  /\ UNCHANGED <<nonce, login, signIn>>

----------------------------------------------------------------------------
\* AuthService.login

\* findUnique, and the test of expiresAt.
FindNonce(r) ==
  /\ login[r].pc = "find"
  /\ Serves(r, IF nonce[login[r].nonce] = "live" THEN "verify" ELSE "refused")
  /\ UNCHANGED <<nonce, signIn, tab, stored>>

\* verifyMessage
VerifySignature(r, valid) ==
  /\ login[r].pc = "verify"
  /\ Serves(r, IF valid THEN "delete" ELSE "refused")
  /\ UNCHANGED <<nonce, signIn, tab, stored>>

\* A plausible slip: deleteMany, which does not mind that there is no row.
NonceDeleted_Many(r) == TRUE

\* authNonce.delete throws when there is no row any more.
NonceDeleted(r) == nonce[login[r].nonce] # "gone"

DeleteNonce(r) ==
  /\ login[r].pc = "delete"
  /\ \/ /\ NonceDeleted(r)
        /\ nonce' = [nonce EXCEPT ![login[r].nonce] = "gone"]
        /\ Serves(r, "token")
     \/ /\ ~NonceDeleted(r)
        /\ Serves(r, "refused")
        /\ UNCHANGED nonce
  /\ UNCHANGED <<signIn, tab, stored>>

\* user.upsert and signAsync.
IssueToken(r) ==
  /\ login[r].pc = "token"
  /\ Serves(r, "done")
  /\ UNCHANGED <<nonce, signIn, tab, stored>>

\* The database, or the connection to it, fails.
LoginFails(r) ==
  /\ login[r].pc \in {"find", "verify", "delete", "token"}
  /\ Serves(r, "refused")
  /\ UNCHANGED <<nonce, signIn, tab, stored>>

\* Ten minutes pass.
Expire(n) ==
  /\ nonce[n] = "live"
  /\ nonce' = [nonce EXCEPT ![n] = "expired"]
  /\ UNCHANGED <<login, signIn, tab, stored>>

\* The stored token outlives its expiry: the guards refuse it from then on.
TokenExpires ==
  /\ stored.valid
  /\ stored' = [stored EXCEPT !.valid = FALSE]
  /\ UNCHANGED <<nonce, login, signIn, tab>>

----------------------------------------------------------------------------
Handle(r) ==
  \/ FindNonce(r) \/ (\E valid \in BOOLEAN : VerifySignature(r, valid))
  \/ DeleteNonce(r) \/ IssueToken(r) \/ LoginFails(r)

\* What a sign-in does once it has begun.
Proceeds(s) ==
  \/ \E a \in Accounts : Connected(s, a)
  \/ DeleteExpired(s)
  \/ \E n \in Nonces : CreateNonce(s, n)
  \/ \E r \in Requests : Signed(s, r)
  \/ SignedIn(s) \/ SignInFails(s)

Next ==
  \/ \E t \in Tabs : Open(t) \/ Close(t) \/ Navigate(t) \/ Reload(t) \/ Disconnect(t)
  \/ \E s \in SignIns, t \in Tabs : Begin(s, t)
  \/ \E s \in SignIns : Proceeds(s) \/ \E r \in Requests : Duplicated(s, r)
  \/ \E r \in Requests : Handle(r)
  \/ \E n \in Nonces : Expire(n)
  \/ TokenExpires

Spec == Init /\ [][Next]_vars

\* The server finishes what it handles, and the wallet's prompts are answered
\* one way or the other.
Fairness ==
  /\ \A s \in SignIns : WF_vars(Proceeds(s))
  /\ \A r \in Requests : WF_vars(Handle(r))

FairSpec == Spec /\ Fairness

----------------------------------------------------------------------------
\* Properties.

HasLoggedIn(r) == login[r].pc \in {"token", "done"}

\* A nonce logs in once: of all the requests that carry it, one at most gets
\* past its deletion, though all of them may have found it before.
NonceLogsInOnce ==
  \A r, s \in Requests :
    HasLoggedIn(r) /\ HasLoggedIn(s) /\ login[r].nonce = login[s].nonce => r = s

\* Every sign-in ends, with a session or an error, though nonces expire
\* meanwhile and duplicates of its request use up its nonce before it does.
EverySignInEnds ==
  \A s \in SignIns : (signIn[s].pc # "idle") ~> (signIn[s].pc = "ended")

----------------------------------------------------------------------------
\* What makes the invariants above inductive.

\* A sign-in that has asked the wallet has an account, and one that asks for a
\* signature, or has it, the nonce that was made for it.
SignInsArePrepared ==
  \A s \in SignIns :
    /\ signIn[s].pc \in {"deleteExpired", "createNonce", "sign", "login"} => signIn[s].account # None
    /\ signIn[s].pc \in {"sign", "login"} =>
         signIn[s].nonce # None /\ nonce[signIn[s].nonce] # "free"

\* Only a sign-in that is through with the wallet has sent requests.
RequestsAreSent ==
  \A r \in Requests : login[r].pc # "idle" => signIn[login[r].signIn].pc \in {"login", "ended"}

\* The row of a nonce that has logged in is gone.
UsedNoncesAreGone == \A r \in Requests : HasLoggedIn(r) => nonce[login[r].nonce] = "gone"

SessionInvariant ==
  SignInsArePrepared /\ RequestsAreSent /\ UsedNoncesAreGone /\ NonceLogsInOnce
=============================================================================
