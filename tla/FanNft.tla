------------------------------- MODULE FanNft -------------------------------
(***************************************************************************)
(* The soulbound skill-tier token of a user.  Settlement writes a rating   *)
(* and raises fanNftSyncPending; FanNftService.syncPending, started and    *)
(* not awaited by every tick, takes a batch of flagged users and for each  *)
(* sends setTier to the FanNFT contract, waits up to 60 s for the receipt  *)
(* and writes what it did.  Settlement, the mempool, failures and restarts *)
(* go on meanwhile.                                                        *)
(***************************************************************************)
EXTENDS Integers, Sequences, FiniteSets

CONSTANTS
  Users,         \* a user is its wallet
  Ratings,       \* the ratings settlement may compute
  BatchSize,     \* take: 20
  MaxResults,    \* bound: how many ratings are written
  MaxInFlight,   \* bound: transactions that wait to be mined
  MaxFailures,   \* bound: failed calls, restarts and changes of ownership
  None           \* NULL

DefaultRating == 1000

ASSUME NftAssumption ==
  /\ DefaultRating \in Ratings
  /\ Ratings \subseteq Nat
  /\ BatchSize \in Nat \ {0}
  /\ MaxResults \in Nat
  /\ MaxInFlight \in Nat \ {0}
  /\ MaxFailures \in Nat
  /\ None \notin Users
  /\ None \notin Nat

----------------------------------------------------------------------------
\* tiers.ts

Tiers == 0..4

Rookie == 0
Scout  == 1

TierFromRating(rating) ==
  IF rating < 1000 THEN 0
  ELSE IF rating < 1200 THEN 1
  ELSE IF rating < 1400 THEN 2
  ELSE IF rating < 1600 THEN 3
  ELSE 4

----------------------------------------------------------------------------
VARIABLES
  user,           \* User rows: rating, and the fanNft columns tier, token, pending
  configured,     \* FAN_NFT_ADDRESS and a key are set in the running process
  syncer,         \* syncPending in progress: the batch it read, and where it is
  owned,          \* the protocol wallet owns the contract
  nextTokenId, owners, balances, tierOf, tokenOfWallet,   \* the contract's storage
  mempool,        \* setTier calls on their way, in nonce order
  receipt,        \* status of the transaction mined last
  results, failures,   \* bounds: ratings written, and failures, so far
  \* history
  rated,          \* the rating of a user: as signed up, unread by syncPending, or read
  lost            \* users for whom a setTier was sent whose receipt was never recorded

contract == <<nextTokenId, owners, balances, tierOf, tokenOfWallet>>
chain    == <<owned, contract, mempool, receipt>>
history  == <<rated, lost>>
bounds   == <<results, failures>>
vars     == <<user, configured, syncer, chain, bounds, history>>

UserRows ==
  [rating : Ratings, tier : Tiers \cup {None}, token : (Nat \ {0}) \cup {None}, pending : BOOLEAN]

\* pc: "idle", "batch" between two users, "due" before and "wait" after the
\* setTier of the user at hand.  seen: the rows as findMany read them.
SyncSteps == {"idle", "batch", "due", "wait"}

SyncerState ==
  [pc : SyncSteps, todo : SUBSET Users, at : Users \cup {None},
   seen : [Users -> UserRows \cup {None}]]

SyncIdle == [pc |-> "idle", todo |-> {}, at |-> None, seen |-> [u \in Users |-> None]]

Init ==
  /\ user = [u \in Users |->
               [rating |-> DefaultRating, tier |-> None, token |-> None, pending |-> FALSE]]
  /\ configured \in BOOLEAN
  /\ syncer = SyncIdle
  /\ owned = TRUE
  /\ nextTokenId = 1
  /\ owners = <<>>
  /\ tierOf = <<>>
  /\ balances = [u \in Users |-> 0]
  /\ tokenOfWallet = [u \in Users |-> 0]
  /\ mempool = <<>>
  /\ receipt = "none"
  /\ results = 0
  /\ failures = 0
  /\ rated = [u \in Users |-> "signup"]
  /\ lost = {}

----------------------------------------------------------------------------
\* Settlement of a duel or a battle: the user's new rating and the flag are
\* written in one transaction.

Settle(u, rating) ==
  /\ results < MaxResults
  /\ results' = results + 1
  /\ user' = [user EXCEPT ![u].rating = rating, ![u].pending = TRUE]
  /\ rated' = [rated EXCEPT ![u] = "unread"]
  /\ UNCHANGED <<configured, syncer, chain, failures, lost>>

----------------------------------------------------------------------------
\* FanNftService.syncPending and syncUser

\* A plausible slip: only users who have a token are looked for.
Pending_Minted == {u \in Users : user[u].pending /\ user[u].token # None}

Pending == {u \in Users : user[u].pending}

\* if (this.syncing) return; findMany({fanNftSyncPending: true}, take: 20).
SyncBegin ==
  /\ syncer.pc = "idle"
  /\ \E batch \in SUBSET Pending :
       /\ Cardinality(batch) <= BatchSize
       /\ batch = Pending \/ Cardinality(batch) = BatchSize
       /\ syncer' = [pc |-> "batch", todo |-> batch, at |-> None,
                     seen |-> [u \in Users |-> IF u \in batch THEN user[u] ELSE None]]
       /\ rated' = [u \in Users |-> IF u \in batch THEN "read" ELSE rated[u]]
  /\ UNCHANGED <<user, configured, chain, bounds, lost>>

Desired(u) == TierFromRating(syncer.seen[u].rating)
Minted(u)  == syncer.seen[u].token # None

\* A plausible slip: nothing is minted for a user without a token.
NothingToDo_Unminted(u) == ~Minted(u) \/ syncer.seen[u].tier = Desired(u)

\* Below Scout a token is not minted, and a tier already recorded is not sent.
NothingToDo(u) ==
  IF Minted(u) THEN syncer.seen[u].tier = Desired(u) ELSE Desired(u) < Scout

\* The next user of the batch whose tier is as it should be.
SyncClear(u) ==
  /\ syncer.pc = "batch"
  /\ u \in syncer.todo
  /\ NothingToDo(u)
  /\ user' = [user EXCEPT ![u].pending = FALSE]
  /\ syncer' = [syncer EXCEPT !.todo = @ \ {u}]
  /\ UNCHANGED <<configured, chain, bounds, history>>

\* The next user of the batch who needs a transaction.
SyncDue(u) ==
  /\ syncer.pc = "batch"
  /\ u \in syncer.todo
  /\ ~NothingToDo(u)
  /\ syncer' = [syncer EXCEPT !.todo = @ \ {u},
                              !.pc = IF configured THEN "due" ELSE "batch",
                              !.at = IF configured THEN u ELSE None]
  /\ UNCHANGED <<user, configured, chain, bounds, history>>

\* writeContract returns the hash of setTier(wallet, desired).
SendTier(u) ==
  /\ syncer.pc = "due"
  /\ syncer.at = u
  /\ Len(mempool) < MaxInFlight
  /\ mempool' = Append(mempool, [wallet |-> u, tier |-> Desired(u)])
  /\ syncer' = [syncer EXCEPT !.pc = "wait"]
  /\ UNCHANGED <<user, configured, owned, contract, receipt, bounds, history>>

\* Transactions are mined in nonce order, and the service sends none while it
\* waits: the one it waits for is the last.
HasReceipt == syncer.pc = "wait" /\ mempool = <<>>

Awaited(u) == syncer.pc = "wait" /\ syncer.at = u

NextUser == [syncer EXCEPT !.pc = "batch", !.at = None]

\* A plausible slip: the receipt's status is not looked at.
Succeeded_Any == HasReceipt

Succeeded == HasReceipt /\ receipt = "success"

\* The receipt's TierUpdated event, or tokenOfWallet, tells the token.
RecordTier(u) ==
  /\ Awaited(u)
  /\ Succeeded
  /\ user' = [user EXCEPT ![u].tier = Desired(u), ![u].token = tokenOfWallet[u],
                          ![u].pending = FALSE]
  /\ lost' = lost \ {u}
  /\ syncer' = NextUser
  /\ UNCHANGED <<configured, chain, bounds, rated>>

\* receipt.status !== 'success': throw, caught per user.
SyncReverted(u) ==
  /\ Awaited(u)
  /\ HasReceipt
  /\ receipt = "reverted"
  /\ syncer' = NextUser
  /\ UNCHANGED <<user, configured, chain, bounds, history>>

Fails == failures < MaxFailures /\ failures' = failures + 1

\* The call is refused, the wait times out, or an RPC or the database fails.
\* A transaction that was sent is mined or not, unnoticed.
SyncFails(u) ==
  /\ Fails
  /\ syncer.pc \in {"due", "wait"}
  /\ syncer.at = u
  /\ syncer' = NextUser
  /\ lost' = IF syncer.pc = "wait" THEN lost \cup {u} ELSE lost
  /\ UNCHANGED <<user, configured, chain, results, rated>>

\* The update of SyncClear fails.
SyncClearFails(u) ==
  /\ Fails
  /\ syncer.pc = "batch"
  /\ u \in syncer.todo
  /\ NothingToDo(u)
  /\ syncer' = [syncer EXCEPT !.todo = @ \ {u}]
  /\ UNCHANGED <<user, configured, chain, results, history>>

\* finally { this.syncing = false }
SyncEnd ==
  /\ syncer.pc = "batch"
  /\ syncer.todo = {}
  /\ syncer' = SyncIdle
  /\ UNCHANGED <<user, configured, chain, bounds, history>>

\* The process dies and starts again, perhaps with another configuration.
Restart ==
  /\ Fails
  /\ configured' \in BOOLEAN
  /\ syncer' = SyncIdle
  /\ lost' = IF syncer.pc = "wait" THEN lost \cup {syncer.at} ELSE lost
  /\ UNCHANGED <<user, chain, results, rated>>

----------------------------------------------------------------------------
\* FanNFT.sol

\* A plausible slip: the wallet's token is not remembered.
Mints_Always(wallet) == TRUE

Mints(wallet) == tokenOfWallet[wallet] = 0

\* setTier mints on the first call, and sets the tier in place on later ones.
SetTier(wallet, tier) ==
  IF Mints(wallet)
  THEN /\ nextTokenId' = nextTokenId + 1
       /\ tokenOfWallet' = [tokenOfWallet EXCEPT ![wallet] = nextTokenId]
       /\ owners' = Append(owners, wallet)
       /\ balances' = [balances EXCEPT ![wallet] = @ + 1]
       /\ tierOf' = Append(tierOf, tier)
  ELSE /\ tierOf' = [tierOf EXCEPT ![tokenOfWallet[wallet]] = tier]
       /\ UNCHANGED <<nextTokenId, owners, balances, tokenOfWallet>>

\* The first transaction is mined; onlyOwner reverts it if the protocol
\* wallet is not the owner any more.
Mine ==
  /\ mempool # <<>>
  /\ mempool' = Tail(mempool)
  /\ \/ /\ owned
        /\ SetTier(Head(mempool).wallet, Head(mempool).tier)
        /\ receipt' = "success"
     \/ /\ ~owned
        /\ receipt' = "reverted"
        /\ UNCHANGED contract
  /\ UNCHANGED <<user, configured, syncer, owned, bounds, history>>

\* The owner hands the contract to another wallet, or gets it back.
TransferOwnership ==
  /\ Fails
  /\ owned' = ~owned
  /\ UNCHANGED <<user, configured, syncer, contract, mempool, receipt, results, history>>

----------------------------------------------------------------------------
\* What the service does for a user when nothing fails.
Sync(u) ==
  \/ SyncClear(u)
  \/ SyncDue(u)
  \/ SendTier(u)
  \/ RecordTier(u)
  \/ SyncReverted(u)

SyncStep == SyncBegin \/ SyncEnd \/ \E u \in Users : Sync(u)

Next ==
  \/ \E u \in Users, rating \in Ratings : Settle(u, rating)
  \/ SyncStep
  \/ \E u \in Users : SyncFails(u) \/ SyncClearFails(u)
  \/ Restart
  \/ Mine
  \/ TransferOwnership

Spec == Init /\ [][Next]_vars

\* The cron fires every 15 s and starts syncPending unless one is running, and
\* the chain mines what it was sent.  Nobody owes a result, and failures,
\* being bounded, end.
Fairness == WF_vars(SyncStep) /\ WF_vars(Mine)

FairSpec == Spec /\ Fairness

----------------------------------------------------------------------------
\* Properties

TypeOK ==
  /\ user \in [Users -> UserRows]
  /\ configured \in BOOLEAN
  /\ syncer \in SyncerState
  /\ syncer.at = None <=> syncer.pc \in {"idle", "batch"}
  /\ \A u \in Users : u \in syncer.todo \/ u = syncer.at => syncer.seen[u] \in UserRows
  /\ owned \in BOOLEAN
  /\ nextTokenId \in Nat \ {0}
  /\ owners \in Seq(Users)
  /\ tierOf \in Seq(Tiers)
  /\ balances \in [Users -> Nat]
  /\ tokenOfWallet \in [Users -> Nat]
  /\ mempool \in Seq([wallet : Users, tier : Tiers])
  /\ receipt \in {"none", "success", "reverted"}
  /\ results \in 0..MaxResults
  /\ failures \in 0..MaxFailures
  /\ rated \in [Users -> {"signup", "unread", "read"}]
  /\ lost \subseteq Users

TierOnChain(u) ==
  IF tokenOfWallet[u] = 0 THEN Rookie ELSE tierOf[tokenOfWallet[u]]

\* profileFanNft: what a profile shows.
ProfileTier(u) == IF user[u].token = None THEN Rookie ELSE user[u].tier

\* FanNFT.sol, "One token per wallet": however often a setTier is repeated
\* because its receipt was lost, a wallet has at most one token, and the
\* contract's four ways to look at it agree.
OneTokenPerWallet ==
  /\ Len(owners) = nextTokenId - 1
  /\ Len(tierOf) = nextTokenId - 1
  /\ \A u \in Users :
       /\ balances[u] = (IF tokenOfWallet[u] = 0 THEN 0 ELSE 1)
       /\ tokenOfWallet[u] # 0 =>
            tokenOfWallet[u] \in DOMAIN owners /\ owners[tokenOfWallet[u]] = u
  /\ \A t \in DOMAIN owners : tokenOfWallet[owners[t]] = t

\* The token a profile shows is the token of that wallet on chain.
TokenIsOnChain == \A u \in Users : user[u].token # None => user[u].token = tokenOfWallet[u]

\* A profile shows the tier on chain, unless the service is waiting for a
\* receipt of that user or never recorded one.
ProfileShowsChain ==
  \A u \in Users : u \notin lost /\ ~Awaited(u) => ProfileTier(u) = TierOnChain(u)

\* FanNFT.sol, "Mirrors challengeRating tiers": once the flag is down, the tier
\* on chain is that of the rating, unless the rating was written after
\* syncPending read it, or a receipt was lost.
MirrorsRating ==
  \A u \in Users : rated[u] = "read" /\ ~user[u].pending /\ u \notin lost =>
    TierOnChain(u) = TierFromRating(user[u].rating)

\* Why they hold, whatever fails.  A row in the batch has changed in its
\* rating only, and stays flagged; what syncPending read of a token is true
\* for ever.
InProcess(u) == u \in syncer.todo \/ syncer.at = u

BatchIsCurrent ==
  /\ syncer.at \notin syncer.todo
  /\ syncer.at # None => ~NothingToDo(syncer.at)
  /\ \A u \in Users : InProcess(u) =>
       /\ user[u].pending
       /\ user[u].tier = syncer.seen[u].tier
       /\ user[u].token = syncer.seen[u].token
       /\ rated[u] = "read" => user[u].rating = syncer.seen[u].rating

\* The awaited transaction is the last one, and no other is on its way for a
\* user who is not lost; a Rookie is only ever sent for a token that exists.
MempoolIsKnown ==
  \A i \in DOMAIN mempool :
    /\ mempool[i].tier = Rookie => tokenOfWallet[mempool[i].wallet] # 0
    /\ i = Len(mempool) /\ syncer.pc = "wait" =>
         mempool[i] = [wallet |-> syncer.at, tier |-> Desired(syncer.at)]
    /\ mempool[i].wallet \notin lost =>
         syncer.pc = "wait" /\ i = Len(mempool) /\ mempool[i].wallet = syncer.at

\* An awaited transaction changes the chain when it is mined, and then the
\* chain has what will be recorded.
ReceiptIsTrue ==
  /\ Succeeded => /\ tokenOfWallet[syncer.at] # 0
                  /\ TierOnChain(syncer.at) = Desired(syncer.at)
  /\ \A u \in Users : u \notin lost /\ ~(Awaited(u) /\ Succeeded) =>
       ProfileTier(u) = TierOnChain(u)

SyncInvariant == BatchIsCurrent /\ MempoolIsKnown /\ ReceiptIsTrue

\* tiers.ts, "Scout is the first minted tier".
MintedAtScout ==
  [][\A u \in Users : tokenOfWallet[u] = 0 /\ tokenOfWallet'[u] # 0 =>
       tierOf'[tokenOfWallet'[u]] >= Scout]_vars

\* Every user who is flagged is eventually synced, also when many are and
\* take limits the batch, unless the service loses its configuration or the
\* contract.
EveryFlagClears ==
  \A u \in Users : user[u].pending ~> (~user[u].pending \/ ~configured \/ ~owned)

----------------------------------------------------------------------------
\* What the documentation says, and the code does not always do.

\* FanNFT.sol, "Mirrors challengeRating tiers", without exception: with the
\* flag down, a token's tier is that of the wallet's rating, also of a rating
\* that was written while an earlier one was sent and its receipt awaited.
\* The code does not keep to this: it clears the flag all the same.
SyncFollowsRating ==
  \A u \in Users : user[u].token # None /\ ~user[u].pending =>
    TierOnChain(u) = TierFromRating(user[u].rating)
=============================================================================
