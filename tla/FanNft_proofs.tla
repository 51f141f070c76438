---------------------------- MODULE FanNft_proofs ----------------------------
(***************************************************************************)
(* Theorems about FanNft, for every set of users and ratings, every batch  *)
(* size, and any number of results, failures and transactions in flight.   *)
(***************************************************************************)
EXTENDS FanNft, SequenceTheorems, TLAPS

IInv == TypeOK /\ OneTokenPerWallet /\ TokenIsOnChain /\ SyncInvariant

\* The first of the transactions that wait, and those that wait behind it.
LEMMA FirstInLine ==
  ASSUME NEW S, NEW s \in Seq(S), s # <<>>
  PROVE  /\ 1 \in 1 .. Len(s)
         /\ Head(s) = s[1]
         /\ s[1] \in S
         /\ Len(Tail(s)) = Len(s) - 1
         /\ Tail(s) = <<>> <=> Len(s) = 1
<1>1. Len(s) \in Nat \ {0}
  BY EmptySeq
<1>2. Head(s) = s[1]
  OBVIOUS
<1>3. Tail(s) \in Seq(S) /\ Len(Tail(s)) = Len(s) - 1 /\ Head(s) \in S
  BY HeadTailProperties
<1>4. Tail(s) = <<>> <=> Len(Tail(s)) = 0
  BY <1>3, EmptySeq
<1> QED
  BY <1>1, <1>2, <1>3, <1>4

----------------------------------------------------------------------------
\* The contract

\* setTier keeps a wallet at one token, gives it the tier, and changes no
\* other wallet.
LEMMA SetTierEffect ==
  ASSUME TypeOK, OneTokenPerWallet, NEW w \in Users, NEW t \in Tiers, SetTier(w, t)
  PROVE  /\ OneTokenPerWallet'
         /\ nextTokenId' \in Nat \ {0}
         /\ owners' \in Seq(Users)
         /\ tierOf' \in Seq(Tiers)
         /\ balances' \in [Users -> Nat]
         /\ tokenOfWallet' \in [Users -> Nat]
         /\ tokenOfWallet'[w] # 0
         /\ TierOnChain(w)' = t
         /\ \A u \in Users : tokenOfWallet[u] # 0 => tokenOfWallet'[u] = tokenOfWallet[u]
         /\ \A u \in Users \ {w} :
              tokenOfWallet'[u] = tokenOfWallet[u] /\ TierOnChain(u)' = TierOnChain(u)
<1>1. /\ nextTokenId \in Nat \ {0}
      /\ owners \in Seq(Users) /\ DOMAIN owners = 1 .. (nextTokenId - 1)
      /\ tierOf \in Seq(Tiers) /\ DOMAIN tierOf = 1 .. (nextTokenId - 1)
      /\ Len(owners) = nextTokenId - 1 /\ Len(tierOf) = nextTokenId - 1
      /\ balances \in [Users -> Nat] /\ tokenOfWallet \in [Users -> Nat]
  BY LenProperties DEF TypeOK, OneTokenPerWallet
<1>2. CASE tokenOfWallet[w] = 0
  <2>1. /\ nextTokenId' = nextTokenId + 1
        /\ tokenOfWallet' = [tokenOfWallet EXCEPT ![w] = nextTokenId]
        /\ owners' = Append(owners, w)
        /\ balances' = [balances EXCEPT ![w] = @ + 1]
        /\ tierOf' = Append(tierOf, t)
    BY <1>2 DEF SetTier, Mints
  <2>2. /\ owners' \in Seq(Users)
        /\ Len(owners') = nextTokenId
        /\ DOMAIN owners' = 1 .. nextTokenId
        /\ \A i \in 1 .. (nextTokenId - 1) : owners'[i] = owners[i]
        /\ owners'[nextTokenId] = w
    BY <1>1, <2>1, AppendProperties, LenProperties
  <2>3. /\ tierOf' \in Seq(Tiers)
        /\ Len(tierOf') = nextTokenId
        /\ \A i \in 1 .. (nextTokenId - 1) : tierOf'[i] = tierOf[i]
        /\ tierOf'[nextTokenId] = t
    BY <1>1, <2>1, AppendProperties
  <2>4. OneTokenPerWallet'
    BY <1>1, <1>2, <2>1, <2>2, <2>3 DEF OneTokenPerWallet
  <2>5. \A u \in Users \ {w} : TierOnChain(u)' = TierOnChain(u)
    BY <1>1, <2>1, <2>3 DEF TierOnChain, OneTokenPerWallet
  <2>6. tokenOfWallet'[w] # 0 /\ TierOnChain(w)' = t
    BY <1>1, <2>1, <2>3 DEF TierOnChain
  <2>7. \A u \in Users \ {w} : tokenOfWallet'[u] = tokenOfWallet[u]
    BY <1>1, <2>1
  <2>8. balances' \in [Users -> Nat] /\ tokenOfWallet' \in [Users -> Nat]
    BY <1>1, <2>1
  <2> QED
    BY <1>1, <1>2, <2>1, <2>2, <2>3, <2>4, <2>5, <2>6, <2>7, <2>8
<1>3. CASE tokenOfWallet[w] # 0
  <2>1. /\ tierOf' = [tierOf EXCEPT ![tokenOfWallet[w]] = t]
        /\ UNCHANGED <<nextTokenId, owners, balances, tokenOfWallet>>
    BY <1>3 DEF SetTier, Mints
  <2>2. tokenOfWallet[w] \in DOMAIN tierOf
    BY <1>1, <1>3 DEF OneTokenPerWallet
  <2>3. tierOf' \in Seq(Tiers) /\ Len(tierOf') = Len(tierOf)
    BY <1>1, <2>1, <2>2, ExceptSeq
  <2>4. \A u \in Users \ {w} : tokenOfWallet[u] # 0 => tokenOfWallet[u] # tokenOfWallet[w]
    BY <1>3 DEF OneTokenPerWallet
  <2>5. TierOnChain(w)' = t /\ \A u \in Users \ {w} : TierOnChain(u)' = TierOnChain(u)
    BY <1>1, <1>3, <2>1, <2>2, <2>4 DEF TierOnChain, OneTokenPerWallet
  <2>6. OneTokenPerWallet'
    BY <2>1, <2>3, <1>1 DEF OneTokenPerWallet
  <2> QED
    BY <1>1, <1>3, <2>1, <2>3, <2>5, <2>6
<1> QED
  BY <1>1, <1>2, <1>3

----------------------------------------------------------------------------
\* Types

LEMMA TierType == \A rating : TierFromRating(rating) \in Tiers
BY DEF TierFromRating, Tiers

\* For whom a transaction is due or awaited, there is a row in the batch.
LEMMA AtType ==
  ASSUME TypeOK, syncer.pc \in {"due", "wait"}
  PROVE  /\ syncer.at \in Users
         /\ syncer.seen[syncer.at] \in UserRows
         /\ Desired(syncer.at) \in Tiers
BY TierType DEF TypeOK, SyncerState, Desired

LEMMA InitCorrect == Init => IInv
<1> SUFFICES ASSUME Init PROVE IInv
  OBVIOUS
<1> USE NftAssumption DEF Init
<1>1. TypeOK
  BY EmptySeq DEF TypeOK, UserRows, SyncerState, SyncSteps, SyncIdle, DefaultRating
<1>2. OneTokenPerWallet /\ TokenIsOnChain
  BY EmptySeq DEF OneTokenPerWallet, TokenIsOnChain
<1>3. SyncInvariant
  BY DEF SyncInvariant, BatchIsCurrent, MempoolIsKnown, ReceiptIsTrue, InProcess, SyncIdle,
     Succeeded, HasReceipt, Awaited, ProfileTier, TierOnChain
<1> QED
  BY <1>1, <1>2, <1>3 DEF IInv

\* Every step leaves every variable in its type.
LEMMA TypeStep == IInv /\ [Next]_vars => TypeOK'
<1> SUFFICES ASSUME IInv, [Next]_vars PROVE TypeOK'
  OBVIOUS
<1> USE NftAssumption
<1>0. /\ TypeOK /\ OneTokenPerWallet
      /\ user \in [Users -> UserRows]
      /\ syncer \in SyncerState
      /\ results \in Nat /\ failures \in Nat
      /\ tokenOfWallet \in [Users -> Nat]
  BY DEF IInv, TypeOK
<1>1. ASSUME NEW u \in Users, NEW rating \in Ratings, Settle(u, rating) PROVE TypeOK'
  <2>1. user' \in [Users -> UserRows]
    BY <1>0, <1>1 DEF Settle, UserRows
  <2>2. results' \in 0..MaxResults /\ failures' \in 0..MaxFailures
    BY <1>0, <1>1 DEF Settle, TypeOK
  <2>3. rated' \in [Users -> {"signup", "unread", "read"}]
    BY <1>0, <1>1 DEF Settle, TypeOK
  <2>4. UNCHANGED <<configured, syncer, chain, lost>>
    BY <1>1 DEF Settle
  <2> QED
    BY <1>0, <2>1, <2>2, <2>3, <2>4 DEF TypeOK, chain, contract
<1>2. CASE SyncBegin
  <2>1. PICK batch \in SUBSET Pending :
          /\ syncer' = [pc |-> "batch", todo |-> batch, at |-> None,
                        seen |-> [u \in Users |-> IF u \in batch THEN user[u] ELSE None]]
          /\ rated' = [u \in Users |-> IF u \in batch THEN "read" ELSE rated[u]]
    BY <1>2 DEF SyncBegin
  <2>2. batch \subseteq Users
    BY DEF Pending
  <2>3. syncer' \in SyncerState
    BY <1>0, <2>1, <2>2 DEF SyncerState, SyncSteps
  <2>4. \A u \in Users : u \in syncer'.todo \/ u = syncer'.at => syncer'.seen[u] \in UserRows
    BY <1>0, <2>1, <2>2 DEF SyncerState
  <2> QED
    BY <1>0, <1>2, <2>1, <2>3, <2>4 DEF SyncBegin, TypeOK, chain, contract, bounds
<1>3. ASSUME NEW u \in Users, SyncClear(u) \/ SyncClearFails(u) PROVE TypeOK'
  <2>0. [user[u] EXCEPT !.pending = FALSE] \in UserRows
    BY <1>0 DEF UserRows
  <2>1. user' \in [Users -> UserRows]
    BY <1>0, <1>3, <2>0 DEF SyncClear, SyncClearFails
  <2>2. syncer' = [syncer EXCEPT !.todo = @ \ {u}]
    BY <1>3 DEF SyncClear, SyncClearFails
  <2>3. results' = results /\ failures' \in 0 .. MaxFailures
    BY <1>0, <1>3 DEF SyncClear, SyncClearFails, Fails, bounds, TypeOK
  <2> QED
    BY <1>0, <1>3, <2>1, <2>2, <2>3 DEF SyncClear, SyncClearFails, TypeOK, SyncerState, chain,
       contract, history
<1>4. ASSUME NEW u \in Users, SyncDue(u) PROVE TypeOK'
  BY <1>0, <1>4 DEF SyncDue, TypeOK, SyncerState, SyncSteps, chain, contract, bounds, history
<1>5. ASSUME NEW u \in Users, SendTier(u) PROVE TypeOK'
  <2>1. Desired(u) \in Tiers
    BY <1>0, <1>5, AtType DEF SendTier
  <2>2. mempool' \in Seq([wallet : Users, tier : Tiers])
    BY <1>0, <1>5, <2>1, AppendProperties DEF SendTier, TypeOK
  <2> QED
    BY <1>0, <1>5, <2>2 DEF SendTier, TypeOK, SyncerState, SyncSteps, contract, bounds, history
<1>6. ASSUME NEW u \in Users, RecordTier(u) PROVE TypeOK'
  <2>1. Desired(u) \in Tiers
    BY <1>0, <1>6, AtType DEF RecordTier, Awaited
  <2>2. tokenOfWallet[u] \in Nat \ {0}
    BY <1>0, <1>6 DEF RecordTier, Awaited, IInv, SyncInvariant, ReceiptIsTrue
  <2>3. user' \in [Users -> UserRows]
    <3>1. [user[u] EXCEPT !.tier = Desired(u), !.token = tokenOfWallet[u], !.pending = FALSE]
            \in UserRows
      BY <1>0, <2>1, <2>2 DEF UserRows
    <3>2. user' = [user EXCEPT ![u] =
            [@ EXCEPT !.tier = Desired(u), !.token = tokenOfWallet[u], !.pending = FALSE]]
      BY <1>0, <1>6 DEF RecordTier, UserRows
    <3> QED
      BY <1>0, <3>1, <3>2
  <2>4. /\ syncer' = NextUser /\ lost' \subseteq Users
        /\ UNCHANGED <<configured, chain, bounds, rated>>
    BY <1>0, <1>6 DEF RecordTier, TypeOK
  <2>5. /\ syncer' \in SyncerState
        /\ syncer'.at = None /\ syncer'.pc = "batch"
        /\ syncer'.todo = syncer.todo /\ syncer'.seen = syncer.seen
    BY <1>0, <2>4 DEF NextUser, SyncerState, SyncSteps
  <2> QED
    BY <1>0, <2>3, <2>4, <2>5 DEF TypeOK, SyncerState, chain, contract, bounds
<1>7. ASSUME NEW u \in Users, SyncReverted(u) \/ SyncFails(u) PROVE TypeOK'
  <2>1. syncer' = NextUser /\ results' = results /\ failures' \in 0 .. MaxFailures
    BY <1>0, <1>7 DEF SyncReverted, SyncFails, Fails, bounds, TypeOK
  <2>2. /\ syncer' \in SyncerState
        /\ syncer'.at = None /\ syncer'.pc = "batch"
        /\ syncer'.todo = syncer.todo /\ syncer'.seen = syncer.seen
    BY <1>0, <2>1 DEF NextUser, SyncerState, SyncSteps
  <2>3. /\ lost' \subseteq Users
        /\ UNCHANGED <<user, configured, chain, rated>>
    BY <1>0, <1>7 DEF SyncReverted, SyncFails, TypeOK, history
  <2> QED
    BY <1>0, <2>1, <2>2, <2>3 DEF TypeOK, SyncerState, chain, contract
<1>8. CASE SyncEnd
  BY <1>0, <1>8 DEF SyncEnd, SyncIdle, TypeOK, SyncerState, SyncSteps, chain, contract, bounds,
     history
<1>9. CASE Restart
  <2>1. lost' \subseteq Users
    BY <1>0, <1>9, AtType DEF Restart, TypeOK
  <2> QED
    BY <1>0, <1>9, <2>1 DEF Restart, Fails, SyncIdle, TypeOK, SyncerState, SyncSteps, chain,
       contract
<1>10. CASE Mine
  <2>1. /\ Head(mempool) \in [wallet : Users, tier : Tiers]
        /\ mempool' \in Seq([wallet : Users, tier : Tiers])
    BY <1>0, <1>10, HeadTailProperties DEF Mine, TypeOK
  <2>2. CASE owned
    <3>1. SetTier(Head(mempool).wallet, Head(mempool).tier)
      BY <1>10, <2>2 DEF Mine
    <3> QED
      BY <1>0, <1>10, <2>1, <2>2, <3>1, SetTierEffect DEF Mine, TypeOK, bounds, history
  <2>3. CASE ~owned
    BY <1>0, <1>10, <2>1, <2>3 DEF Mine, TypeOK, contract, bounds, history
  <2> QED
    BY <2>2, <2>3
<1>11. CASE TransferOwnership
  BY <1>0, <1>11 DEF TransferOwnership, Fails, TypeOK, contract, history
<1>12. CASE UNCHANGED vars
  BY <1>0, <1>12 DEF TypeOK, vars, chain, contract, bounds, history
<1> QED
  BY <1>1, <1>2, <1>3, <1>4, <1>5, <1>6, <1>7, <1>8, <1>9, <1>10, <1>11, <1>12
  DEF Next, SyncStep, Sync

----------------------------------------------------------------------------
\* The invariant

\* Only a mined transaction changes the contract.
LEMMA OnlyMineChangesContract ==
  [Next]_vars /\ ~Mine => UNCHANGED <<contract, receipt>>
BY DEF Next, Settle, SyncStep, SyncBegin, SyncEnd, Sync, SyncClear, SyncDue, SendTier, RecordTier,
   SyncReverted, SyncFails, SyncClearFails, Restart, TransferOwnership, vars, chain

\* Only RecordTier changes a user's tier and token, and only syncPending's
\* clearing and recording lower the flag.
LEMMA UserStep ==
  ASSUME TypeOK, [Next]_vars, NEW u \in Users
  PROVE  \/ RecordTier(u)
         \/ /\ user'[u].tier = user[u].tier
            /\ user'[u].token = user[u].token
            /\ \/ SyncClear(u)
               \/ user[u].pending => user'[u].pending
<1>1. user \in [Users -> UserRows]
  BY DEF TypeOK
<1>2. ASSUME NEW v \in Users, NEW rating \in Ratings, Settle(v, rating)
      PROVE  /\ user'[u].tier = user[u].tier /\ user'[u].token = user[u].token
             /\ user[u].pending => user'[u].pending
  BY <1>1, <1>2 DEF Settle, UserRows
<1>3. ASSUME NEW v \in Users, RecordTier(v), v # u PROVE user'[u] = user[u]
  BY <1>1, <1>3 DEF RecordTier
<1>4. ASSUME NEW v \in Users, SyncClear(v)
      PROVE  /\ user'[u].tier = user[u].tier /\ user'[u].token = user[u].token
             /\ v # u => user'[u] = user[u]
  BY <1>1, <1>4 DEF SyncClear, UserRows
<1>5. CASE user' = user
  BY <1>5
<1> QED
  BY <1>2, <1>3, <1>4, <1>5 DEF Next, SyncStep, SyncBegin, SyncEnd, Sync, SyncDue, SendTier,
     SyncReverted, SyncFails, SyncClearFails, Restart, Mine, TransferOwnership, vars

LEMMA TokenStep == IInv /\ [Next]_vars => OneTokenPerWallet' /\ TokenIsOnChain'
<1> SUFFICES ASSUME IInv, [Next]_vars PROVE OneTokenPerWallet' /\ TokenIsOnChain'
  OBVIOUS
<1>0. TypeOK /\ OneTokenPerWallet /\ TokenIsOnChain
  BY DEF IInv
<1>1. CASE Mine
  <2>1. user' = user
    BY <1>1 DEF Mine
  <2>2. CASE owned
    <3>1. Head(mempool) \in [wallet : Users, tier : Tiers]
      BY <1>0, <1>1, HeadTailProperties DEF Mine, TypeOK
    <3>2. SetTier(Head(mempool).wallet, Head(mempool).tier)
      BY <1>1, <2>2 DEF Mine
    <3>3. /\ OneTokenPerWallet'
          /\ \A u \in Users : tokenOfWallet[u] # 0 => tokenOfWallet'[u] = tokenOfWallet[u]
      BY <1>0, <3>1, <3>2, SetTierEffect
    <3>4. \A u \in Users : user[u].token # 0
      BY <1>0, NftAssumption DEF TypeOK, UserRows
    <3> QED
      BY <1>0, <2>1, <3>3, <3>4 DEF TokenIsOnChain
  <2>3. CASE ~owned
    BY <1>0, <1>1, <2>1, <2>3 DEF Mine, contract, OneTokenPerWallet, TokenIsOnChain
  <2> QED
    BY <2>2, <2>3
<1>2. CASE ~Mine
  <2>1. UNCHANGED contract
    BY <1>2, OnlyMineChangesContract
  <2>2. ASSUME NEW u \in Users, user'[u].token # None
        PROVE  user'[u].token = tokenOfWallet'[u]
    <3>1. CASE RecordTier(u)
      <4>1. user'[u].token = tokenOfWallet[u]
        BY <1>0, <3>1 DEF RecordTier, TypeOK, UserRows
      <4> QED
        BY <2>1, <4>1 DEF contract
    <3>2. CASE user'[u].token = user[u].token
      BY <1>0, <2>1, <2>2, <3>2 DEF TokenIsOnChain, contract
    <3> QED
      BY <1>0, <3>1, <3>2, UserStep
  <2> QED
    BY <1>0, <2>1, <2>2 DEF contract, OneTokenPerWallet, TokenIsOnChain
<1> QED
  BY <1>1, <1>2

LEMMA BatchStep == IInv /\ [Next]_vars => BatchIsCurrent'
<1> SUFFICES ASSUME IInv, [Next]_vars PROVE BatchIsCurrent'
  OBVIOUS
<1> USE NftAssumption
<1>0. /\ TypeOK /\ BatchIsCurrent
      /\ user \in [Users -> UserRows]
      /\ rated \in [Users -> {"signup", "unread", "read"}]
      /\ syncer \in SyncerState
      /\ None \notin syncer.todo
  BY DEF IInv, SyncInvariant, TypeOK, SyncerState
\* The rows in the batch may lag behind; a smaller batch is as good.
<1>1. ASSUME /\ syncer'.todo \subseteq syncer.todo
             /\ syncer'.seen = syncer.seen
             /\ syncer'.at = syncer.at \/ syncer'.at = None
             /\ \A u \in Users : InProcess(u)' => user'[u] = user[u]
             /\ rated' = rated
      PROVE  BatchIsCurrent'
  <2>1. \A u \in Users : InProcess(u)' => InProcess(u)
    BY <1>0, <1>1 DEF InProcess
  <2>2. \A u : NothingToDo(u)' = NothingToDo(u)
    BY <1>1 DEF NothingToDo, Minted, Desired
  <2> QED
    BY <1>0, <1>1, <2>1, <2>2 DEF BatchIsCurrent
<1>2. ASSUME NEW v \in Users, NEW rating \in Ratings, Settle(v, rating) PROVE BatchIsCurrent'
  <2>1. syncer' = syncer /\ rated'[v] = "unread" /\ \A u \in Users \ {v} : rated'[u] = rated[u]
    BY <1>0, <1>2 DEF Settle
  <2>2. \A u \in Users \ {v} : user'[u] = user[u]
    BY <1>0, <1>2 DEF Settle
  <2>3. user'[v].pending /\ user'[v].tier = user[v].tier /\ user'[v].token = user[v].token
    BY <1>0, <1>2 DEF Settle, UserRows
  <2>4. \A u : (InProcess(u)' <=> InProcess(u)) /\ (NothingToDo(u)' <=> NothingToDo(u))
    BY <2>1 DEF InProcess, NothingToDo, Minted, Desired
  <2> QED
    BY <1>0, <2>1, <2>2, <2>3, <2>4 DEF BatchIsCurrent
<1>3. CASE SyncBegin
  <2>1. PICK batch \in SUBSET Pending :
          syncer' = [pc |-> "batch", todo |-> batch, at |-> None,
                     seen |-> [u \in Users |-> IF u \in batch THEN user[u] ELSE None]]
    BY <1>3 DEF SyncBegin
  <2>2. user' = user
    BY <1>3 DEF SyncBegin
  <2>3. \A u \in Users : InProcess(u)' =>
          u \in batch /\ syncer'.seen[u] = user[u] /\ user[u].pending
    BY <2>1 DEF InProcess, Pending
  <2>4. syncer'.at = None /\ None \notin syncer'.todo
    BY <2>1 DEF Pending
  <2> QED
    BY <2>2, <2>3, <2>4 DEF BatchIsCurrent
<1>4. ASSUME NEW v \in Users, SyncClear(v) \/ SyncClearFails(v) PROVE BatchIsCurrent'
  <2>1. syncer' = [syncer EXCEPT !.todo = @ \ {v}] /\ v \in syncer.todo /\ rated' = rated
    BY <1>4 DEF SyncClear, SyncClearFails, history
  <2>2. \A u \in Users \ {v} : user'[u] = user[u]
    BY <1>0, <1>4 DEF SyncClear, SyncClearFails
  <2>3. ~InProcess(v)'
    BY <1>0, <2>1 DEF InProcess, BatchIsCurrent, SyncerState
  <2> QED
    BY <1>0, <1>1, <2>1, <2>2, <2>3 DEF SyncerState
<1>5. ASSUME NEW v \in Users, SyncDue(v) PROVE BatchIsCurrent'
  <2>1. /\ v \in syncer.todo /\ ~NothingToDo(v) /\ user' = user /\ rated' = rated
        /\ syncer'.todo = syncer.todo \ {v} /\ syncer'.seen = syncer.seen
        /\ syncer'.at = v \/ syncer'.at = None
    BY <1>0, <1>5 DEF SyncDue, history, SyncerState
  <2>2. \A u \in Users : InProcess(u)' => InProcess(u)
    BY <2>1 DEF InProcess
  <2>3. \A u : NothingToDo(u)' <=> NothingToDo(u)
    BY <2>1 DEF NothingToDo, Minted, Desired
  <2> QED
    BY <1>0, <2>1, <2>2, <2>3 DEF BatchIsCurrent
<1>6. ASSUME NEW v \in Users, SendTier(v) PROVE BatchIsCurrent'
  BY <1>0, <1>1, <1>6 DEF SendTier, SyncerState, history
<1>7. ASSUME NEW v \in Users, RecordTier(v) PROVE BatchIsCurrent'
  <2>1. /\ syncer'.todo = syncer.todo /\ syncer'.seen = syncer.seen /\ syncer'.at = None
        /\ rated' = rated /\ v = syncer.at
    BY <1>0, <1>7 DEF RecordTier, Awaited, NextUser, SyncerState
  <2>2. \A u \in Users : InProcess(u)' => u # v
    BY <1>0, <2>1 DEF InProcess, BatchIsCurrent
  <2>3. \A u \in Users \ {v} : user'[u] = user[u]
    BY <1>0, <1>7 DEF RecordTier
  <2> QED
    BY <1>1, <2>1, <2>2, <2>3
<1>8. ASSUME NEW v \in Users, SyncReverted(v) \/ SyncFails(v) PROVE BatchIsCurrent'
  BY <1>0, <1>1, <1>8 DEF SyncReverted, SyncFails, NextUser, SyncerState, history
<1>9. CASE SyncEnd \/ Restart
  <2>1. syncer'.todo = {} /\ syncer'.at = None
    BY <1>9 DEF SyncEnd, Restart, SyncIdle
  <2> QED
    BY <2>1 DEF BatchIsCurrent, InProcess
<1>10. CASE Mine \/ TransferOwnership \/ UNCHANGED vars
  BY <1>1, <1>10 DEF Mine, TransferOwnership, vars, history
<1> QED
  BY <1>2, <1>3, <1>4, <1>5, <1>6, <1>7, <1>8, <1>9, <1>10 DEF Next, SyncStep, Sync

\* A transaction that is due has a tier of Scout or above, unless the user has
\* a token already.
LEMMA DueHasToken ==
  ASSUME IInv, syncer.at \in Users, Desired(syncer.at) = Rookie
  PROVE  tokenOfWallet[syncer.at] # 0
<1>1. Minted(syncer.at)
  BY NftAssumption DEF IInv, SyncInvariant, BatchIsCurrent, NothingToDo, Rookie, Scout
<1>2. user[syncer.at].token # None /\ user[syncer.at].token \in Nat \ {0}
  BY <1>1 DEF IInv, SyncInvariant, BatchIsCurrent, InProcess, Minted, TypeOK, UserRows
<1> QED
  BY <1>2 DEF IInv, TokenIsOnChain

LEMMA MempoolStep == IInv /\ [Next]_vars => MempoolIsKnown'
<1> SUFFICES ASSUME IInv, [Next]_vars PROVE MempoolIsKnown'
  OBVIOUS
<1> USE NftAssumption
<1>0. /\ TypeOK /\ OneTokenPerWallet /\ MempoolIsKnown
      /\ syncer \in SyncerState
      /\ mempool \in Seq([wallet : Users, tier : Tiers])
      /\ DOMAIN mempool = 1 .. Len(mempool) /\ Len(mempool) \in Nat
  BY LenProperties DEF IInv, SyncInvariant, TypeOK
\* Nothing awaited, before or after: the mempool belongs to lost users.
<1>1. ASSUME UNCHANGED <<mempool, tokenOfWallet>>, syncer'.pc # "wait", lost \subseteq lost',
             syncer.pc = "wait" => syncer.at \in lost' \/ mempool = <<>>
      PROVE  MempoolIsKnown'
  BY <1>0, <1>1 DEF MempoolIsKnown
<1>2. ASSUME UNCHANGED <<mempool, tokenOfWallet, syncer, lost>> PROVE MempoolIsKnown'
  BY <1>0, <1>2 DEF MempoolIsKnown, Desired
<1>3. ASSUME NEW u \in Users, SendTier(u) PROVE MempoolIsKnown'
  <2>1. /\ syncer.pc = "due" /\ syncer.at = u
        /\ UNCHANGED <<tokenOfWallet, lost>>
        /\ syncer'.pc = "wait" /\ syncer'.at = u /\ syncer'.seen = syncer.seen
        /\ mempool' = Append(mempool, [wallet |-> u, tier |-> Desired(u)])
    BY <1>0, <1>3 DEF SendTier, contract, history, SyncerState
  <2>2. Desired(u)' = Desired(u) /\ Desired(u) \in Tiers
    BY <1>0, <2>1, AtType DEF Desired
  <2>3. /\ Len(mempool') = Len(mempool) + 1
        /\ DOMAIN mempool' = 1 .. (Len(mempool) + 1)
        /\ \A i \in 1 .. Len(mempool) : mempool'[i] = mempool[i]
        /\ mempool'[Len(mempool) + 1] = [wallet |-> u, tier |-> Desired(u)]
    BY <1>0, <2>1, <2>2, AppendProperties, LenProperties
  <2>4. Desired(u) = Rookie => tokenOfWallet[u] # 0
    BY <2>1, DueHasToken
  <2>5. ASSUME NEW i \in 1 .. Len(mempool)
        PROVE  mempool[i].wallet \in lost /\ (mempool[i].tier = Rookie => tokenOfWallet[mempool[i].wallet] # 0)
    BY <1>0, <2>1 DEF MempoolIsKnown
  <2> QED
    BY <1>0, <2>1, <2>2, <2>3, <2>4, <2>5 DEF MempoolIsKnown
<1>4. ASSUME NEW u \in Users, RecordTier(u) PROVE MempoolIsKnown'
  <2>1. mempool' = <<>>
    BY <1>4 DEF RecordTier, Succeeded, HasReceipt, chain
  <2> QED
    BY <2>1 DEF MempoolIsKnown
<1>5. ASSUME NEW u \in Users, SyncReverted(u) \/ SyncFails(u) PROVE MempoolIsKnown'
  BY <1>0, <1>1, <1>5 DEF SyncReverted, HasReceipt, SyncFails, NextUser, SyncerState, chain,
     contract, history
<1>6. CASE Restart
  BY <1>0, <1>1, <1>6 DEF Restart, SyncIdle, chain, contract
<1>7. ASSUME NEW u \in Users, SyncClear(u) \/ SyncClearFails(u) \/ SyncDue(u)
      PROVE  MempoolIsKnown'
  BY <1>0, <1>1, <1>7 DEF SyncClear, SyncClearFails, SyncDue, SyncerState, chain, contract, history
<1>8. CASE SyncBegin \/ SyncEnd
  BY <1>0, <1>1, <1>8 DEF SyncBegin, SyncEnd, SyncIdle, chain, contract, history
<1>9. CASE Mine
  <2>1. /\ mempool # <<>> /\ mempool' = Tail(mempool)
        /\ UNCHANGED <<syncer, lost>>
    BY <1>9 DEF Mine, history
  <2>2. /\ Head(mempool) \in [wallet : Users, tier : Tiers]
        /\ Len(mempool') = Len(mempool) - 1
        /\ DOMAIN mempool' = 1 .. (Len(mempool) - 1)
        /\ \A i \in 1 .. (Len(mempool) - 1) : mempool'[i] = mempool[i + 1]
    BY <1>0, <2>1, HeadTailProperties, LenProperties
  <2>3. \A u \in Users : tokenOfWallet[u] # 0 => tokenOfWallet'[u] = tokenOfWallet[u]
    <3>1. CASE owned
      <4>1. SetTier(Head(mempool).wallet, Head(mempool).tier)
        BY <1>9, <3>1 DEF Mine
      <4> QED
        BY <1>0, <2>2, <4>1, SetTierEffect
    <3>2. CASE ~owned
      BY <1>9, <3>2 DEF Mine, contract
    <3> QED
      BY <3>1, <3>2
  <2>4. ASSUME NEW i \in DOMAIN mempool'
        PROVE  /\ i + 1 \in DOMAIN mempool
               /\ mempool'[i] = mempool[i + 1]
               /\ mempool[i + 1].wallet \in Users
               /\ i = Len(mempool') <=> i + 1 = Len(mempool)
    <3>1. i \in 1 .. (Len(mempool) - 1)
      BY <2>2
    <3>2. i + 1 \in 1 .. Len(mempool) /\ (i = Len(mempool) - 1 <=> i + 1 = Len(mempool))
      BY <1>0, <3>1
    <3>3. mempool[i + 1] \in [wallet : Users, tier : Tiers]
      BY <1>0, <3>2, ElementOfSeq
    <3> QED
      BY <1>0, <2>2, <3>1, <3>2, <3>3
  <2>5. \A u : Desired(u)' = Desired(u)
    BY <2>1 DEF Desired
  <2> QED
    BY <1>0, <2>1, <2>3, <2>4, <2>5 DEF MempoolIsKnown
<1>10. ASSUME NEW u \in Users, NEW rating \in Ratings, Settle(u, rating) PROVE MempoolIsKnown'
  BY <1>2, <1>10 DEF Settle, chain, contract
<1>11. CASE TransferOwnership \/ UNCHANGED vars
  BY <1>2, <1>11 DEF TransferOwnership, vars, chain, contract, history
<1> QED
  BY <1>3, <1>4, <1>5, <1>6, <1>7, <1>8, <1>9, <1>10, <1>11 DEF Next, SyncStep, Sync

LEMMA ReceiptStep == IInv /\ [Next]_vars => ReceiptIsTrue'
<1> SUFFICES ASSUME IInv, [Next]_vars PROVE ReceiptIsTrue'
  OBVIOUS
<1> USE NftAssumption
<1>0. /\ TypeOK /\ OneTokenPerWallet /\ MempoolIsKnown /\ ReceiptIsTrue
      /\ syncer \in SyncerState
      /\ user \in [Users -> UserRows]
      /\ DOMAIN mempool = 1 .. Len(mempool) /\ Len(mempool) \in Nat
  BY LenProperties DEF IInv, SyncInvariant, TypeOK
\* Nothing awaited after the step, and what was awaited had not succeeded, or
\* its user is lost now.
<1>1. ASSUME UNCHANGED contract, syncer'.pc # "wait", lost \subseteq lost',
             \A u \in Users : user'[u].tier = user[u].tier /\ user'[u].token = user[u].token,
             \A u \in Users : Awaited(u) /\ Succeeded => u \in lost'
      PROVE  ReceiptIsTrue'
  <2>1. ~Succeeded'
    BY <1>1 DEF Succeeded, HasReceipt
  <2>2. \A u \in Users : TierOnChain(u)' = TierOnChain(u) /\ ProfileTier(u)' = ProfileTier(u)
    BY <1>1 DEF TierOnChain, ProfileTier, contract
  <2> QED
    BY <1>0, <1>1, <2>1, <2>2 DEF ReceiptIsTrue
<1>2. ASSUME UNCHANGED <<contract, receipt, mempool, syncer, lost>>,
             \A u \in Users : user'[u].tier = user[u].tier /\ user'[u].token = user[u].token
      PROVE  ReceiptIsTrue'
  <2>1. \A u \in Users : TierOnChain(u)' = TierOnChain(u) /\ ProfileTier(u)' = ProfileTier(u)
    BY <1>2 DEF TierOnChain, ProfileTier, contract
  <2>2. Succeeded' = Succeeded /\ \A u : Awaited(u)' = Awaited(u) /\ Desired(u)' = Desired(u)
    BY <1>2 DEF Succeeded, HasReceipt, Awaited, Desired
  <2>3. Succeeded => syncer.at \in Users
    BY <1>0, AtType DEF Succeeded, HasReceipt
  <2> QED
    BY <1>0, <1>2, <2>1, <2>2, <2>3 DEF ReceiptIsTrue, contract
<1>3. ASSUME NEW v \in Users, SendTier(v) PROVE ReceiptIsTrue'
  <2>1. mempool' # <<>> /\ UNCHANGED <<user, contract, lost>> /\ ~Succeeded
    <3>1. mempool' = Append(mempool, [wallet |-> v, tier |-> Desired(v)]) /\ Desired(v) \in Tiers
      BY <1>0, <1>3, AtType DEF SendTier
    <3>2. mempool' # <<>>
      BY <1>0, <1>3, <3>1, AppendProperties DEF TypeOK
    <3> QED
      BY <1>3, <3>2 DEF SendTier, Succeeded, HasReceipt, history
  <2>2. \A u \in Users : TierOnChain(u)' = TierOnChain(u) /\ ProfileTier(u)' = ProfileTier(u)
    BY <2>1 DEF TierOnChain, ProfileTier, contract
  <2> QED
    BY <1>0, <2>1, <2>2 DEF ReceiptIsTrue, Succeeded, HasReceipt
<1>4. ASSUME NEW v \in Users, RecordTier(v) PROVE ReceiptIsTrue'
  <2>1. /\ Succeeded /\ Awaited(v) /\ UNCHANGED contract /\ ~Succeeded'
        /\ lost' = lost \ {v}
    BY <1>0, <1>4 DEF RecordTier, Succeeded, HasReceipt, NextUser, chain, SyncerState
  <2>2. user'[v].tier = Desired(v) /\ user'[v].token = tokenOfWallet[v]
    BY <1>0, <1>4 DEF RecordTier, UserRows
  <2>3. tokenOfWallet[v] # 0 /\ tokenOfWallet[v] \in Nat /\ TierOnChain(v) = Desired(v)
    BY <1>0, <2>1 DEF ReceiptIsTrue, Awaited, TypeOK
  <2>4. ProfileTier(v)' = TierOnChain(v)'
    BY <2>1, <2>2, <2>3 DEF ProfileTier, TierOnChain, contract
  <2>5. ASSUME NEW u \in Users \ {v}, u \notin lost' PROVE ProfileTier(u)' = TierOnChain(u)'
    <3>1. user'[u] = user[u]
      BY <1>0, <1>4 DEF RecordTier
    <3>2. u \notin lost /\ ~Awaited(u)
      BY <2>1, <2>5 DEF Awaited
    <3> QED
      BY <1>0, <2>1, <3>1, <3>2 DEF ReceiptIsTrue, ProfileTier, TierOnChain, contract
  <2> QED
    BY <2>1, <2>4, <2>5 DEF ReceiptIsTrue
<1>5. ASSUME NEW v \in Users, SyncReverted(v) \/ SyncFails(v) PROVE ReceiptIsTrue'
  <2>1. \A u \in Users : Awaited(u) /\ Succeeded => u \in lost'
    BY <1>5 DEF SyncReverted, SyncFails, Awaited, Succeeded, HasReceipt
  <2> QED
    BY <1>0, <1>1, <1>5, <2>1 DEF SyncReverted, SyncFails, NextUser, SyncerState, chain, history
<1>6. CASE Restart
  BY <1>1, <1>6 DEF Restart, SyncIdle, chain, Awaited
<1>7. ASSUME NEW v \in Users, SyncClear(v) \/ SyncClearFails(v) \/ SyncDue(v)
      PROVE  ReceiptIsTrue'
  <2>1. \A u \in Users : user'[u].tier = user[u].tier /\ user'[u].token = user[u].token
    BY <1>0, <1>7 DEF SyncClear, SyncClearFails, SyncDue, UserRows
  <2>2. syncer.pc = "batch" /\ syncer'.pc # "wait"
    BY <1>0, <1>7 DEF SyncClear, SyncClearFails, SyncDue, SyncerState
  <2> QED
    BY <1>1, <1>7, <2>1, <2>2 DEF SyncClear, SyncClearFails, SyncDue, chain, history, Awaited
<1>8. CASE SyncBegin \/ SyncEnd
  BY <1>1, <1>8 DEF SyncBegin, SyncEnd, SyncIdle, chain, history, Awaited
<1>9. CASE Mine
  <2>1. /\ mempool # <<>> /\ mempool' = Tail(mempool)
        /\ UNCHANGED <<syncer, lost, user>> /\ ~Succeeded
    BY <1>9 DEF Mine, history, Succeeded, HasReceipt
  <2>2. \A u \in Users : u \notin lost => ProfileTier(u) = TierOnChain(u)
    BY <1>0, <2>1 DEF ReceiptIsTrue
  <2>3. \A u : Desired(u)' = Desired(u) /\ ProfileTier(u)' = ProfileTier(u)
    BY <2>1 DEF Desired, ProfileTier
  <2>4. CASE ~owned
    <3>1. ~Succeeded' /\ UNCHANGED contract
      BY <1>9, <2>4 DEF Mine, Succeeded
    <3> QED
      BY <2>1, <2>2, <2>3, <3>1 DEF ReceiptIsTrue, TierOnChain, contract
  <2>5. CASE owned
    <3>1. /\ Head(mempool) = mempool[1]
          /\ Head(mempool) \in [wallet : Users, tier : Tiers]
          /\ 1 \in DOMAIN mempool
          /\ Len(mempool') = Len(mempool) - 1
          /\ mempool' = <<>> <=> Len(mempool) = 1
      <4>1. mempool \in Seq([wallet : Users, tier : Tiers])
        BY <1>0 DEF TypeOK
      <4>2. /\ 1 \in 1 .. Len(mempool)
            /\ Head(mempool) = mempool[1]
            /\ mempool[1] \in [wallet : Users, tier : Tiers]
            /\ Len(Tail(mempool)) = Len(mempool) - 1
            /\ Tail(mempool) = <<>> <=> Len(mempool) = 1
        BY <2>1, <4>1, FirstInLine, Zenon
      <4> QED
        BY <1>0, <2>1, <4>2
    <3>2. mempool' = <<>> <=> Len(mempool) = 1
      BY <3>1
    <3>3. PICK w \in Users, t \in Tiers : mempool[1] = [wallet |-> w, tier |-> t]
      BY <3>1
    <3>4. SetTier(w, t) /\ receipt' = "success"
      BY <1>9, <2>5, <3>1, <3>3 DEF Mine
    <3>5. /\ tokenOfWallet'[w] # 0
          /\ TierOnChain(w)' = t
          /\ \A u \in Users \ {w} : TierOnChain(u)' = TierOnChain(u)
      BY <1>0, <3>4, SetTierEffect
    <3>6. Succeeded' => w = syncer.at /\ t = Desired(syncer.at)
      BY <1>0, <2>1, <3>1, <3>2, <3>3 DEF Succeeded, HasReceipt, MempoolIsKnown
    <3>7. w \notin lost => syncer.pc = "wait" /\ Len(mempool) = 1 /\ w = syncer.at
      BY <1>0, <3>1, <3>3 DEF MempoolIsKnown
    <3>8. w \notin lost => Awaited(w)' /\ Succeeded'
      BY <2>1, <3>2, <3>4, <3>7 DEF Awaited, Succeeded, HasReceipt
    <3>9. Succeeded' => tokenOfWallet'[syncer'.at] # 0 /\ TierOnChain(syncer.at)' = Desired(syncer.at)'
      <4>1. SUFFICES ASSUME Succeeded' PROVE tokenOfWallet'[syncer'.at] # 0 /\ TierOnChain(syncer.at)' = Desired(syncer.at)'
        OBVIOUS
      <4>2. w = syncer.at /\ w = syncer'.at /\ t = Desired(w)
        BY <2>1, <3>6, <4>1
      <4>3. Desired(w)' = Desired(w)
        BY <2>3
      <4> QED
        BY <3>5, <4>2, <4>3
    <3>10. ASSUME NEW u \in Users, u \notin lost', ~(Awaited(u)' /\ Succeeded')
           PROVE  ProfileTier(u)' = TierOnChain(u)'
      <4>1. u # w /\ u \notin lost
        BY <2>1, <3>8, <3>10
      <4> QED
        BY <2>2, <2>3, <3>5, <4>1
    <3> QED
      BY <3>9, <3>10 DEF ReceiptIsTrue
  <2> QED
    BY <2>4, <2>5
<1>10. ASSUME NEW v \in Users, NEW rating \in Ratings, Settle(v, rating) PROVE ReceiptIsTrue'
  <2>1. \A u \in Users : user'[u].tier = user[u].tier /\ user'[u].token = user[u].token
    BY <1>0, <1>10 DEF Settle, UserRows
  <2> QED
    BY <1>2, <1>10, <2>1 DEF Settle, chain
<1>11. CASE TransferOwnership \/ UNCHANGED vars
  BY <1>2, <1>11 DEF TransferOwnership, vars, chain, history
<1> QED
  BY <1>3, <1>4, <1>5, <1>6, <1>7, <1>8, <1>9, <1>10, <1>11 DEF Next, SyncStep, Sync

LEMMA InvariantStep == IInv /\ [Next]_vars => IInv'
BY TypeStep, TokenStep, BatchStep, MempoolStep, ReceiptStep DEF IInv, SyncInvariant

LEMMA InvariantCorrect == Spec => []IInv
BY InitCorrect, InvariantStep, PTL DEF Spec

----------------------------------------------------------------------------
\* What it proves

\* Every variable keeps its type: a recorded tier is one of the five, a
\* recorded token a positive number.
THEOREM NftTypeCorrect == Spec => []TypeOK
<1>1. IInv => TypeOK
  BY DEF IInv
<1> QED
  BY <1>1, InvariantCorrect, PTL

\* FanNFT.sol's "One token per wallet", and the token of a profile is it,
\* whatever receipts are lost and calls repeated.
THEOREM TokenCorrect == Spec => [](OneTokenPerWallet /\ TokenIsOnChain)
<1>1. IInv => OneTokenPerWallet /\ TokenIsOnChain
  BY DEF IInv
<1> QED
  BY <1>1, InvariantCorrect, PTL

\* A profile differs from the chain only while a receipt is awaited, or after
\* one was lost: why the two may ever disagree.
THEOREM ProfileCorrect == Spec => []ProfileShowsChain
<1>1. IInv => ProfileShowsChain
  BY DEF IInv, SyncInvariant, ReceiptIsTrue, ProfileShowsChain
<1> QED
  BY <1>1, InvariantCorrect, PTL

\* setTier mints for a Scout or above only: a Rookie is sent only for a token
\* that exists.
THEOREM MintCorrect == Spec => MintedAtScout
<1> DEFINE Mints0 ==
      \A u \in Users : tokenOfWallet[u] = 0 /\ tokenOfWallet'[u] # 0 =>
        tierOf'[tokenOfWallet'[u]] >= Scout
<1>1. IInv /\ [Next]_vars => Mints0
  <2> SUFFICES ASSUME IInv, [Next]_vars, NEW u \in Users,
                      tokenOfWallet[u] = 0, tokenOfWallet'[u] # 0
               PROVE  tierOf'[tokenOfWallet'[u]] >= Scout
    OBVIOUS
  <2>1. Mine /\ owned
    BY OnlyMineChangesContract DEF contract, Mine
  <2>2. /\ mempool \in Seq([wallet : Users, tier : Tiers]) /\ mempool # <<>>
        /\ DOMAIN mempool = 1 .. Len(mempool)
    BY <2>1, LenProperties DEF IInv, TypeOK, Mine
  <2>3. /\ 1 \in DOMAIN mempool /\ Head(mempool) = mempool[1]
        /\ mempool[1] \in [wallet : Users, tier : Tiers]
    BY <2>2, FirstInLine
  <2>4. PICK w \in Users, t \in Tiers : mempool[1] = [wallet |-> w, tier |-> t]
    BY <2>3
  <2>5. SetTier(w, t)
    BY <2>1, <2>3, <2>4 DEF Mine
  <2>6. /\ TierOnChain(w)' = t
        /\ \A v \in Users \ {w} : tokenOfWallet'[v] = tokenOfWallet[v]
    BY <2>5, SetTierEffect DEF IInv
  <2>7. w = u
    BY <2>6
  <2>8. t # Rookie
    BY <2>3, <2>4, <2>7 DEF IInv, SyncInvariant, MempoolIsKnown
  <2> QED
    BY <2>6, <2>7, <2>8 DEF TierOnChain, Tiers, Rookie, Scout
<1> QED
  BY <1>1, InvariantCorrect, PTL DEF Spec, MintedAtScout

LEMMA MirrorsStep == IInv /\ MirrorsRating /\ [Next]_vars => MirrorsRating'
<1> SUFFICES ASSUME IInv, MirrorsRating, [Next]_vars,
                    NEW u \in Users, rated'[u] = "read", ~user'[u].pending, u \notin lost'
             PROVE  TierOnChain(u)' = TierFromRating(user'[u].rating)
  BY DEF MirrorsRating
<1> USE NftAssumption
<1>0. /\ TypeOK /\ OneTokenPerWallet /\ BatchIsCurrent /\ MempoolIsKnown /\ ReceiptIsTrue
      /\ user \in [Users -> UserRows]
      /\ rated \in [Users -> {"signup", "unread", "read"}]
      /\ syncer \in SyncerState
  BY DEF IInv, SyncInvariant, TypeOK
<1>1. ASSUME UNCHANGED contract, user'[u] = user[u], rated'[u] = rated[u],
             u \notin lost' => u \notin lost
      PROVE  TierOnChain(u)' = TierFromRating(user'[u].rating)
  BY <1>1 DEF MirrorsRating, TierOnChain, contract
<1>2. ASSUME NEW v \in Users, NEW rating \in Ratings, Settle(v, rating)
      PROVE  TierOnChain(u)' = TierFromRating(user'[u].rating)
  <2>1. v # u
    BY <1>0, <1>2 DEF Settle
  <2> QED
    BY <1>0, <1>1, <1>2, <2>1 DEF Settle, chain
<1>3. CASE SyncBegin
  <2>1. PICK batch \in SUBSET Pending :
          rated' = [w \in Users |-> IF w \in batch THEN "read" ELSE rated[w]]
    BY <1>3 DEF SyncBegin
  <2>2. user' = user /\ UNCHANGED <<contract, lost>>
    BY <1>3 DEF SyncBegin, chain
  <2>3. u \notin batch
    BY <2>1, <2>2 DEF Pending
  <2> QED
    BY <1>1, <2>1, <2>2, <2>3
<1>4. ASSUME NEW v \in Users, SyncClear(v)
      PROVE  TierOnChain(u)' = TierFromRating(user'[u].rating)
  <2>1. CASE v # u
    BY <1>0, <1>1, <1>4, <2>1 DEF SyncClear, chain, history
  <2>2. CASE v = u
    <3>1. /\ InProcess(u) /\ NothingToDo(u)
          /\ UNCHANGED <<contract, rated, lost>>
          /\ ~Awaited(u)
          /\ user'[u].rating = user[u].rating
      BY <1>0, <1>4, <2>2 DEF SyncClear, InProcess, Awaited, chain, history, UserRows
    <3>2. TierFromRating(user[u].rating) = Desired(u)
      BY <1>0, <3>1 DEF BatchIsCurrent, Desired
    <3>3. ProfileTier(u) = TierOnChain(u)
      BY <1>0, <3>1 DEF ReceiptIsTrue
    <3>4. ProfileTier(u) = Desired(u)
      <4>1. Minted(u) <=> user[u].token # None
        BY <1>0, <3>1 DEF BatchIsCurrent, Minted
      <4>2. user[u].tier = syncer.seen[u].tier
        BY <1>0, <3>1 DEF BatchIsCurrent
      <4>3. Desired(u) \in Tiers
        BY TierType DEF Desired
      <4>4. CASE Minted(u)
        BY <3>1, <4>1, <4>2, <4>4 DEF NothingToDo, ProfileTier
      <4>5. CASE ~Minted(u)
        BY <3>1, <4>1, <4>3, <4>5 DEF NothingToDo, ProfileTier, Tiers, Rookie, Scout
      <4> QED
        BY <4>4, <4>5
    <3> QED
      BY <3>1, <3>2, <3>3, <3>4 DEF TierOnChain, contract
  <2> QED
    BY <2>1, <2>2
<1>5. ASSUME NEW v \in Users, RecordTier(v)
      PROVE  TierOnChain(u)' = TierFromRating(user'[u].rating)
  <2>1. CASE v # u
    BY <1>0, <1>1, <1>5, <2>1 DEF RecordTier, chain
  <2>2. CASE v = u
    <3>1. /\ InProcess(u) /\ Succeeded /\ syncer.at = u
          /\ UNCHANGED <<contract, rated>>
          /\ user'[u].rating = user[u].rating
      BY <1>0, <1>5, <2>2 DEF RecordTier, Awaited, InProcess, chain, UserRows
    <3>2. TierFromRating(user[u].rating) = Desired(u)
      BY <1>0, <3>1 DEF BatchIsCurrent, Desired
    <3>3. TierOnChain(u) = Desired(u)
      BY <1>0, <3>1 DEF ReceiptIsTrue
    <3> QED
      BY <3>1, <3>2, <3>3 DEF TierOnChain, contract
  <2> QED
    BY <2>1, <2>2
<1>6. CASE Mine
  <2>1. UNCHANGED <<user, rated, lost>>
    BY <1>6 DEF Mine, history
  <2>2. CASE ~owned
    BY <1>1, <1>6, <2>1, <2>2 DEF Mine
  <2>3. CASE owned
    <3>1. /\ mempool \in Seq([wallet : Users, tier : Tiers]) /\ mempool # <<>>
          /\ DOMAIN mempool = 1 .. Len(mempool)
      BY <1>6, LenProperties DEF IInv, TypeOK, Mine
    <3>2. /\ 1 \in DOMAIN mempool /\ Head(mempool) = mempool[1]
          /\ mempool[1] \in [wallet : Users, tier : Tiers]
      BY <3>1, FirstInLine
    <3>3. PICK w \in Users, t \in Tiers : mempool[1] = [wallet |-> w, tier |-> t]
      BY <3>2
    <3>4. SetTier(w, t)
      BY <1>6, <2>3, <3>2, <3>3 DEF Mine
    <3>5. w \notin lost => InProcess(w)
      BY <1>0, <3>2, <3>3 DEF MempoolIsKnown, InProcess
    <3>6. w # u
      BY <1>0, <2>1, <3>5 DEF BatchIsCurrent
    <3>7. TierOnChain(u)' = TierOnChain(u)
      BY <1>0, <3>4, <3>6, SetTierEffect
    <3> QED
      BY <2>1, <3>7 DEF MirrorsRating
  <2> QED
    BY <2>2, <2>3
<1>7. ASSUME NEW v \in Users, SyncDue(v) \/ SendTier(v) \/ SyncReverted(v) \/ SyncFails(v)
                              \/ SyncClearFails(v)
      PROVE  TierOnChain(u)' = TierFromRating(user'[u].rating)
  BY <1>1, <1>7 DEF SyncDue, SendTier, SyncReverted, SyncFails, SyncClearFails, chain, history
<1>8. CASE SyncEnd \/ Restart \/ TransferOwnership \/ UNCHANGED vars
  BY <1>1, <1>8 DEF SyncEnd, Restart, TransferOwnership, vars, chain, history
<1> QED
  BY <1>2, <1>3, <1>4, <1>5, <1>6, <1>7, <1>8 DEF Next, SyncStep, Sync

\* Once the flag is down, the tier on chain is that of the rating, unless the
\* rating was written after syncPending read it, or a receipt was lost.
THEOREM MirrorsCorrect == Spec => []MirrorsRating
<1>1. Init => MirrorsRating
  BY DEF Init, MirrorsRating
<1> QED
  BY <1>1, MirrorsStep, InvariantCorrect, PTL DEF Spec
=============================================================================
