-------------------------- MODULE MCBattlesSeeded --------------------------
(***************************************************************************)
(* Battles for TLC, from states in which people have entered already, so   *)
(* that a run spends its states on what happens next.  Requests alone      *)
(* reach such a state from Init: the battles of a scenario are OPEN, those *)
(* of entered were confirmed in that order, those of waiting are PENDING,  *)
(* each made with a direction of stated and a confidence of confidences;   *)
(* the markets of fresh have no battle yet and the ids of free are unused. *)
(* Every other prediction id is used up, every other market over, and only *)
(* the users in acting enter again.  A page may be open on the battle of   *)
(* one of watched.                                                         *)
(***************************************************************************)
EXTENDS BattleViews, TLC

CONSTANT Scenarios   \* of records [entered, waiting, fresh, free, acting, watched,
                     \* stated, confidences]

VARIABLE scenario    \* the one this behaviour started from

Row(p, u, m) == [prediction |-> p, user |-> u, market |-> m]

EnteredRows(s) == {s.entered[i] : i \in DOMAIN s.entered}

RowsOf(s) == EnteredRows(s) \cup s.waiting

Opened(s) == {e.market : e \in RowsOf(s)}

Live(s) == Opened(s) \cup s.fresh

StatusIn(s, p) ==
  IF \E e \in EnteredRows(s) : e.prediction = p THEN "LOCKED"
  ELSE IF \E e \in s.waiting : e.prediction = p THEN "PENDING"
  ELSE IF p \in s.free THEN "FREE"
  ELSE "DELETED"

EntriesIn(s, m) ==
  LET mine == SelectSeq(s.entered, LAMBDA e : e.market = m)
  IN [i \in DOMAIN mine |-> mine[i].prediction]

CallsIn(s) ==
  LET ids == {e.prediction : e \in RowsOf(s)}
      row(p) == CHOOSE e \in RowsOf(s) : e.prediction = p
  IN {[p \in Predictions |->
         IF p \in ids THEN [user |-> row(p).user, market |-> row(p).market,
                            direction |-> d[p], confidence |-> c[p]]
         ELSE None] : d \in [ids -> s.stated], c \in [ids -> s.confidences]}

Seeded ==
  /\ scenario \in Scenarios
  /\ LET s == scenario IN
       /\ chain = [m \in Markets |-> IF m \in Live(s) THEN "Trading" ELSE "Voided"]
       /\ due = [m \in Markets |-> m \notin Live(s)]
       /\ battle = [m \in Markets |-> [status |-> IF m \in Opened(s) THEN "OPEN" ELSE "NONE",
                                       outcome |-> "none"]]
       /\ status = [p \in Predictions |-> StatusIn(s, p)]
       /\ call \in CallsIn(s)
       /\ entries = [m \in Markets |-> EntriesIn(s, m)]
  /\ placement = [p \in Predictions |-> 0]
  /\ user = [u \in Users |-> [rating |-> {}, energy |-> 0,
                              wins |-> 0, losses |-> 0, battlesWon |-> 0]]
  /\ events = [u \in Users |-> <<>>]
  /\ req = [r \in Requests |-> Idle]
  /\ worker = WorkerIdle
  /\ page \in {NoPage} \cup {PageOn(m) : m \in scenario.watched}

SeededNext ==
  /\ ViewsNext
  /\ \A r \in Requests : req'[r].user \in scenario.acting \cup {None}
  /\ UNCHANGED scenario

SeededSpec == Seeded /\ [][SeededNext]_<<vars, page, scenario>>

----------------------------------------------------------------------------
\* The scenarios the .cfg files choose from.

Both == {"UP", "DOWN"}

\* One battle of four entrants, of every direction and confidence.
FourEntered ==
  [entered |-> <<Row("p1", "ann", "m1"), Row("p2", "bob", "m1"),
                 Row("p3", "cho", "m1"), Row("p4", "dee", "m1")>>,
   waiting |-> {}, fresh |-> {}, free |-> {}, acting |-> {}, watched |-> {}, stated |-> Both, confidences |-> {55, 70, 85}]

\* The same two people in the battles of two markets.
TwoBattles ==
  [entered |-> <<Row("p1", "ann", "m1"), Row("p2", "bob", "m1"),
                 Row("p3", "bob", "m2"), Row("p4", "ann", "m2")>>,
   waiting |-> {}, fresh |-> {}, free |-> {}, acting |-> {}, watched |-> {}, stated |-> Both, confidences |-> {70}]

\* One has entered; another pressed Enter twice and has two orders to confirm.
EnteredTwice ==
  [entered |-> <<Row("p1", "ann", "m1")>>,
   waiting |-> {Row("p2", "bob", "m1"), Row("p3", "bob", "m1")},
   fresh |-> {}, free |-> {}, acting |-> {"ann", "bob"}, watched |-> {}, stated |-> Both, confidences |-> {70}]

\* One has entered, two have an order to confirm.
TwoWait ==
  [entered |-> <<Row("p1", "ann", "m1")>>,
   waiting |-> {Row("p2", "bob", "m1"), Row("p3", "cho", "m1")},
   fresh |-> {}, free |-> {}, acting |-> {"ann", "bob", "cho"}, watched |-> {}, stated |-> {"UP"}, confidences |-> {70}]

\* Nobody has entered: two requests may both create the battle.
NobodyYet ==
  [entered |-> <<>>, waiting |-> {}, fresh |-> {"m1"}, free |-> {"p1"},
   acting |-> {"ann", "bob"}, watched |-> {}, stated |-> {"UP"}, confidences |-> {70}]

\* A page is open on the battle of three entrants.
Watched ==
  [entered |-> <<Row("p1", "ann", "m1"), Row("p2", "bob", "m1"), Row("p3", "cho", "m1")>>,
   waiting |-> {}, fresh |-> {}, free |-> {}, acting |-> {}, watched |-> {"m1"},
   stated |-> Both, confidences |-> {55, 70}]

\* A page is open on a battle that two have entered; a third may be late.
WatchedLate ==
  [entered |-> <<Row("p1", "ann", "m1"), Row("p2", "bob", "m1")>>,
   waiting |-> {Row("p3", "cho", "m1")},
   fresh |-> {}, free |-> {}, acting |-> {}, watched |-> {"m1"},
   stated |-> {"UP"}, confidences |-> {55, 70}]

Everything == {EnteredTwice, FourEntered, TwoBattles, NobodyYet,
               Watched, WatchedLate}
LateEntry  == {TwoWait}
Twice      == {TwoBattles}

----------------------------------------------------------------------------
RequestSymmetry == Permutations(Requests)
=============================================================================
