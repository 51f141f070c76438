--------------------------- MODULE MCDuelsSeeded ---------------------------
(***************************************************************************)
(* Duels for TLC, from states in which people have predicted already.      *)
(* Requests alone reach such a state from Init: the originals of fought    *)
(* were challenged and both sides confirmed, the originals of disputed are *)
(* OPEN and every prediction challenging them is PENDING, and a request    *)
(* that confirms one of twice for the second time is on its way.           *)
(* Only the users in acting begin further calls, ChallengesPage may be     *)
(* open for one of watching, and there are battles on the markets in       *)
(* battling, whose entries that matter are the viewer's.                   *)
(***************************************************************************)
EXTENDS DuelViews, DuelsRefinement, TLC

CONSTANT Scenarios   \* of records [fought, disputed, twice, acting, watching, battling]

VARIABLE scenario    \* the one this behaviour started from

Row(p, u, m, o) == [prediction |-> p, user |-> u, market |-> m, challenging |-> o]

RowsOf(s) == s.fought \cup s.disputed

Ids(s) == {e.prediction : e \in RowsOf(s)}

Of(s, p) == CHOOSE e \in RowsOf(s) : e.prediction = p

IsOriginal(e) == e.challenging = None

StatusIn(s, p) ==
  IF p \notin Ids(s) THEN "FREE"
  ELSE IF Of(s, p) \in s.fought THEN "LOCKED"
  ELSE IF IsOriginal(Of(s, p)) THEN "OPEN" ELSE "PENDING"

DuelIn(s, p) ==
  IF \E e \in s.fought : e.challenging = p
  THEN [status |-> "LOCKED", winner |-> None,
        challenger |-> (CHOOSE e \in s.fought : e.challenging = p).prediction]
  ELSE NoDuel

CallIn(s, p, d) ==
  LET e == Of(s, p) IN
  [user |-> e.user, market |-> e.market, challenging |-> e.challenging,
   direction |-> IF IsOriginal(e) THEN d[p] ELSE Opposite(d[e.challenging])]

ReqIn(s) ==
  {[r \in Requests |-> Idle]} \cup
  {[[r \in Requests |-> Idle] EXCEPT ![r1] = [Idle EXCEPT !.pc = "verifyFill", !.prediction = p]] :
     r1 \in Requests, p \in s.twice}

Seeded ==
  /\ scenario \in Scenarios
  /\ \E s \in {scenario}, d \in [Predictions -> Directions] :
       /\ chain = [m \in Markets |->
                     IF \E e \in RowsOf(s) : e.market = m THEN "Trading" ELSE "Voided"]
       /\ status = [p \in Predictions |-> StatusIn(s, p)]
       /\ call = [p \in Predictions |-> IF p \in Ids(s) THEN CallIn(s, p, d) ELSE None]
       /\ window = [p \in Predictions |->
                      IF p \in Ids(s) /\ IsOriginal(Of(s, p)) THEN "ahead" ELSE "null"]
       /\ duel = [p \in Predictions |-> DuelIn(s, p)]
       /\ req \in ReqIn(s)
  /\ closing = [m \in Markets |-> chain[m] # "Trading"]
  /\ user = [u \in Users |-> [rating |-> {}, energy |-> 0, wins |-> 0, losses |-> 0]]
  /\ events = [u \in Users |-> <<>>]
  /\ worker = WorkerIdle
  /\ battle = [m \in Markets |-> NoBattle]
  /\ tally = [u \in Users |-> [wins |-> 0, losses |-> 0]]
  /\ clashes \in {NoClashes} \cup {ClashesOf(u) : u \in scenario.watching}
  /\ screen = NoScreen

SeededNext ==
  /\ ViewsNext
  /\ \A r \in Requests : req'[r].user \in scenario.acting \cup {None}
  /\ \A m \in Markets :
       /\ battle'[m] # battle[m] => m \in scenario.battling
       /\ \A u \in Users \ {clashes.user} : battle'[m].entries[u] = "null"
  /\ UNCHANGED <<screen, scenario>>

SeededSpec == Seeded /\ [][SeededNext]_<<vars, views, scenario>>

----------------------------------------------------------------------------
\* The scenarios the .cfg files choose from.

\* Two people fight on two markets, each being challenged once.
TwoFights ==
  [fought |-> {Row("p1", "ann", "m1", None), Row("p2", "bob", "m1", "p1"),
               Row("p3", "bob", "m2", None), Row("p4", "ann", "m2", "p3")},
   disputed |-> {}, twice |-> {}, acting |-> {}, watching |-> {}, battling |-> {}]

\* Three challengers have bought, two of them for one user; none has confirmed.
ThreeChallengers ==
  [fought |-> {},
   disputed |-> {Row("p1", "ann", "m1", None), Row("p2", "bob", "m1", "p1"),
                 Row("p3", "cho", "m1", "p1"), Row("p4", "cho", "m1", "p1")},
   twice |-> {}, acting |-> {"cho"}, watching |-> {}, battling |-> {}]

\* An open call is confirmed once more while its challenger confirms; who made
\* it may have the page open.
Clash ==
  [fought |-> {},
   disputed |-> {Row("p1", "ann", "m1", None), Row("p2", "bob", "m1", "p1")},
   twice |-> {"p1"}, acting |-> {}, watching |-> {"ann"}, battling |-> {}]

\* The challenger of a duel, who may take part in a battle on the same market,
\* has the page open.
WatchedFight ==
  [fought |-> {Row("p1", "ann", "m1", None), Row("p2", "bob", "m1", "p1")},
   disputed |-> {}, twice |-> {}, acting |-> {}, watching |-> {"bob"}, battling |-> {"m1"}]

Races == {TwoFights, ThreeChallengers, Clash, WatchedFight}

----------------------------------------------------------------------------
RequestSymmetry == Permutations(Requests)
=============================================================================
